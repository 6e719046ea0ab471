--------------------- MODULE ReferenceResolution_proofs ---------------------
(***************************************************************************)
(* Proofs about ReferenceResolution for any number of requests, texts,     *)
(* origins and playlists.  What is known of a request is a formula about   *)
(* its own variables and the world's (Req), so that a step of one request  *)
(* leaves what is known of the others as it is: every result on its way,   *)
(* and every result placed, is one the URI stands for (Vetted).            *)
(***************************************************************************)
EXTENDS ReferenceResolution, SequenceTheorems, FiniteSetTheorems, FunctionTheorems, WellFoundedInduction, TLAPS

-----------------------------------------------------------------------------
(* Data *)

LEMMA Least ==
    ASSUME NEW S \in SUBSET Nat, S # {}
    PROVE  Min(S) \in S /\ \A n \in S : Min(S) <= n
<1>1. PICK m \in S : \A n \in S : ~(<<n, m>> \in OpToRel(<, Nat))
  BY NatLessThanWellFounded, WFMin
<1>2. ASSUME NEW n \in S PROVE m <= n
  <2>1. n \in Nat /\ m \in Nat
    OBVIOUS
  <2>2. ASSUME n < m PROVE <<n, m>> \in OpToRel(<, Nat)
    BY <2>1, <2>2 DEF OpToRel
  <2>3. ~(n < m)
    BY <1>1, <2>2
  <2> QED
    BY <2>1, <2>3
<1>3. \E x \in S : \A y \in S : x <= y
  BY <1>2
<1> QED
  BY <1>3 DEF Min

Docs == Documents \cup {<<>>}

LEMMA DocFacts ==
    ASSUME NEW d \in Docs
    PROVE  /\ d \in Seq(Texts) /\ Len(d) \in Nat /\ DOMAIN d = 1 .. Len(d)
           /\ \A n \in DOMAIN d : d[n] \in Texts /\ Trim[d[n]] \in Distinct(d)
           /\ Distinct(d) \subseteq URIs
           /\ \A u \in Distinct(d) : Positions(d, u) # {}
           /\ \A u : Positions(d, u) \subseteq DOMAIN d
           /\ \A u, n : n \in Positions(d, u) => Trim[d[n]] = u
<1>1. d \in Seq(Texts)
  BY EmptySeq, ResolutionAssumption DEF Docs
<1>2. Len(d) \in Nat /\ DOMAIN d = 1 .. Len(d)
  BY <1>1, LenProperties
<1>3. \A n \in DOMAIN d : d[n] \in Texts
  BY <1>1, <1>2, ElementOfSeq
<1>4. Distinct(d) = {Trim[d[n]] : n \in DOMAIN d}
  BY DEF Distinct, ToSet
<1>5. \A n \in DOMAIN d : Trim[d[n]] \in URIs
  BY <1>3, ResolutionAssumption
<1>6. \A u \in Distinct(d) : \E n \in DOMAIN d : Trim[d[n]] = u
  BY <1>4
<1> QED
  BY <1>1, <1>2, <1>3, <1>4, <1>5, <1>6 DEF Positions

LEMMA BodyFacts ==
    ASSUME NEW b \in Bodies
    PROVE  b.id \in Ids /\ b.size \in Nat /\ b.ok \in BOOLEAN
           /\ b # Down /\ b # Gone /\ b # NoRow /\ b # Nothing
BY ResolutionAssumption

LEMMA ResultFacts ==
    ASSUME NEW f \in Results
    PROVE  /\ f.at = "found" /\ f.body \in Bodies /\ f.from \in Remote \cup {Nothing}
           /\ f # Nothing /\ f \in TaskStates
<1>1. PICK b \in Bodies, u \in Remote \cup {Nothing} : f = Found(b, u)
  BY DEF Results
<1>2. f \in [at : {"found"}, body : Bodies, from : Remote \cup {Nothing}]
  BY <1>1 DEF Found
<1> QED
  BY <1>1, <1>2, ResolutionAssumption DEF Found, TaskStates

LEMMA StateFacts ==
    /\ Waiting \in TaskStates /\ Waiting.at = "waiting"
    /\ Over \in TaskStates /\ Over.at = "over"
    /\ \A a \in Answers \cup {Nothing} :
         Answered(a) \in TaskStates /\ Answered(a).at = "answered" /\ Answered(a).answer = a
    /\ \A t \in TaskStates : t.at = "answered" => t.answer \in Answers \cup {Nothing} /\ t = Answered(t.answer)
    /\ \A t \in TaskStates : t.at = "found" => t \in Results
<1>1. \A t \in TaskStates : \/ t = Waiting \/ t = Over
                            \/ \E a \in Answers \cup {Nothing} : t = Answered(a)
                            \/ t \in Results
  BY DEF TaskStates
<1>2. \A t \in Results : t.at = "found"
  BY ResultFacts
<1>3. \A a : Answered(a).at = "answered" /\ Answered(a).answer = a
  BY DEF Answered
<1>4. Waiting.at = "waiting" /\ Over.at = "over"
  BY DEF Waiting, Over
<1>5. ASSUME NEW t \in TaskStates, t.at = "answered"
      PROVE  t.answer \in Answers \cup {Nothing} /\ t = Answered(t.answer)
  BY <1>1, <1>2, <1>3, <1>4, <1>5
<1>6. ASSUME NEW t \in TaskStates, t.at = "found" PROVE t \in Results
  BY <1>1, <1>3, <1>4, <1>6
<1>7. Waiting \in TaskStates /\ Over \in TaskStates
      /\ \A a \in Answers \cup {Nothing} : Answered(a) \in TaskStates
  BY DEF TaskStates
<1> QED
  BY <1>3, <1>4, <1>5, <1>6, <1>7

-----------------------------------------------------------------------------
(* What is known of one request: d, t, o and se are its document, goroutines,
   results and what it has seen; p is where it is, sv what has been served. *)

(* f is a playlist that u stands for. *)
Vetted(u, f, se, sv) ==
    /\ f \in Results /\ f.body.ok
    /\ u \in Remote => /\ f.from = u /\ f.body.id \in sv[u]
                       /\ Down \in se[u] \/ \E b \in se[u] \cap Bodies : b.id = f.body.id
    /\ u \in Local => f.from = Nothing /\ f.body.id = LocalId[u]

Asked(u, a, se, sv) ==
    /\ u \in Remote => a \in se[u] /\ (a \in Bodies => a.id \in sv[u])
    /\ u \in Local => a = Nothing

SoundTask(u, t, se, sv) ==
    /\ t.at = "answered" => Asked(u, t.answer, se, sv)
    /\ t.at = "found" => Vetted(u, t, se, sv)

Shape(d, t, o, se) ==
    /\ d \in Docs
    /\ t \in [Distinct(d) -> TaskStates]
    /\ o \in [DOMAIN d -> Results \cup {Nothing}]
    /\ se \in [Distinct(d) \cap Remote -> SUBSET Answers]

Watching(d, se, og) == \A u \in Distinct(d) \cap Remote : og[u] \in se[u]

SoundTasks(d, t, se, sv) == \A u \in Distinct(d) : SoundTask(u, t[u], se, sv)

Placed(d, t, o, se, sv) ==
    \A u \in Distinct(d) : t[u].at = "over" =>
        \A n, m \in Positions(d, u) : Vetted(u, o[n], se, sv) /\ o[n] = o[m]

Complete(d, t, p) == p = "ingest" => \A u \in Distinct(d) : t[u].at = "over"

Req(d, t, o, se, p, og, sv) ==
    /\ Shape(d, t, o, se)
    /\ Watching(d, se, og)
    /\ SoundTasks(d, t, se, sv)
    /\ Placed(d, t, o, se, sv)
    /\ Complete(d, t, p)

LEMMA EmptyReq ==
    ASSUME NEW p, NEW og, NEW sv
    PROVE  Req(<<>>, <<>>, <<>>, <<>>, p, og, sv)
<1>1. DOMAIN <<>> = {} /\ Distinct(<<>>) = {}
  BY DEF Distinct, ToSet
<1>2. \A S : <<>> \in [{} -> S]
  OBVIOUS
<1> QED
  BY <1>1, <1>2 DEF Req, Shape, Docs, Watching, SoundTasks, Placed, Complete

LEMMA FreshReq ==
    ASSUME NEW d \in Documents, NEW og \in [Remote -> Answers], NEW sv
    PROVE  Req(d, [u \in Distinct(d) |-> Waiting], [n \in DOMAIN d |-> Nothing],
               [u \in Distinct(d) \cap Remote |-> {og[u]}], "resolving", og, sv)
BY StateFacts DEF Req, Shape, Docs, Watching, SoundTasks, SoundTask, Placed, Complete

LEMMA BecomesReq ==
    ASSUME NEW d, NEW t, NEW o, NEW se, NEW og, NEW sv,
           Req(d, t, o, se, "resolving", og, sv),
           NEW u \in Distinct(d), NEW st \in TaskStates, st.at # "over", SoundTask(u, st, se, sv)
    PROVE  Req(d, [t EXCEPT ![u] = st], o, se, "resolving", og, sv)
<1> DEFINE n == [t EXCEPT ![u] = st]
<1>1. n \in [Distinct(d) -> TaskStates] /\ n[u] = st /\ \A v \in Distinct(d) \ {u} : n[v] = t[v]
  BY DEF Req, Shape
<1> HIDE DEF n
<1>2. Shape(d, n, o, se)
  BY <1>1 DEF Req, Shape
<1>3. SoundTasks(d, n, se, sv)
  BY <1>1 DEF Req, SoundTasks
<1>4. Placed(d, n, o, se, sv)
  BY <1>1 DEF Req, Placed
<1>5. Req(d, n, o, se, "resolving", og, sv)
  BY <1>2, <1>3, <1>4 DEF Req, Complete
<1> QED
  BY <1>5 DEF n

LEMMA ChargeReq ==
    ASSUME NEW d, NEW t, NEW o, NEW se, NEW og, NEW sv,
           Req(d, t, o, se, "resolving", og, sv),
           NEW u \in Distinct(d), t[u].at = "found",
           NEW p, p = "ingest" => \A v \in Distinct(d) \ {u} : t[v].at = "over"
    PROVE  Req(d, [t EXCEPT ![u] = Over],
               [n \in DOMAIN d |-> IF n \in Positions(d, u) THEN t[u] ELSE o[n]], se, p, og, sv)
<1> DEFINE T == [t EXCEPT ![u] = Over]
           O == [n \in DOMAIN d |-> IF n \in Positions(d, u) THEN t[u] ELSE o[n]]
<1>1. /\ d \in Docs /\ t \in [Distinct(d) -> TaskStates]
      /\ o \in [DOMAIN d -> Results \cup {Nothing}]
  BY DEF Req, Shape
<1>2. T \in [Distinct(d) -> TaskStates] /\ T[u] = Over /\ \A v \in Distinct(d) \ {u} : T[v] = t[v]
  BY <1>1, StateFacts
<1>3. t[u] \in Results /\ Vetted(u, t[u], se, sv)
  BY <1>1, StateFacts DEF Req, SoundTasks, SoundTask
<1>4. O \in [DOMAIN d -> Results \cup {Nothing}]
  BY <1>1, <1>3
<1>5. \A n \in Positions(d, u) : O[n] = t[u]
  BY <1>1, DocFacts
<1>6. \A v \in Distinct(d) \ {u} : \A n \in Positions(d, v) : O[n] = o[n]
  BY <1>1, DocFacts DEF Positions
<1> HIDE DEF T, O
<1>7. Shape(d, T, O, se)
  BY <1>1, <1>2, <1>4 DEF Req, Shape
<1>8. SoundTasks(d, T, se, sv)
  BY <1>2, StateFacts DEF Req, SoundTasks, SoundTask
<1>9. Placed(d, T, O, se, sv)
  BY <1>2, <1>3, <1>5, <1>6 DEF Req, Placed
<1>10. Complete(d, T, p)
  BY <1>2, StateFacts DEF Complete
<1>11. Req(d, T, O, se, p, og, sv)
  BY <1>7, <1>8, <1>9, <1>10 DEF Req
<1> QED
  BY <1>11 DEF T, O

(* The world goes on: what has been served and seen only grows. *)
LEMMA GrowReq ==
    ASSUME NEW d, NEW t, NEW o, NEW se, NEW p, NEW og, NEW sv, NEW sf, NEW ng, NEW nv,
           Req(d, t, o, se, p, og, sv),
           sf \in [Distinct(d) \cap Remote -> SUBSET Answers],
           \A u \in Distinct(d) \cap Remote : se[u] \subseteq sf[u] /\ ng[u] \in sf[u],
           \A u \in Remote : sv[u] \subseteq nv[u]
    PROVE  Req(d, t, o, sf, p, ng, nv)
<1>1. \A u \in Distinct(d) : \A f : Vetted(u, f, se, sv) => Vetted(u, f, sf, nv)
  BY DEF Vetted
<1>2. \A u \in Distinct(d) : \A a : Asked(u, a, se, sv) => Asked(u, a, sf, nv)
  BY DEF Asked
<1>3. Shape(d, t, o, sf)
  BY DEF Req, Shape
<1>4. Watching(d, sf, ng)
  BY DEF Watching
<1>5. SoundTasks(d, t, sf, nv)
  BY <1>1, <1>2 DEF Req, SoundTasks, SoundTask
<1>6. Placed(d, t, o, sf, nv)
  BY <1>1 DEF Req, Placed
<1> QED
  BY <1>3, <1>4, <1>5, <1>6 DEF Req

-----------------------------------------------------------------------------
(* The invariant *)

OnRequests(f) == f = [r \in Requests |-> f[r]]

Typed ==
    /\ pc \in [Requests -> {"idle", "resolving", "ingest", "done"}]
    /\ reply \in [Requests -> {"none", "ok", "refused", "deleted", "error"}]
    /\ spent \in [Requests -> Nat]
    /\ OnRequests(doc) /\ OnRequests(task) /\ OnRequests(out) /\ OnRequests(seen)

WorldTyped ==
    /\ origin \in [Remote -> Answers]
    /\ served \in [Remote -> SUBSET Ids]
    /\ moves \in 0 .. MaxMoves
    /\ \A u \in Remote : origin[u] \in Bodies => origin[u].id \in served[u]

FeedTyped ==
    /\ stored \in [Ids -> {b \in Bodies : b.ok} \cup {NoRow}]
    /\ \A i \in Ids : stored[i] # NoRow => stored[i].id = i
    /\ tombs \subseteq Ids
    /\ sources \in [Remote -> Ids \cup {NoRow}]

Known(r) == Req(doc[r], task[r], out[r], seen[r], pc[r], origin, served)

IInv ==
    /\ Typed
    /\ WorldTyped
    /\ FeedTyped
    /\ SourcesServed
    /\ \A r \in Requests : Known(r)

LEMMA Rows ==
    ASSUME FeedTyped, NEW i \in Ids, stored[i] # NoRow
    PROVE  stored[i] \in Bodies /\ stored[i].ok /\ stored[i].id = i
BY DEF FeedTyped

LEMMA FoundFacts ==
    ASSUME NEW b \in Bodies, NEW u \in Remote \cup {Nothing}
    PROVE  Found(b, u) \in Results /\ Found(b, u).body = b /\ Found(b, u).from = u
           /\ Found(b, u).at = "found"
BY DEF Found, Results

LEMMA Initially == Init => IInv
<1> SUFFICES ASSUME Init PROVE IInv
  OBVIOUS
<1>1. Typed
  BY DEF Init, Typed, OnRequests
<1>2. FeedTyped
  BY DEF Init, FeedTyped
<1>3. ASSUME NEW u \in Remote
      PROVE  /\ served[u] = ({origin[u].id : b \in {origin[u]} \cap Bodies} \cup {sources[u]}) \ {NoRow}
             /\ origin[u] \in Bodies => origin[u].id \in served[u]
             /\ served[u] \in SUBSET Ids
             /\ sources[u] # NoRow => sources[u] \in served[u] /\ stored[sources[u]] # NoRow
  <2>1. served[u] = ({origin[u].id : b \in {origin[u]} \cap Bodies} \cup {sources[u]}) \ {NoRow}
    BY DEF Init
  <2>2. sources[u] \in {i \in Ids : stored[i] # NoRow} \cup {NoRow}
    BY DEF Init
  <2>3. origin[u] \in Bodies => origin[u].id \in Ids /\ origin[u].id # NoRow
    BY BodyFacts, ResolutionAssumption
  <2> QED
    BY <2>1, <2>2, <2>3
<1>4. WorldTyped
  <2>1. served \in [Remote -> SUBSET Ids]
    <3>1. served = [u \in Remote |-> served[u]]
      BY DEF Init
    <3> QED
      BY <1>3, <3>1
  <2> QED
    BY <1>3, <2>1, ResolutionAssumption DEF Init, WorldTyped, Answers
<1>5. SourcesServed
  BY <1>3 DEF SourcesServed
<1>6. ASSUME NEW r \in Requests PROVE Known(r)
  BY EmptyReq DEF Init, Known
<1> QED
  BY <1>1, <1>2, <1>4, <1>5, <1>6 DEF IInv

-----------------------------------------------------------------------------
(* What a look-up finds *)

LEMMA Finds ==
    ASSUME WorldTyped, FeedTyped, SourcesServed, NEW r \in Requests, Known(r),
           NEW u \in Distinct(doc[r]), task[r][u].at = "answered",
           NEW f \in Resolution(u, task[r][u].answer)
    PROVE  f.at = "found" /\ f \in TaskStates /\ SoundTask(u, f, seen[r], served)
<1> DEFINE a == task[r][u].answer
<1>1. doc[r] \in Docs /\ task[r][u] \in TaskStates /\ u \in URIs
      /\ (u \in Remote => seen[r][u] \in SUBSET Answers)
  BY DocFacts DEF Known, Req, Shape
<1>2. a \in Answers \cup {Nothing}
  BY <1>1, StateFacts
<1>3. Asked(u, a, seen[r], served)
  BY DEF Known, Req, SoundTasks, SoundTask
<1> HIDE DEF a
<1>4. Down \notin Bodies /\ Nothing \notin Bodies /\ Nothing # Down
  BY ResolutionAssumption
<1>5. CASE u \in Local
  <2>1. a = Nothing /\ u \notin Remote
    BY <1>3, <1>5, ResolutionAssumption DEF Asked
  <2>2. f \in {Found(stored[i], Nothing) : i \in {k \in {LocalId[u]} : Holds(k)}}
    BY <1>4, <1>5, <2>1 DEF Resolution, Unavailable, a
  <2>3. Holds(LocalId[u]) /\ f = Found(stored[LocalId[u]], Nothing) /\ LocalId[u] \in Ids
    BY <1>5, <2>2, ResolutionAssumption
  <2>4. stored[LocalId[u]] \in Bodies /\ stored[LocalId[u]].ok /\ stored[LocalId[u]].id = LocalId[u]
    BY <2>3, Rows DEF Holds
  <2> QED
    BY <2>1, <2>3, <2>4, FoundFacts, ResultFacts DEF SoundTask, Vetted
<1>6. CASE u \in Remote
  <2>1. u \notin Local /\ a \in seen[r][u]
    BY <1>3, <1>6, ResolutionAssumption DEF Asked
  <2>2. CASE Unavailable(a)
    <3>1. f \in {Found(stored[i], u) : i \in {k \in {sources[u]} : Holds(k)}}
      BY <1>4, <2>1, <2>2 DEF Resolution, Unavailable, a
    <3>2. Holds(sources[u]) /\ f = Found(stored[sources[u]], u)
      BY <3>1
    <3>3. sources[u] \in Ids /\ sources[u] \in served[u]
      BY <1>6, <3>2 DEF Holds, FeedTyped, SourcesServed
    <3>4. stored[sources[u]] \in Bodies /\ stored[sources[u]].ok /\ stored[sources[u]].id = sources[u]
      BY <3>2, <3>3, Rows DEF Holds
    <3>5. Down \in seen[r][u]
      BY <2>1, <2>2 DEF Unavailable
    <3> QED
      BY <1>6, <2>1, <3>2, <3>3, <3>4, <3>5, FoundFacts, ResultFacts DEF SoundTask, Vetted
  <2>3. CASE a \in Bodies
    <3>1. a.id \in Ids /\ a.id \in served[u]
      BY <1>3, <1>6, <2>3, BodyFacts DEF Asked
    <3>2. ~ Unavailable(a)
      BY <1>4, <2>3 DEF Unavailable
    <3>3. CASE Holds(a.id)
      <4>1. f = Found(stored[a.id], u)
        BY <2>1, <2>3, <3>2, <3>3 DEF Resolution, a
      <4>2. stored[a.id] \in Bodies /\ stored[a.id].ok /\ stored[a.id].id = a.id
        BY <3>1, <3>3, Rows DEF Holds
      <4>3. \E b \in seen[r][u] \cap Bodies : b.id = a.id
        BY <2>1, <2>3
      <4> QED
        BY <1>6, <2>1, <3>1, <4>1, <4>2, <4>3, FoundFacts, ResultFacts DEF SoundTask, Vetted
    <3>4. CASE ~ Holds(a.id)
      <4>1. a.ok /\ f = Found(a, u)
        BY <2>1, <2>3, <3>2, <3>4 DEF Resolution, a
      <4>2. \E b \in seen[r][u] \cap Bodies : b.id = a.id
        BY <2>1, <2>3
      <4> QED
        BY <1>6, <2>1, <2>3, <3>1, <4>1, <4>2, FoundFacts, ResultFacts DEF SoundTask, Vetted
    <3> QED
      BY <3>3, <3>4
  <2>4. CASE ~ Unavailable(a) /\ a \notin Bodies
    BY <2>1, <2>4 DEF Resolution, a
  <2> QED
    BY <2>2, <2>3, <2>4
<1> QED
  BY <1>1, <1>5, <1>6 DEF URIs

(* When a request is ingested, every position holds a playlist its URI stands for. *)
LEMMA Ready ==
    ASSUME NEW r \in Requests, Known(r), pc[r] = "ingest"
    PROVE  /\ DOMAIN out[r] = DOMAIN doc[r] /\ doc[r] \in Docs
           /\ \A n \in DOMAIN doc[r] :
                /\ Trim[doc[r][n]] \in URIs
                /\ Vetted(Trim[doc[r][n]], out[r][n], seen[r], served)
                /\ \A m \in DOMAIN doc[r] : Trim[doc[r][n]] = Trim[doc[r][m]] => out[r][n] = out[r][m]
<1>1. doc[r] \in Docs /\ DOMAIN out[r] = DOMAIN doc[r]
  BY DEF Known, Req, Shape
<1>2. \A u \in Distinct(doc[r]) : \A n, m \in Positions(doc[r], u) :
         Vetted(u, out[r][n], seen[r], served) /\ out[r][n] = out[r][m]
  BY DEF Known, Req, Placed, Complete
<1>3. \A n \in DOMAIN doc[r] : Trim[doc[r][n]] \in Distinct(doc[r]) /\ Trim[doc[r][n]] \in URIs
  BY <1>1, DocFacts
<1>4. \A n, m \in DOMAIN doc[r] : Trim[doc[r][n]] = Trim[doc[r][m]]
         => n \in Positions(doc[r], Trim[doc[r][n]]) /\ m \in Positions(doc[r], Trim[doc[r][n]])
  BY DEF Positions
<1> QED
  BY <1>1, <1>2, <1>3, <1>4

-----------------------------------------------------------------------------
(* One request moves *)

(* Only r's own variables change. *)
Mine(r) ==
    /\ UNCHANGED world
    /\ \A s \in Requests \ {r} : /\ doc'[s] = doc[s] /\ task'[s] = task[s] /\ out'[s] = out[s]
                                  /\ seen'[s] = seen[s] /\ pc'[s] = pc[s]

LEMMA MineKeeps ==
    ASSUME IInv, NEW r \in Requests, Mine(r), Known(r)'
    PROVE  WorldTyped' /\ \A s \in Requests : Known(s)'
<1>1. WorldTyped'
  BY DEF IInv, Mine, world, WorldTyped
<1>2. ASSUME NEW s \in Requests \ {r} PROVE Known(s)'
  BY <1>2 DEF IInv, Mine, world, Known
<1> QED
  BY <1>1, <1>2

Replies == {"ok", "refused", "deleted", "error"}

LEMMA FinishStep ==
    ASSUME IInv, NEW r \in Requests, NEW what \in Replies, Finish(r, what), UNCHANGED world
    PROVE  Typed' /\ Mine(r) /\ Known(r)'
<1>1. Typed'
  BY DEF IInv, Typed, OnRequests, Finish, Replies
<1>2. Mine(r) /\ doc'[r] = <<>> /\ task'[r] = <<>> /\ out'[r] = <<>> /\ seen'[r] = <<>>
  BY DEF IInv, Typed, OnRequests, Finish, Mine
<1>3. Known(r)'
  BY <1>2, EmptyReq DEF Known
<1> QED
  BY <1>1, <1>2, <1>3

LEMMA AcceptStep ==
    ASSUME IInv, NEW r \in Requests, Accept(r)
    PROVE  Typed' /\ Mine(r) /\ Known(r)'
<1>1. PICK d \in Documents :
         IF ~Resolvable(d)
           THEN Finish(r, "refused")
           ELSE /\ pc' = [pc EXCEPT ![r] = "resolving"]
                /\ doc' = [doc EXCEPT ![r] = d]
                /\ task' = [task EXCEPT ![r] = [u \in Distinct(d) |-> Waiting]]
                /\ out' = [out EXCEPT ![r] = [n \in DOMAIN d |-> Nothing]]
                /\ seen' = [seen EXCEPT ![r] = [u \in Distinct(d) \cap Remote |-> {origin[u]}]]
                /\ UNCHANGED <<spent, reply>>
  BY DEF Accept
<1>2. UNCHANGED world
  BY DEF Accept
<1>3. CASE ~Resolvable(d)
  BY <1>1, <1>2, <1>3, FinishStep DEF Replies
<1>4. CASE Resolvable(d)
  <2>1. Typed'
    BY <1>1, <1>4 DEF IInv, Typed, OnRequests
  <2>2. /\ doc'[r] = d /\ task'[r] = [u \in Distinct(d) |-> Waiting]
        /\ out'[r] = [n \in DOMAIN d |-> Nothing] /\ pc'[r] = "resolving"
        /\ seen'[r] = [u \in Distinct(d) \cap Remote |-> {origin[u]}]
    BY <1>1, <1>4 DEF IInv, Typed, OnRequests
  <2>3. Mine(r)
    BY <1>1, <1>2, <1>4 DEF IInv, Typed, OnRequests, Mine
  <2>4. origin \in [Remote -> Answers]
    BY DEF IInv, WorldTyped
  <2>5. Req(doc'[r], task'[r], out'[r], seen'[r], "resolving", origin, served)
    BY <2>2, <2>4, FreshReq
  <2>6. Known(r)'
    BY <1>2, <2>2, <2>5 DEF Known, world
  <2> QED
    BY <2>1, <2>3, <2>6
<1> QED
  BY <1>3, <1>4

LEMMA BecomesStep ==
    ASSUME IInv, NEW r \in Requests, pc[r] = "resolving", NEW u \in DOMAIN task[r],
           NEW st \in TaskStates, st.at # "over", SoundTask(u, st, seen[r], served),
           Becomes(r, u, st), UNCHANGED world
    PROVE  Typed' /\ Mine(r) /\ Known(r)'
<1>1. Typed'
  BY DEF IInv, Typed, OnRequests, Becomes
<1>2. Mine(r) /\ task'[r] = [task[r] EXCEPT ![u] = st]
  BY DEF IInv, Typed, OnRequests, Becomes, Mine
<1>3. Known(r) /\ u \in Distinct(doc[r])
  BY DEF IInv, Known, Req, Shape
<1>4. Req(doc[r], [task[r] EXCEPT ![u] = st], out[r], seen[r], "resolving", origin, served)
  BY <1>3, BecomesReq DEF Known
<1>5. Known(r)'
  BY <1>2, <1>4 DEF Known, Becomes, world
<1> QED
  BY <1>1, <1>2, <1>5

LEMMA FetchStep ==
    ASSUME IInv, NEW r \in Requests, pc[r] = "resolving", NEW u \in DOMAIN task[r], Fetch(r, u)
    PROVE  Typed' /\ Mine(r) /\ Known(r)'
<1> DEFINE a == IF u \in Remote THEN origin[u] ELSE Nothing
<1>1. Known(r) /\ u \in Distinct(doc[r]) /\ WorldTyped
  BY DEF IInv, Known, Req, Shape
<1>2. a \in Answers \cup {Nothing}
  BY <1>1 DEF WorldTyped
<1>3. Asked(u, a, seen[r], served)
  BY <1>1, ResolutionAssumption DEF Asked, WorldTyped, Known, Req, Watching
<1>4. Becomes(r, u, Answered(a)) /\ UNCHANGED world
  BY DEF Fetch
<1> HIDE DEF a
<1>5. SoundTask(u, Answered(a), seen[r], served) /\ Answered(a) \in TaskStates /\ Answered(a).at # "over"
  BY <1>2, <1>3, StateFacts DEF SoundTask
<1> QED
  BY <1>4, <1>5, BecomesStep

LEMMA LookUpStep ==
    ASSUME IInv, NEW r \in Requests, pc[r] = "resolving", NEW u \in DOMAIN task[r], LookUp(r, u)
    PROVE  Typed' /\ Mine(r) /\ Known(r)'
<1>1. Known(r) /\ u \in Distinct(doc[r]) /\ task[r][u].at = "answered" /\ UNCHANGED world
  BY DEF IInv, Known, Req, Shape, LookUp
<1>2. CASE Finish(r, "refused")
  BY <1>1, <1>2, FinishStep DEF Replies
<1>3. ASSUME NEW f \in Resolution(u, task[r][u].answer), Becomes(r, u, f)
      PROVE  Typed' /\ Mine(r) /\ Known(r)'
  <2>1. f.at = "found" /\ f \in TaskStates /\ SoundTask(u, f, seen[r], served)
    BY <1>1, <1>3, Finds DEF IInv
  <2> QED
    BY <1>1, <1>3, <2>1, BecomesStep
<1> QED
  BY <1>2, <1>3 DEF LookUp

LEMMA ChargeStep ==
    ASSUME IInv, NEW r \in Requests, pc[r] = "resolving", NEW u \in DOMAIN task[r], Charge(r, u)
    PROVE  Typed' /\ Mine(r) /\ Known(r)'
<1>1. /\ Known(r) /\ u \in Distinct(doc[r]) /\ DOMAIN task[r] = Distinct(doc[r])
      /\ task[r][u].at = "found" /\ UNCHANGED world
      /\ task[r] \in [Distinct(doc[r]) -> TaskStates]
  BY DEF IInv, Known, Req, Shape, Charge
<1>2. CASE Finish(r, "refused")
  BY <1>1, <1>2, FinishStep DEF Replies
<1> DEFINE p == IF \A v \in DOMAIN task[r] \ {u} : task[r][v] = Over THEN "ingest" ELSE pc[r]
           T == [task[r] EXCEPT ![u] = Over]
           O == [n \in DOMAIN doc[r] |-> IF n \in Positions(doc[r], u) THEN task[r][u] ELSE out[r][n]]
<1>3. CASE ~ Finish(r, "refused")
  <2>1. /\ spent' = [spent EXCEPT ![r] = @ + task[r][u].body.size]
        /\ out' = [out EXCEPT ![r] = O]
        /\ task' = [task EXCEPT ![r][u] = Over]
        /\ pc' = [pc EXCEPT ![r] = p]
        /\ UNCHANGED <<doc, seen, reply>>
    BY <1>3 DEF Charge
  <2>2. task[r][u] \in Results
    BY <1>1, StateFacts
  <2>3. task[r][u].body.size \in Nat
    BY <2>2, ResultFacts, BodyFacts
  <2>4. p \in {"resolving", "ingest"}
    OBVIOUS
  <2>5. p = "ingest" => \A v \in Distinct(doc[r]) \ {u} : task[r][v].at = "over"
    BY <1>1, StateFacts
  <2>6. Req(doc[r], T, O, seen[r], p, origin, served)
    BY <1>1, <2>5, ChargeReq DEF Known
  <2> HIDE DEF p, O
  <2>7. Typed'
    <3>1. pc' \in [Requests -> {"idle", "resolving", "ingest", "done"}] /\ spent' \in [Requests -> Nat]
      BY <2>1, <2>3, <2>4 DEF IInv, Typed
    <3>2. OnRequests(out)' /\ OnRequests(task)'
      BY <2>1 DEF IInv, Typed, OnRequests
    <3> QED
      BY <2>1, <3>1, <3>2 DEF IInv, Typed, OnRequests
  <2>8. Mine(r) /\ task'[r] = T /\ out'[r] = O /\ pc'[r] = p /\ doc'[r] = doc[r] /\ seen'[r] = seen[r]
    BY <1>1, <2>1 DEF IInv, Typed, OnRequests, Mine
  <2>9. Known(r)'
    BY <1>1, <2>6, <2>8 DEF Known, world
  <2> QED
    BY <2>7, <2>8, <2>9
<1> QED
  BY <1>2, <1>3

-----------------------------------------------------------------------------
(* The feed changes *)

LEMMA DeleteStep ==
    ASSUME IInv, NEW i \in Ids, Delete(i)
    PROVE  FeedTyped' /\ SourcesServed'
<1>1. /\ stored' = [stored EXCEPT ![i] = NoRow] /\ tombs' = tombs \cup {i}
      /\ sources' = [u \in Remote |-> IF sources[u] = i THEN NoRow ELSE sources[u]]
      /\ served' = served
  BY DEF Delete, world
<1>2. FeedTyped /\ SourcesServed
  BY DEF IInv
<1>3. FeedTyped'
  BY <1>1, <1>2 DEF FeedTyped
<1>4. ASSUME NEW u \in Remote, sources'[u] # NoRow
      PROVE  stored'[sources'[u]] # NoRow /\ sources'[u] \in served'[u]
  <2>1. sources'[u] = sources[u] /\ sources[u] # i /\ sources[u] \in Ids
    BY <1>1, <1>2, <1>4 DEF FeedTyped
  <2>2. stored[sources[u]] # NoRow /\ sources[u] \in served[u]
    BY <1>2, <1>4, <2>1 DEF SourcesServed
  <2> QED
    BY <1>1, <1>2, <2>1, <2>2 DEF FeedTyped
<1> QED
  BY <1>3, <1>4 DEF SourcesServed

LEMMA PublishStep ==
    ASSUME IInv, NEW b \in Bodies, Publish(b)
    PROVE  FeedTyped' /\ SourcesServed'
<1>1. /\ stored' = [stored EXCEPT ![b.id] = b] /\ b.ok /\ b.id \in Ids /\ b # NoRow
      /\ UNCHANGED <<tombs, sources, served>>
  BY BodyFacts DEF Publish, world
<1>2. FeedTyped /\ SourcesServed
  BY DEF IInv
<1>3. FeedTyped'
  BY <1>1, <1>2 DEF FeedTyped
<1>4. \A j \in Ids : stored[j] # NoRow => stored'[j] # NoRow
  BY <1>1, <1>2 DEF FeedTyped
<1>5. SourcesServed'
  BY <1>1, <1>2, <1>4 DEF SourcesServed, FeedTyped
<1> QED
  BY <1>3, <1>5

LEMMA IngestStep ==
    ASSUME IInv, NEW r \in Requests, pc[r] = "ingest",
           stored' = StoredAfter(r), sources' = SourcesAfter(r), UNCHANGED <<world, tombs>>
    PROVE  FeedTyped' /\ SourcesServed'
<1>1. FeedTyped /\ SourcesServed /\ Known(r) /\ served' = served
  BY DEF IInv, world
<1>2. DOMAIN out[r] = DOMAIN doc[r] /\ doc[r] \in Docs
      /\ \A n \in DOMAIN out[r] : /\ Trim[doc[r][n]] \in URIs
                                   /\ Vetted(Trim[doc[r][n]], out[r][n], seen[r], served)
  BY <1>1, Ready
<1>3. \A n \in DOMAIN out[r] : /\ out[r][n] \in Results /\ out[r][n].body \in Bodies
                               /\ out[r][n].body.ok /\ out[r][n].body.id \in Ids
  BY <1>2, ResultFacts, BodyFacts DEF Vetted
<1>4. ToSet(out[r]) = {out[r][n] : n \in DOMAIN out[r]}
  BY DEF ToSet
<1>5. ASSUME NEW i \in LinkedIds(r)
      PROVE  FirstBody(r, i) \in Bodies /\ FirstBody(r, i).ok /\ FirstBody(r, i).id = i
  <2> DEFINE S == {n \in DOMAIN out[r] : out[r][n].body.id = i}
  <2>1. S \in SUBSET Nat /\ S # {}
    BY <1>2, <1>4, <1>5, DocFacts DEF LinkedIds
  <2>2. Min(S) \in S
    BY <2>1, Least
  <2>3. FirstBody(r, i) = out[r][Min(S)].body
    BY DEF FirstBody
  <2> QED
    BY <1>3, <2>2, <2>3
<1>6. \A f \in ToSet(out[r]) : f.body.id \in LinkedIds(r) /\ f.body.id \in Ids
  BY <1>3, <1>4 DEF LinkedIds
<1>7. \A i \in Ids : \/ stored'[i] = stored[i] /\ (i \in LinkedIds(r) => stored[i] # NoRow)
                     \/ i \in LinkedIds(r) /\ stored'[i] = FirstBody(r, i)
  BY DEF StoredAfter
<1>8. stored' \in [Ids -> {b \in Bodies : b.ok} \cup {NoRow}]
  <2>1. stored' = [i \in Ids |-> stored'[i]]
    BY DEF StoredAfter
  <2>2. \A i \in Ids : stored'[i] \in {b \in Bodies : b.ok} \cup {NoRow}
    BY <1>1, <1>5, <1>7 DEF FeedTyped
  <2> QED
    BY <2>1, <2>2
<1>9. \A i \in Ids : stored'[i] # NoRow => stored'[i].id = i
  BY <1>1, <1>5, <1>7 DEF FeedTyped
<1>10. \A i \in Ids : (stored[i] # NoRow => stored'[i] # NoRow)
                     /\ (i \in LinkedIds(r) => stored'[i] # NoRow)
  BY <1>5, <1>7, BodyFacts
<1>11. ASSUME NEW u \in Remote
       PROVE  \/ sources'[u] = sources[u]
              \/ sources'[u] \in LinkedIds(r) /\ sources'[u] \in Ids /\ sources'[u] \in served[u]
  <2>1. CASE \E f \in ToSet(out[r]) : f.from = u
    <3>1. PICK f \in ToSet(out[r]) : f.from = u /\ sources'[u] = f.body.id
      BY <2>1 DEF SourcesAfter
    <3>2. PICK n \in DOMAIN out[r] : f = out[r][n]
      BY <1>4, <3>1
    <3>3. Vetted(Trim[doc[r][n]], f, seen[r], served) /\ Trim[doc[r][n]] \in URIs
      BY <1>2, <3>2
    <3>4. u # Nothing
      BY ResolutionAssumption DEF URIs
    <3>5. Trim[doc[r][n]] = u
      BY <3>1, <3>3, <3>4 DEF Vetted, URIs
    <3> QED
      BY <1>6, <3>1, <3>3, <3>5 DEF Vetted
  <2>2. CASE ~ \E f \in ToSet(out[r]) : f.from = u
    BY <2>2 DEF SourcesAfter
  <2> QED
    BY <2>1, <2>2
<1>12. sources' \in [Remote -> Ids \cup {NoRow}]
  <2>1. sources' = [u \in Remote |-> sources'[u]]
    BY DEF SourcesAfter
  <2>2. \A u \in Remote : sources'[u] \in Ids \cup {NoRow}
    BY <1>1, <1>11 DEF FeedTyped
  <2> QED
    BY <2>1, <2>2
<1>13. FeedTyped'
  BY <1>1, <1>8, <1>9, <1>12 DEF FeedTyped
<1>14. ASSUME NEW u \in Remote, sources'[u] # NoRow
       PROVE  stored'[sources'[u]] # NoRow /\ sources'[u] \in served[u]
  <2>1. CASE sources'[u] = sources[u]
    BY <1>1, <1>10, <1>14, <2>1 DEF FeedTyped, SourcesServed
  <2>2. CASE sources'[u] \in LinkedIds(r) /\ sources'[u] \in Ids /\ sources'[u] \in served[u]
    BY <1>10, <2>2
  <2> QED
    BY <1>11, <2>1, <2>2
<1> QED
  BY <1>1, <1>13, <1>14 DEF SourcesServed

-----------------------------------------------------------------------------
(* The world changes *)

LEMMA MoveStep ==
    ASSUME IInv, NEW u \in Remote, Move(u)
    PROVE  IInv'
<1>1. PICK now \in (Bodies \cup {Down, Gone}) \ {origin[u]} :
         /\ origin' = [origin EXCEPT ![u] = now]
         /\ served' = [served EXCEPT ![u] = IF now \in Bodies THEN @ \cup {now.id} ELSE @]
         /\ seen' = [r \in Requests |->
              IF u \in DOMAIN seen[r] THEN [seen[r] EXCEPT ![u] = @ \cup {now}] ELSE seen[r]]
  BY DEF Move
<1>2. moves < MaxMoves /\ moves' = moves + 1 /\ UNCHANGED <<feed, pc, doc, task, spent, out, reply>>
  BY DEF Move
<1>3. WorldTyped /\ now \in Answers /\ (now \in Bodies => now.id \in Ids)
  BY BodyFacts DEF IInv, Answers
<1>4. \A v \in Remote : /\ served[v] \subseteq served'[v]
                        /\ origin'[v] = IF v = u THEN now ELSE origin[v]
  BY <1>1, <1>3 DEF WorldTyped
<1>5. WorldTyped'
  <2>1. origin' \in [Remote -> Answers] /\ served' \in [Remote -> SUBSET Ids]
    BY <1>1, <1>3 DEF WorldTyped
  <2>2. moves' \in 0 .. MaxMoves
    BY <1>2, <1>3, ResolutionAssumption DEF WorldTyped
  <2>3. \A v \in Remote : origin'[v] \in Bodies => origin'[v].id \in served'[v]
    BY <1>1, <1>3 DEF WorldTyped
  <2> QED
    BY <2>1, <2>2, <2>3 DEF WorldTyped
<1>6. Typed'
  BY <1>1, <1>2 DEF IInv, Typed, OnRequests
<1>7. FeedTyped'
  BY <1>2 DEF IInv, FeedTyped, feed
<1>8. SourcesServed'
  BY <1>2, <1>4 DEF IInv, SourcesServed, feed
<1>9. ASSUME NEW r \in Requests PROVE Known(r)'
  <2> DEFINE D == Distinct(doc[r]) \cap Remote
  <2>1. Known(r)
    BY DEF IInv
  <2>2. seen[r] \in [D -> SUBSET Answers] /\ \A v \in D : origin[v] \in seen[r][v]
    BY <2>1 DEF Known, Req, Shape, Watching
  <2>3. seen'[r] = IF u \in D THEN [seen[r] EXCEPT ![u] = seen[r][u] \cup {now}] ELSE seen[r]
    BY <1>1, <2>2
  <2> HIDE DEF D
  <2>4. seen'[r] \in [D -> SUBSET Answers]
    BY <1>3, <2>2, <2>3
  <2>5. \A v \in D : seen[r][v] \subseteq seen'[r][v] /\ (v = u => now \in seen'[r][v])
    BY <2>2, <2>3
  <2>6. \A v \in D : origin'[v] \in seen'[r][v]
    BY <1>4, <2>2, <2>5 DEF D
  <2>7. Req(doc[r], task[r], out[r], seen'[r], pc[r], origin', served')
    BY <1>4, <2>1, <2>4, <2>5, <2>6, GrowReq DEF D, Known
  <2> QED
    BY <1>2, <2>7 DEF Known
<1> QED
  BY <1>5, <1>6, <1>7, <1>8, <1>9 DEF IInv

-----------------------------------------------------------------------------
(* Sums.  A sum of naturals is the number of units it is made of, which turns
   what is needed of the folds of the community modules into facts about finite
   sets: the fold is some function that satisfies its recursion (SomeSum), and
   every such function counts the units (OneSum). *)

(* The units of the weights w of the members of s. *)
Units(w, s) == UNION {{x} \X (1 .. w[x]) : x \in s}

LEMMA Unit ==
    ASSUME NEW w, NEW s, NEW e
    PROVE  e \in Units(w, s) <=> \E x \in s : \E k \in 1 .. w[x] : e = <<x, k>>
<1>1. ASSUME e \in Units(w, s) PROVE \E x \in s : \E k \in 1 .. w[x] : e = <<x, k>>
  <2>1. PICK x \in s : e \in {x} \X (1 .. w[x])
    BY <1>1 DEF Units
  <2> QED
    BY <2>1
<1>2. ASSUME NEW x \in s, NEW k \in 1 .. w[x], e = <<x, k>> PROVE e \in Units(w, s)
  <2>1. e \in {x} \X (1 .. w[x])
    BY <1>2
  <2> QED
    BY <2>1 DEF Units
<1> QED
  BY <1>1, <1>2

LEMMA UnitsFinite ==
    ASSUME NEW s, IsFiniteSet(s), NEW w \in [s -> Nat], NEW T \in SUBSET s
    PROVE  IsFiniteSet(Units(w, T))
<1> DEFINE S == {{x} \X (1 .. w[x]) : x \in T}
           f == [x \in T |-> {x} \X (1 .. w[x])]
<1>1. f \in Surjection(T, S)
  BY DEF Surjection
<1>2. IsFiniteSet(T)
  BY FS_Subset
<1> HIDE DEF f, S
<1>5. IsFiniteSet(S)
  BY <1>1, <1>2, FS_Surjection
<1> USE DEF S
<1>3. ASSUME NEW x \in T PROVE IsFiniteSet({x} \X (1 .. w[x]))
  <2>1. IsFiniteSet({x}) /\ w[x] \in Nat
    BY FS_Singleton
  <2>2. IsFiniteSet(1 .. w[x])
    BY <2>1, FS_Interval
  <2> QED
    BY <2>1, <2>2, FS_Product
<1>4. \A U \in S : IsFiniteSet(U)
  BY <1>3
<1> QED
  BY <1>4, <1>5, FS_UNION DEF Units

LEMMA UnitsLess ==
    ASSUME NEW D, IsFiniteSet(D), NEW w \in [D -> Nat], NEW s \in SUBSET D, NEW x \in s
    PROVE  Cardinality(Units(w, s)) = w[x] + Cardinality(Units(w, s \ {x}))
<1> DEFINE A == {x} \X (1 .. w[x])
           B == Units(w, s \ {x})
<1>1. Units(w, s) = A \cup B
  BY DEF Units
<1>2. A \cap B = {}
  BY DEF Units
<1>3. IsFiniteSet(B)
  BY UnitsFinite
<1>4. IsFiniteSet(A) /\ Cardinality(A) = w[x]
  <2>1. IsFiniteSet({x}) /\ Cardinality({x}) = 1
    BY FS_Singleton
  <2>2. w[x] \in Nat
    OBVIOUS
  <2>3. IsFiniteSet(1 .. w[x]) /\ Cardinality(1 .. w[x]) = w[x]
    BY <2>2, FS_Interval
  <2> HIDE DEF A
  <2>4. IsFiniteSet(A) /\ Cardinality(A) = 1 * w[x]
    BY <2>1, <2>3, FS_Product DEF A
  <2> QED
    BY <2>2, <2>4
<1>5. Cardinality(A \cap B) = 0
  BY <1>2, FS_EmptySet
<1>6. Cardinality(B) \in Nat
  BY <1>3, FS_CardinalityType
<1>7. Cardinality(A \cup B) = Cardinality(A) + Cardinality(B) - Cardinality(A \cap B)
  BY <1>3, <1>4, FS_Union
<1>8. w[x] \in Nat
  OBVIOUS
<1> HIDE DEF A, B
<1>9. Cardinality(A \cup B) = w[x] + Cardinality(B)
  BY <1>4, <1>5, <1>6, <1>7, <1>8
<1> QED
  BY <1>1, <1>9 DEF B

(* g sums up the weights w of every subset of D, as MapThenFoldSet does. *)
SumsUp(w, D, g) ==
    g = [s \in SUBSET D |-> IF s = {} THEN 0
                            ELSE w[CHOOSE x \in s : TRUE] + g[s \ {CHOOSE x \in s : TRUE}]]

LEMMA SomeSum ==
    ASSUME NEW D, IsFiniteSet(D), NEW w \in [D -> Nat]
    PROVE  \E g : SumsUp(w, D, g)
<1> DEFINE g == [s \in SUBSET D |-> Cardinality(Units(w, s))]
<1>1. ASSUME NEW s \in SUBSET D, s = {} PROVE g[s] = 0
  BY <1>1, FS_EmptySet DEF Units
<1>2. ASSUME NEW s \in SUBSET D, s # {}
      PROVE g[s] = w[CHOOSE x \in s : TRUE] + g[s \ {CHOOSE x \in s : TRUE}]
  <2>1. (CHOOSE x \in s : TRUE) \in s
    BY <1>2
  <2>2. PICK y : y = CHOOSE x \in s : TRUE
    OBVIOUS
  <2>3. y \in s /\ s \ {y} \in SUBSET D
    BY <2>1, <2>2
  <2>4. Cardinality(Units(w, s)) = w[y] + Cardinality(Units(w, s \ {y}))
    BY <2>3, UnitsLess
  <2>5. g[s] = w[y] + g[s \ {y}]
    BY <2>3, <2>4
  <2> QED
    BY <2>2, <2>5
<1>3. g = [s \in SUBSET D |-> g[s]]
  OBVIOUS
<1> HIDE DEF g
<1>4. g = [s \in SUBSET D |-> IF s = {} THEN 0
                              ELSE w[CHOOSE x \in s : TRUE] + g[s \ {CHOOSE x \in s : TRUE}]]
  BY <1>1, <1>2, <1>3
<1> QED
  BY <1>4 DEF SumsUp

LEMMA OneSum ==
    ASSUME NEW D, IsFiniteSet(D), NEW w \in [D -> Nat], NEW g, SumsUp(w, D, g)
    PROVE  \A s \in SUBSET D : g[s] = Cardinality(Units(w, s))
<1> SUFFICES ASSUME NEW bad \in SUBSET D, g[bad] # Cardinality(Units(w, bad)) PROVE FALSE
  OBVIOUS
<1> DEFINE sizes == {n \in Nat : \E s \in SUBSET D : n = Cardinality(s) /\ g[s] # Cardinality(Units(w, s))}
<1>1. \A s \in SUBSET D : IsFiniteSet(s) /\ Cardinality(s) \in Nat
  BY FS_Subset, FS_CardinalityType
<1>2. sizes # {}
  BY <1>1
<1>3. PICK m \in sizes : \A n \in sizes : m <= n
  BY <1>2, Least
<1>4. PICK s \in SUBSET D : m = Cardinality(s) /\ g[s] # Cardinality(Units(w, s))
  OBVIOUS
<1>5. s # {}
  <2>1. g[{}] = 0
    BY DEF SumsUp
  <2>2. Cardinality(Units(w, {})) = 0
    BY FS_EmptySet DEF Units
  <2> QED
    BY <1>4, <2>1, <2>2
<1>6. PICK x \in s : g[s] = w[x] + g[s \ {x}]
  <2>1. (CHOOSE x \in s : TRUE) \in s
    BY <1>5
  <2> QED
    BY <1>5, <2>1 DEF SumsUp
<1>7. Cardinality(s \ {x}) = m - 1 /\ m \in Nat /\ m - 1 \in Nat
  <2>1. Cardinality(s) # 0
    BY <1>1, <1>5, FS_EmptySet
  <2>2. Cardinality(s \ {x}) = Cardinality(s) - 1
    BY <1>1, FS_RemoveElement
  <2>3. Cardinality(s) \in Nat
    BY <1>1
  <2> QED
    BY <1>4, <2>1, <2>2, <2>3
<1>8. g[s \ {x}] = Cardinality(Units(w, s \ {x}))
  <2>1. m - 1 \notin sizes
    BY <1>3, <1>7
  <2> QED
    BY <1>7, <2>1
<1> QED
  BY <1>4, <1>6, <1>8, UnitsLess

-----------------------------------------------------------------------------
(* What a request holds in memory: d, t and o are its document, goroutines and
   results, sp what was charged. *)

KeptOf(t) == {u \in DOMAIN t : t[u] = Over}

RunningOf(t) == {u \in DOMAIN t : t[u] \notin {Waiting, Over}}

SizeOf(d, o, u) == o[Min(Positions(d, u))].body.size

KeptUnits(d, t, o) == Units([u \in KeptOf(t) |-> SizeOf(d, o, u)], KeptOf(t))

(* What is charged is what is kept, and no more goroutines run than may. *)
Meter(d, t, o, sp) ==
    /\ sp = Cardinality(KeptUnits(d, t, o)) /\ sp <= Budget
    /\ Cardinality(RunningOf(t)) <= Limit

Metered ==
    /\ \A r \in Requests : Meter(doc[r], task[r], out[r], spent[r])
    /\ \A r \in Requests : pc[r] = "idle" => spent[r] = 0

LEMMA LimitFacts == Limit \in Nat /\ Budget \in Nat /\ Limit > 0
BY ResolutionAssumption

LEMMA DistinctFinite ==
    ASSUME NEW d \in Docs
    PROVE  IsFiniteSet(Distinct(d))
<1> DEFINE f == [n \in DOMAIN d |-> Trim[d[n]]]
<1>1. Distinct(d) = {Trim[d[n]] : n \in DOMAIN d}
  BY DEF Distinct, ToSet
<1>2. f \in Surjection(DOMAIN d, Distinct(d))
  BY <1>1 DEF Surjection
<1>3. IsFiniteSet(DOMAIN d)
  BY DocFacts, FS_Interval
<1> QED
  BY <1>2, <1>3, FS_Surjection

LEMMA MeterEmpty == Meter(<<>>, <<>>, <<>>, 0)
<1>1. KeptOf(<<>>) = {} /\ RunningOf(<<>>) = {}
  BY DEF KeptOf, RunningOf
<1>2. KeptUnits(<<>>, <<>>, <<>>) = {}
  BY <1>1 DEF KeptUnits, Units
<1>3. Cardinality({}) = 0
  BY FS_EmptySet
<1>4. 0 = Cardinality(KeptUnits(<<>>, <<>>, <<>>)) /\ Cardinality(RunningOf(<<>>)) = 0
  BY <1>1, <1>2, <1>3
<1>5. 0 <= Budget /\ 0 <= Limit
  BY LimitFacts
<1> QED
  BY <1>4, <1>5 DEF Meter

LEMMA MeterFresh ==
    ASSUME NEW d, NEW o
    PROVE  Meter(d, [u \in Distinct(d) |-> Waiting], o, 0)
<1> DEFINE t == [u \in Distinct(d) |-> Waiting]
<1>1. KeptOf(t) = {} /\ RunningOf(t) = {}
  BY StateFacts DEF KeptOf, RunningOf
<1> HIDE DEF t
<1>2. KeptUnits(d, t, o) = {}
  BY <1>1 DEF KeptUnits, Units
<1>3. Cardinality({}) = 0
  BY FS_EmptySet
<1> QED
  BY <1>1, <1>2, <1>3, LimitFacts DEF Meter, t

(* A goroutine that goes on: it was waiting and there was a slot, or it was running. *)
LEMMA MeterBecomes ==
    ASSUME NEW d \in Docs, NEW t \in [Distinct(d) -> TaskStates], NEW o, NEW sp, Meter(d, t, o, sp),
           NEW u \in Distinct(d), NEW st \in TaskStates, st \notin {Waiting, Over}, t[u] # Over,
           t[u] = Waiting => Cardinality(RunningOf(t)) < Limit
    PROVE  Meter(d, [t EXCEPT ![u] = st], o, sp)
<1> DEFINE n == [t EXCEPT ![u] = st]
<1>1. DOMAIN n = Distinct(d) /\ DOMAIN t = Distinct(d) /\ n[u] = st /\ \A v \in Distinct(d) \ {u} : n[v] = t[v]
  OBVIOUS
<1> HIDE DEF n
<1>2. KeptOf(n) = KeptOf(t)
  BY <1>1 DEF KeptOf
<1>3. RunningOf(n) = RunningOf(t) \cup {u}
  BY <1>1 DEF RunningOf
<1>4. IsFiniteSet(RunningOf(t)) /\ Cardinality(RunningOf(t)) \in Nat
  <2>1. RunningOf(t) \in SUBSET Distinct(d)
    BY <1>1 DEF RunningOf
  <2> QED
    BY <2>1, DistinctFinite, FS_Subset, FS_CardinalityType
<1>5. Cardinality(RunningOf(n)) <= Limit
  <2>1. CASE t[u] = Waiting
    <3>1. Cardinality(RunningOf(n)) = Cardinality(RunningOf(t)) + 1
      <4>1. u \notin RunningOf(t)
        BY <2>1 DEF RunningOf
      <4> QED
        BY <1>3, <1>4, <4>1, FS_AddElement
    <3> QED
      BY <1>4, <2>1, <3>1, LimitFacts
  <2>2. CASE t[u] # Waiting
    <3>1. u \in RunningOf(t)
      BY <1>1, <2>2 DEF RunningOf
    <3>2. RunningOf(n) = RunningOf(t)
      BY <1>3, <3>1
    <3> QED
      BY <3>2 DEF Meter
  <2> QED
    BY <2>1, <2>2
<1>6. Meter(d, n, o, sp)
  BY <1>2, <1>5 DEF Meter, KeptUnits
<1> QED
  BY <1>6 DEF n

(* A goroutine that charges: its body joins those kept, at the positions of its
   URI, and those of the others stay where they are. *)
LEMMA MeterCharge ==
    ASSUME NEW d \in Docs, NEW t \in [Distinct(d) -> TaskStates], NEW o, NEW sp, Meter(d, t, o, sp),
           \A v \in KeptOf(t) : SizeOf(d, o, v) \in Nat,
           NEW u \in Distinct(d), t[u].at = "found", NEW b \in Nat, b = t[u].body.size, sp + b <= Budget
    PROVE  Meter(d, [t EXCEPT ![u] = Over],
                 [n \in DOMAIN d |-> IF n \in Positions(d, u) THEN t[u] ELSE o[n]], sp + b)
<1> DEFINE T == [t EXCEPT ![u] = Over]
           O == [n \in DOMAIN d |-> IF n \in Positions(d, u) THEN t[u] ELSE o[n]]
           K == KeptOf(t)
           k == [v \in K |-> SizeOf(d, o, v)]
           L == KeptOf(T)
           l == [v \in L |-> SizeOf(d, O, v)]
<1>1. DOMAIN T = Distinct(d) /\ DOMAIN t = Distinct(d) /\ T[u] = Over /\ \A v \in Distinct(d) \ {u} : T[v] = t[v]
  OBVIOUS
<1>2. t[u] # Over /\ t[u] # Waiting
  BY StateFacts
<1>3. L = K \cup {u} /\ u \notin K /\ L \ {u} = K /\ L \subseteq Distinct(d)
  BY <1>1, <1>2 DEF KeptOf
<1>4. ASSUME NEW v \in Distinct(d)
      PROVE  SizeOf(d, O, v) = IF v = u THEN b ELSE SizeOf(d, o, v)
  <2>1. Positions(d, v) \in SUBSET Nat /\ Positions(d, v) # {} /\ Positions(d, v) \subseteq DOMAIN d
    BY DocFacts
  <2>2. Min(Positions(d, v)) \in Positions(d, v)
    BY <2>1, Least
  <2>3. Min(Positions(d, v)) \in DOMAIN d /\ (Min(Positions(d, v)) \in Positions(d, u) <=> v = u)
    BY <2>1, <2>2, DocFacts
  <2>4. O[Min(Positions(d, v))] = IF v = u THEN t[u] ELSE o[Min(Positions(d, v))]
    BY <2>3
  <2> HIDE DEF O
  <2> QED
    BY <2>4 DEF SizeOf
<1> HIDE DEF T, O, K, L
<1>5. k \in [K -> Nat] /\ l \in [L -> Nat] /\ l[u] = b /\ \A v \in K : l[v] = k[v]
  <2>1. \A v \in K : k[v] \in Nat /\ k[v] = SizeOf(d, o, v)
    BY DEF K
  <2>2. \A v \in K : v \in Distinct(d) /\ v # u
    BY <1>3
  <2>3. u \in L /\ l[u] = b /\ \A v \in K : v \in L /\ l[v] = k[v]
    BY <1>3, <1>4, <2>1, <2>2
  <2>4. \A v \in L : l[v] \in Nat
    BY <1>3, <2>1, <2>3
  <2> QED
    BY <2>1, <2>3, <2>4
<1>6. IsFiniteSet(L) /\ IsFiniteSet(K) /\ u \in L /\ L \in SUBSET L /\ K \in SUBSET K
  BY <1>3, DistinctFinite, FS_Subset
<1> HIDE DEF k, l
<1>7. Cardinality(Units(l, L)) = l[u] + Cardinality(Units(l, L \ {u}))
  BY <1>5, <1>6, UnitsLess
<1>8. Units(l, K) = Units(k, K)
  BY <1>5 DEF Units
<1>9. Cardinality(Units(k, K)) = sp /\ sp \in Nat
  <2>1. sp = Cardinality(Units(k, K))
    BY DEF Meter, KeptUnits, k, K
  <2>2. IsFiniteSet(Units(k, K))
    BY <1>5, <1>6, UnitsFinite
  <2> QED
    BY <2>1, <2>2, FS_CardinalityType
<1>10. sp + b = Cardinality(KeptUnits(d, T, O))
  <2>1. KeptUnits(d, T, O) = Units(l, L)
    BY DEF KeptUnits, l, L
  <2>2. Cardinality(Units(l, L)) = l[u] + Cardinality(Units(l, K))
    BY <1>3, <1>7
  <2>3. Cardinality(Units(l, L)) = b + sp
    BY <1>5, <1>8, <1>9, <2>2
  <2>4. b + sp = sp + b
    BY <1>9
  <2> QED
    BY <2>1, <2>3, <2>4
<1>11. Cardinality(RunningOf(T)) <= Limit
  <2>1. RunningOf(T) \in SUBSET RunningOf(t) /\ RunningOf(t) \in SUBSET Distinct(d)
    BY <1>1 DEF RunningOf
  <2>2. IsFiniteSet(RunningOf(t))
    BY <2>1, DistinctFinite, FS_Subset
  <2>3. Cardinality(RunningOf(T)) <= Cardinality(RunningOf(t)) /\ IsFiniteSet(RunningOf(T))
    BY <2>1, <2>2, FS_Subset
  <2>4. Cardinality(RunningOf(T)) \in Nat /\ Cardinality(RunningOf(t)) \in Nat /\ Cardinality(RunningOf(t)) <= Limit
    BY <2>2, <2>3, FS_CardinalityType DEF Meter
  <2> QED
    BY <2>3, <2>4, LimitFacts
<1>12. Meter(d, T, O, sp + b)
  BY <1>10, <1>11 DEF Meter
<1> QED
  BY <1>12 DEF T, O

(* Every body kept has its size. *)
LEMMA KeptSizes ==
    ASSUME IInv, NEW r \in Requests, NEW v \in KeptOf(task[r])
    PROVE  SizeOf(doc[r], out[r], v) \in Nat
<1>1. /\ doc[r] \in Docs /\ DOMAIN task[r] = Distinct(doc[r])
      /\ Placed(doc[r], task[r], out[r], seen[r], served)
  BY DEF IInv, Known, Req, Shape
<1>2. v \in Distinct(doc[r]) /\ task[r][v].at = "over"
  BY <1>1, StateFacts DEF KeptOf
<1>3. Positions(doc[r], v) \in SUBSET Nat /\ Positions(doc[r], v) # {}
  BY <1>1, <1>2, DocFacts
<1>4. Min(Positions(doc[r], v)) \in Positions(doc[r], v)
  BY <1>3, Least
<1>5. out[r][Min(Positions(doc[r], v))] \in Results
  BY <1>1, <1>2, <1>4 DEF Placed, Vetted
<1> QED
  BY <1>5, ResultFacts, BodyFacts DEF SizeOf

-----------------------------------------------------------------------------
(* Theorems *)

LEMMA RequestStep ==
    ASSUME IInv, NEW r \in Requests,
           Accept(r) \/ Ingest(r) \/ Abandon(r) \/ \E u \in DOMAIN task[r] : Resolve(r, u)
    PROVE  IInv'
<1>1. CASE Accept(r)
  <2>1. UNCHANGED feed
    BY <1>1 DEF Accept
  <2>2. FeedTyped' /\ SourcesServed'
    BY <1>1, <2>1 DEF IInv, FeedTyped, SourcesServed, feed, Accept, world
  <2> QED
    BY <1>1, <2>2, AcceptStep, MineKeeps DEF IInv
<1>2. CASE Abandon(r)
  <2>1. UNCHANGED <<world, feed>> /\ Finish(r, "error")
    BY <1>2 DEF Abandon
  <2>2. FeedTyped' /\ SourcesServed'
    BY <2>1 DEF IInv, FeedTyped, SourcesServed, feed, world
  <2>3. Typed' /\ Mine(r) /\ Known(r)'
    BY <2>1, FinishStep DEF Replies
  <2> QED
    BY <2>2, <2>3, MineKeeps DEF IInv
<1>3. ASSUME NEW u \in DOMAIN task[r], Resolve(r, u) PROVE IInv'
  <2>1. pc[r] = "resolving" /\ UNCHANGED <<world, feed>>
    BY <1>3 DEF Resolve, Fetch, LookUp, Charge
  <2>2. FeedTyped' /\ SourcesServed'
    BY <2>1 DEF IInv, FeedTyped, SourcesServed, feed, world
  <2>3. Typed' /\ Mine(r) /\ Known(r)'
    BY <1>3, <2>1, FetchStep, LookUpStep, ChargeStep DEF Resolve
  <2> QED
    BY <2>2, <2>3, MineKeeps DEF IInv
<1>4. CASE Ingest(r)
  <2>1. pc[r] = "ingest" /\ UNCHANGED <<world, tombs>>
    BY <1>4 DEF Ingest
  <2>2. CASE LinkedIds(r) \cap tombs # {}
    <3>1. Finish(r, "deleted") /\ UNCHANGED <<stored, sources>>
      BY <1>4, <2>2 DEF Ingest
    <3>2. FeedTyped' /\ SourcesServed'
      BY <2>1, <3>1 DEF IInv, FeedTyped, SourcesServed, world
    <3>3. Typed' /\ Mine(r) /\ Known(r)'
      BY <2>1, <3>1, FinishStep DEF Replies
    <3> QED
      BY <3>2, <3>3, MineKeeps DEF IInv
  <2>3. CASE LinkedIds(r) \cap tombs = {}
    <3>1. Finish(r, "ok") /\ stored' = StoredAfter(r) /\ sources' = SourcesAfter(r)
      BY <1>4, <2>3 DEF Ingest
    <3>2. FeedTyped' /\ SourcesServed'
      BY <2>1, <3>1, IngestStep
    <3>3. Typed' /\ Mine(r) /\ Known(r)'
      BY <2>1, <3>1, FinishStep DEF Replies
    <3> QED
      BY <3>2, <3>3, MineKeeps DEF IInv
  <2> QED
    BY <2>2, <2>3
<1> QED
  BY <1>1, <1>2, <1>3, <1>4

LEMMA OtherClient ==
    ASSUME IInv, UNCHANGED <<world, request>>, FeedTyped', SourcesServed'
    PROVE  IInv'
<1>1. Typed'
  BY DEF IInv, Typed, OnRequests, request
<1>2. WorldTyped'
  BY DEF IInv, WorldTyped, world
<1>3. \A r \in Requests : Known(r)'
  BY DEF IInv, Known, world, request
<1> QED
  BY <1>1, <1>2, <1>3 DEF IInv

LEMMA Inductive == Spec => []IInv
<1>1. Init => IInv
  BY Initially
<1>2. ASSUME IInv, [Next]_vars PROVE IInv'
  <2>1. CASE UNCHANGED vars
    <3>1. UNCHANGED <<world, feed, request>>
      BY <2>1 DEF vars
    <3>2. FeedTyped' /\ SourcesServed'
      BY <1>2, <3>1 DEF IInv, FeedTyped, SourcesServed, feed, world
    <3> QED
      BY <1>2, <3>1, <3>2, OtherClient
  <2>2. ASSUME NEW u \in Remote, Move(u) PROVE IInv'
    BY <1>2, <2>2, MoveStep
  <2>3. ASSUME NEW b \in Bodies, Publish(b) PROVE IInv'
    BY <1>2, <2>3, PublishStep, OtherClient DEF Publish
  <2>4. ASSUME NEW i \in Ids, Delete(i) PROVE IInv'
    BY <1>2, <2>4, DeleteStep, OtherClient DEF Delete
  <2>5. ASSUME NEW r \in Requests,
               Accept(r) \/ Ingest(r) \/ Abandon(r) \/ \E u \in DOMAIN task[r] : Resolve(r, u)
        PROVE  IInv'
    BY <1>2, <2>5, RequestStep
  <2> QED
    BY <1>2, <2>1, <2>2, <2>3, <2>4, <2>5 DEF Next
<1> QED
  BY <1>1, <1>2, PTL DEF Spec

LEMMA Positional ==
    ASSUME NEW d \in Docs, NEW T, NEW o \in [DOMAIN d -> T]
    PROVE  o \in Seq(T) /\ Len(o) = Len(d)
<1>1. DOMAIN d = 1 .. Len(d) /\ Len(d) \in Nat
  BY DocFacts
<1> QED
  BY <1>1

(* Type correctness, whatever the origins serve; what is stored passed the bar
   of a create and stands under its own id. *)
THEOREM TypeCorrect == Spec => []TypeOK
<1>1. IInv => TypeOK
  <2> SUFFICES ASSUME IInv PROVE TypeOK
    OBVIOUS
  <2>1. ASSUME NEW r \in Requests
        PROVE  /\ doc[r] \in Documents \cup {<<>>}
               /\ task[r] \in [Distinct(doc[r]) -> TaskStates]
               /\ out[r] \in Seq(Results \cup {Nothing}) /\ Len(out[r]) = Len(doc[r])
               /\ seen[r] \in [Distinct(doc[r]) \cap Remote -> SUBSET Answers]
               /\ spent[r] \in Nat
    <3>1. Shape(doc[r], task[r], out[r], seen[r]) /\ spent[r] \in Nat
      BY DEF IInv, Known, Req, Typed
    <3>2. doc[r] \in Docs /\ out[r] \in [DOMAIN doc[r] -> Results \cup {Nothing}]
      BY <3>1 DEF Shape
    <3>3. out[r] \in Seq(Results \cup {Nothing}) /\ Len(out[r]) = Len(doc[r])
      BY <3>2, Positional
    <3> QED
      BY <3>1, <3>3 DEF Shape, Docs
  <2>2. WorldTyped /\ FeedTyped /\ Typed
    BY DEF IInv
  <2> QED
    BY <2>1, <2>2 DEF TypeOK, WorldTyped, FeedTyped, Typed
<1> QED
  BY <1>1, Inductive, PTL

(* Every position of an ingested document has its own URI's answer, the same one
   wherever the URI stands. *)
THEOREM OneMeaningPerURIHolds == Spec => []OneMeaningPerURI
<1>1. IInv => OneMeaningPerURI
  <2> SUFFICES ASSUME IInv, NEW r \in Requests, pc[r] = "ingest", NEW n \in DOMAIN doc[r], NEW m \in DOMAIN doc[r]
               PROVE  /\ out[r][n] # Nothing
                      /\ Trim[doc[r][n]] \in Remote => out[r][n].from = Trim[doc[r][n]]
                      /\ Trim[doc[r][n]] \in Local => out[r][n].body.id = LocalId[Trim[doc[r][n]]]
                      /\ Trim[doc[r][n]] = Trim[doc[r][m]] => out[r][n] = out[r][m]
    BY DEF OneMeaningPerURI
  <2>1. Vetted(Trim[doc[r][n]], out[r][n], seen[r], served)
        /\ (Trim[doc[r][n]] = Trim[doc[r][m]] => out[r][n] = out[r][m])
    BY Ready DEF IInv
  <2> QED
    BY <2>1, ResultFacts DEF Vetted
<1> QED
  BY <1>1, Inductive, PTL

(* Unless it was down meanwhile, an origin decides what its URI is linked to. *)
THEOREM OriginIsAuthoritativeHolds == Spec => []OriginIsAuthoritative
<1>1. IInv => OriginIsAuthoritative
  <2> SUFFICES ASSUME IInv, NEW r \in Requests, pc[r] = "ingest",
                      NEW f \in ToSet(out[r]), f.from # Nothing
               PROVE  \/ Down \in seen[r][f.from]
                      \/ \E b \in seen[r][f.from] \cap Bodies : b.id = f.body.id
    BY DEF OriginIsAuthoritative
  <2>1. PICK n \in DOMAIN out[r] : f = out[r][n]
    BY DEF ToSet
  <2>2. Vetted(Trim[doc[r][n]], f, seen[r], served) /\ Trim[doc[r][n]] \in URIs
    BY <2>1, Ready DEF IInv
  <2> QED
    BY <2>2 DEF Vetted, URIs
<1> QED
  BY <1>1, Inductive, PTL

(* The cache names stored playlists only, each under a URI that served its id. *)
THEOREM SourcesServedHolds == Spec => []SourcesServed
<1>1. IInv => SourcesServed
  BY DEF IInv
<1> QED
  BY <1>1, Inductive, PTL

(* A step of request r leaves what the others hold. *)
LEMMA MeterOthers ==
    ASSUME Metered, NEW r \in Requests, Mine(r), spent' = [spent EXCEPT ![r] = spent'[r]], Typed,
           Meter(doc'[r], task'[r], out'[r], spent'[r]), pc'[r] # "idle"
    PROVE  Metered'
<1>1. ASSUME NEW s \in Requests, s # r
      PROVE  /\ doc'[s] = doc[s] /\ task'[s] = task[s] /\ out'[s] = out[s]
             /\ spent'[s] = spent[s] /\ pc'[s] = pc[s]
  BY <1>1 DEF Mine, Typed
<1> QED
  BY <1>1 DEF Metered

LEMMA MeterFinish ==
    ASSUME IInv, Metered, NEW r \in Requests, NEW what \in Replies, Finish(r, what), UNCHANGED world
    PROVE  Metered'
<1>1. Typed /\ Mine(r)
  BY FinishStep DEF IInv
<1>2. /\ doc'[r] = <<>> /\ task'[r] = <<>> /\ out'[r] = <<>> /\ spent'[r] = 0
      /\ spent' = [spent EXCEPT ![r] = spent'[r]] /\ pc'[r] = "done"
  BY <1>1 DEF Typed, OnRequests, Finish
<1> QED
  BY <1>1, <1>2, MeterEmpty, MeterOthers

LEMMA MeterStep ==
    ASSUME IInv, Metered, NEW r \in Requests, pc[r] = "resolving", NEW u \in DOMAIN task[r],
           NEW st \in TaskStates, st \notin {Waiting, Over}, task[r][u] # Over,
           task[r][u] = Waiting => Cardinality(Running(r)) < Limit,
           Becomes(r, u, st), UNCHANGED world
    PROVE  Metered'
<1>1. Typed /\ doc[r] \in Docs /\ task[r] \in [Distinct(doc[r]) -> TaskStates] /\ u \in Distinct(doc[r])
  BY DEF IInv, Known, Req, Shape
<1>2. Mine(r) /\ task'[r] = [task[r] EXCEPT ![u] = st]
  BY <1>1 DEF Typed, OnRequests, Becomes, Mine
<1>3. doc'[r] = doc[r] /\ out'[r] = out[r] /\ spent' = spent /\ pc'[r] = "resolving"
  BY DEF Becomes
<1>4. Running(r) = RunningOf(task[r]) /\ Meter(doc[r], task[r], out[r], spent[r])
  BY DEF Running, RunningOf, Metered
<1>5. Meter(doc[r], [task[r] EXCEPT ![u] = st], out[r], spent[r])
  BY <1>1, <1>4, MeterBecomes
<1>6. spent' = [spent EXCEPT ![r] = spent'[r]]
  BY <1>1, <1>3 DEF Typed
<1> QED
  BY <1>1, <1>2, <1>3, <1>5, <1>6, MeterOthers

LEMMA MeteredKept ==
    ASSUME IInv, Metered, [Next]_vars
    PROVE  Metered'
<1>1. CASE UNCHANGED vars
  BY <1>1 DEF vars, request, Metered
<1>2. ASSUME NEW u \in Remote, Move(u) PROVE Metered'
  BY <1>2 DEF Move, Metered
<1>3. ASSUME NEW b \in Bodies, Publish(b) PROVE Metered'
  BY <1>3 DEF Publish, request, Metered
<1>4. ASSUME NEW i \in Ids, Delete(i) PROVE Metered'
  BY <1>4 DEF Delete, request, Metered
<1>5. ASSUME NEW r \in Requests, Accept(r) PROVE Metered'
  <2>1. Typed /\ Mine(r) /\ UNCHANGED world
    BY <1>5, AcceptStep DEF IInv, Accept
  <2>2. CASE Finish(r, "refused")
    BY <2>1, <2>2, MeterFinish DEF Replies
  <2>3. CASE ~Finish(r, "refused")
    <3>1. PICK d \in Documents :
            /\ doc' = [doc EXCEPT ![r] = d]
            /\ task' = [task EXCEPT ![r] = [u \in Distinct(d) |-> Waiting]]
            /\ pc' = [pc EXCEPT ![r] = "resolving"]
            /\ UNCHANGED <<spent, reply>>
      BY <1>5, <2>3 DEF Accept
    <3>2. pc'[r] = "resolving" /\ doc'[r] = d /\ task'[r] = [u \in Distinct(d) |-> Waiting]
      BY <2>1, <3>1 DEF Typed, OnRequests
    <3>3. spent[r] = 0
      <4>1. pc[r] = "idle"
        BY <1>5 DEF Accept
      <4> QED
        BY <4>1 DEF Metered
    <3>4. spent'[r] = 0 /\ spent' = [spent EXCEPT ![r] = spent'[r]]
      BY <2>1, <3>1, <3>3 DEF Typed
    <3>5. Meter(doc'[r], task'[r], out'[r], spent'[r])
      BY <3>2, <3>4, MeterFresh
    <3> QED
      BY <2>1, <3>2, <3>4, <3>5, MeterOthers
  <2> QED
    BY <2>2, <2>3
<1>6. ASSUME NEW r \in Requests, Ingest(r) PROVE Metered'
  <2>1. UNCHANGED world /\ \E what \in Replies : Finish(r, what)
    BY <1>6 DEF Ingest, Replies
  <2> QED
    BY <2>1, MeterFinish
<1>7. ASSUME NEW r \in Requests, Abandon(r) PROVE Metered'
  <2>1. UNCHANGED world /\ Finish(r, "error") /\ "error" \in Replies
    BY <1>7 DEF Abandon, Replies
  <2> QED
    BY <2>1, MeterFinish
<1>8. ASSUME NEW r \in Requests, NEW u \in DOMAIN task[r], pc[r] = "resolving", Fetch(r, u) PROVE Metered'
  <2> DEFINE a == IF u \in Remote THEN origin[u] ELSE Nothing
  <2>1. WorldTyped
    BY DEF IInv
  <2>2. a \in Answers \cup {Nothing}
    BY <2>1 DEF WorldTyped
  <2>3. /\ task[r][u] = Waiting /\ Cardinality(Running(r)) < Limit
        /\ Becomes(r, u, Answered(a)) /\ UNCHANGED world
    BY <1>8 DEF Fetch
  <2> HIDE DEF a
  <2>4. Answered(a) \in TaskStates /\ Answered(a) \notin {Waiting, Over} /\ Waiting # Over
    BY <2>2, StateFacts
  <2> QED
    BY <1>8, <2>3, <2>4, MeterStep
<1>9. ASSUME NEW r \in Requests, NEW u \in DOMAIN task[r], pc[r] = "resolving", LookUp(r, u) PROVE Metered'
  <2>1. Known(r) /\ u \in Distinct(doc[r]) /\ task[r][u].at = "answered" /\ UNCHANGED world
    BY <1>9 DEF IInv, Known, Req, Shape, LookUp
  <2>2. CASE Finish(r, "refused")
    BY <2>1, <2>2, MeterFinish DEF Replies
  <2>3. ASSUME NEW f \in Resolution(u, task[r][u].answer), Becomes(r, u, f)
        PROVE  Metered'
    <3>1. f.at = "found" /\ f \in TaskStates
      BY <1>9, <2>1, <2>3, Finds DEF IInv
    <3>2. f \notin {Waiting, Over} /\ task[r][u] # Over /\ task[r][u] # Waiting
      BY <2>1, <3>1, StateFacts
    <3> QED
      BY <1>9, <2>1, <2>3, <3>1, <3>2, MeterStep
  <2> QED
    BY <1>9, <2>2, <2>3 DEF LookUp
<1>10. ASSUME NEW r \in Requests, NEW u \in DOMAIN task[r], pc[r] = "resolving", Charge(r, u) PROVE Metered'
  <2>1. /\ Known(r) /\ Typed /\ u \in Distinct(doc[r]) /\ doc[r] \in Docs /\ task[r][u].at = "found"
        /\ UNCHANGED world /\ task[r] \in [Distinct(doc[r]) -> TaskStates] /\ Mine(r)
    BY <1>10, ChargeStep DEF IInv, Known, Req, Shape, Charge
  <2>2. CASE ~Within(r, task[r][u].body.size)
    <3>1. Finish(r, "refused") /\ "refused" \in Replies
      BY <1>10, <2>2 DEF Charge, Replies
    <3> QED
      BY <2>1, <3>1, MeterFinish
  <2>3. CASE Within(r, task[r][u].body.size)
    <3>1. /\ spent' = [spent EXCEPT ![r] = @ + task[r][u].body.size]
          /\ out' = [out EXCEPT ![r] = [n \in DOMAIN doc[r] |->
                       IF n \in Positions(doc[r], u) THEN task[r][u] ELSE out[r][n]]]
          /\ task' = [task EXCEPT ![r][u] = Over]
          /\ doc' = doc
          /\ \E where \in {"ingest", "resolving"} : pc' = [pc EXCEPT ![r] = where]
      BY <1>10, <2>3 DEF Charge
    <3>2. task[r][u] \in Results
      BY <2>1, StateFacts
    <3>3. task[r][u].body.size \in Nat
      BY <3>2, ResultFacts, BodyFacts
    <3>4. spent[r] + task[r][u].body.size <= Budget
      BY <2>3 DEF Within
    <3>5. Meter(doc[r], task[r], out[r], spent[r]) /\ \A v \in KeptOf(task[r]) : SizeOf(doc[r], out[r], v) \in Nat
      BY KeptSizes DEF Metered
    <3>6. Meter(doc[r], [task[r] EXCEPT ![u] = Over],
                [n \in DOMAIN doc[r] |-> IF n \in Positions(doc[r], u) THEN task[r][u] ELSE out[r][n]],
                spent[r] + task[r][u].body.size)
      BY <2>1, <3>3, <3>4, <3>5, MeterCharge
    <3>7. /\ task'[r] = [task[r] EXCEPT ![u] = Over]
          /\ out'[r] = [n \in DOMAIN doc[r] |-> IF n \in Positions(doc[r], u) THEN task[r][u] ELSE out[r][n]]
          /\ spent'[r] = spent[r] + task[r][u].body.size /\ doc'[r] = doc[r]
          /\ pc'[r] # "idle"
      BY <2>1, <3>1 DEF Typed, OnRequests
    <3>8. spent' = [spent EXCEPT ![r] = spent'[r]]
      BY <2>1, <3>1 DEF Typed
    <3>9. Meter(doc'[r], task'[r], out'[r], spent'[r])
      BY <3>6, <3>7
    <3> QED
      BY <2>1, <3>7, <3>8, <3>9, MeterOthers
  <2> QED
    BY <2>2, <2>3
<1> QED
  BY <1>1, <1>2, <1>3, <1>4, <1>5, <1>6, <1>7, <1>8, <1>9, <1>10 DEF Next, Resolve

(* The sum of the sizes, as the fold of the community modules takes it. *)
LEMMA KeptCounted ==
    ASSUME IInv, NEW r \in Requests
    PROVE  MapThenSumSet(LAMBDA u : KeptBody(r, u).size, Kept(r))
             = Cardinality(KeptUnits(doc[r], task[r], out[r]))
<1> DEFINE K == KeptOf(task[r])
           k == [u \in K |-> SizeOf(doc[r], out[r], u)]
           Q(g) == g = [s \in SUBSET K |-> IF s = {} THEN 0
                          ELSE KeptBody(r, CHOOSE x \in s : TRUE).size + g[s \ {CHOOSE x \in s : TRUE}]]
           total == MapThenSumSet(LAMBDA u : KeptBody(r, u).size, Kept(r))
<1>1. doc[r] \in Docs /\ DOMAIN task[r] = Distinct(doc[r])
  BY DEF IInv, Known, Req, Shape
<1>2. IsFiniteSet(K) /\ K \in SUBSET K
  BY <1>1, DistinctFinite, FS_Subset DEF KeptOf
<1>3. k \in [K -> Nat]
  BY KeptSizes
<1>4. PICK h : SumsUp(k, K, h)
  BY <1>2, <1>3, SomeSum
<1>5. total = (CHOOSE g : Q(g))[K]
  BY DEF MapThenSumSet, MapThenFoldSet, Kept, KeptOf
<1>6. \A g : SumsUp(k, K, g) <=> Q(g)
  <2>1. ASSUME NEW s \in SUBSET K, s # {}
        PROVE  k[CHOOSE x \in s : TRUE] = KeptBody(r, CHOOSE x \in s : TRUE).size
    <3>1. (CHOOSE x \in s : TRUE) \in s
      BY <2>1
    <3> QED
      BY <3>1 DEF KeptBody, SizeOf
  <2> SUFFICES ASSUME NEW g PROVE SumsUp(k, K, g) <=> Q(g)
    OBVIOUS
  <2>2. [s \in SUBSET K |-> IF s = {} THEN 0
           ELSE k[CHOOSE x \in s : TRUE] + g[s \ {CHOOSE x \in s : TRUE}]]
        = [s \in SUBSET K |-> IF s = {} THEN 0
             ELSE KeptBody(r, CHOOSE x \in s : TRUE).size + g[s \ {CHOOSE x \in s : TRUE}]]
    <3> DEFINE one(s) == IF s = {} THEN 0
                         ELSE k[CHOOSE x \in s : TRUE] + g[s \ {CHOOSE x \in s : TRUE}]
               other(s) == IF s = {} THEN 0
                           ELSE KeptBody(r, CHOOSE x \in s : TRUE).size + g[s \ {CHOOSE x \in s : TRUE}]
    <3> HIDE DEF k, K
    <3>1. ASSUME NEW s \in SUBSET K PROVE one(s) = other(s)
      <4>1. CASE s = {}
        BY <4>1
      <4>2. CASE s # {}
        BY <2>1, <4>2
      <4> QED
        BY <4>1, <4>2
    <3> HIDE DEF one, other
    <3>2. [s \in SUBSET K |-> one(s)] = [s \in SUBSET K |-> other(s)]
      BY <3>1
    <3> QED
      BY <3>2 DEF one, other
  <2> HIDE DEF k, K
  <2> QED
    BY <2>2, Zenon DEF SumsUp
<1> HIDE DEF Q
<1>7. Q(h)
  BY <1>4, <1>6
<1>8. Q(CHOOSE g : Q(g))
  BY <1>7
<1>9. PICK g : SumsUp(k, K, g) /\ total = g[K]
  BY <1>5, <1>6, <1>8
<1> HIDE DEF k, K, total
<1>10. \A s \in SUBSET K : g[s] = Cardinality(Units(k, s))
  BY <1>2, <1>3, <1>9, OneSum
<1>11. total = Cardinality(Units(k, K))
  BY <1>2, <1>9, <1>10
<1> QED
  BY <1>11 DEF total, k, K, KeptUnits

(* What a request retains stays within its budget and no more than Limit of its
   goroutines hold a body, for any number of URIs and in whatever order they end. *)
THEOREM MemoryBoundedHolds == Spec => []MemoryBounded
<1>1. Init => Metered
  <2> SUFFICES ASSUME Init, NEW r \in Requests PROVE Meter(doc[r], task[r], out[r], spent[r]) /\ spent[r] = 0
    BY DEF Metered
  <2>1. doc[r] = <<>> /\ task[r] = <<>> /\ out[r] = <<>> /\ spent[r] = 0
    BY DEF Init
  <2> QED
    BY <2>1, MeterEmpty
<1>2. IInv /\ Metered /\ [Next]_vars => Metered'
  BY MeteredKept
<1>3. IInv /\ Metered => MemoryBounded
  <2> SUFFICES ASSUME IInv, Metered, NEW r \in Requests
               PROVE  /\ MapThenSumSet(LAMBDA u : KeptBody(r, u).size, Kept(r)) <= Budget
                      /\ Cardinality(Running(r)) <= Limit
    BY DEF MemoryBounded
  <2>1. Meter(doc[r], task[r], out[r], spent[r]) /\ Running(r) = RunningOf(task[r])
    BY DEF Metered, Running, RunningOf
  <2>2. Cardinality(KeptUnits(doc[r], task[r], out[r])) <= Budget
    BY <2>1 DEF Meter
  <2> QED
    BY <2>1, <2>2, KeptCounted DEF Meter
<1> QED
  BY <1>1, <1>2, <1>3, Inductive, PTL DEF Spec
=============================================================================
