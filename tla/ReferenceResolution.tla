------------------------- MODULE ReferenceResolution -------------------------
(***************************************************************************)
(* What the references of a channel or playlist group resolve to           *)
(* (internal/executor/ingest_resolve.go), and the cache of what each remote *)
(* URI last resolved to (playlist_sources): several requests at a time,    *)
(* each with a goroutine per distinct URI, while origins change what they  *)
(* serve and playlists are published and deleted.                          *)
(*                                                                         *)
(* A query of the store is one step, and so is a fetch: it is answered by  *)
(* what the origin serves at some moment.  The transaction that ingests    *)
(* what was resolved, taken apart in MembershipIngest, is one step here.   *)
(***************************************************************************)
EXTENDS Naturals, FiniteSetsExt, SequencesExt

CONSTANTS Requests,  \* client requests, each served once
          Texts,     \* references as they stand in a document
          Long,      \* the texts over the length limit
          Remote,    \* URIs of other origins
          Local,     \* URIs of this feed's playlists
          Trim,      \* Trim[t]: the URI of text t, its padding removed
          Documents, \* the sequences of texts a request may carry
          Ids,       \* playlist ids
          LocalId,   \* LocalId[u]: the playlist a local URI names
          Bodies,    \* playlist documents: id, size, and whether one may be created
          MaxRefs,   \* references one document may make
          Limit,     \* goroutines resolving for one request
          Budget,    \* bytes retained for one request
          MaxMoves,  \* bound on the changes of origins
          Down, Gone, NoRow, Nothing

URIs == Remote \cup Local

ASSUME ResolutionAssumption ==
    /\ Remote \cap Local = {} /\ Long \subseteq Texts
    /\ Trim \in [Texts -> URIs] /\ LocalId \in [Local -> Ids]
    /\ Documents \subseteq Seq(Texts)
    /\ Bodies \subseteq [id : Ids, size : Nat, ok : BOOLEAN]
    /\ {Down, Gone, NoRow, Nothing} \cap Bodies = {} /\ Down # Gone
    /\ NoRow \notin Ids /\ Nothing \notin URIs \cup {Down, Gone}
    /\ Nothing \notin [at : {"found"}, body : Bodies, from : Remote \cup {Nothing}]
    /\ {MaxRefs, Limit, Budget} \subseteq Nat \ {0} /\ MaxMoves \in Nat

VARIABLES origin,  \* what each remote URI serves: a body, Down or Gone (any other answer)
          served,  \* served[u]: the ids u ever served
          moves,   \* how often an origin changed
          stored,  \* committed playlists
          tombs,   \* deleted ids
          sources, \* playlist_sources: the id each remote URI last resolved to
          pc,      \* pc[r]: "idle", "resolving", "ingest" or "done"
          doc,     \* doc[r]: the references of r
          task,    \* task[r][u]: the goroutine of r that resolves u
          spent,   \* spent[r]: bytes charged
          out,     \* out[r][n]: what position n resolved to
          seen,    \* seen[r][u]: what u has served since r was accepted
          reply    \* reply[r]: the answer to r, or "none"

world == <<origin, served, moves>>
feed == <<stored, tombs, sources>>
request == <<pc, doc, task, spent, out, seen, reply>>
vars == <<world, feed, request>>

(* The distinct URIs of a document. *)
Distinct(d) == {Trim[t] : t \in ToSet(d)}

(* Mutant: the answer is put at the first occurrence only. *)
FirstPosition(d, u) == {Min({n \in DOMAIN d : Trim[d[n]] = u})}

(* The positions of a document that name u. *)
Positions(d, u) == {n \in DOMAIN d : Trim[d[n]] = u}

Waiting == [at |-> "waiting"]
Answered(answer) == [at |-> "answered", answer |-> answer]
Found(body, from) == [at |-> "found", body |-> body, from |-> from]
Over == [at |-> "over"]

Init ==
    /\ origin \in [Remote -> Bodies \cup {Down, Gone}]
    /\ stored \in [Ids -> {b \in Bodies : b.ok} \cup {NoRow}]
    /\ \A i \in Ids : stored[i] # NoRow => stored[i].id = i
    /\ sources \in [Remote -> {i \in Ids : stored[i] # NoRow} \cup {NoRow}]
    /\ served = [u \in Remote |-> ({origin[u].id : b \in {origin[u]} \cap Bodies}
                                    \cup {sources[u]}) \ {NoRow}]
    /\ moves = 0
    /\ tombs = {}
    /\ pc = [r \in Requests |-> "idle"]
    /\ doc = [r \in Requests |-> <<>>]
    /\ task = [r \in Requests |-> <<>>]
    /\ spent = [r \in Requests |-> 0]
    /\ out = [r \in Requests |-> <<>>]
    /\ seen = [r \in Requests |-> <<>>]
    /\ reply = [r \in Requests |-> "none"]

-----------------------------------------------------------------------------
(* The world around the feed *)

(* An origin is re-pointed, fails, comes back or withdraws what it served. *)
Move(u) ==
    /\ moves < MaxMoves
    /\ moves' = moves + 1
    /\ \E now \in (Bodies \cup {Down, Gone}) \ {origin[u]} :
         /\ origin' = [origin EXCEPT ![u] = now]
         /\ served' = [served EXCEPT ![u] = IF now \in Bodies THEN @ \cup {now.id} ELSE @]
         /\ seen' = [r \in Requests |->
              IF u \in DOMAIN seen[r] THEN [seen[r] EXCEPT ![u] = @ \cup {now}] ELSE seen[r]]
    /\ UNCHANGED <<feed, pc, doc, task, spent, out, reply>>

(* Another client publishes a playlist. *)
Publish(b) ==
    /\ b.ok /\ stored[b.id] = NoRow /\ b.id \notin tombs
    /\ stored' = [stored EXCEPT ![b.id] = b]
    /\ UNCHANGED <<world, tombs, sources, request>>

(* Mutant: no cascade to the cache. *)
DeleteRowOnly(i) ==
    /\ stored[i] # NoRow
    /\ stored' = [stored EXCEPT ![i] = NoRow]
    /\ tombs' = tombs \cup {i}
    /\ UNCHANGED <<world, sources, request>>

(* An owner deletes a playlist; the URIs that resolved to it are forgotten. *)
Delete(i) ==
    /\ stored[i] # NoRow
    /\ stored' = [stored EXCEPT ![i] = NoRow]
    /\ tombs' = tombs \cup {i}
    /\ sources' = [u \in Remote |-> IF sources[u] = i THEN NoRow ELSE sources[u]]
    /\ UNCHANGED <<world, request>>

-----------------------------------------------------------------------------
(* A request *)

(* The request ends, and what it held in memory goes with it.  After the first
   failure the group is cancelled: whatever its other goroutines still do only
   reads, and is discarded. *)
Finish(r, what) ==
    /\ pc' = [pc EXCEPT ![r] = "done"]
    /\ reply' = [reply EXCEPT ![r] = what]
    /\ doc' = [doc EXCEPT ![r] = <<>>]
    /\ task' = [task EXCEPT ![r] = <<>>]
    /\ spent' = [spent EXCEPT ![r] = 0]
    /\ out' = [out EXCEPT ![r] = <<>>]
    /\ seen' = [seen EXCEPT ![r] = <<>>]

Resolvable(d) == Len(d) \in 1 .. MaxRefs /\ ToSet(d) \cap Long = {}

(* Counted and measured before any fetch; then one goroutine per distinct URI. *)
Accept(r) ==
    /\ pc[r] = "idle"
    /\ \E d \in Documents :
         IF ~Resolvable(d)
           THEN Finish(r, "refused")
           ELSE /\ pc' = [pc EXCEPT ![r] = "resolving"]
                /\ doc' = [doc EXCEPT ![r] = d]
                /\ task' = [task EXCEPT ![r] = [u \in Distinct(d) |-> Waiting]]
                /\ out' = [out EXCEPT ![r] = [n \in DOMAIN d |-> Nothing]]
                /\ seen' = [seen EXCEPT ![r] = [u \in Distinct(d) \cap Remote |-> {origin[u]}]]
                /\ UNCHANGED <<spent, reply>>
    /\ UNCHANGED <<world, feed>>

Running(r) == {u \in DOMAIN task[r] : task[r][u] \notin {Waiting, Over}}

Becomes(r, u, state) ==
    /\ task' = [task EXCEPT ![r][u] = state]
    /\ UNCHANGED <<pc, doc, spent, out, seen, reply>>

(* A goroutine gets a slot; a remote URI is fetched, a local one is not. *)
Fetch(r, u) ==
    /\ task[r][u] = Waiting
    /\ Cardinality(Running(r)) < Limit
    /\ Becomes(r, u, Answered(IF u \in Remote THEN origin[u] ELSE Nothing))
    /\ UNCHANGED <<world, feed>>

(* Mutant: any failed fetch falls back on the cache. *)
AnyFailure(answer) == answer \in {Down, Gone}

(* originUnavailable: the origin was not reached; 404, 410 and a refused
   destination are answers. *)
Unavailable(answer) == answer = Down

Holds(i) == i # NoRow /\ stored[i] # NoRow

(* Mutant: the fetched body is kept without validation. *)
ResolutionUnvetted(u, answer) ==
    CASE u \in Local -> {Found(stored[i], Nothing) : i \in {k \in {LocalId[u]} : Holds(k)}}
      [] Unavailable(answer) -> {Found(stored[i], u) : i \in {k \in {sources[u]} : Holds(k)}}
      [] answer \in Bodies -> {Found(answer, u)}
      [] OTHER -> {}

(* What u resolves to, given the answer to its fetch; nothing when it fails.  A
   stored playlist is linked as it is stored, whatever the body looks like. *)
Resolution(u, answer) ==
    CASE u \in Local -> {Found(stored[i], Nothing) : i \in {k \in {LocalId[u]} : Holds(k)}}
      [] Unavailable(answer) -> {Found(stored[i], u) : i \in {k \in {sources[u]} : Holds(k)}}
      [] answer \in Bodies /\ Holds(answer.id) -> {Found(stored[answer.id], u)}
      [] answer \in Bodies /\ ~Holds(answer.id) /\ answer.ok -> {Found(answer, u)}
      [] OTHER -> {}

(* The store is asked: by the local id, by the URI, or by the id in the body. *)
LookUp(r, u) ==
    /\ task[r][u].at = "answered"
    /\ LET found == Resolution(u, task[r][u].answer) IN
       IF found = {} THEN Finish(r, "refused")
                     ELSE \E state \in found : Becomes(r, u, state)
    /\ UNCHANGED <<world, feed>>

(* Mutant: the budget is read before the document is added to it. *)
WithinBefore(r, size) == spent[r] <= Budget

(* resolved.Add, then the comparison. *)
Within(r, size) == spent[r] + size <= Budget

(* The bytes are charged and, within the budget, the result is put at every
   position of the URI; the last goroutine lets the request go on. *)
Charge(r, u) ==
    LET found == task[r][u] IN
    /\ found.at = "found"
    /\ IF ~Within(r, found.body.size)
         THEN Finish(r, "refused")
         ELSE /\ spent' = [spent EXCEPT ![r] = @ + found.body.size]
              /\ out' = [out EXCEPT ![r] = [n \in DOMAIN doc[r] |->
                   IF n \in Positions(doc[r], u) THEN found ELSE out[r][n]]]
              /\ task' = [task EXCEPT ![r][u] = Over]
              /\ pc' = [pc EXCEPT ![r] =
                   IF \A v \in DOMAIN task[r] \ {u} : task[r][v] = Over THEN "ingest" ELSE @]
              /\ UNCHANGED <<doc, seen, reply>>
    /\ UNCHANGED <<world, feed>>

-----------------------------------------------------------------------------
(* The ingest *)

LinkedIds(r) == {found.body.id : found \in ToSet(out[r])}

(* The body of the first position that has the id. *)
FirstBody(r, i) == out[r][Min({n \in DOMAIN out[r] : out[r][n].body.id = i})].body

StoredAfter(r) ==
    [i \in Ids |-> IF stored[i] = NoRow /\ i \in LinkedIds(r) THEN FirstBody(r, i) ELSE stored[i]]

(* recordPlaylistSources: an upsert for every remote URI, also for one that was
   resolved from this very table. *)
SourcesAfter(r) ==
    [u \in Remote |-> IF \E found \in ToSet(out[r]) : found.from = u
                        THEN (CHOOSE found \in ToSet(out[r]) : found.from = u).body.id
                        ELSE sources[u]]

(* Everything resolved is stored or linked, unless one of the ids was deleted. *)
Ingest(r) ==
    /\ pc[r] = "ingest"
    /\ IF LinkedIds(r) \cap tombs # {}
         THEN Finish(r, "deleted") /\ UNCHANGED <<stored, sources>>
         ELSE /\ stored' = StoredAfter(r)
              /\ sources' = SourcesAfter(r)
              /\ Finish(r, "ok")
    /\ UNCHANGED <<world, tombs>>

(* The deadline passes, the client leaves, or the transaction fails. *)
Abandon(r) ==
    /\ pc[r] \in {"resolving", "ingest"}
    /\ Finish(r, "error")
    /\ UNCHANGED <<world, feed>>

Resolve(r, u) == pc[r] = "resolving" /\ (Fetch(r, u) \/ LookUp(r, u) \/ Charge(r, u))

Next ==
    \/ \E u \in Remote : Move(u)
    \/ \E b \in Bodies : Publish(b)
    \/ \E i \in Ids : Delete(i)
    \/ \E r \in Requests : \/ Accept(r) \/ Ingest(r) \/ Abandon(r)
                           \/ \E u \in DOMAIN task[r] : Resolve(r, u)

Spec == Init /\ [][Next]_vars

-----------------------------------------------------------------------------
(* Properties *)

Answers == Bodies \cup {Down, Gone}
Results == {Found(b, u) : b \in Bodies, u \in Remote \cup {Nothing}}
TaskStates == {Waiting, Over} \cup {Answered(a) : a \in Answers \cup {Nothing}} \cup Results

(* Type correctness; a row holds a body of its own id that may be created: what
   an ingest stores passed the bar of a create. *)
TypeOK ==
    /\ origin \in [Remote -> Answers]
    /\ served \in [Remote -> SUBSET Ids]
    /\ moves \in 0 .. MaxMoves
    /\ stored \in [Ids -> {b \in Bodies : b.ok} \cup {NoRow}]
    /\ \A i \in Ids : stored[i] # NoRow => stored[i].id = i
    /\ tombs \subseteq Ids
    /\ sources \in [Remote -> Ids \cup {NoRow}]
    /\ pc \in [Requests -> {"idle", "resolving", "ingest", "done"}]
    /\ reply \in [Requests -> {"none", "ok", "refused", "deleted", "error"}]
    /\ \A r \in Requests :
         /\ doc[r] \in Documents \cup {<<>>}
         /\ task[r] \in [Distinct(doc[r]) -> TaskStates]
         /\ out[r] \in Seq(Results \cup {Nothing}) /\ Len(out[r]) = Len(doc[r])
         /\ seen[r] \in [Distinct(doc[r]) \cap Remote -> SUBSET Answers]
         /\ spent[r] \in Nat

(* When a document is ingested every position has an answer, its own URI's, and
   a URI that occurs twice, however padded, means one playlist, although the
   goroutines end in any order and the origin changes under them. *)
OneMeaningPerURI ==
    \A r \in Requests : pc[r] = "ingest" =>
        \A n, m \in DOMAIN doc[r] :
            /\ out[r][n] # Nothing
            /\ Trim[doc[r][n]] \in Remote => out[r][n].from = Trim[doc[r][n]]
            /\ Trim[doc[r][n]] \in Local => out[r][n].body.id = LocalId[Trim[doc[r][n]]]
            /\ Trim[doc[r][n]] = Trim[doc[r][m]] => out[r][n] = out[r][m]

Kept(r) == {u \in DOMAIN task[r] : task[r][u] = Over}
KeptBody(r, u) == out[r][Min(Positions(doc[r], u))].body

(* What a request retains stays within the budget at every moment, in whatever
   order its goroutines charge, and no more than Limit bodies are on their way. *)
MemoryBounded ==
    \A r \in Requests :
        /\ MapThenSumSet(LAMBDA u : KeptBody(r, u).size, Kept(r)) <= Budget
        /\ Cardinality(Running(r)) <= Limit

(* "A reachable origin is authoritative": a request links through a URI only what
   the URI served while the request was under way, unless the origin was down. *)
OriginIsAuthoritative ==
    \A r \in Requests : pc[r] = "ingest" =>
        \A found \in ToSet(out[r]) : found.from # Nothing =>
            \/ Down \in seen[r][found.from]
            \/ \E b \in seen[r][found.from] \cap Bodies : b.id = found.body.id

(* The cache names only stored playlists, each under a URI that did serve its id:
   no request makes a URI mean what its origin never said. *)
SourcesServed ==
    \A u \in Remote : sources[u] # NoRow => stored[sources[u]] # NoRow /\ sources[u] \in served[u]
=============================================================================
