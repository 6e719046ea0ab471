----------------------- MODULE MembershipIngest_proofs -----------------------
(***************************************************************************)
(* Proofs about MembershipIngest for any number of requests, playlists,    *)
(* channels and documents.  The argument is one about advisory locks: a    *)
(* transaction that has checked its playlists holds the lock of each of    *)
(* them (Holding), so that whatever commits beside it neither deletes one  *)
(* of them, nor stores one it found missing: what it found stored is still *)
(* there when it links to it (Linked), what it inserts is stored by nobody *)
(* else (Unstored), and nothing it names is deleted before its own rows    *)
(* show (Fresh).  Locks are taken in one order (Owners, InOrder), and who  *)
(* holds a row waits for no lock (Recorded, Unstored), so that no circle   *)
(* of waits has a lock in it.                                              *)
(*                                                                         *)
(* That a commit is one step of PlaylistFeed needs more: what the request  *)
(* read is so when it commits (Effective), the slugs of the rows it        *)
(* inserts are nobody else's, the row of its channel is as it found it,    *)
(* and nobody else is writing that channel.                                *)
(***************************************************************************)
EXTENDS MembershipIngest, FiniteSetTheorems, SequenceTheorems, WellFoundedInduction, TLAPS

-----------------------------------------------------------------------------
(* Documents *)

LEMMA Least ==
    ASSUME NEW S \in SUBSET Nat, S # {}
    PROVE  Min(S) \in S /\ \A n \in S : Min(S) <= n
<1>1. PICK m \in S : \A n \in S : ~(<<n, m>> \in OpToRel(<, Nat))
  BY NatLessThanWellFounded, WFMin
<1>2. ASSUME NEW n \in S PROVE m <= n
  <2>1. n \in Nat /\ m \in Nat
    OBVIOUS
  <2>2. ASSUME n < m PROVE <<n, m>> \in OpToRel(<, Nat)
    BY <2>1, <2>2 DEF OpToRel
  <2>3. ~(n < m)
    BY <1>1, <2>2
  <2> QED
    BY <2>1, <2>3
<1>3. \E x \in S : \A y \in S : x <= y
  BY <1>2
<1> QED
  BY <1>3 DEF Min

(* What a client may send: a sequence of references, at least one. *)
Sendable == Documents \cup {<<ref>> : ref \in References}

LEMMA Named ==
    ASSUME NEW doc \in Sendable
    PROVE  /\ doc \in Seq(References)
           /\ Ids(doc) \subseteq Playlists
           /\ Ids(doc) = {doc[n].id : n \in DOMAIN doc}
<1>1. doc \in Seq(References)
  <2>1. CASE doc \in Documents
    BY <2>1, RequestsAssumption
  <2>2. CASE doc \in {<<ref>> : ref \in References}
    <3>1. PICK ref \in References : doc = <<ref>>
      BY <2>2
    <3>2. <<>> \in Seq(References) /\ Append(<<>>, ref) \in Seq(References)
      BY EmptySeq, AppendProperties
    <3>3. Append(<<>>, ref) = <<ref>>
      OBVIOUS
    <3> QED
      BY <3>1, <3>2, <3>3
  <2> QED
    BY <2>1, <2>2 DEF Sendable
<1>2. \A n \in DOMAIN doc : doc[n] \in References
  BY <1>1, ElementOfSeq, LenProperties
<1>3. \A ref \in References : ref.id \in Playlists
  BY RequestsAssumption
<1>4. Ids(doc) = {doc[n].id : n \in DOMAIN doc}
  BY DEF Ids, ToSet
<1> QED
  BY <1>1, <1>2, <1>3, <1>4

LEMMA First ==
    ASSUME NEW doc \in Sendable, NEW p \in Ids(doc)
    PROVE  FirstOf(doc, p) \in References /\ FirstOf(doc, p).id = p
<1> DEFINE S == {n \in DOMAIN doc : doc[n].id = p}
<1>1. DOMAIN doc = 1 .. Len(doc) /\ Len(doc) \in Nat
  BY Named, LenProperties
<1>2. S \in SUBSET Nat /\ S # {}
  BY <1>1, Named
<1>3. Min(S) \in S
  BY <1>2, Least
<1>4. FirstOf(doc, p) = doc[Min(S)]
  BY DEF FirstOf
<1>5. doc[Min(S)] \in References
  BY <1>1, <1>3, Named, ElementOfSeq
<1> QED
  BY <1>3, <1>4, <1>5

(* A URI is recorded with a playlist that the document names. *)
LEMMA Sourced ==
    ASSUME NEW doc \in Sendable
    PROVE  UrisOf(doc) \subseteq Uris /\ \A u \in UrisOf(doc) : SourceOf(doc, u) \in Ids(doc)
<1>1. DOMAIN doc = 1 .. Len(doc) /\ Len(doc) \in Nat
  BY Named, LenProperties
<1>2. \A n \in DOMAIN doc : doc[n] \in References
  BY <1>1, Named, ElementOfSeq
<1>3. UrisOf(doc) = {doc[n].uri : n \in DOMAIN doc} \ {Elsewhere}
  BY DEF UrisOf, ToSet
<1>4. UrisOf(doc) \subseteq Uris
  <2>1. \A ref \in References : ref.uri \in Uris \cup {Elsewhere}
    BY RequestsAssumption
  <2> QED
    BY <1>2, <1>3, <2>1
<1>5. ASSUME NEW u \in UrisOf(doc) PROVE SourceOf(doc, u) \in Ids(doc)
  <2> DEFINE S == {n \in DOMAIN doc : doc[n].uri = u}
  <2>1. S \in SUBSET Nat /\ S # {}
    BY <1>1, <1>3
  <2>2. Min(S) \in S
    BY <2>1, Least
  <2>3. SourceOf(doc, u) = doc[Min(S)].id
    BY DEF SourceOf
  <2> QED
    BY <2>2, <2>3, Named
<1> QED
  BY <1>4, <1>5

LEMMA RowsTyped ==
    ASSUME NEW doc \in Sendable
    PROVE  Rows(doc) \in SUBSET (Nat \X Playlists) /\ \A m \in Rows(doc) : m[2] \in Ids(doc)
<1>1. DOMAIN doc = 1 .. Len(doc) /\ Len(doc) \in Nat
  BY Named, LenProperties
<1>2. ASSUME NEW n \in DOMAIN doc
      PROVE  <<n - 1, doc[n].id>> \in Nat \X Playlists /\ doc[n].id \in Ids(doc)
  BY <1>1, Named
<1> QED
  BY <1>2 DEF Rows
LEMMA NamesSome ==
    ASSUME NEW doc \in Sendable
    PROVE  Ids(doc) # {}
<1>1. doc # <<>>
  <2>1. CASE doc \in Documents
    BY <2>1, RequestsAssumption
  <2>2. CASE doc \in {<<ref>> : ref \in References}
    BY <2>2
  <2> QED
    BY <2>1, <2>2 DEF Sendable
<1>2. 1 \in DOMAIN doc
  BY <1>1, Named, EmptySeq, LenProperties
<1>3. doc[1].id \in Ids(doc)
  BY <1>2, Named
<1> QED
  BY <1>3

-----------------------------------------------------------------------------
(* Types *)

Steps == {"idle", "lock document", "lock playlists", "check", "insert", "record", "write",
          "members", "delete", "cascade", "commit", "done"}

PlaylistsTyped == playlists \in [Playlists -> [slug : Slugs, by : Requests] \cup {NoRow}]
ChannelsTyped == channels \in [Channels -> ChannelRow \cup {NoRow}]
MembersTyped == members \in [Channels -> SUBSET (Nat \X Playlists)]
TombsTyped == tombs \subseteq Playlists \cup Channels
SourcesTyped == sources \in [Uris -> Playlists \cup {NoRow}]
TablesTyped == PlaylistsTyped /\ ChannelsTyped /\ MembersTyped /\ TombsTyped /\ SourcesTyped

LocksTyped == lock \in [Playlists \cup Channels -> Requests \cup {Nobody}]

StepsTyped ==
    /\ pc \in [Requests -> Steps]
    /\ todo \in [Requests -> SUBSET Playlists]
    /\ inserted \in [Requests -> SUBSET References]
    /\ recorded \in [Requests -> SUBSET Uris]
    /\ reply \in [Requests -> {"none", "ok", "exists", "deleted", "conflict", "notfound", "error"}]

JobsTyped == job \in [Requests -> Job \cup {NoJob}]

HasDoc(r) == On(r, "create playlist") \/ Ingests(r)

(* What is known of a job of each kind. *)
LEMMA JobFacts ==
    ASSUME JobsTyped, NEW r \in Requests
    PROVE  /\ Ingests(r) => job[r].target \in Channels /\ job[r].doc \in Documents
           /\ HasDoc(r) => job[r].doc \in Sendable
           /\ On(r, "delete playlist") => job[r].target \in Playlists
           /\ On(r, "delete channel") => job[r].target \in Channels
           /\ Deletes(r) => job[r].target \in Playlists \cup Channels
           /\ ~(HasDoc(r) /\ Deletes(r))
<1>1. job[r] \in Job \cup {NoJob}
  BY DEF JobsTyped
<1>2. CASE job[r] \in [op : {"create playlist"}, doc : {<<ref>> : ref \in {x \in References : x.uri = Elsewhere}}]
  BY <1>2 DEF Ingests, HasDoc, Deletes, On, Sendable
<1>3. CASE job[r] \in [op : {"create channel"}, target : Channels, doc : Documents]
  BY <1>3 DEF Ingests, HasDoc, Deletes, On, Sendable
<1>4. CASE job[r] \in [op : {"replace channel"}, target : Channels, doc : Documents, seen : Nat]
  BY <1>4 DEF Ingests, HasDoc, Deletes, On, Sendable
<1>5. CASE job[r] \in [op : {"delete playlist"}, target : Playlists]
  BY <1>5 DEF Ingests, HasDoc, Deletes, On
<1>6. CASE job[r] \in [op : {"delete channel"}, target : Channels, seen : Nat]
  BY <1>6 DEF Ingests, HasDoc, Deletes, On
<1>7. CASE job[r] = NoJob
  BY <1>7 DEF NoJob, Ingests, HasDoc, Deletes, On
<1> QED
  BY <1>1, <1>2, <1>3, <1>4, <1>5, <1>6, <1>7 DEF Job, CreateJob

-----------------------------------------------------------------------------
(* The invariants, request by request *)

FlowOf(r) ==
    /\ pc[r] = "lock document" => On(r, "create channel") \/ Deletes(r)
    /\ pc[r] \in {"lock playlists", "check", "insert"} => HasDoc(r)
    /\ pc[r] \in {"record", "write", "members"} => Ingests(r)
    /\ pc[r] = "delete" => Deletes(r)
    /\ pc[r] = "cascade" => On(r, "delete playlist")
    /\ pc[r] = "commit" => HasDoc(r) \/ Deletes(r)

TodoOf(r) ==
    /\ pc[r] = "lock document" /\ On(r, "create channel") => todo[r] = Ids(job[r].doc)
    /\ pc[r] \in {"lock playlists", "insert"} => todo[r] # {} /\ todo[r] \subseteq Ids(job[r].doc)

RecordedOf(r) ==
    /\ pc[r] = "record" => ~(UrisOf(job[r].doc) \subseteq recorded[r])
    /\ recorded[r] # {} => /\ pc[r] \in {"record", "write", "members", "commit"} /\ Ingests(r)
                           /\ recorded[r] \subseteq UrisOf(job[r].doc)

LocksOf(r) ==
    /\ pc[r] = "lock playlists" => \A p \in Ids(job[r].doc) \ todo[r] : lock[p] = r
    /\ pc[r] \in {"check", "insert", "record", "write", "members", "commit"} /\ HasDoc(r)
         => \A p \in Ids(job[r].doc) : lock[p] = r
    /\ pc[r] \in {"delete", "cascade", "commit"} /\ Deletes(r) => lock[job[r].target] = r

FreshOf(r) ==
    pc[r] \in {"insert", "record", "write", "members", "commit"} /\ HasDoc(r) => Ids(job[r].doc) \cap tombs = {}

UnstoredOf(r) ==
    \A ref \in inserted[r] : /\ pc[r] \in {"insert", "record", "write", "members", "commit"} /\ HasDoc(r)
                             /\ ref.id \in Ids(job[r].doc)
                             /\ playlists[ref.id] = NoRow

Met(r, p) == playlists[p] # NoRow \/ \E ref \in inserted[r] : ref.id = p

LinkedOf(r) ==
    /\ pc[r] = "insert" => \A p \in Ids(job[r].doc) \ todo[r] : Met(r, p)
    /\ pc[r] \in {"record", "write", "members", "commit"} /\ HasDoc(r) => \A p \in Ids(job[r].doc) : Met(r, p)

Flow == \A r \in Requests : FlowOf(r) /\ TodoOf(r)
Recorded == \A r \in Requests : RecordedOf(r)
Holding == \A r \in Requests : LocksOf(r)
Fresh == \A r \in Requests : FreshOf(r)
Unstored == \A r \in Requests : UnstoredOf(r)
Linked == \A r \in Requests : LinkedOf(r)

(* A stored playlist was stored by the last step of a request that names playlists. *)
Storers == \A p \in Playlists : playlists[p] # NoRow => pc[playlists[p].by] = "done" /\ HasDoc(playlists[p].by)

-----------------------------------------------------------------------------
(* One request moves *)

Step(r) == Accept(r) \/ Statement(r) \/ Abort(r)

LEMMA NobodyFacts == Nobody \notin Requests
BY IngestAssumption

(* A request that fails: nothing is committed, its locks are released. *)
Fails(r) ==
    /\ UNCHANGED <<playlists, channels, members, tombs, sources, job>>
    /\ pc[r] \notin {"idle", "done"}
    /\ \E what \in {"exists", "deleted", "conflict", "notfound", "error"} : Finish(r, what)

(* What a request does to itself, and to nothing else, when it goes on. *)
Accepts(r) ==
    /\ UNCHANGED <<playlists, channels, members, tombs, sources, lock, inserted, recorded, reply>>
    /\ pc[r] = "idle"
    /\ \E j \in Job, t \in SUBSET Playlists :
         /\ job' = [job EXCEPT ![r] = j]
         /\ todo' = [todo EXCEPT ![r] = t]
         /\ \/ j.op = "create channel" /\ t = Ids(j.doc) /\ Goto(r, "lock document")
            \/ j.op \in {"create playlist", "replace channel"} /\ t = Ids(j.doc) /\ Goto(r, "lock playlists")
            \/ j.op \in {"delete playlist", "delete channel"} /\ t = todo[r] /\ Goto(r, "lock document")

PassDocument(r) ==
    /\ pc[r] = "lock document" /\ lock[job[r].target] = Nobody
    /\ lock' = [lock EXCEPT ![job[r].target] = r]
    /\ Goto(r, IF On(r, "create channel") THEN "lock playlists" ELSE "delete")
    /\ UNCHANGED <<todo, inserted, recorded>>

PassLock(r) ==
    /\ pc[r] = "lock playlists"
    /\ lock[Min(todo[r])] = Nobody
    /\ lock' = [lock EXCEPT ![Min(todo[r])] = r]
    /\ todo' = [todo EXCEPT ![r] = @ \ {Min(todo[r])}]
    /\ Goto(r, IF todo'[r] = {} THEN "check" ELSE "lock playlists")
    /\ UNCHANGED <<inserted, recorded>>

PassCheck(r) ==
    /\ pc[r] = "check" /\ Ids(job[r].doc) \cap tombs = {}
    /\ todo' = [todo EXCEPT ![r] = Ids(job[r].doc)]
    /\ Goto(r, "insert")
    /\ UNCHANGED <<lock, inserted, recorded>>

PassInsert(r) ==
    /\ pc[r] = "insert"
    /\ inserted' = [inserted EXCEPT ![r] =
         IF Missing(r) THEN @ \cup {FirstOf(job[r].doc, Min(todo[r]))} ELSE @]
    /\ todo' = [todo EXCEPT ![r] = @ \ {Min(todo[r])}]
    /\ Goto(r, IF todo'[r] # {} THEN "insert" ELSE AfterInsert(r))
    /\ UNCHANGED <<lock, recorded>>

PassRecord(r) ==
    /\ pc[r] = "record"
    /\ recorded' = [recorded EXCEPT ![r] = @ \cup {Min(Left(r))}]
    /\ Goto(r, IF UrisOf(job[r].doc) \subseteq recorded'[r] THEN "write" ELSE "record")
    /\ UNCHANGED <<lock, todo, inserted>>

PassOn(r) ==
    /\ \/ pc[r] = "write" /\ Goto(r, "members")
       \/ pc[r] = "members" /\ Goto(r, "commit")
       \/ pc[r] = "delete" /\ Goto(r, IF On(r, "delete playlist") THEN "cascade" ELSE "commit")
       \/ pc[r] = "cascade" /\ Goto(r, "commit")
    /\ UNCHANGED <<lock, todo, inserted, recorded>>

Passes(r) ==
    /\ UNCHANGED <<playlists, channels, members, tombs, sources, job, reply>>
    /\ \/ PassDocument(r) \/ PassLock(r) \/ PassCheck(r)
       \/ PassInsert(r) \/ PassRecord(r) \/ PassOn(r)

(* Where a request goes from its inserts. *)
LEMMA Onward ==
    ASSUME NEW r
    PROVE  /\ AfterInsert(r) \in {"record", "write", "commit"}
           /\ AfterInsert(r) = "commit" <=> ~Ingests(r)
           /\ AfterInsert(r) = "record" => UrisOf(job[r].doc) # {}
<1>1. CASE ~Ingests(r)
  BY <1>1 DEF AfterInsert
<1>2. CASE Ingests(r) /\ UrisOf(job[r].doc) = {}
  BY <1>2 DEF AfterInsert
<1>3. CASE Ingests(r) /\ UrisOf(job[r].doc) # {}
  BY <1>3 DEF AfterInsert
<1> QED
  BY <1>1, <1>2, <1>3

LEMMA AcceptStep ==
    ASSUME TablesTyped, StepsTyped, NEW r \in Requests, Accept(r)
    PROVE  Accepts(r)
<1>1. CASE AcceptCreate(r)
  <2>1. PICK j \in CreateJob :
          /\ job' = [job EXCEPT ![r] = j]
          /\ todo' = [todo EXCEPT ![r] = Ids(j.doc)]
          /\ Goto(r, IF j.op = "create channel" THEN "lock document" ELSE "lock playlists")
    BY <1>1 DEF AcceptCreate
  <2>2. j \in Job /\ j.op \in {"create playlist", "create channel"} /\ j.doc \in Sendable
    BY <2>1 DEF Job, CreateJob, Sendable
  <2>3. Ids(j.doc) \in SUBSET Playlists
    BY <2>2, Named
  <2> QED
    BY <1>1, <2>1, <2>2, <2>3 DEF AcceptCreate, Accepts, committed
<1>2. CASE AcceptReplace(r)
  <2>1. PICK c \in Channels, doc \in Documents :
          /\ channels[c] # NoRow
          /\ job' = [job EXCEPT ![r] =
               [op |-> "replace channel", target |-> c, doc |-> doc, seen |-> channels[c].rev]]
          /\ todo' = [todo EXCEPT ![r] = Ids(doc)]
    BY <1>2 DEF AcceptReplace
  <2> DEFINE j == [op |-> "replace channel", target |-> c, doc |-> doc, seen |-> channels[c].rev]
  <2>2. channels[c].rev \in Nat
    BY <2>1 DEF TablesTyped, ChannelsTyped, ChannelRow
  <2>3. j \in Job /\ j.op = "replace channel" /\ j.doc = doc
    BY <2>2 DEF Job
  <2>4. Ids(doc) \in SUBSET Playlists
    BY Named DEF Sendable
  <2> HIDE DEF j
  <2>5. /\ job' = [job EXCEPT ![r] = j] /\ todo' = [todo EXCEPT ![r] = Ids(j.doc)]
        /\ Goto(r, "lock playlists") /\ pc[r] = "idle"
    BY <1>2, <2>1, <2>3 DEF AcceptReplace, j
  <2> QED
    BY <1>2, <2>3, <2>4, <2>5 DEF AcceptReplace, Accepts, committed
<1>3. CASE AcceptDelete(r)
  <2>1. todo' = [todo EXCEPT ![r] = todo[r]] /\ todo[r] \in SUBSET Playlists
    BY <1>3 DEF AcceptDelete, StepsTyped
  <2>2. PICK j \in Job : j.op \in {"delete playlist", "delete channel"} /\ job' = [job EXCEPT ![r] = j]
    <3>1. ASSUME NEW p \in Playlists
          PROVE  [op |-> "delete playlist", target |-> p] \in Job
      BY DEF Job
    <3>2. ASSUME NEW c \in Channels, channels[c] # NoRow
          PROVE  [op |-> "delete channel", target |-> c, seen |-> channels[c].rev] \in Job
      <4>1. channels[c].rev \in Nat
        BY <3>2 DEF TablesTyped, ChannelsTyped, ChannelRow
      <4> QED
        BY <4>1 DEF Job
    <3> QED
      BY <1>3, <3>1, <3>2 DEF AcceptDelete
  <2> QED
    BY <1>3, <2>1, <2>2 DEF AcceptDelete, Accepts, committed
<1> QED
  BY <1>1, <1>2, <1>3 DEF Accept
LEMMA StatementStep ==
    ASSUME StepsTyped, NEW r \in Requests, Statement(r) \/ Abort(r)
    PROVE  Fails(r) \/ Passes(r) \/ Commit(r)
<1> USE DEF committed
<1>1. LockDocument(r) => Fails(r) \/ Passes(r)
  BY DEF LockDocument, Fails, Passes, PassDocument
<1>2. LockPlaylist(r) => Passes(r)
  BY DEF LockPlaylist, LockNext, Passes, PassLock
<1>3. CheckPlaylists(r) => Fails(r) \/ Passes(r)
  BY DEF CheckPlaylists, Fails, Passes, PassCheck
<1>4. Insert(r) => Fails(r) \/ Passes(r)
  BY DEF Insert, Fails, Passes, PassInsert
<1>5. WriteChannel(r) => Fails(r) \/ Passes(r)
  BY DEF WriteChannel, Missed, Fails, Passes, PassOn
<1>6. WriteMembers(r) => Fails(r) \/ Passes(r)
  BY DEF WriteMembers, Fails, Passes, PassOn
<1>7. DeleteRow(r) => Fails(r) \/ Passes(r)
  BY DEF DeleteRow, Missed, Fails, Passes, PassOn
<1>8. Abort(r) => Fails(r)
  BY DEF Abort, Fails
<1>9. Record(r) => Passes(r)
  BY DEF Record, Passes, PassRecord
<1>10. CascadeToSources(r) => Passes(r)
  BY DEF CascadeToSources, Passes, PassOn
<1> QED
  BY <1>1, <1>2, <1>3, <1>4, <1>5, <1>6, <1>7, <1>8, <1>9, <1>10 DEF Statement

LEMMA StepKinds ==
    ASSUME TablesTyped, StepsTyped, NEW r \in Requests, Step(r)
    PROVE  Accepts(r) \/ Fails(r) \/ Passes(r) \/ Commit(r)
BY AcceptStep, StatementStep DEF Step

(* What an end leaves. *)
LEMMA Ended ==
    ASSUME StepsTyped, LocksTyped, NEW r \in Requests, NEW what, Finish(r, what)
    PROVE  /\ pc'[r] = "done" /\ reply'[r] = what /\ inserted'[r] = {} /\ recorded'[r] = {} /\ todo'[r] = {}
           /\ \A d \in Playlists \cup Channels : lock'[d] = IF lock[d] = r THEN Nobody ELSE lock[d]
           /\ \A q \in Requests \ {r} : /\ pc'[q] = pc[q] /\ reply'[q] = reply[q]
                                        /\ inserted'[q] = inserted[q] /\ todo'[q] = todo[q]
                                        /\ recorded'[q] = recorded[q]
BY DEF Finish, Goto, StepsTyped, LocksTyped

(* The others stand still, and keep their locks. *)
Still(q) ==
    /\ pc'[q] = pc[q] /\ job'[q] = job[q] /\ todo'[q] = todo[q]
    /\ inserted'[q] = inserted[q] /\ recorded'[q] = recorded[q] /\ reply'[q] = reply[q]
    /\ \A d \in Playlists \cup Channels : lock[d] = q => lock'[d] = q

LEMMA OthersStill ==
    ASSUME StepsTyped, LocksTyped, JobsTyped, NEW r \in Requests, NEW q \in Requests, q # r,
           Accepts(r) \/ Fails(r) \/ Passes(r) \/ Commit(r)
    PROVE  Still(q)
<1> USE NobodyFacts
<1>1. CASE Accepts(r)
  BY <1>1 DEF Accepts, Goto, Still, StepsTyped, JobsTyped
<1>2. CASE Fails(r)
  <2>1. PICK what : Finish(r, what)
    BY <1>2 DEF Fails
  <2> QED
    BY <1>2, <2>1, Ended DEF Fails, Still
<1>3. CASE Commit(r)
  <2>1. PICK what : Finish(r, what) /\ job' = job
    BY <1>3 DEF Commit
  <2> QED
    BY <2>1, Ended DEF Still
<1>4. CASE Passes(r)
  <2>1. pc'[q] = pc[q] /\ job'[q] = job[q] /\ reply'[q] = reply[q]
    BY <1>4 DEF Passes, Goto, StepsTyped, PassDocument, PassLock, PassCheck, PassInsert, PassRecord, PassOn
  <2>2. inserted'[q] = inserted[q] /\ recorded'[q] = recorded[q]
    BY <1>4 DEF Passes, StepsTyped, PassDocument, PassLock, PassCheck, PassInsert, PassRecord, PassOn
  <2>3. todo'[q] = todo[q]
    BY <1>4 DEF Passes, StepsTyped, PassDocument, PassLock, PassCheck, PassInsert, PassRecord, PassOn
  <2>4. ASSUME NEW d \in Playlists \cup Channels, lock[d] = q PROVE lock'[d] = q
    <3>1. lock[d] # Nobody
      BY <2>4
    <3>2. lock' = lock \/ \E e : lock[e] = Nobody /\ lock' = [lock EXCEPT ![e] = r]
      BY <1>4 DEF Passes, PassDocument, PassLock, PassCheck, PassInsert, PassRecord, PassOn
    <3> QED
      BY <2>4, <3>1, <3>2 DEF LocksTyped
  <2> QED
    BY <2>1, <2>2, <2>3, <2>4 DEF Still
<1> QED
  BY <1>1, <1>2, <1>3, <1>4
-----------------------------------------------------------------------------
(* Types are kept *)

(* A request inserts a reference its document makes. *)
LEMMA TodoFacts ==
    ASSUME StepsTyped, JobsTyped, Flow, NEW r \in Requests, pc[r] \in {"lock playlists", "insert"}
    PROVE  /\ HasDoc(r) /\ job[r].doc \in Sendable
           /\ Min(todo[r]) \in todo[r] /\ Min(todo[r]) \in Ids(job[r].doc) /\ Min(todo[r]) \in Playlists
           /\ FirstOf(job[r].doc, Min(todo[r])) \in References
           /\ FirstOf(job[r].doc, Min(todo[r])).id = Min(todo[r])
<1>1. HasDoc(r) /\ job[r].doc \in Sendable
  BY JobFacts DEF Flow, FlowOf
<1>2. todo[r] # {} /\ todo[r] \subseteq Ids(job[r].doc) /\ todo[r] \in SUBSET Playlists
  BY DEF Flow, TodoOf, StepsTyped
<1>3. todo[r] \in SUBSET Nat
  BY <1>2, RequestsAssumption
<1>4. Min(todo[r]) \in todo[r]
  BY <1>2, <1>3, Least
<1> QED
  BY <1>1, <1>2, <1>4, First

(* A request records a URI its document makes. *)
LEMMA LeftFacts ==
    ASSUME JobsTyped, Flow, Recorded, NEW r \in Requests, pc[r] = "record"
    PROVE  /\ Ingests(r) /\ HasDoc(r) /\ job[r].doc \in Sendable
           /\ Min(Left(r)) \in UrisOf(job[r].doc) /\ Min(Left(r)) \in Uris
<1>1. Ingests(r) /\ HasDoc(r) /\ job[r].doc \in Sendable
  BY JobFacts DEF Flow, FlowOf, HasDoc
<1>2. UrisOf(job[r].doc) \subseteq Uris
  BY <1>1, Sourced
<1>3. Left(r) # {} /\ Left(r) \subseteq UrisOf(job[r].doc)
  BY DEF Recorded, RecordedOf, Left
<1>4. Left(r) \in SUBSET Nat
  BY <1>2, <1>3, RequestsAssumption
<1>5. Min(Left(r)) \in Left(r)
  BY <1>3, <1>4, Least
<1> QED
  BY <1>1, <1>2, <1>3, <1>5

LEMMA StepsTypedKept ==
    ASSUME StepsTyped, LocksTyped, JobsTyped, Flow, Recorded, NEW r \in Requests,
           Accepts(r) \/ Fails(r) \/ Passes(r) \/ Commit(r)
    PROVE  StepsTyped'
<1> USE DEF StepsTyped, Steps
<1>1. CASE Accepts(r)
  <2>1. PICK j \in Job, t \in SUBSET Playlists :
              /\ todo' = [todo EXCEPT ![r] = t]
              /\ \E there \in {"lock document", "lock playlists"} : Goto(r, there)
    BY <1>1 DEF Accepts
  <2>2. UNCHANGED <<inserted, recorded, reply>>
    BY <1>1 DEF Accepts
  <2>3. pc' \in [Requests -> Steps]
    BY <2>1 DEF Goto
  <2> QED
    BY <2>1, <2>2, <2>3
<1>2. ASSUME NEW what \in {"ok", "exists", "deleted", "conflict", "notfound", "error"}, Finish(r, what)
      PROVE  StepsTyped'
  BY <1>2 DEF Finish, Goto
<1>3. CASE Fails(r)
  BY <1>2, <1>3 DEF Fails
<1>4. CASE Commit(r)
  BY <1>2, <1>4 DEF Commit
<1>5. CASE Passes(r)
  <2>1. pc' \in [Requests -> Steps]
    BY <1>5, Onward DEF Passes, Goto, PassDocument, PassLock, PassCheck, PassInsert, PassRecord, PassOn
  <2>2. CASE PassDocument(r) \/ PassOn(r)
    BY <1>5, <2>1, <2>2 DEF Passes, PassDocument, PassOn
  <2>3. CASE PassLock(r)
    BY <1>5, <2>1, <2>3 DEF Passes, PassLock
  <2>4. CASE PassCheck(r)
    <3>1. Ids(job[r].doc) \in SUBSET Playlists
      BY <2>4, JobFacts, Named DEF Flow, FlowOf, PassCheck
    <3> QED
      BY <1>5, <2>1, <2>4, <3>1 DEF Passes, PassCheck
  <2>5. CASE PassInsert(r)
    <3>1. FirstOf(job[r].doc, Min(todo[r])) \in References
      BY <2>5, TodoFacts DEF PassInsert
    <3>2. inserted' \in [Requests -> SUBSET References]
      BY <2>5, <3>1 DEF PassInsert
    <3>3. todo' \in [Requests -> SUBSET Playlists] /\ recorded' = recorded
      BY <2>5 DEF PassInsert
    <3> QED
      BY <1>5, <2>1, <2>5, <3>2, <3>3 DEF Passes
  <2>6. CASE PassRecord(r)
    <3>1. Min(Left(r)) \in Uris
      BY <2>6, LeftFacts DEF PassRecord
    <3>2. recorded' \in [Requests -> SUBSET Uris]
      BY <2>6, <3>1 DEF PassRecord
    <3> QED
      BY <1>5, <2>1, <2>6, <3>2 DEF Passes, PassRecord
  <2> QED
    BY <1>5, <2>2, <2>3, <2>4, <2>5, <2>6 DEF Passes
<1> QED
  BY <1>1, <1>3, <1>4, <1>5

LEMMA JobsTypedKept ==
    ASSUME JobsTyped, NEW r \in Requests, Accepts(r) \/ Fails(r) \/ Passes(r) \/ Commit(r)
    PROVE  JobsTyped'
<1>1. CASE Accepts(r)
  BY <1>1 DEF Accepts, JobsTyped
<1>2. job' = job => JobsTyped'
  BY DEF JobsTyped
<1> QED
  BY <1>1, <1>2 DEF Fails, Passes, Commit

LEMMA LocksTypedKept ==
    ASSUME LocksTyped, NEW r \in Requests, Accepts(r) \/ Fails(r) \/ Passes(r) \/ Commit(r)
    PROVE  LocksTyped'
<1> USE DEF LocksTyped
<1>1. ASSUME NEW what, Finish(r, what) PROVE LocksTyped'
  BY <1>1 DEF Finish
<1>2. CASE Passes(r)
  <2>1. lock' = lock \/ \E e : lock' = [lock EXCEPT ![e] = r]
    BY <1>2 DEF Passes, PassDocument, PassLock, PassCheck, PassInsert, PassRecord, PassOn
  <2> QED
    BY <2>1
<1>3. CASE Accepts(r)
  BY <1>3 DEF Accepts
<1> QED
  BY <1>1, <1>2, <1>3 DEF Fails, Commit

(* What a request recorded names a playlist of its document. *)
LEMMA NamedSource ==
    ASSUME JobsTyped, Recorded, NEW r \in Requests, NEW u \in recorded[r]
    PROVE  /\ Ingests(r) /\ HasDoc(r) /\ ~Deletes(r)
           /\ SourceOf(job[r].doc, u) \in Ids(job[r].doc) /\ SourceOf(job[r].doc, u) \in Playlists
<1>1. Ingests(r) /\ u \in UrisOf(job[r].doc)
  BY DEF Recorded, RecordedOf
<1>2. HasDoc(r) /\ ~Deletes(r) /\ job[r].doc \in Sendable
  BY <1>1, JobFacts DEF HasDoc
<1> QED
  BY <1>1, <1>2, Sourced, Named

LEMMA TablesTypedKept ==
    ASSUME TablesTyped, StepsTyped, JobsTyped, Recorded, NEW r \in Requests, Commit(r)
    PROVE  TablesTyped'
<1>1. PlaylistsTyped'
  <2>1. ASSUME NEW p \in Playlists
        PROVE  PlaylistAfter(r, p) \in [slug : Slugs, by : Requests] \cup {NoRow}
    <3>1. CASE \E ref \in inserted[r] : ref.id = p
      <4>1. (CHOOSE ref \in inserted[r] : ref.id = p) \in References
        BY <3>1 DEF StepsTyped
      <4>2. (CHOOSE ref \in inserted[r] : ref.id = p).slug \in Slugs
        BY <4>1, RequestsAssumption
      <4> QED
        BY <3>1, <4>2 DEF PlaylistAfter
    <3>2. CASE ~ \E ref \in inserted[r] : ref.id = p
      BY <3>2 DEF PlaylistAfter, TablesTyped, PlaylistsTyped
    <3> QED
      BY <3>1, <3>2
  <2> QED
    BY <2>1 DEF Commit, PlaylistsTyped
<1>2. ChannelsTyped'
  <2>1. ASSUME NEW c \in Channels PROVE ChannelAfter(r, c) \in ChannelRow \cup {NoRow}
    <3>1. channels[c] \in ChannelRow \cup {NoRow}
      BY DEF TablesTyped, ChannelsTyped
    <3>2. CASE Writing(r, c) /\ Ingests(r)
      <4>1. job[r].doc \in Documents
        BY <3>2, JobFacts
      <4>2. (IF channels[c] = NoRow THEN 1 ELSE channels[c].rev + 1) \in Nat
        BY <3>1 DEF ChannelRow
      <4> QED
        BY <3>2, <4>1, <4>2 DEF ChannelAfter, ChannelRow
    <3>3. CASE ~(Writing(r, c) /\ Ingests(r)) /\ Writing(r, c) /\ On(r, "delete channel")
      BY <3>3 DEF ChannelAfter
    <3>4. CASE ~(Writing(r, c) /\ Ingests(r)) /\ ~(Writing(r, c) /\ On(r, "delete channel"))
      BY <3>1, <3>4 DEF ChannelAfter
    <3> QED
      BY <3>2, <3>3, <3>4
  <2> QED
    BY <2>1 DEF Commit, ChannelsTyped
<1>3. MembersTyped'
  <2>1. ASSUME NEW c \in Channels PROVE MembersAfter(r, c) \in SUBSET (Nat \X Playlists)
    <3>1. members[c] \in SUBSET (Nat \X Playlists)
      BY DEF TablesTyped, MembersTyped
    <3>2. Ingests(r) => Rows(job[r].doc) \in SUBSET (Nat \X Playlists)
      BY JobFacts, RowsTyped DEF Sendable
    <3>3. CASE On(r, "delete playlist")
      <4>1. MembersAfter(r, c) = {m \in members[c] : m[2] # job[r].target}
        BY <3>3 DEF MembersAfter, Ingests, On
      <4>2. {m \in members[c] : m[2] # job[r].target} \subseteq members[c]
        OBVIOUS
      <4> QED
        BY <3>1, <4>1, <4>2
    <3>4. CASE ~On(r, "delete playlist") /\ Writing(r, c) /\ Ingests(r)
      BY <3>2, <3>4 DEF MembersAfter
    <3>5. CASE ~On(r, "delete playlist") /\ ~(Writing(r, c) /\ Ingests(r)) /\ Writing(r, c) /\ On(r, "delete channel")
      BY <3>5 DEF MembersAfter
    <3>6. CASE ~On(r, "delete playlist") /\ ~(Writing(r, c) /\ Ingests(r)) /\ ~(Writing(r, c) /\ On(r, "delete channel"))
      BY <3>1, <3>6 DEF MembersAfter
    <3> QED
      BY <3>3, <3>4, <3>5, <3>6
  <2> QED
    BY <2>1 DEF Commit, MembersTyped
<1>4. TombsTyped'
  BY JobFacts DEF Commit, TablesTyped, TombsTyped
<1>5. SourcesTyped'
  <2>1. ASSUME NEW u \in Uris PROVE SourceAfter(r, u) \in Playlists \cup {NoRow}
    <3>1. CASE u \in recorded[r]
      BY <3>1, NamedSource DEF SourceAfter
    <3>2. CASE u \notin recorded[r] /\ On(r, "delete playlist") /\ sources[u] = job[r].target
      BY <3>2 DEF SourceAfter
    <3>3. CASE u \notin recorded[r] /\ ~(On(r, "delete playlist") /\ sources[u] = job[r].target)
      BY <3>3 DEF SourceAfter, TablesTyped, SourcesTyped
    <3> QED
      BY <3>1, <3>2, <3>3
  <2> QED
    BY <2>1 DEF Commit, SourcesTyped
<1> QED
  BY <1>1, <1>2, <1>3, <1>4, <1>5 DEF TablesTyped

-----------------------------------------------------------------------------
(* The steps of a request, and what it holds *)

LEMMA FlowKept ==
    ASSUME StepsTyped, LocksTyped, JobsTyped, Flow, NEW r \in Requests,
           Accepts(r) \/ Fails(r) \/ Passes(r) \/ Commit(r)
    PROVE  Flow'
<1>1. ASSUME NEW q \in Requests, q # r PROVE (FlowOf(q) /\ TodoOf(q))'
  <2>1. Still(q) /\ FlowOf(q) /\ TodoOf(q)
    BY <1>1, OthersStill DEF Flow
  <2> QED
    BY <2>1 DEF Still, FlowOf, TodoOf, HasDoc, Ingests, Deletes, On
<1>2. (FlowOf(r) /\ TodoOf(r))'
  <2>1. ASSUME NEW what, Finish(r, what) PROVE (FlowOf(r) /\ TodoOf(r))'
    <3>1. pc'[r] = "done"
      BY <2>1, Ended
    <3> QED
      BY <3>1 DEF FlowOf, TodoOf
  <2>2. CASE Accepts(r)
    <3>1. PICK j \in Job, t \in SUBSET Playlists :
             /\ job' = [job EXCEPT ![r] = j]
             /\ todo' = [todo EXCEPT ![r] = t]
             /\ \/ j.op = "create channel" /\ t = Ids(j.doc) /\ Goto(r, "lock document")
                \/ j.op \in {"create playlist", "replace channel"} /\ t = Ids(j.doc) /\ Goto(r, "lock playlists")
                \/ j.op \in {"delete playlist", "delete channel"} /\ t = todo[r] /\ Goto(r, "lock document")
      BY <2>2 DEF Accepts
    <3>2. job'[r] = j /\ todo'[r] = t
      BY <3>1 DEF JobsTyped, StepsTyped
    <3>3. j.op \in {"create playlist", "replace channel"} => j.doc \in Sendable /\ Ids(j.doc) # {}
      <4>1. ASSUME j.op \in {"create playlist", "replace channel"} PROVE j.doc \in Sendable
        BY <4>1 DEF Job, CreateJob, Sendable
      <4> QED
        BY <4>1, NamesSome
    <3>4. CASE j.op = "create channel" /\ t = Ids(j.doc) /\ Goto(r, "lock document")
      BY <3>2, <3>4 DEF Goto, StepsTyped, FlowOf, TodoOf, HasDoc, Ingests, Deletes, On
    <3>5. CASE j.op \in {"create playlist", "replace channel"} /\ t = Ids(j.doc) /\ Goto(r, "lock playlists")
      BY <3>2, <3>3, <3>5 DEF Goto, StepsTyped, FlowOf, TodoOf, HasDoc, Ingests, Deletes, On
    <3>6. CASE j.op \in {"delete playlist", "delete channel"} /\ Goto(r, "lock document")
      BY <3>2, <3>6 DEF Goto, StepsTyped, FlowOf, TodoOf, HasDoc, Ingests, Deletes, On
    <3> QED
      BY <3>1, <3>4, <3>5, <3>6
  <2>3. CASE Passes(r)
    <3> USE DEF Goto, StepsTyped, FlowOf, TodoOf, HasDoc, Ingests, Deletes, On
    <3>1. job' = job /\ FlowOf(r) /\ TodoOf(r)
      BY <2>3 DEF Passes, Flow
    <3>2. CASE PassDocument(r)
      <4>1. On(r, "create channel") => Ids(job[r].doc) # {}
        BY JobFacts, NamesSome
      <4> QED
        BY <3>1, <3>2, <4>1 DEF PassDocument
    <3>3. CASE PassLock(r)
      BY <3>1, <3>3 DEF PassLock
    <3>4. CASE PassCheck(r)
      <4>1. Ids(job[r].doc) # {}
        BY <3>1, <3>4, JobFacts, NamesSome DEF PassCheck
      <4> QED
        BY <3>1, <3>4, <4>1 DEF PassCheck
    <3>5. CASE PassInsert(r)
      BY <3>1, <3>5, Onward DEF PassInsert
    <3>6. CASE PassOn(r)
      BY <3>1, <3>6 DEF PassOn
    <3>7. CASE PassRecord(r)
      BY <3>1, <3>7 DEF PassRecord
    <3> QED
      BY <2>3, <3>2, <3>3, <3>4, <3>5, <3>6, <3>7 DEF Passes
  <2> QED
    BY <2>1, <2>2, <2>3 DEF Fails, Commit
<1> QED
  BY <1>1, <1>2 DEF Flow

LEMMA RecordedKept ==
    ASSUME StepsTyped, LocksTyped, JobsTyped, Flow, Recorded, NEW r \in Requests,
           Accepts(r) \/ Fails(r) \/ Passes(r) \/ Commit(r)
    PROVE  Recorded'
<1>1. ASSUME NEW q \in Requests, q # r PROVE RecordedOf(q)'
  <2>1. Still(q) /\ RecordedOf(q)
    BY <1>1, OthersStill DEF Recorded
  <2> QED
    BY <2>1 DEF Still, RecordedOf, Ingests, On
<1>2. RecordedOf(r)'
  <2>1. ASSUME NEW what, Finish(r, what) PROVE RecordedOf(r)'
    <3>1. pc'[r] = "done" /\ recorded'[r] = {}
      BY <2>1, Ended
    <3> QED
      BY <3>1 DEF RecordedOf
  <2>2. CASE Accepts(r)
    <3>1. pc'[r] \in {"lock document", "lock playlists"} /\ pc[r] = "idle" /\ recorded'[r] = recorded[r]
      BY <2>2 DEF Accepts, Goto, StepsTyped
    <3>2. recorded[r] = {}
      BY <3>1 DEF Recorded, RecordedOf
    <3> QED
      BY <3>1, <3>2 DEF RecordedOf
  <2>3. CASE Passes(r)
    <3>1. job' = job /\ RecordedOf(r) /\ (Ingests(r)' <=> Ingests(r)) /\ FlowOf(r)
      BY <2>3 DEF Passes, Recorded, Ingests, On, Flow
    <3> USE DEF Goto, StepsTyped
    <3>2. CASE PassRecord(r)
      <4>1. Ingests(r) /\ Min(Left(r)) \in UrisOf(job[r].doc)
        BY <3>2, LeftFacts DEF PassRecord
      <4>2. recorded'[r] = recorded[r] \cup {Min(Left(r))}
        BY <3>2 DEF PassRecord
      <4>3. \/ pc'[r] = "write"
            \/ pc'[r] = "record" /\ ~(UrisOf(job[r].doc) \subseteq recorded'[r])
        BY <3>2 DEF PassRecord
      <4>4. recorded'[r] \subseteq UrisOf(job[r].doc)
        BY <3>1, <4>1, <4>2 DEF RecordedOf
      <4> QED
        BY <3>1, <4>1, <4>3, <4>4 DEF RecordedOf
    <3>3. CASE PassInsert(r)
      <4>1. recorded'[r] = recorded[r] /\ pc[r] = "insert"
        BY <3>3 DEF PassInsert
      <4>2. recorded'[r] = {}
        BY <3>1, <4>1 DEF RecordedOf
      <4>3. pc'[r] = "record" => UrisOf(job[r].doc) # {}
        BY <3>3, Onward DEF PassInsert
      <4> QED
        BY <3>1, <4>2, <4>3 DEF RecordedOf
    <3>4. CASE PassDocument(r) \/ PassLock(r) \/ PassCheck(r)
      <4>1. recorded'[r] = recorded[r] /\ pc[r] \in {"lock document", "lock playlists", "check"}
            /\ pc'[r] \in {"lock playlists", "delete", "check", "insert"}
        BY <3>4 DEF PassDocument, PassLock, PassCheck
      <4> QED
        BY <3>1, <4>1 DEF RecordedOf
    <3>5. CASE PassOn(r)
      <4>1. recorded'[r] = recorded[r] /\ pc'[r] # "record"
            /\ (pc[r] \in {"record", "write", "members", "commit"} => pc'[r] \in {"members", "commit"})
        BY <3>5 DEF PassOn
      <4> QED
        BY <3>1, <4>1 DEF RecordedOf
    <3> QED
      BY <2>3, <3>2, <3>3, <3>4, <3>5 DEF Passes
  <2> QED
    BY <2>1, <2>2, <2>3 DEF Fails, Commit
<1> QED
  BY <1>1, <1>2 DEF Recorded
LEMMA HoldingKept ==
    ASSUME StepsTyped, LocksTyped, JobsTyped, Flow, Holding, NEW r \in Requests,
           Accepts(r) \/ Fails(r) \/ Passes(r) \/ Commit(r)
    PROVE  Holding'
<1>1. ASSUME NEW q \in Requests, q # r PROVE LocksOf(q)'
  <2>1. Still(q) /\ LocksOf(q) /\ FlowOf(q)
    BY <1>1, OthersStill DEF Holding, Flow
  <2>2. HasDoc(q) => Ids(job[q].doc) \subseteq Playlists
    BY JobFacts, Named
  <2>3. Deletes(q) => job[q].target \in Playlists \cup Channels
    BY JobFacts
  <2>4. (HasDoc(q)' <=> HasDoc(q)) /\ (Deletes(q)' <=> Deletes(q)) /\ job'[q] = job[q] /\ pc'[q] = pc[q] /\ todo'[q] = todo[q]
    BY <2>1 DEF Still, HasDoc, Ingests, Deletes, On
  <2>5. \A d \in Playlists \cup Channels : lock[d] = q => lock'[d] = q
    BY <2>1 DEF Still
  <2>6. pc[q] = "lock playlists" => HasDoc(q)
    BY <2>1 DEF FlowOf
  <2> QED
    BY <2>1, <2>2, <2>3, <2>4, <2>5, <2>6 DEF LocksOf
<1>2. LocksOf(r)'
  <2>1. ASSUME NEW what, Finish(r, what) PROVE LocksOf(r)'
    <3>1. pc'[r] = "done"
      BY <2>1, Ended
    <3> QED
      BY <3>1 DEF LocksOf
  <2>2. CASE Accepts(r)
    <3>1. PICK j \in Job, t \in SUBSET Playlists :
             /\ job' = [job EXCEPT ![r] = j]
             /\ todo' = [todo EXCEPT ![r] = t]
             /\ \/ j.op = "create channel" /\ t = Ids(j.doc) /\ Goto(r, "lock document")
                \/ j.op \in {"create playlist", "replace channel"} /\ t = Ids(j.doc) /\ Goto(r, "lock playlists")
                \/ j.op \in {"delete playlist", "delete channel"} /\ t = todo[r] /\ Goto(r, "lock document")
      BY <2>2 DEF Accepts
    <3>2. job'[r] = j /\ todo'[r] = t
      BY <3>1 DEF JobsTyped, StepsTyped
    <3>3. pc'[r] = "lock document" \/ (pc'[r] = "lock playlists" /\ todo'[r] = Ids(job'[r].doc))
      BY <3>1, <3>2 DEF Goto, StepsTyped
    <3> QED
      BY <3>3 DEF LocksOf
  <2>3. CASE Passes(r)
    <3> USE DEF Goto, StepsTyped, LocksOf
    <3>1. job' = job /\ LocksOf(r) /\ FlowOf(r) /\ TodoOf(r)
      BY <2>3 DEF Passes, Flow, Holding
    <3>2. (HasDoc(r)' <=> HasDoc(r)) /\ (Deletes(r)' <=> Deletes(r)) /\ ~(HasDoc(r) /\ Deletes(r))
      BY <3>1, JobFacts DEF HasDoc, Ingests, Deletes, On
    <3>3. CASE PassDocument(r)
      <4>1. CASE On(r, "create channel")
        BY <3>1, <3>3, <4>1 DEF PassDocument, TodoOf
      <4>2. CASE ~On(r, "create channel")
        <5>1. Deletes(r) /\ job[r].target \in Playlists \cup Channels
          BY <3>1, <3>3, <4>2, JobFacts DEF PassDocument, FlowOf
        <5>2. pc'[r] = "delete" /\ lock'[job[r].target] = r
          BY <3>3, <4>2, <5>1 DEF PassDocument, LocksTyped
        <5> QED
          BY <3>1, <3>2, <5>1, <5>2
      <4> QED
        BY <4>1, <4>2
    <3>4. CASE PassLock(r)
      <4>1. Min(todo[r]) \in Playlists /\ HasDoc(r) /\ Ids(job[r].doc) \subseteq Playlists
        BY <3>4, TodoFacts, Named DEF PassLock
      <4>2. todo'[r] = todo[r] \ {Min(todo[r])}
        BY <3>4 DEF PassLock
      <4>3. \A p \in Ids(job[r].doc) \ todo'[r] : lock'[p] = r
        BY <3>1, <3>4, <4>1, <4>2 DEF PassLock, LocksTyped
      <4>4. (pc'[r] = "check" /\ todo'[r] = {}) \/ pc'[r] = "lock playlists"
        BY <3>4 DEF PassLock
      <4> QED
        BY <3>1, <3>2, <4>1, <4>3, <4>4
    <3>5. CASE PassCheck(r)
      BY <3>1, <3>2, <3>5 DEF PassCheck, FlowOf
    <3>6. CASE PassInsert(r)
      BY <3>1, <3>2, <3>6, Onward DEF PassInsert, FlowOf
    <3>7. CASE PassOn(r)
      BY <3>1, <3>2, <3>7 DEF PassOn, FlowOf, HasDoc, Deletes
    <3>8. CASE PassRecord(r)
      BY <3>1, <3>2, <3>8 DEF PassRecord, FlowOf, HasDoc
    <3> QED
      BY <2>3, <3>3, <3>4, <3>5, <3>6, <3>7, <3>8 DEF Passes
  <2> QED
    BY <2>1, <2>2, <2>3 DEF Fails, Commit
<1> QED
  BY <1>1, <1>2 DEF Holding

-----------------------------------------------------------------------------
(* What a commit touches, it has locked *)

LEMMA CommitTouches ==
    ASSUME StepsTyped, LocksTyped, JobsTyped, Flow, Holding, Unstored, NEW r \in Requests, Commit(r)
    PROVE  \A p \in Playlists : lock[p] # r => playlists'[p] = playlists[p] /\ (p \in tombs' <=> p \in tombs)
<1> SUFFICES ASSUME NEW p \in Playlists, lock[p] # r
             PROVE  playlists'[p] = playlists[p] /\ (p \in tombs' <=> p \in tombs)
  OBVIOUS
<1>1. pc[r] = "commit" /\ LocksOf(r) /\ UnstoredOf(r)
  BY DEF Commit, Holding, Unstored
<1>2. \A ref \in inserted[r] : ref.id # p
  BY <1>1 DEF UnstoredOf, LocksOf
<1>3. Deletes(r) => job[r].target # p
  BY <1>1 DEF LocksOf
<1>4. ~Deleting(r, p)
  BY <1>3 DEF Deleting, Deletes
<1>5. PlaylistAfter(r, p) = playlists[p]
  BY <1>2, <1>4 DEF PlaylistAfter
<1>6. p \in tombs' <=> p \in tombs
  BY <1>3 DEF Commit
<1> QED
  BY <1>5, <1>6 DEF Commit

(* So it leaves alone what another request has locked. *)
LEMMA LockedSafe ==
    ASSUME StepsTyped, LocksTyped, JobsTyped, Flow, Holding, Unstored,
           NEW r \in Requests, NEW q \in Requests, q # r,
           Accepts(r) \/ Fails(r) \/ Passes(r) \/ Commit(r),
           NEW p \in Playlists, lock[p] = q
    PROVE  playlists'[p] = playlists[p] /\ (p \in tombs' <=> p \in tombs)
<1>1. CASE Commit(r)
  BY <1>1, CommitTouches
<1>2. playlists' = playlists /\ tombs' = tombs => playlists'[p] = playlists[p] /\ (p \in tombs' <=> p \in tombs)
  OBVIOUS
<1> QED
  BY <1>1, <1>2 DEF Accepts, Fails, Passes

(* What a request past its locks names is locked, and it is a playlist. *)
LEMMA Locked ==
    ASSUME JobsTyped, Flow, Holding, NEW q \in Requests,
           pc[q] \in {"check", "insert", "record", "write", "members", "commit"}, HasDoc(q)
    PROVE  \A p \in Ids(job[q].doc) : p \in Playlists /\ lock[p] = q
BY JobFacts, Named DEF Holding, LocksOf
LEMMA FreshKept ==
    ASSUME StepsTyped, LocksTyped, JobsTyped, Flow, Holding, Unstored, Fresh, NEW r \in Requests,
           Accepts(r) \/ Fails(r) \/ Passes(r) \/ Commit(r)
    PROVE  Fresh'
<1>1. ASSUME NEW q \in Requests, q # r PROVE FreshOf(q)'
  <2>1. Still(q) /\ FreshOf(q)
    BY <1>1, OthersStill DEF Fresh
  <2>2. (HasDoc(q)' <=> HasDoc(q)) /\ job'[q] = job[q] /\ pc'[q] = pc[q]
    BY <2>1 DEF Still, HasDoc, Ingests, On
  <2>3. ASSUME pc[q] \in {"insert", "record", "write", "members", "commit"}, HasDoc(q), NEW p \in Ids(job[q].doc)
        PROVE  p \notin tombs'
    <3>1. p \in Playlists /\ lock[p] = q
      BY <2>3, Locked
    <3>2. p \notin tombs
      BY <2>1, <2>3 DEF FreshOf
    <3> QED
      BY <1>1, <3>1, <3>2, LockedSafe
  <2> QED
    BY <2>2, <2>3 DEF FreshOf
<1>2. FreshOf(r)'
  <2>1. ASSUME NEW what, Finish(r, what) PROVE FreshOf(r)'
    <3>1. pc'[r] = "done"
      BY <2>1, Ended
    <3> QED
      BY <3>1 DEF FreshOf
  <2>2. CASE Accepts(r)
    <3>1. pc'[r] \in {"lock document", "lock playlists"}
      BY <2>2 DEF Accepts, Goto, StepsTyped
    <3> QED
      BY <3>1 DEF FreshOf
  <2>3. CASE Passes(r)
    <3> USE DEF Goto, StepsTyped, FreshOf, Fresh
    <3>1. tombs' = tombs /\ job'[r] = job[r] /\ (HasDoc(r)' <=> HasDoc(r)) /\ FlowOf(r)
      BY <2>3 DEF Passes, HasDoc, Ingests, On, Flow
    <3>2. CASE PassDocument(r)
      BY <3>2 DEF PassDocument
    <3>3. CASE PassLock(r)
      BY <3>3 DEF PassLock
    <3>4. CASE PassCheck(r)
      BY <3>1, <3>4 DEF PassCheck
    <3>5. CASE PassInsert(r)
      BY <3>1, <3>5 DEF PassInsert
    <3>6. CASE PassOn(r)
      <4>1. pc[r] \in {"delete", "cascade"} => ~HasDoc(r)
        BY <3>1, JobFacts DEF FlowOf, Deletes
      <4> QED
        BY <3>1, <3>6, <4>1 DEF PassOn
    <3>7. CASE PassRecord(r)
      BY <3>1, <3>7 DEF PassRecord
    <3> QED
      BY <2>3, <3>2, <3>3, <3>4, <3>5, <3>6, <3>7 DEF Passes
  <2> QED
    BY <2>1, <2>2, <2>3 DEF Fails, Commit
<1> QED
  BY <1>1, <1>2 DEF Fresh

LEMMA UnstoredKept ==
    ASSUME StepsTyped, LocksTyped, JobsTyped, Flow, Holding, Unstored, NEW r \in Requests,
           Accepts(r) \/ Fails(r) \/ Passes(r) \/ Commit(r)
    PROVE  Unstored'
<1>1. ASSUME NEW q \in Requests, q # r PROVE UnstoredOf(q)'
  <2>1. Still(q) /\ UnstoredOf(q)
    BY <1>1, OthersStill DEF Unstored
  <2>2. (HasDoc(q)' <=> HasDoc(q)) /\ job'[q] = job[q] /\ pc'[q] = pc[q] /\ inserted'[q] = inserted[q]
    BY <2>1 DEF Still, HasDoc, Ingests, On
  <2>3. ASSUME NEW ref \in inserted[q] PROVE playlists'[ref.id] = NoRow
    <3>1. ref.id \in Playlists /\ lock[ref.id] = q /\ playlists[ref.id] = NoRow
      BY <2>1, <2>3, Locked DEF UnstoredOf
    <3> QED
      BY <1>1, <3>1, LockedSafe
  <2> QED
    BY <2>1, <2>2, <2>3 DEF UnstoredOf
<1>2. UnstoredOf(r)'
  <2>1. ASSUME NEW what, Finish(r, what) PROVE UnstoredOf(r)'
    <3>1. inserted'[r] = {}
      BY <2>1, Ended
    <3> QED
      BY <3>1 DEF UnstoredOf
  <2>2. CASE Accepts(r)
    <3>1. inserted'[r] = inserted[r] /\ pc[r] = "idle" /\ UnstoredOf(r)
      BY <2>2 DEF Accepts, Unstored
    <3>2. inserted'[r] = {}
      BY <3>1 DEF UnstoredOf
    <3> QED
      BY <3>2 DEF UnstoredOf
  <2>3. CASE Passes(r)
    <3> USE DEF Goto, StepsTyped, UnstoredOf
    <3>1. playlists' = playlists /\ job'[r] = job[r] /\ (HasDoc(r)' <=> HasDoc(r)) /\ FlowOf(r) /\ UnstoredOf(r)
      BY <2>3 DEF Passes, HasDoc, Ingests, On, Flow, Unstored
    <3>2. CASE PassDocument(r)
      BY <3>1, <3>2 DEF PassDocument
    <3>3. CASE PassLock(r)
      BY <3>1, <3>3 DEF PassLock
    <3>4. CASE PassCheck(r)
      BY <3>1, <3>4 DEF PassCheck
    <3>5. CASE PassInsert(r)
      <4> DEFINE ref == FirstOf(job[r].doc, Min(todo[r]))
      <4>1. HasDoc(r) /\ ref.id = Min(todo[r]) /\ ref.id \in Ids(job[r].doc)
        BY <3>5, TodoFacts DEF PassInsert
      <4>2. Missing(r) => playlists[ref.id] = NoRow
        BY <4>1 DEF Missing
      <4> HIDE DEF ref
      <4>3. inserted'[r] = IF Missing(r) THEN inserted[r] \cup {ref} ELSE inserted[r]
        BY <3>5 DEF PassInsert, ref
      <4>4. pc'[r] \in {"insert", "record", "write", "commit"}
        BY <3>5, Onward DEF PassInsert
      <4> QED
        BY <3>1, <4>1, <4>2, <4>3, <4>4
    <3>6. CASE PassOn(r)
      BY <3>1, <3>6 DEF PassOn
    <3>7. CASE PassRecord(r)
      BY <3>1, <3>7 DEF PassRecord
    <3> QED
      BY <2>3, <3>2, <3>3, <3>4, <3>5, <3>6, <3>7 DEF Passes
  <2> QED
    BY <2>1, <2>2, <2>3 DEF Fails, Commit
<1> QED
  BY <1>1, <1>2 DEF Unstored

LEMMA LinkedKept ==
    ASSUME StepsTyped, LocksTyped, JobsTyped, Flow, Holding, Unstored, Linked, NEW r \in Requests,
           Accepts(r) \/ Fails(r) \/ Passes(r) \/ Commit(r)
    PROVE  Linked'
<1>1. ASSUME NEW q \in Requests, q # r PROVE LinkedOf(q)'
  <2>1. Still(q) /\ LinkedOf(q) /\ FlowOf(q)
    BY <1>1, OthersStill DEF Linked, Flow
  <2>2. job'[q] = job[q] /\ pc'[q] = pc[q] /\ inserted'[q] = inserted[q] /\ todo'[q] = todo[q]
    BY <2>1 DEF Still
  <2>4. (HasDoc(q)' <=> HasDoc(q)) /\ (pc[q] = "insert" => HasDoc(q))
    BY <2>1, <2>2 DEF HasDoc, Ingests, On, FlowOf
  <2>3. ASSUME pc[q] \in {"insert", "record", "write", "members", "commit"}, HasDoc(q),
               NEW p \in Ids(job[q].doc), Met(q, p)
        PROVE  Met(q, p)'
    <3>2. p \in Playlists /\ lock[p] = q
      BY <2>3, Locked
    <3>3. playlists'[p] = playlists[p]
      BY <1>1, <3>2, LockedSafe
    <3> QED
      BY <2>2, <2>3, <3>3 DEF Met
  <2> QED
    BY <2>1, <2>2, <2>3, <2>4 DEF LinkedOf
<1>2. LinkedOf(r)'
  <2>1. ASSUME NEW what, Finish(r, what) PROVE LinkedOf(r)'
    <3>1. pc'[r] = "done"
      BY <2>1, Ended
    <3> QED
      BY <3>1 DEF LinkedOf
  <2>2. CASE Accepts(r)
    <3>1. pc'[r] \in {"lock document", "lock playlists"}
      BY <2>2 DEF Accepts, Goto, StepsTyped
    <3> QED
      BY <3>1 DEF LinkedOf
  <2>3. CASE Passes(r)
    <3> USE DEF Goto, StepsTyped, LinkedOf
    <3>1. playlists' = playlists /\ job'[r] = job[r] /\ LinkedOf(r) /\ FlowOf(r) /\ (HasDoc(r)' <=> HasDoc(r))
      BY <2>3 DEF Passes, Linked, Flow, HasDoc, Ingests, On
    <3>2. CASE PassDocument(r)
      BY <3>2 DEF PassDocument
    <3>3. CASE PassLock(r)
      BY <3>3 DEF PassLock
    <3>4. CASE PassCheck(r)
      <4>1. pc'[r] = "insert" /\ todo'[r] = Ids(job'[r].doc)
        BY <3>1, <3>4 DEF PassCheck
      <4> QED
        BY <4>1
    <3>5. CASE PassInsert(r)
      <4>0. PICK p, ref : p = Min(todo[r]) /\ ref = FirstOf(job[r].doc, Min(todo[r]))
        OBVIOUS
      <4>1. ref.id = p
        BY <3>5, <4>0, TodoFacts DEF PassInsert
      <4>2. Missing(r) <=> playlists[p] = NoRow
        BY <4>0 DEF Missing
      <4>3. inserted'[r] = IF Missing(r) THEN inserted[r] \cup {ref} ELSE inserted[r]
        BY <3>5, <4>0 DEF PassInsert
      <4>4. Met(r, p)'
        <5>1. CASE Missing(r)
          <6>1. ref \in inserted'[r]
            BY <4>3, <5>1
          <6> QED
            BY <4>1, <6>1 DEF Met
        <5>2. CASE ~Missing(r)
          BY <3>1, <4>2, <5>2 DEF Met
        <5> QED
          BY <5>1, <5>2
      <4>5. \A x : Met(r, x) => Met(r, x)'
        BY <3>1, <4>3 DEF Met
      <4>6. todo'[r] = todo[r] \ {p} /\ pc[r] = "insert"
        BY <3>5, <4>0 DEF PassInsert
      <4>7. ASSUME NEW x \in Ids(job[r].doc) \ todo'[r] PROVE Met(r, x)'
        <5>1. CASE x = p
          BY <4>4, <5>1 DEF Met
        <5>2. CASE x # p
          <6>1. Met(r, x)
            BY <3>1, <4>6, <5>2
          <6> QED
            BY <4>5, <6>1
        <5> QED
          BY <5>1, <5>2
      <4>8. pc'[r] = "insert" \/ todo'[r] = {}
        BY <3>5 DEF PassInsert
      <4>9. pc'[r] \in {"insert", "record", "write", "commit"}
        BY <3>5, Onward DEF PassInsert
      <4> QED
        BY <3>1, <4>7, <4>8, <4>9
    <3>6. CASE PassOn(r) \/ PassRecord(r)
      <4>1. inserted'[r] = inserted[r]
        BY <3>6 DEF PassOn, PassRecord
      <4>2. \A x : Met(r, x) => Met(r, x)'
        BY <3>1, <4>1 DEF Met
      <4>3. pc'[r] # "insert" /\ (pc[r] \in {"record", "write", "members"} \/ pc[r] \in {"delete", "cascade"})
        BY <3>6 DEF PassOn, PassRecord
      <4>4. pc[r] \in {"delete", "cascade"} => ~HasDoc(r)
        BY <3>1, JobFacts DEF FlowOf, Deletes
      <4> QED
        BY <3>1, <4>2, <4>3, <4>4
    <3> QED
      BY <2>3, <3>2, <3>3, <3>4, <3>5, <3>6 DEF Passes
  <2> QED
    BY <2>1, <2>2, <2>3 DEF Fails, Commit
<1> QED
  BY <1>1, <1>2 DEF Linked
(* Only a commit changes the tables. *)
LEMMA TablesStill ==
    ASSUME NEW r, Accepts(r) \/ Fails(r) \/ Passes(r)
    PROVE  playlists' = playlists /\ channels' = channels /\ members' = members /\ tombs' = tombs
           /\ sources' = sources
BY DEF Accepts, Fails, Passes

(* A playlist that is in leaves only with a tombstone, and one a document names is in
   when the document is. *)
LEMMA CommitKeeps ==
    ASSUME TablesTyped, StepsTyped, JobsTyped, Linked, NEW r \in Requests, Commit(r), NEW p \in Playlists
    PROVE  /\ playlists[p] # NoRow \/ p \in tombs => playlists'[p] # NoRow \/ p \in tombs'
           /\ HasDoc(r) /\ p \in Ids(job[r].doc) => playlists'[p] # NoRow
           /\ playlists'[p] # NoRow => \/ playlists'[p].by = r /\ inserted[r] # {}
                                       \/ playlists'[p] = playlists[p]
<1>1. playlists'[p] = PlaylistAfter(r, p) /\ pc[r] = "commit" /\ tombs \subseteq tombs'
  BY DEF Commit
<1>2. CASE \E ref \in inserted[r] : ref.id = p
  <2>1. (CHOOSE ref \in inserted[r] : ref.id = p) \in References
    BY <1>2 DEF StepsTyped
  <2>2. (CHOOSE ref \in inserted[r] : ref.id = p).slug \in Slugs
    BY <2>1, RequestsAssumption
  <2>3. playlists'[p] = [slug |-> (CHOOSE ref \in inserted[r] : ref.id = p).slug, by |-> r]
    BY <1>1, <1>2 DEF PlaylistAfter
  <2>4. playlists'[p] \in [slug : Slugs, by : Requests] /\ playlists'[p].by = r
    BY <2>2, <2>3
  <2> QED
    BY <1>2, <2>4, RequestsAssumption
<1>3. CASE ~(\E ref \in inserted[r] : ref.id = p) /\ Deleting(r, p)
  <2>1. Deletes(r) /\ ~HasDoc(r) /\ job[r].target = p
    BY <1>3, JobFacts DEF Deleting, Deletes
  <2>2. p \in tombs'
    BY <2>1 DEF Commit
  <2>3. playlists'[p] = NoRow
    BY <1>1, <1>3 DEF PlaylistAfter
  <2> QED
    BY <2>1, <2>2, <2>3
<1>4. CASE ~(\E ref \in inserted[r] : ref.id = p) /\ ~Deleting(r, p)
  <2>1. playlists'[p] = playlists[p]
    BY <1>1, <1>4 DEF PlaylistAfter
  <2>2. HasDoc(r) /\ p \in Ids(job[r].doc) => playlists[p] # NoRow
    BY <1>1, <1>4 DEF Linked, LinkedOf, Met
  <2> QED
    BY <1>1, <2>1, <2>2
<1> QED
  BY <1>2, <1>3, <1>4

LEMMA StorersKept ==
    ASSUME TablesTyped, StepsTyped, LocksTyped, JobsTyped, Unstored, Linked, Storers, NEW r \in Requests,
           Accepts(r) \/ Fails(r) \/ Passes(r) \/ Commit(r)
    PROVE  Storers'
<1>1. ASSUME NEW q \in Requests, pc[q] = "done", HasDoc(q) PROVE pc'[q] = "done" /\ HasDoc(q)'
  <2>1. pc[r] # "done"
    BY DEF Accepts, Fails, Passes, Commit, PassDocument, PassLock, PassCheck, PassInsert, PassRecord, PassOn
  <2>2. Still(q)
    BY <1>1, <2>1, OthersStill
  <2> QED
    BY <1>1, <2>2 DEF Still, HasDoc, Ingests, On
<1>2. ASSUME NEW p \in Playlists, playlists'[p] # NoRow
      PROVE  \E b \in Requests : b = playlists'[p].by /\ pc'[b] = "done" /\ HasDoc(b)'
  <2>1. CASE playlists'[p] = playlists[p]
    <3>1. PICK b \in Requests : b = playlists[p].by
      BY <1>2, <2>1 DEF TablesTyped, PlaylistsTyped
    <3>2. pc[b] = "done" /\ HasDoc(b)
      BY <1>2, <2>1, <3>1 DEF Storers
    <3>3. pc'[b] = "done" /\ HasDoc(b)'
      BY <1>1, <3>2
    <3> QED
      BY <2>1, <3>1, <3>3
  <2>2. CASE Commit(r) /\ playlists'[p].by = r /\ inserted[r] # {}
    <3>1. HasDoc(r)
      BY <2>2 DEF Unstored, UnstoredOf
    <3>2. job' = job /\ \E what : Finish(r, what)
      BY <2>2 DEF Commit
    <3>3. pc'[r] = "done"
      BY <3>2, Ended
    <3>4. HasDoc(r)'
      BY <3>1, <3>2 DEF HasDoc, Ingests, On
    <3> QED
      BY <2>2, <3>3, <3>4
  <2> QED
    BY <1>2, <2>1, <2>2, TablesStill, CommitKeeps
<1> QED
  BY <1>2 DEF Storers, HasDoc, Ingests, On

LEMMA RefusedStoresNothingKept ==
    ASSUME TablesTyped, StepsTyped, LocksTyped, JobsTyped, Unstored, Linked, Storers, RefusedStoresNothing,
           NEW r \in Requests, Accepts(r) \/ Fails(r) \/ Passes(r) \/ Commit(r)
    PROVE  RefusedStoresNothing'
<1> SUFFICES ASSUME NEW p \in Playlists, playlists'[p] # NoRow
             PROVE  /\ reply'[playlists'[p].by] \in {"ok", "error"}
                    /\ \A q \in Ids(job'[playlists'[p].by].doc) : playlists'[q] # NoRow \/ q \in tombs'
  BY DEF RefusedStoresNothing
<1>1. CASE playlists'[p] = playlists[p]
  <2>1. PICK b \in Requests : b = playlists[p].by
    BY <1>1 DEF TablesTyped, PlaylistsTyped
  <2>2. pc[b] = "done" /\ HasDoc(b)
    BY <1>1, <2>1 DEF Storers
  <2>3. pc[r] # "done"
    BY DEF Accepts, Fails, Passes, Commit, PassDocument, PassLock, PassCheck, PassInsert, PassRecord, PassOn
  <2>4. reply'[b] = reply[b] /\ job'[b] = job[b]
    BY <2>2, <2>3, OthersStill DEF Still
  <2>5. reply[b] \in {"ok", "error"} /\ \A q \in Ids(job[b].doc) : playlists[q] # NoRow \/ q \in tombs
    BY <1>1, <2>1 DEF RefusedStoresNothing
  <2>6. ASSUME NEW q \in Ids(job[b].doc) PROVE playlists'[q] # NoRow \/ q \in tombs'
    <3>1. q \in Playlists
      BY <2>2, JobFacts, Named
    <3>2. CASE Commit(r)
      BY <2>5, <3>1, <3>2, CommitKeeps
    <3>3. CASE playlists' = playlists /\ tombs' = tombs
      BY <2>5, <3>3
    <3> QED
      BY <3>2, <3>3, TablesStill
  <2> QED
    BY <1>1, <2>1, <2>4, <2>5, <2>6
<1>2. CASE Commit(r) /\ playlists'[p].by = r /\ inserted[r] # {}
  <2>1. HasDoc(r) /\ job' = job
    BY <1>2 DEF Unstored, UnstoredOf, Commit
  <2>2. PICK what \in {"ok", "error"} : Finish(r, what)
    BY <1>2 DEF Commit
  <2>3. reply'[r] \in {"ok", "error"}
    BY <2>2, Ended
  <2>4. ASSUME NEW q \in Ids(job[r].doc) PROVE playlists'[q] # NoRow
    <3>1. q \in Playlists
      BY <2>1, JobFacts, Named
    <3> QED
      BY <1>2, <2>1, <3>1, CommitKeeps
  <2> QED
    BY <1>2, <2>1, <2>3, <2>4
<1> QED
  BY <1>1, <1>2, TablesStill, CommitKeeps

(* A URI never names a playlist that is gone. *)
SourcesHold == \A u \in Uris : sources[u] # NoRow => playlists[sources[u]] # NoRow

LEMMA SourcesHoldKept ==
    ASSUME TablesTyped, StepsTyped, JobsTyped, Recorded, Linked, SourcesHold, NEW r \in Requests,
           Accepts(r) \/ Fails(r) \/ Passes(r) \/ Commit(r)
    PROVE  SourcesHold'
<1>1. CASE Commit(r)
  <2> SUFFICES ASSUME NEW u \in Uris, sources'[u] # NoRow PROVE playlists'[sources'[u]] # NoRow
    BY DEF SourcesHold
  <2>1. sources'[u] = SourceAfter(r, u)
    BY <1>1 DEF Commit
  <2>2. CASE u \in recorded[r]
    <3>1. sources'[u] = SourceOf(job[r].doc, u)
      BY <2>1, <2>2 DEF SourceAfter
    <3>2. HasDoc(r) /\ sources'[u] \in Ids(job[r].doc) /\ sources'[u] \in Playlists
      BY <2>2, <3>1, NamedSource
    <3> QED
      BY <1>1, <3>2, CommitKeeps
  <2>3. CASE u \notin recorded[r] /\ On(r, "delete playlist") /\ sources[u] = job[r].target
    BY <2>1, <2>3 DEF SourceAfter
  <2>4. CASE u \notin recorded[r] /\ ~(On(r, "delete playlist") /\ sources[u] = job[r].target)
    <3>1. sources'[u] = sources[u]
      BY <2>1, <2>4 DEF SourceAfter
    <3>2. sources[u] \in Playlists /\ playlists[sources[u]] # NoRow
      BY <3>1 DEF SourcesHold, TablesTyped, SourcesTyped
    <3>3. ~Deleting(r, sources[u])
      BY <2>4 DEF Deleting
    <3>4. PlaylistAfter(r, sources[u]) # NoRow
      <4>1. CASE \E ref \in inserted[r] : ref.id = sources[u]
        <5>1. PlaylistAfter(r, sources[u]) = [slug |-> (CHOOSE ref \in inserted[r] : ref.id = sources[u]).slug, by |-> r]
          BY <4>1 DEF PlaylistAfter
        <5>2. (CHOOSE ref \in inserted[r] : ref.id = sources[u]) \in References
          BY <4>1 DEF StepsTyped
        <5>3. (CHOOSE ref \in inserted[r] : ref.id = sources[u]).slug \in Slugs
          BY <5>2, RequestsAssumption
        <5> QED
          BY <5>1, <5>3, RequestsAssumption
      <4>2. CASE ~ \E ref \in inserted[r] : ref.id = sources[u]
        BY <3>2, <3>3, <4>2 DEF PlaylistAfter
      <4> QED
        BY <4>1, <4>2
    <3> QED
      BY <1>1, <3>1, <3>2, <3>4 DEF Commit
  <2> QED
    BY <2>2, <2>3, <2>4
<1>2. CASE playlists' = playlists /\ sources' = sources
  BY <1>2 DEF SourcesHold
<1> QED
  BY <1>1, <1>2, TablesStill

(* The membership rows a commit leaves are those of the document it leaves. *)
LEMMA MembersFollowDocumentKept ==
    ASSUME TablesTyped, StepsTyped, JobsTyped, Flow, Fresh, MembersFollowDocument, NEW r \in Requests,
           Accepts(r) \/ Fails(r) \/ Passes(r) \/ Commit(r)
    PROVE  MembersFollowDocument'
<1>1. CASE Commit(r)
  <2> SUFFICES ASSUME NEW c \in Channels
               PROVE  members'[c] = IF channels'[c] = NoRow THEN {}
                                    ELSE {m \in Rows(channels'[c].doc) : m[2] \notin tombs'}
    BY DEF MembersFollowDocument
  <2>1. /\ members'[c] = MembersAfter(r, c) /\ channels'[c] = ChannelAfter(r, c)
        /\ tombs' = IF Deletes(r) THEN tombs \cup {job[r].target} ELSE tombs
        /\ pc[r] = "commit"
    BY <1>1 DEF Commit
  <2>2. members[c] = IF channels[c] = NoRow THEN {} ELSE {m \in Rows(channels[c].doc) : m[2] \notin tombs}
    BY DEF MembersFollowDocument
  <2>3. channels[c] # NoRow => \A m \in Rows(channels[c].doc) : m[2] \in Playlists
    <3>1. channels[c] # NoRow => channels[c].doc \in Sendable
      BY DEF TablesTyped, ChannelsTyped, ChannelRow, Sendable
    <3> QED
      BY <3>1, RowsTyped, Named
  <2>4. CASE On(r, "delete playlist")
    <3>1. ~Ingests(r) /\ ~On(r, "delete channel") /\ Deletes(r)
      BY <2>4 DEF Ingests, On, Deletes
    <3>2. members'[c] = {m \in members[c] : m[2] # job[r].target}
      BY <2>1, <2>4, <3>1 DEF MembersAfter
    <3>3. channels'[c] = channels[c] /\ tombs' = tombs \cup {job[r].target}
      BY <2>1, <3>1 DEF ChannelAfter
    <3> QED
      BY <2>2, <3>2, <3>3
  <2>5. CASE Ingests(r) /\ job[r].target = c
    <3>1. Writing(r, c) /\ ~On(r, "delete playlist") /\ ~On(r, "delete channel") /\ ~Deletes(r)
      BY <2>1, <2>5 DEF Writing, Ingests, On, Deletes
    <3>2. members'[c] = Rows(job[r].doc) /\ tombs' = tombs
      BY <2>1, <2>5, <3>1 DEF MembersAfter
    <3>3. job[r].doc \in Documents /\ HasDoc(r)
      BY <2>5, JobFacts DEF HasDoc
    <3>4. channels'[c] = [rev |-> IF channels[c] = NoRow THEN 1 ELSE channels[c].rev + 1, doc |-> job[r].doc]
      BY <2>1, <2>5, <3>1 DEF ChannelAfter
    <3>5. channels'[c] # NoRow /\ channels'[c].doc = job[r].doc
      <4>1. (IF channels[c] = NoRow THEN 1 ELSE channels[c].rev + 1) \in Nat
        BY DEF TablesTyped, ChannelsTyped, ChannelRow
      <4>2. channels'[c] \in [rev : Nat, doc : Documents]
        BY <3>3, <3>4, <4>1
      <4> QED
        BY <3>4, <4>2, RequestsAssumption
    <3>6. \A m \in Rows(job[r].doc) : m[2] \notin tombs
      <4>1. Ids(job[r].doc) \cap tombs = {}
        BY <2>1, <3>3 DEF Fresh, FreshOf
      <4>2. \A m \in Rows(job[r].doc) : m[2] \in Ids(job[r].doc)
        BY <3>3, RowsTyped DEF Sendable
      <4> QED
        BY <4>1, <4>2
    <3> QED
      BY <3>2, <3>5, <3>6
  <2>6. CASE On(r, "delete channel") /\ job[r].target = c
    <3>1. Writing(r, c) /\ ~On(r, "delete playlist") /\ ~Ingests(r)
      BY <2>1, <2>6 DEF Writing, Ingests, On
    <3>2. members'[c] = {} /\ channels'[c] = NoRow
      BY <2>1, <2>6, <3>1 DEF MembersAfter, ChannelAfter
    <3> QED
      BY <3>2
  <2>7. CASE ~On(r, "delete playlist") /\ ~((Ingests(r) \/ On(r, "delete channel")) /\ job[r].target = c)
    <3>1. ~Writing(r, c)
      BY <2>7 DEF Writing
    <3>2. members'[c] = members[c] /\ channels'[c] = channels[c]
      BY <2>1, <2>7, <3>1 DEF MembersAfter, ChannelAfter
    <3>3. \A p \in Playlists : p \in tombs' <=> p \in tombs
      <4>1. Deletes(r) => job[r].target \notin Playlists
        BY <2>7, JobFacts, RequestsAssumption DEF Deletes
      <4> QED
        BY <2>1, <4>1
    <3> QED
      BY <2>2, <2>3, <3>2, <3>3
  <2> QED
    BY <2>4, <2>5, <2>6, <2>7
<1>2. CASE UNCHANGED <<channels, members, tombs>>
  BY <1>2 DEF MembersFollowDocument
<1> QED
  BY <1>1, <1>2, TablesStill
-----------------------------------------------------------------------------
(* Who waits for whom *)

(* A lock is held by a request that is past its first lock.  One that still
   locks playlists has the container's, or one of those it is through with. *)
OwnerOf(q, d) ==
    /\ pc[q] \notin {"idle", "lock document", "done"}
    /\ pc[q] = "lock playlists" => d \in Channels \/ d \in Ids(job[q].doc) \ todo[q]

Owners == \A q \in Requests, d \in Playlists \cup Channels : lock[d] = q => OwnerOf(q, d)

(* The locks a request is through with are lesser than those to come. *)
OrderOf(r) ==
    pc[r] = "lock playlists" => \A p \in Ids(job[r].doc) \ todo[r], n \in todo[r] : p < n

InOrder == \A r \in Requests : OrderOf(r)

(* Nobody but the request that moves takes a lock. *)
LEMMA OthersTakeNothing ==
    ASSUME LocksTyped, NEW r \in Requests, NEW q \in Requests, q # r,
           NEW d \in Playlists \cup Channels, lock'[d] = q,
           Accepts(r) \/ Fails(r) \/ Passes(r) \/ Commit(r)
    PROVE  lock[d] = q
<1> USE NobodyFacts
<1>1. ASSUME NEW what, Finish(r, what) PROVE lock[d] = q
  BY <1>1 DEF Finish, LocksTyped
<1>2. CASE Passes(r)
  <2>1. lock' = lock \/ \E e : lock' = [lock EXCEPT ![e] = r]
    BY <1>2 DEF Passes, PassDocument, PassLock, PassCheck, PassInsert, PassRecord, PassOn
  <2> QED
    BY <2>1 DEF LocksTyped
<1>3. CASE Accepts(r)
  BY <1>3 DEF Accepts
<1> QED
  BY <1>1, <1>2, <1>3 DEF Fails, Commit

LEMMA OwnersKept ==
    ASSUME StepsTyped, LocksTyped, JobsTyped, Flow, Owners, NEW r \in Requests,
           Accepts(r) \/ Fails(r) \/ Passes(r) \/ Commit(r)
    PROVE  Owners'
<1> SUFFICES ASSUME NEW q \in Requests, NEW d \in Playlists \cup Channels, lock'[d] = q
             PROVE  OwnerOf(q, d)'
  BY DEF Owners
<1>1. CASE q # r
  <2>1. lock[d] = q
    BY <1>1, OthersTakeNothing
  <2>2. OwnerOf(q, d) /\ Still(q)
    BY <1>1, <2>1, OthersStill DEF Owners
  <2> QED
    BY <2>2 DEF OwnerOf, Still
<1>2. CASE q = r
  <2>1. ASSUME NEW what, Finish(r, what) PROVE FALSE
    <3>1. lock'[d] = IF lock[d] = r THEN Nobody ELSE lock[d]
      BY <2>1, Ended
    <3> QED
      BY <1>2, <3>1, NobodyFacts
  <2>2. CASE Accepts(r)
    BY <1>2, <2>2 DEF Accepts, Owners, OwnerOf
  <2>3. CASE Passes(r)
    <3> USE DEF Goto, StepsTyped
    <3>1. job' = job /\ (lock[d] = r => OwnerOf(r, d))
      BY <2>3 DEF Passes, Owners
    <3>2. CASE PassDocument(r)
      <4>1. d = job[r].target
        BY <1>2, <3>1, <3>2 DEF PassDocument, OwnerOf, LocksTyped
      <4>2. CASE On(r, "create channel")
        <5>1. d \in Channels /\ pc'[r] = "lock playlists"
          BY <3>2, <4>1, <4>2, JobFacts DEF PassDocument, Ingests
        <5> QED
          BY <1>2, <5>1 DEF OwnerOf
      <4>3. CASE ~On(r, "create channel")
        <5>1. pc'[r] = "delete"
          BY <3>2, <4>3 DEF PassDocument
        <5> QED
          BY <1>2, <5>1 DEF OwnerOf
      <4> QED
        BY <4>2, <4>3
    <3>3. CASE PassLock(r)
      <4>1. Min(todo[r]) \in todo[r] /\ Min(todo[r]) \in Ids(job[r].doc)
        BY <3>3, TodoFacts DEF PassLock
      <4>2. todo'[r] = todo[r] \ {Min(todo[r])} /\ pc'[r] \in {"check", "lock playlists"}
        BY <3>3 DEF PassLock
      <4>3. d = Min(todo[r]) \/ lock[d] = r
        BY <1>2, <3>3 DEF PassLock, LocksTyped
      <4>4. pc[r] = "lock playlists"
        BY <3>3 DEF PassLock
      <4>5. d \in Channels \/ d \in Ids(job'[r].doc) \ todo'[r]
        BY <3>1, <4>1, <4>2, <4>3, <4>4 DEF OwnerOf
      <4> QED
        BY <1>2, <4>2, <4>5 DEF OwnerOf
    <3>4. CASE PassCheck(r)
      BY <1>2, <3>4 DEF PassCheck, OwnerOf
    <3>5. CASE PassInsert(r)
      BY <1>2, <3>5, Onward DEF PassInsert, OwnerOf
    <3>6. CASE PassOn(r) \/ PassRecord(r)
      <4>1. pc'[r] \in {"record", "write", "members", "cascade", "commit"}
        BY <3>6 DEF PassOn, PassRecord
      <4> QED
        BY <1>2, <4>1 DEF OwnerOf
    <3> QED
      BY <2>3, <3>2, <3>3, <3>4, <3>5, <3>6 DEF Passes
  <2> QED
    BY <2>1, <2>2, <2>3 DEF Fails, Commit
<1> QED
  BY <1>1, <1>2

LEMMA InOrderKept ==
    ASSUME StepsTyped, LocksTyped, JobsTyped, Flow, InOrder, NEW r \in Requests,
           Accepts(r) \/ Fails(r) \/ Passes(r) \/ Commit(r)
    PROVE  InOrder'
<1>1. ASSUME NEW q \in Requests, q # r PROVE OrderOf(q)'
  <2>1. Still(q) /\ OrderOf(q)
    BY <1>1, OthersStill DEF InOrder
  <2> QED
    BY <2>1 DEF Still, OrderOf
<1>2. OrderOf(r)'
  <2>1. ASSUME NEW what, Finish(r, what) PROVE OrderOf(r)'
    <3>1. pc'[r] = "done"
      BY <2>1, Ended
    <3> QED
      BY <3>1 DEF OrderOf
  <2>2. CASE Accepts(r)
    <3>1. PICK j \in Job, t \in SUBSET Playlists :
             /\ job' = [job EXCEPT ![r] = j]
             /\ todo' = [todo EXCEPT ![r] = t]
             /\ \/ j.op = "create channel" /\ t = Ids(j.doc) /\ Goto(r, "lock document")
                \/ j.op \in {"create playlist", "replace channel"} /\ t = Ids(j.doc) /\ Goto(r, "lock playlists")
                \/ j.op \in {"delete playlist", "delete channel"} /\ t = todo[r] /\ Goto(r, "lock document")
      BY <2>2 DEF Accepts
    <3>2. job'[r] = j /\ todo'[r] = t
      BY <3>1 DEF JobsTyped, StepsTyped
    <3>3. pc'[r] = "lock document" \/ (pc'[r] = "lock playlists" /\ todo'[r] = Ids(job'[r].doc))
      BY <3>1, <3>2 DEF Goto, StepsTyped
    <3> QED
      BY <3>3 DEF OrderOf
  <2>3. CASE Passes(r)
    <3> USE DEF Goto, StepsTyped
    <3>1. job' = job /\ OrderOf(r) /\ FlowOf(r) /\ TodoOf(r)
      BY <2>3 DEF Passes, Flow, InOrder
    <3>2. CASE PassDocument(r)
      BY <3>1, <3>2 DEF PassDocument, TodoOf, OrderOf
    <3>3. CASE PassLock(r)
      <4> DEFINE m == Min(todo[r])
      <4>1. todo[r] \in SUBSET Nat /\ todo[r] # {}
        BY <3>1, <3>3, RequestsAssumption DEF PassLock, TodoOf
      <4>2. m \in todo[r] /\ \A n \in todo[r] : m <= n
        BY <4>1, Least
      <4>3. todo'[r] = todo[r] \ {m} /\ pc[r] = "lock playlists"
        BY <3>3 DEF PassLock
      <4> HIDE DEF m
      <4>4. ASSUME NEW p \in Ids(job[r].doc) \ todo'[r], NEW n \in todo'[r] PROVE p < n
        <5>1. n \in todo[r] /\ n # m /\ n \in Nat /\ m \in Nat /\ m <= n
          BY <4>1, <4>2, <4>3, <4>4
        <5>2. CASE p = m
          BY <5>1, <5>2
        <5>3. CASE p # m
          BY <3>1, <4>3, <4>4, <5>1, <5>3 DEF OrderOf
        <5> QED
          BY <5>2, <5>3
      <4> QED
        BY <3>1, <4>4 DEF OrderOf
    <3>4. CASE PassCheck(r)
      BY <3>4 DEF PassCheck, OrderOf
    <3>5. CASE PassInsert(r)
      BY <3>5, Onward DEF PassInsert, OrderOf
    <3>6. CASE PassOn(r) \/ PassRecord(r)
      BY <3>6 DEF PassOn, PassRecord, OrderOf
    <3> QED
      BY <2>3, <3>2, <3>3, <3>4, <3>5, <3>6 DEF Passes
  <2> QED
    BY <2>1, <2>2, <2>3 DEF Fails, Commit
<1> QED
  BY <1>1, <1>2 DEF InOrder

(* A finite set of requests has one whose number is not exceeded. *)
LEMMA Greatest ==
    ASSUME NEW P, IsFiniteSet(P), P # {}, NEW f \in [P -> Nat]
    PROVE  \E r \in P : \A q \in P : f[q] <= f[r]
<1> DEFINE Above(r) == {q \in P : f[r] < f[q]}
           C == {Cardinality(Above(r)) : r \in P}
<1>1. \A r \in P : IsFiniteSet(Above(r)) /\ Cardinality(Above(r)) \in Nat
  BY FS_Subset, FS_CardinalityType
<1>2. C \in SUBSET Nat /\ C # {}
  BY <1>1
<1>3. PICK r \in P : \A q \in P : Cardinality(Above(r)) <= Cardinality(Above(q))
  <2>1. Min(C) \in C /\ \A n \in C : Min(C) <= n
    BY <1>2, Least
  <2>2. PICK r \in P : Min(C) = Cardinality(Above(r))
    BY <2>1, Zenon
  <2>3. \A q \in P : Cardinality(Above(q)) \in C
    BY Zenon
  <2> HIDE DEF C, Above
  <2> QED
    BY <2>1, <2>2, <2>3
<1>4. ASSUME NEW q \in P, ~(f[q] <= f[r]) PROVE FALSE
  <2>1. f[r] < f[q] /\ \A s \in P : f[s] \in Nat
    BY <1>4
  <2>2. Above(q) \in SUBSET Above(r) /\ q \in Above(r) /\ q \notin Above(q)
    BY <2>1
  <2>3. Cardinality(Above(q)) <= Cardinality(Above(r))
        /\ (Cardinality(Above(r)) = Cardinality(Above(q)) => Above(r) = Above(q))
    BY <1>1, <2>2, FS_Subset
  <2>4. Cardinality(Above(r)) <= Cardinality(Above(q))
    BY <1>3
  <2>5. Cardinality(Above(r)) = Cardinality(Above(q))
    <3>1. Cardinality(Above(r)) \in Nat /\ Cardinality(Above(q)) \in Nat
      BY <1>1
    <3> HIDE DEF Above
    <3> QED
      BY <2>3, <2>4, <3>1
  <2> QED
    BY <2>2, <2>3, <2>5
<1> QED
  BY <1>4

AtLock(r) == pc[r] \in {"lock document", "lock playlists"}

(* Who is waited for by a statement that needs a row waits for no lock. *)
LEMMA RowsAfterLocks ==
    ASSUME StepsTyped, Unstored, Recorded, NEW q \in Requests, NEW r \in Requests, Blocks(q, r), ~AtLock(r)
    PROVE  ~AtLock(q)
<1>1. ASSUME AtLock(q) PROVE inserted[q] = {} /\ recorded[q] = {}
  BY <1>1 DEF AtLock, Unstored, UnstoredOf, Recorded, RecordedOf
<1>2. ASSUME AtLock(q) PROVE FALSE
  <2>1. \A c : ~Writing(q, c) /\ ~Clearing(q, c) /\ ~Linking(q, c) /\ ~Deleting(q, c)
    BY <1>2 DEF AtLock, Writing, Clearing, Linking, Deleting
  <2>2. \A v : ~HoldsSlug(q, v)
    BY <1>1, <1>2, <2>1 DEF HoldsSlug
  <2>3. \A u : ~HoldsSource(q, u)
    BY <1>1, <1>2 DEF HoldsSource, AtLock
  <2> QED
    BY <1>1, <1>2, <2>1, <2>2, <2>3 DEF Blocks, AtLock
<1> QED
  BY <1>2

(* Without slugs, sources and membership rows, all of a deadlock waits for locks: who
   holds the row of a channel, and nothing else, is about to commit. *)
LEMMA DeadlockAtLocks ==
    ASSUME NEW S \in SUBSET Requests, Deadlocked(S),
           \A r \in S : AtLock(r) \/ pc[r] = "write", NEW r \in S
    PROVE  AtLock(r)
<1>1. PICK q \in S : Blocks(q, r)
  BY DEF Deadlocked, Holders
<1>2. pc[q] \notin {"members", "commit"}
  BY DEF AtLock
<1>3. pc[r] # "write"
  BY <1>1, <1>2 DEF Blocks, Writing
<1> QED
  BY <1>3

LEMMA NoCircleOfLocks ==
    ASSUME StepsTyped, JobsTyped, Flow, Owners, InOrder,
           NEW S \in SUBSET Requests, Deadlocked(S)
    PROVE  \E r \in S : ~AtLock(r) /\ pc[r] # "write"
<1> SUFFICES ASSUME \A r \in S : AtLock(r) \/ pc[r] = "write" PROVE FALSE
  OBVIOUS
<1>1. \A r \in S : pc[r] \in {"lock document", "lock playlists"}
  BY DeadlockAtLocks DEF AtLock
<1>2. \A r \in S : \E q \in S : Blocks(q, r)
  BY DEF Deadlocked, Holders
<1> DEFINE P == {r \in S : pc[r] = "lock playlists"}
<1>3. P # {}
  <2>1. PICK r \in S : TRUE
    BY DEF Deadlocked
  <2>2. CASE pc[r] = "lock document"
    <3>1. PICK q \in S : lock[job[r].target] = q
      BY <1>2, <2>2 DEF Blocks
    <3>2. On(r, "create channel") \/ Deletes(r)
      BY <2>2 DEF Flow, FlowOf
    <3>3. job[r].target \in Playlists \cup Channels
      BY <3>2, JobFacts DEF Ingests
    <3>4. pc[q] # "lock document"
      BY <3>1, <3>3 DEF Owners, OwnerOf
    <3> QED
      BY <1>1, <3>1, <3>4
  <2> QED
    BY <1>1, <2>1, <2>2
<1>4. ASSUME NEW r \in P PROVE Min(todo[r]) \in Nat /\ Min(todo[r]) \in Playlists
  <2>1. Min(todo[r]) \in Playlists
    BY <1>4, TodoFacts
  <2> QED
    BY <2>1, RequestsAssumption
<1> DEFINE f == [r \in P |-> Min(todo[r])]
<1>5. PICK r \in P : \A q \in P : f[q] <= f[r]
  <2>1. IsFiniteSet(P)
    BY IngestAssumption, FS_Subset
  <2>2. f \in [P -> Nat]
    BY <1>4
  <2> HIDE DEF P, f
  <2> QED
    BY <1>3, <2>1, <2>2, Greatest
<1>6. PICK q \in S : lock[Min(todo[r])] = q
  BY <1>2 DEF Blocks, LockNext
<1>7. OwnerOf(q, Min(todo[r]))
  BY <1>4, <1>6 DEF Owners
<1>8. q \in P
  BY <1>1, <1>7 DEF OwnerOf
<1>9. Min(todo[r]) \in Ids(job[q].doc) \ todo[q]
  BY <1>4, <1>7, <1>8, RequestsAssumption DEF OwnerOf
<1>10. Min(todo[q]) \in todo[q]
  BY <1>8, TodoFacts
<1>11. Min(todo[r]) < Min(todo[q])
  BY <1>8, <1>9, <1>10 DEF InOrder, OrderOf
<1>12. Min(todo[q]) <= Min(todo[r])
  BY <1>5, <1>8
<1>13. Min(todo[q]) \in Nat /\ Min(todo[r]) \in Nat
  BY <1>4, <1>8
<1> HIDE DEF P, f
<1> QED
  BY <1>11, <1>12, <1>13

(* A deadlock is one of the requests in it that are past their locks. *)
LEMMA CircleOfRows ==
    ASSUME StepsTyped, JobsTyped, Flow, Recorded, Unstored, Owners, InOrder,
           NEW S \in SUBSET Requests, Deadlocked(S)
    PROVE  LET R == {r \in S : ~AtLock(r)} IN Deadlocked(R) /\ \E r \in R : pc[r] # "write"
<1> DEFINE R == {r \in S : ~AtLock(r)}
<1>1. PICK r \in R : pc[r] # "write"
  BY NoCircleOfLocks
<1>2. ASSUME NEW t \in R PROVE R \cap Holders(t) # {}
  <2>1. PICK q \in S : q \in Holders(t)
    BY DEF Deadlocked
  <2>2. Blocks(q, t)
    BY <2>1 DEF Holders
  <2>3. ~AtLock(q)
    BY <2>2, RowsAfterLocks
  <2> QED
    BY <2>1, <2>3
<1>3. Deadlocked(R)
  BY <1>1, <1>2 DEF Deadlocked
<1> QED
  BY <1>1, <1>3

-----------------------------------------------------------------------------
(* The inductive invariant, and the theorems *)

Typed == TablesTyped /\ LocksTyped /\ StepsTyped /\ JobsTyped

IInv ==
    /\ Typed /\ Flow /\ Recorded /\ Holding /\ Fresh /\ Unstored /\ Linked /\ Storers
    /\ SourcesHold /\ Owners /\ InOrder

LEMMA Initially == Init => IInv /\ RefusedStoresNothing /\ MembersFollowDocument
<1> SUFFICES ASSUME Init PROVE IInv /\ RefusedStoresNothing /\ MembersFollowDocument
  OBVIOUS
<1> USE DEF Init
<1>1. TablesTyped
  BY DEF TablesTyped, PlaylistsTyped, ChannelsTyped, MembersTyped, TombsTyped, SourcesTyped
<1>2. LocksTyped
  BY DEF LocksTyped
<1>3. StepsTyped
  BY DEF StepsTyped, Steps
<1>4. JobsTyped
  BY DEF JobsTyped
<1>5. Flow
  BY DEF Flow, FlowOf, TodoOf
<1>6. Holding
  BY DEF Holding, LocksOf
<1>7. Fresh
  BY DEF Fresh, FreshOf
<1>8. Unstored
  BY DEF Unstored, UnstoredOf
<1>9. Linked
  BY DEF Linked, LinkedOf
<1>10. Storers /\ InOrder
  BY DEF Storers, InOrder, OrderOf
<1>11. RefusedStoresNothing
  BY DEF RefusedStoresNothing
<1>12. MembersFollowDocument
  BY DEF MembersFollowDocument
<1>13. Owners
  BY NobodyFacts DEF Owners
<1>14. Recorded /\ SourcesHold
  BY DEF Recorded, RecordedOf, SourcesHold
<1> QED
  BY <1>1, <1>2, <1>3, <1>4, <1>5, <1>6, <1>7, <1>8, <1>9, <1>10, <1>11, <1>12, <1>13, <1>14 DEF IInv, Typed

LEMMA Moves ==
    ASSUME Typed, NEW r \in Requests, Accept(r) \/ Statement(r) \/ Abort(r)
    PROVE  Accepts(r) \/ Fails(r) \/ Passes(r) \/ Commit(r)
BY StepKinds DEF Step, Typed

LEMMA TypedStep ==
    ASSUME Typed, Flow, Recorded, NEW r \in Requests, Accepts(r) \/ Fails(r) \/ Passes(r) \/ Commit(r)
    PROVE  Typed'
<1>1. StepsTyped' /\ JobsTyped' /\ LocksTyped'
  BY StepsTypedKept, JobsTypedKept, LocksTypedKept DEF Typed
<1>2. TablesTyped'
  <2>1. CASE Commit(r)
    BY <2>1, TablesTypedKept DEF Typed
  <2>2. CASE Accepts(r) \/ Fails(r) \/ Passes(r)
    BY <2>2, TablesStill DEF Typed, TablesTyped, PlaylistsTyped, ChannelsTyped, MembersTyped, TombsTyped, SourcesTyped
  <2> QED
    BY <2>1, <2>2
<1> QED
  BY <1>1, <1>2 DEF Typed

LEMMA InvariantStep ==
    ASSUME IInv, NEW r \in Requests, Accepts(r) \/ Fails(r) \/ Passes(r) \/ Commit(r)
    PROVE  IInv'
<1> USE DEF IInv
<1>1. Typed'
  BY TypedStep
<1>2. Flow' /\ Recorded' /\ Holding'
  BY FlowKept, RecordedKept, HoldingKept DEF Typed
<1>3. Fresh' /\ Unstored' /\ Linked'
  BY FreshKept, UnstoredKept, LinkedKept DEF Typed
<1>4. Owners' /\ InOrder'
  BY OwnersKept, InOrderKept DEF Typed
<1>5. Storers' /\ SourcesHold'
  BY StorersKept, SourcesHoldKept DEF Typed
<1> QED
  BY <1>1, <1>2, <1>3, <1>4, <1>5

LEMMA Stutter ==
    ASSUME UNCHANGED vars
    PROVE  /\ IInv => IInv'
           /\ RefusedStoresNothing => RefusedStoresNothing'
           /\ MembersFollowDocument => MembersFollowDocument'
<1> USE DEF vars
<1>1. Typed => Typed'
  BY DEF Typed, TablesTyped, PlaylistsTyped, ChannelsTyped, MembersTyped, TombsTyped, SourcesTyped,
         LocksTyped, StepsTyped, JobsTyped
<1>2. Flow => Flow'
  BY DEF Flow, FlowOf, TodoOf, HasDoc, Ingests, Deletes, On
<1>3. Holding => Holding'
  BY DEF Holding, LocksOf, HasDoc, Ingests, Deletes, On
<1>4. (Fresh => Fresh') /\ (Unstored => Unstored')
  BY DEF Fresh, FreshOf, Unstored, UnstoredOf, HasDoc, Ingests, On
<1>5. (Linked => Linked') /\ (Storers => Storers') /\ (SourcesHold => SourcesHold')
  BY DEF Linked, LinkedOf, Met, Storers, SourcesHold, HasDoc, Ingests, On
<1>6. RefusedStoresNothing => RefusedStoresNothing'
  BY DEF RefusedStoresNothing
<1>7. MembersFollowDocument => MembersFollowDocument'
  BY DEF MembersFollowDocument
<1>8. (Owners => Owners') /\ (InOrder => InOrder')
  BY DEF Owners, OwnerOf, InOrder, OrderOf
<1>9. Recorded => Recorded'
  BY DEF Recorded, RecordedOf, Ingests, On
<1> QED
  BY <1>1, <1>2, <1>3, <1>4, <1>5, <1>6, <1>7, <1>8, <1>9 DEF IInv

LEMMA Inductive == Spec => [](IInv /\ RefusedStoresNothing /\ MembersFollowDocument)
<1> DEFINE All == IInv /\ RefusedStoresNothing /\ MembersFollowDocument
<1>1. Init => All
  BY Initially
<1>2. ASSUME All, [Next]_vars PROVE All'
  <2>1. CASE UNCHANGED vars
    BY <1>2, <2>1, Stutter
  <2>2. ASSUME NEW r \in Requests, Accept(r) \/ Statement(r) \/ Abort(r) PROVE All'
    <3>1. Accepts(r) \/ Fails(r) \/ Passes(r) \/ Commit(r)
      BY <1>2, <2>2, Moves DEF IInv
    <3>2. IInv'
      BY <1>2, <3>1, InvariantStep
    <3>3. RefusedStoresNothing' /\ MembersFollowDocument'
      BY <1>2, <3>1, RefusedStoresNothingKept, MembersFollowDocumentKept DEF IInv, Typed
    <3> QED
      BY <3>2, <3>3
  <2> QED
    BY <1>2, <2>1, <2>2 DEF Next
<1> QED
  BY <1>1, <1>2, PTL DEF Spec

(* Type correctness of the tables and of every transaction. *)
THEOREM TypeCorrect == Spec => []TypeOK
<1>1. IInv => TypeOK
  BY DEF IInv, Typed, TablesTyped, PlaylistsTyped, ChannelsTyped, MembersTyped, TombsTyped, SourcesTyped,
         LocksTyped, StepsTyped, Steps, JobsTyped, TypeOK
<1> QED
  BY <1>1, Inductive, PTL

(* An ingest never fails on its foreign keys: no playlist it found stored is
   deleted before it links to it, or leaves a URI that names it. *)
THEOREM LinksHoldHolds == Spec => []LinksHold
<1>1. IInv => LinksHold
  BY DEF IInv, Flow, FlowOf, HasDoc, Linked, LinkedOf, LinksHold, Linkable, Met, SourcesHold
<1> QED
  BY <1>1, Inductive, PTL

(* A request brings in all the playlists it names or none: none when it is refused
   for a reason, and all or none when a commit's answer may have been lost. *)
THEOREM RefusedStoresNothingHolds == Spec => []RefusedStoresNothing
BY Inductive, PTL

(* Membership rows are those of the document a channel shows, less the deleted
   playlists. *)
THEOREM MembersFollowDocumentHolds == Spec => []MembersFollowDocument
BY Inductive, PTL

(* Advisory locks are in no circle of waits, and the rows of channels close none: a
   deadlock is one of requests that wait for slugs, sources or membership rows. *)
THEOREM OnlyRowsDeadlockHolds == Spec => []OnlyRowsDeadlock
<1>1. ASSUME IInv PROVE OnlyRowsDeadlock
  <2> SUFFICES ASSUME NEW S \in SUBSET Requests, Deadlocked(S)
               PROVE  LET R == {r \in S : pc[r] \notin {"lock document", "lock playlists"}} IN
                      Deadlocked(R) /\ \E r \in R : pc[r] # "write"
    BY DEF OnlyRowsDeadlock
  <2>1. {r \in S : pc[r] \notin {"lock document", "lock playlists"}} = {r \in S : ~AtLock(r)}
    BY DEF AtLock
  <2> QED
    BY <1>1, <2>1, CircleOfRows DEF IInv, Typed
<1> QED
  BY <1>1, Inductive, PTL

(* No ingest and no create changes a playlist that is stored. *)
THEOREM StoredPlaylistsUntouchedHolds == Spec => StoredPlaylistsUntouched
<1>1. ASSUME IInv, [Next]_vars, NEW p \in Playlists, playlists[p] # NoRow
      PROVE  playlists'[p] \in {playlists[p], NoRow}
  <2>1. CASE UNCHANGED vars
    BY <2>1 DEF vars
  <2>2. ASSUME NEW r \in Requests, Commit(r) PROVE playlists'[p] \in {playlists[p], NoRow}
    <3>1. \A ref \in inserted[r] : ref.id # p
      BY <1>1 DEF IInv, Unstored, UnstoredOf
    <3>2. PlaylistAfter(r, p) \in {playlists[p], NoRow}
      BY <3>1 DEF PlaylistAfter
    <3> QED
      BY <2>2, <3>2 DEF Commit
  <2>3. ASSUME NEW r \in Requests, Accept(r) \/ Statement(r) \/ Abort(r)
        PROVE  playlists'[p] \in {playlists[p], NoRow}
    <3>1. Accepts(r) \/ Fails(r) \/ Passes(r) \/ Commit(r)
      BY <1>1, <2>3, Moves DEF IInv
    <3>2. Accepts(r) \/ Fails(r) \/ Passes(r) => playlists' = playlists
      BY TablesStill
    <3> QED
      BY <2>2, <3>1, <3>2
  <2> QED
    BY <1>1, <2>1, <2>3 DEF Next
<1>2. IInv /\ [Next]_vars
      => [\A p \in Playlists : playlists[p] # NoRow => playlists'[p] \in {playlists[p], NoRow}]_vars
  BY <1>1
<1> QED
  BY <1>2, Inductive, PTL DEF Spec, StoredPlaylistsUntouched

-----------------------------------------------------------------------------
(* What a transaction that gets to its commit may rely on, for the step of the
   feed that the commit is *)

(* What it inserts is the first occurrence of its id, and nobody else has its slug. *)
SlugsOf(r) ==
    \A x \in inserted[r] :
        /\ x = FirstOf(job[r].doc, x.id)
        /\ pc[r] = "insert" => x.id \notin todo[r]
        /\ ~SlugStored(x.slug)
        /\ \A q \in Requests : \A y \in inserted[q] : y.slug = x.slug => q = r /\ y = x

(* What a request found of playlists is so when it commits. *)
FoundOf(r) ==
    /\ pc[r] = "insert" /\ On(r, "create playlist") =>
         \A p \in Ids(job[r].doc) \ todo[r] : \E x \in inserted[r] : x.id = p
    /\ pc[r] = "commit" /\ On(r, "create playlist") =>
         \A p \in Ids(job[r].doc) : \E x \in inserted[r] : x.id = p
    /\ pc[r] \in {"cascade", "commit"} /\ On(r, "delete playlist") => playlists[job[r].target] # NoRow

(* A channel being created is locked and was not deleted. *)
CreatingOf(r) ==
    /\ pc[r] \in {"lock playlists", "check", "insert", "record", "write", "members", "commit"}
    /\ On(r, "create channel")
    => lock[job[r].target] = r /\ job[r].target \notin tombs

(* The row of a channel a request writes is as it found it. *)
RowOf(r) ==
    /\ pc[r] \in {"members", "commit"} /\ On(r, "create channel") => channels[job[r].target] = NoRow
    /\ pc[r] \in {"members", "commit"} /\ On(r, "replace channel") => StillCurrent(r)
    /\ pc[r] = "commit" /\ On(r, "delete channel") => StillCurrent(r)

AnswerOf(r) == (pc[r] = "idle" <=> job[r] = NoJob) /\ (pc[r] # "done" => reply[r] = "none")

Slugged == \A r \in Requests : SlugsOf(r)
Found == \A r \in Requests : FoundOf(r)
Creating == \A r \in Requests : CreatingOf(r)
Rowed == \A r \in Requests : RowOf(r)
Alone == \A q, r \in Requests, c \in Channels : Writing(q, c) /\ Writing(r, c) => q = r
Answered == \A r \in Requests : AnswerOf(r)

(* The one step of a request that inserts, when it passes. *)
LEMMA InsertFacts ==
    ASSUME Typed, Flow, NEW r \in Requests, Insert(r), ~Fails(r)
    PROVE  LET ref == FirstOf(job[r].doc, Min(todo[r])) IN
           /\ PassInsert(r) /\ ref.id = Min(todo[r]) /\ Min(todo[r]) \in todo[r]
           /\ Missing(r) \/ Ingests(r)
           /\ Missing(r) => /\ ~SlugStored(ref.slug)
                            /\ \A q \in Requests : \A y \in inserted[q] : y.slug # ref.slug
<1> DEFINE ref == FirstOf(job[r].doc, Min(todo[r]))
<1>1. PassInsert(r) /\ (Missing(r) => ~SlugTaken(r, ref.slug)) /\ (Missing(r) \/ Ingests(r))
  BY DEF Insert, Fails, PassInsert, committed
<1>2. ref.id = Min(todo[r]) /\ Min(todo[r]) \in todo[r]
  BY <1>1, TodoFacts DEF PassInsert, Typed
<1>3. ASSUME Missing(r), NEW q \in Requests, q # r, NEW y \in inserted[q] PROVE y.slug # ref.slug
  <2>1. ~Blocks(q, r) /\ pc[r] = "insert"
    BY <1>3 DEF Insert, Free, Holders
  <2>2. ~HoldsSlug(q, ref.slug)
    BY <1>3, <2>1 DEF Blocks
  <2> QED
    BY <2>2 DEF HoldsSlug
<1> QED
  BY <1>1, <1>2, <1>3 DEF SlugTaken

(* What each other step leaves alone. *)
LEMMA OtherSteps ==
    ASSUME Typed, NEW r \in Requests, Step(r)
    PROVE  \/ Fails(r) \/ Commit(r) \/ Accepts(r)
           \/ Insert(r)
           \/ Passes(r) /\ inserted' = inserted
<1>1. CASE Accept(r)
  BY <1>1, AcceptStep DEF Typed
<1>2. CASE Abort(r)
  BY <1>2 DEF Abort, Fails, committed
<1>3. ASSUME Statement(r), ~Insert(r), ~Commit(r), ~Fails(r) PROVE Passes(r) /\ inserted' = inserted
  <2>1. Passes(r)
    BY <1>3, StatementStep DEF Typed
  <2>2. ~Finish(r, "deleted") /\ ~Finish(r, "exists") /\ ~Finish(r, "conflict") /\ ~Finish(r, "notfound") /\ ~Finish(r, "error")
    <3>1. UNCHANGED <<playlists, channels, members, tombs, sources, job>> /\ pc[r] \notin {"idle", "done"}
      BY <2>1 DEF Passes, PassDocument, PassLock, PassCheck, PassInsert, PassRecord, PassOn
    <3> QED
      BY <1>3, <3>1 DEF Fails
  <2>3. inserted' = inserted
    BY <1>3, <2>2 DEF Statement, LockDocument, LockPlaylist, CheckPlaylists, Record, WriteChannel,
           WriteMembers, DeleteRow, CascadeToSources, Missed
  <2> QED
    BY <2>1, <2>3
<1> QED
  BY <1>1, <1>2, <1>3 DEF Step

LEMMA SluggedKept ==
    ASSUME IInv, Slugged, NEW r \in Requests, Step(r)
    PROVE  Slugged'
<1> USE DEF IInv
<1>1. Accepts(r) \/ Fails(r) \/ Passes(r) \/ Commit(r)
  BY StepKinds DEF Typed
<1>2. \A q \in Requests \ {r} : Still(q)
  BY <1>1, OthersStill DEF Typed
<1>3. ASSUME \A q \in Requests : inserted'[q] \subseteq inserted[q],
             \A s : SlugStored(s)' => SlugStored(s) \/ \E x \in inserted[r] : x.slug = s,
             inserted'[r] # {} => /\ job'[r] = job[r]
                                  /\ pc'[r] = "insert" => pc[r] = "check" \/ (pc[r] = "insert" /\ todo'[r] \subseteq todo[r])
                                  /\ \A s : SlugStored(s)' => SlugStored(s)
      PROVE  Slugged'
  <2> SUFFICES ASSUME NEW q \in Requests, NEW x \in inserted'[q]
               PROVE  /\ x = FirstOf(job'[q].doc, x.id)
                      /\ pc'[q] = "insert" => x.id \notin todo'[q]
                      /\ ~SlugStored(x.slug)'
                      /\ \A p \in Requests : \A y \in inserted'[p] : y.slug = x.slug => p = q /\ y = x
    BY DEF Slugged, SlugsOf
  <2>1. x \in inserted[q] /\ SlugsOf(q)
    BY <1>3 DEF Slugged
  <2>2. pc[q] \in {"insert", "record", "write", "members", "commit"}
    BY <2>1 DEF Unstored, UnstoredOf
  <2>3. job'[q] = job[q]
    BY <1>2, <1>3 DEF Still
  <2>4. pc'[q] = "insert" => pc[q] = "insert" /\ todo'[q] \subseteq todo[q]
    BY <1>2, <1>3, <2>2 DEF Still
  <2>5. ~SlugStored(x.slug)'
    <3>1. CASE q = r
      BY <1>3, <2>1, <3>1 DEF SlugsOf
    <3>2. CASE q # r
      BY <1>3, <2>1, <3>2 DEF SlugsOf
    <3> QED
      BY <3>1, <3>2
  <2>6. \A p \in Requests : \A y \in inserted'[p] : y.slug = x.slug => p = q /\ y = x
    BY <1>3, <2>1 DEF SlugsOf
  <2> QED
    BY <2>1, <2>3, <2>4, <2>5, <2>6 DEF SlugsOf
<1>4. ASSUME playlists' = playlists PROVE \A s : SlugStored(s)' => SlugStored(s)
  BY <1>4 DEF SlugStored
<1>5. ASSUME NEW what, Finish(r, what) PROVE inserted'[r] = {} /\ \A q \in Requests : inserted'[q] \subseteq inserted[q]
  BY <1>2, <1>5, Ended DEF Typed, Still
<1>6. CASE Fails(r)
  BY <1>3, <1>4, <1>5, <1>6 DEF Fails
<1>7. CASE Commit(r)
  <2>1. inserted'[r] = {} /\ \A q \in Requests : inserted'[q] \subseteq inserted[q]
    BY <1>5, <1>7 DEF Commit
  <2>2. ASSUME NEW s, SlugStored(s)' PROVE SlugStored(s) \/ \E x \in inserted[r] : x.slug = s
    <3>1. PICK p \in Playlists : playlists'[p] # NoRow /\ playlists'[p].slug = s
      BY <2>2 DEF SlugStored
    <3>2. playlists'[p] = PlaylistAfter(r, p)
      BY <1>7 DEF Commit
    <3> QED
      BY <3>1, <3>2 DEF PlaylistAfter, SlugStored
  <2> QED
    BY <1>3, <2>1, <2>2
<1>8. CASE Accepts(r)
  <2>1. inserted' = inserted /\ playlists' = playlists /\ pc[r] = "idle"
    BY <1>8 DEF Accepts
  <2>2. inserted'[r] = {}
    BY <2>1 DEF Unstored, UnstoredOf
  <2> QED
    BY <1>3, <1>4, <2>1, <2>2
<1>9. CASE Passes(r) /\ inserted' = inserted
  <2>1. playlists' = playlists /\ job' = job
    BY <1>9 DEF Passes
  <2>2. pc'[r] = "insert" => pc[r] = "check" \/ (pc[r] = "insert" /\ todo'[r] \subseteq todo[r])
    <3> USE DEF Goto, Typed, StepsTyped
    <3>1. PassDocument(r) \/ PassRecord(r) \/ PassOn(r) \/ PassLock(r) => pc'[r] # "insert"
      BY DEF PassDocument, PassRecord, PassOn, PassLock
    <3>2. PassCheck(r) => pc[r] = "check"
      BY DEF PassCheck
    <3>3. PassInsert(r) => pc[r] = "insert" /\ todo'[r] \subseteq todo[r]
      BY DEF PassInsert
    <3> QED
      BY <1>9, <3>1, <3>2, <3>3 DEF Passes
  <2> QED
    BY <1>3, <1>4, <1>9, <2>1, <2>2
<1>10. CASE Insert(r) /\ ~Fails(r)
  <2> DEFINE ref == FirstOf(job[r].doc, Min(todo[r]))
  <2>1. /\ PassInsert(r) /\ ref.id = Min(todo[r]) /\ Min(todo[r]) \in todo[r]
        /\ Missing(r) => /\ ~SlugStored(ref.slug)
                         /\ \A q \in Requests : \A y \in inserted[q] : y.slug # ref.slug
    BY <1>10, InsertFacts
  <2>2. playlists' = playlists /\ job' = job
    BY <1>10 DEF Insert, Fails, committed
  <2>3. /\ todo'[r] = todo[r] \ {Min(todo[r])} /\ pc[r] = "insert"
        /\ inserted'[r] = IF Missing(r) THEN inserted[r] \cup {ref} ELSE inserted[r]
    BY <2>1 DEF PassInsert, Typed, StepsTyped
  <2>4. \A q \in Requests \ {r} : inserted'[q] = inserted[q]
    BY <1>2 DEF Still
  <2> HIDE DEF ref
  <2>5. CASE ~Missing(r)
    BY <1>3, <1>4, <2>2, <2>3, <2>4, <2>5
  <2>6. CASE Missing(r)
    <3> SUFFICES ASSUME NEW q \in Requests, NEW x \in inserted'[q]
                 PROVE  /\ x = FirstOf(job'[q].doc, x.id)
                        /\ pc'[q] = "insert" => x.id \notin todo'[q]
                        /\ ~SlugStored(x.slug)'
                        /\ \A p \in Requests : \A y \in inserted'[p] : y.slug = x.slug => p = q /\ y = x
      BY DEF Slugged, SlugsOf
    <3>1. \A s : SlugStored(s)' => SlugStored(s)
      BY <1>4, <2>2
    <3>2. CASE x \in inserted[q]
      <4>1. SlugsOf(q)
        BY DEF Slugged
      <4>2. x = FirstOf(job'[q].doc, x.id) /\ ~SlugStored(x.slug)'
        BY <2>2, <3>1, <3>2, <4>1 DEF SlugsOf
      <4>3. pc'[q] = "insert" => x.id \notin todo'[q]
        <5>1. CASE q = r
          BY <2>3, <3>2, <4>1, <5>1 DEF SlugsOf
        <5>2. CASE q # r
          BY <1>2, <3>2, <4>1, <5>2 DEF SlugsOf, Still
        <5> QED
          BY <5>1, <5>2
      <4>4. ASSUME NEW p \in Requests, NEW y \in inserted'[p], y.slug = x.slug PROVE p = q /\ y = x
        <5>1. CASE y \in inserted[p]
          BY <3>2, <4>1, <4>4, <5>1 DEF SlugsOf
        <5>2. CASE y \notin inserted[p]
          BY <2>1, <2>3, <2>4, <2>6, <3>2, <4>4, <5>2
        <5> QED
          BY <5>1, <5>2
      <4> QED
        BY <4>2, <4>3, <4>4
    <3>3. CASE x \notin inserted[q]
      <4>1. q = r /\ x = ref
        BY <2>3, <2>4, <2>6, <3>3
      <4>2. x = FirstOf(job'[q].doc, x.id)
        BY <2>1, <2>2, <4>1 DEF ref
      <4>3. x.id \notin todo'[q]
        BY <2>1, <2>3, <4>1
      <4>4. ~SlugStored(x.slug)'
        BY <2>1, <2>6, <3>1, <4>1
      <4>5. ASSUME NEW p \in Requests, NEW y \in inserted'[p], y.slug = x.slug PROVE p = q /\ y = x
        <5>1. y \notin inserted[p]
          BY <2>1, <2>6, <4>1, <4>5
        <5> QED
          BY <2>3, <2>4, <2>6, <4>1, <4>5, <5>1
      <4> QED
        BY <4>2, <4>3, <4>4, <4>5
    <3> QED
      BY <3>2, <3>3
  <2> QED
    BY <2>5, <2>6
<1> QED
  BY <1>6, <1>7, <1>8, <1>9, <1>10, OtherSteps

LEMMA FoundKept ==
    ASSUME IInv, Found, NEW r \in Requests, Step(r)
    PROVE  Found'
<1> USE DEF IInv
<1>1. Accepts(r) \/ Fails(r) \/ Passes(r) \/ Commit(r)
  BY StepKinds DEF Typed
<1>2. ASSUME NEW q \in Requests, q # r PROVE FoundOf(q)'
  <2>1. Still(q) /\ FoundOf(q)
    BY <1>1, <1>2, OthersStill DEF Typed, Found
  <2>2. ASSUME NEW p \in Playlists, lock[p] = q PROVE playlists'[p] = playlists[p]
    BY <1>1, <1>2, <2>2, LockedSafe DEF Typed
  <2>3. pc'[q] = pc[q] /\ job'[q] = job[q] /\ todo'[q] = todo[q] /\ inserted'[q] = inserted[q]
    BY <2>1 DEF Still
  <2>5. ASSUME pc[q] \in {"cascade", "commit"}, On(q, "delete playlist") PROVE playlists'[job[q].target] # NoRow
    <3>1. lock[job[q].target] = q /\ job[q].target \in Playlists
      BY <2>5, JobFacts DEF Holding, LocksOf, Deletes, Typed
    <3> QED
      BY <2>1, <2>2, <2>5, <3>1 DEF FoundOf
  <2> QED
    BY <2>1, <2>3, <2>5 DEF FoundOf, Ingests, On
<1>3. ASSUME pc'[r] \notin {"insert", "cascade", "commit"} PROVE FoundOf(r)'
  BY <1>3 DEF FoundOf
<1>4. ASSUME NEW what, Finish(r, what) PROVE FoundOf(r)'
  BY <1>3, <1>4, Ended DEF Typed
<1>5. CASE Accepts(r)
  <2>1. pc'[r] \in {"lock document", "lock playlists"}
    BY <1>5 DEF Accepts, Goto, Typed, StepsTyped
  <2> QED
    BY <1>2, <1>3, <2>1 DEF Found
<1>6. ASSUME ~Fails(r), ~Commit(r), ~Accepts(r) PROVE FoundOf(r)'
  <2>1. Passes(r) /\ playlists' = playlists /\ job' = job
    BY <1>1, <1>6 DEF Passes
  <2>2. Statement(r)
    BY <1>6, AcceptStep, StatementStep DEF Step, Abort, Fails, Typed, committed
  <2> USE DEF Goto, Typed, StepsTyped, committed
  <2>3. CASE LockDocument(r)
    <3>1. pc'[r] \in {"lock playlists", "delete", "done"}
      BY <2>3 DEF LockDocument, Finish
    <3> QED
      BY <1>3, <3>1
  <2>4. CASE LockPlaylist(r)
    <3>1. pc'[r] \in {"check", "lock playlists"}
      BY <2>4 DEF LockPlaylist
    <3> QED
      BY <1>3, <3>1
  <2>5. CASE CheckPlaylists(r)
    <3>1. pc'[r] = "done" \/ (pc'[r] = "insert" /\ todo'[r] = Ids(job'[r].doc))
      BY <2>1, <2>5 DEF CheckPlaylists, Finish
    <3> QED
      BY <3>1 DEF FoundOf
  <2>6. CASE Insert(r)
    <3> DEFINE ref == FirstOf(job[r].doc, Min(todo[r]))
    <3>1. PassInsert(r) /\ ref.id = Min(todo[r]) /\ (Missing(r) \/ Ingests(r))
      BY <1>6, <2>6, InsertFacts
    <3>2. /\ todo'[r] = todo[r] \ {ref.id} /\ pc[r] = "insert"
          /\ inserted'[r] = IF Missing(r) THEN inserted[r] \cup {ref} ELSE inserted[r]
          /\ pc'[r] \in {"insert", "record", "write", "commit"}
          /\ pc'[r] = "commit" => ~Ingests(r)
          /\ todo'[r] = {} \/ pc'[r] = "insert"
      BY <3>1, Onward DEF PassInsert
    <3> HIDE DEF ref
    <3>3. ASSUME On(r, "create playlist"), NEW p \in Ids(job[r].doc) \ todo'[r]
          PROVE  \E x \in inserted'[r] : x.id = p
      <4>1. ref \in inserted'[r] /\ inserted[r] \subseteq inserted'[r]
        BY <3>1, <3>2, <3>3 DEF Ingests, On
      <4>2. CASE p = ref.id
        BY <4>1, <4>2
      <4>3. CASE p # ref.id
        <5>1. p \in Ids(job[r].doc) \ todo[r]
          BY <3>2, <3>3, <4>3
        <5>2. \E x \in inserted[r] : x.id = p
          BY <3>2, <3>3, <5>1 DEF Found, FoundOf
        <5> QED
          BY <4>1, <5>2
      <4> QED
        BY <4>2, <4>3
    <3>4. (Ingests(r)' <=> Ingests(r)) /\ (On(r, "create playlist")' <=> On(r, "create playlist"))
          /\ ~On(r, "delete playlist")' /\ job'[r] = job[r]
      <4>1. HasDoc(r) /\ ~Deletes(r)
        BY <3>2, JobFacts DEF Flow, FlowOf
      <4> QED
        BY <2>1, <4>1 DEF Ingests, On, Deletes
    <3> QED
      BY <3>2, <3>3, <3>4 DEF FoundOf
  <2>7. CASE WriteChannel(r)
    <3>1. pc'[r] \in {"members", "done"}
      BY <2>7 DEF WriteChannel, Finish, Missed
    <3> QED
      BY <1>3, <3>1
  <2>8. CASE WriteMembers(r)
    <3>1. pc'[r] \in {"done", "commit"} /\ Ingests(r)
      BY <2>8 DEF WriteMembers, Finish, Flow, FlowOf
    <3> QED
      BY <2>1, <3>1 DEF FoundOf, Ingests, On
  <2>9. CASE DeleteRow(r)
    <3>1. pc'[r] = "done" \/ (pc[r] = "delete" /\ pc'[r] \in {"cascade", "commit"}
                              /\ (On(r, "delete playlist") => playlists[job[r].target] # NoRow))
      BY <2>9 DEF DeleteRow, Finish, Missed
    <3>2. pc[r] = "delete" => ~HasDoc(r)
      BY JobFacts DEF Flow, FlowOf
    <3> QED
      BY <1>3, <2>1, <3>1, <3>2 DEF FoundOf, HasDoc, Ingests, On
  <2>10. CASE Record(r)
    <3>1. pc'[r] \in {"record", "write"}
      BY <2>10 DEF Record
    <3> QED
      BY <1>3, <3>1
  <2>11. CASE CascadeToSources(r)
    <3>1. pc[r] = "cascade" /\ pc'[r] = "commit" /\ On(r, "delete playlist")
      BY <2>11 DEF CascadeToSources, Flow, FlowOf
    <3> QED
      BY <2>1, <3>1 DEF Found, FoundOf, On
  <2> QED
    BY <1>6, <2>2, <2>3, <2>4, <2>5, <2>6, <2>7, <2>8, <2>9, <2>10, <2>11 DEF Statement
<1> QED
  BY <1>1, <1>2, <1>4, <1>5, <1>6 DEF Found, Fails, Commit

LEMMA AnsweredKept ==
    ASSUME IInv, Answered, NEW r \in Requests, Step(r)
    PROVE  Answered'
<1> USE DEF IInv
<1>1. Accepts(r) \/ Fails(r) \/ Passes(r) \/ Commit(r)
  BY StepKinds DEF Typed
<1>2. ASSUME NEW q \in Requests, q # r PROVE AnswerOf(q)'
  BY <1>1, <1>2, OthersStill DEF Typed, Answered, AnswerOf, Still
<1>3. AnswerOf(r)
  BY DEF Answered
<1>4. ASSUME NEW what, Finish(r, what), job' = job, pc[r] # "idle" PROVE AnswerOf(r)'
  BY <1>3, <1>4, Ended DEF Typed, AnswerOf
<1>5. ASSUME Accepts(r) PROVE AnswerOf(r)'
  <2>1. PICK j \in Job : job' = [job EXCEPT ![r] = j]
    BY <1>5 DEF Accepts
  <2>2. j # NoJob
    <3>1. j.op # "none"
      BY DEF Job, CreateJob
    <3> QED
      BY <3>1 DEF NoJob
  <2>3. pc'[r] \in {"lock document", "lock playlists"} /\ reply'[r] = reply[r] /\ pc[r] = "idle"
    BY <1>5 DEF Accepts, Goto, Typed, StepsTyped
  <2>4. job'[r] = j
    BY <2>1 DEF Typed, JobsTyped
  <2> QED
    BY <1>3, <2>2, <2>3, <2>4 DEF AnswerOf
<1>6. ASSUME Passes(r) PROVE AnswerOf(r)'
  <2>1. job' = job /\ reply' = reply
    BY <1>6 DEF Passes
  <2>2. pc[r] \notin {"idle", "done"} /\ pc'[r] \notin {"idle", "done"}
    <3> USE DEF Goto, Typed, StepsTyped
    <3>1. PassDocument(r) \/ PassOn(r) \/ PassRecord(r) => pc[r] \notin {"idle", "done"} /\ pc'[r] \notin {"idle", "done"}
      BY DEF PassDocument, PassOn, PassRecord
    <3>2. PassLock(r) \/ PassCheck(r) => pc[r] \notin {"idle", "done"} /\ pc'[r] \notin {"idle", "done"}
      BY DEF PassLock, PassCheck
    <3>3. PassInsert(r) => pc[r] \notin {"idle", "done"} /\ pc'[r] \notin {"idle", "done"}
      BY Onward DEF PassInsert
    <3> QED
      BY <1>6, <3>1, <3>2, <3>3 DEF Passes
  <2> QED
    BY <1>3, <2>1, <2>2 DEF AnswerOf
<1>7. Fails(r) \/ Commit(r) => \E what : Finish(r, what) /\ job' = job /\ pc[r] # "idle"
  BY DEF Fails, Commit
<1> QED
  BY <1>1, <1>2, <1>4, <1>5, <1>6, <1>7 DEF Answered

(* The kinds of jobs exclude each other. *)
LEMMA OneKind ==
    \A r : /\ On(r, "create playlist") => ~Ingests(r) /\ ~Deletes(r)
           /\ On(r, "create channel") => Ingests(r) /\ ~On(r, "replace channel") /\ ~Deletes(r)
           /\ On(r, "replace channel") => Ingests(r) /\ ~On(r, "create channel") /\ ~Deletes(r)
           /\ On(r, "delete playlist") => ~Ingests(r) /\ Deletes(r) /\ ~On(r, "delete channel")
           /\ On(r, "delete channel") => ~Ingests(r) /\ Deletes(r) /\ ~On(r, "delete playlist")
BY DEF On, Ingests, Deletes

(* Who writes the row of a channel does so alone. *)
LEMMA AloneKept ==
    ASSUME IInv, Alone, NEW r \in Requests, Step(r)
    PROVE  Alone'
<1> USE DEF IInv
<1>1. Accepts(r) \/ Fails(r) \/ Passes(r) \/ Commit(r)
  BY StepKinds DEF Typed
<1>2. ASSUME NEW q \in Requests, q # r, NEW c PROVE Writing(q, c)' <=> Writing(q, c)
  BY <1>1, <1>2, OthersStill DEF Typed, Still, Writing, Ingests, On
<1>3. ASSUME NEW c \in Channels, Writing(r, c)', ~Writing(r, c), NEW q \in Requests, q # r
      PROVE  ~Writing(q, c)
  <2> USE DEF Goto, Typed, StepsTyped, committed
  <2>1. pc'[r] \in {"members", "commit"}
    BY <1>3 DEF Writing
  <2>2. ~Fails(r) /\ ~Commit(r)
    <3>1. ASSUME NEW what, Finish(r, what) PROVE pc'[r] = "done"
      BY <3>1, Ended
    <3> QED
      BY <2>1, <3>1 DEF Fails, Commit
  <2>3. ~Accepts(r)
    BY <2>1 DEF Accepts
  <2>4. Passes(r) /\ job' = job /\ Statement(r)
    BY <1>1, <2>2, <2>3, AcceptStep, StatementStep DEF Passes, Step, Abort, Fails
  <2>5. job[r].target = c /\ (Ingests(r) \/ On(r, "delete channel"))
    BY <1>3, <2>4 DEF Writing, Ingests, On
  <2>6. pc[r] \notin {"members", "commit"}
    BY <1>3, <2>5 DEF Writing
  <2>7. ~LockDocument(r) /\ ~LockPlaylist(r) /\ ~CheckPlaylists(r) /\ ~WriteMembers(r) /\ ~Record(r)
    BY <2>1, <2>6 DEF LockDocument, LockPlaylist, CheckPlaylists, WriteMembers, Record, Finish
  <2>8. ~Insert(r)
    <3>1. ASSUME Insert(r) PROVE FALSE
      <4>1. PassInsert(r) /\ pc[r] = "insert"
        BY <2>2, <3>1, InsertFacts DEF PassInsert
      <4>2. HasDoc(r) /\ ~Deletes(r)
        BY <4>1, JobFacts DEF Flow, FlowOf
      <4>3. Ingests(r)
        BY <2>5, <4>2 DEF Deletes
      <4> QED
        BY <2>1, <4>1, <4>3, Onward DEF PassInsert
    <3> QED
      BY <3>1
  <2>12. ~CascadeToSources(r)
    <3>1. pc[r] = "cascade" => On(r, "delete playlist")
      BY DEF Flow, FlowOf
    <3> QED
      BY <2>5, <3>1, OneKind DEF CascadeToSources
  <2>9. (WriteChannel(r) \/ DeleteRow(r)) /\ Free(r)
    BY <2>2, <2>4, <2>7, <2>8, <2>12 DEF Statement, WriteChannel, DeleteRow
  <2>10. pc[r] = "write" \/ (pc[r] = "delete" /\ On(r, "delete channel"))
    <3>1. pc[r] = "delete" => ~HasDoc(r)
      BY JobFacts DEF Flow, FlowOf
    <3> QED
      BY <2>5, <2>9, <3>1 DEF WriteChannel, DeleteRow, HasDoc
  <2>11. ~Blocks(q, r)
    BY <1>3, <2>9 DEF Free, Holders
  <2> QED
    BY <2>5, <2>10, <2>11 DEF Blocks
<1>4. ASSUME NEW p \in Requests, NEW q \in Requests, NEW c \in Channels, Writing(p, c)', Writing(q, c)', p # q
      PROVE  FALSE
  <2>1. CASE p # r /\ q # r
    BY <1>2, <1>4, <2>1 DEF Alone
  <2>2. CASE p = r
    BY <1>2, <1>3, <1>4, <2>2 DEF Alone
  <2>3. CASE q = r
    BY <1>2, <1>3, <1>4, <2>3 DEF Alone
  <2> QED
    BY <2>1, <2>2, <2>3
<1> QED
  BY <1>4 DEF Alone

LEMMA CreatingKept ==
    ASSUME IInv, Creating, NEW r \in Requests, Step(r)
    PROVE  Creating'
<1> USE DEF IInv
<1>1. Accepts(r) \/ Fails(r) \/ Passes(r) \/ Commit(r)
  BY StepKinds DEF Typed
<1>2. ASSUME NEW q \in Requests, q # r PROVE CreatingOf(q)'
  <2>1. Still(q) /\ CreatingOf(q)
    BY <1>1, <1>2, OthersStill DEF Typed, Creating
  <2>2. (On(q, "create channel")' <=> On(q, "create channel")) /\ job'[q] = job[q] /\ pc'[q] = pc[q]
    BY <2>1 DEF Still, On
  <2>3. ASSUME On(q, "create channel"), lock[job[q].target] = q, job[q].target \notin tombs
        PROVE  lock'[job[q].target] = q /\ job[q].target \notin tombs'
    <3>1. job[q].target \in Channels
      BY <2>3, JobFacts DEF Typed, Ingests
    <3>2. lock'[job[q].target] = q
      BY <2>1, <2>3, <3>1 DEF Still
    <3>3. Commit(r) /\ Deletes(r) => lock[job[r].target] = r
      BY DEF Commit, Holding, LocksOf
    <3>4. job[q].target \notin tombs'
      <4>1. CASE Commit(r)
        BY <1>2, <2>3, <3>3, <4>1 DEF Commit
      <4>2. CASE tombs' = tombs
        BY <2>3, <4>2
      <4> QED
        BY <1>1, <4>1, <4>2, TablesStill
    <3> QED
      BY <3>2, <3>4
  <2> QED
    BY <2>1, <2>2, <2>3 DEF CreatingOf
<1>3. CreatingOf(r)'
  <2> SUFFICES ASSUME pc'[r] \in {"lock playlists", "check", "insert", "record", "write", "members", "commit"},
                      On(r, "create channel")'
               PROVE  lock'[job'[r].target] = r /\ job'[r].target \notin tombs'
    BY DEF CreatingOf
  <2> USE DEF Goto, Typed, StepsTyped, committed
  <2>1. ~Fails(r) /\ ~Commit(r)
    <3>1. ASSUME NEW what, Finish(r, what) PROVE pc'[r] = "done"
      BY <3>1, Ended
    <3> QED
      BY <3>1 DEF Fails, Commit
  <2>2. ~Accepts(r)
    <3>1. ASSUME Accepts(r) PROVE FALSE
      <4>1. PICK j \in Job : job' = [job EXCEPT ![r] = j] /\ (j.op = "create channel" => pc'[r] = "lock document")
        BY <3>1 DEF Accepts
      <4>2. job'[r] = j
        BY <4>1 DEF JobsTyped
      <4> QED
        BY <4>1, <4>2 DEF On
    <3> QED
      BY <3>1
  <2>3. Passes(r) /\ job' = job /\ tombs' = tombs /\ Statement(r) /\ On(r, "create channel")
    BY <1>1, <2>1, <2>2, AcceptStep, StatementStep DEF Passes, Step, Abort, Fails, On
  <2>4. Ingests(r) /\ job[r].target \in Channels /\ HasDoc(r) /\ ~Deletes(r)
    BY <2>3, JobFacts DEF Ingests, HasDoc
  <2>5. CASE pc[r] = "lock document"
    <3>1. LockDocument(r)
      BY <2>3, <2>5 DEF Statement, LockPlaylist, CheckPlaylists, Insert, Record, WriteChannel, WriteMembers,
                          DeleteRow, CascadeToSources, Commit
    <3>2. job[r].target \notin tombs /\ lock' = [lock EXCEPT ![job[r].target] = r]
      BY <2>3, <3>1 DEF LockDocument, Finish
    <3> QED
      BY <2>3, <2>4, <3>2 DEF LocksTyped
  <2>6. CASE pc[r] # "lock document"
    <3>1. pc[r] \in {"lock playlists", "check", "insert", "record", "write", "members", "commit"}
      <4>1. ~(pc[r] \in {"delete", "cascade"})
        BY <2>4 DEF Flow, FlowOf, Deletes
      <4> QED
        BY <2>3, <2>6, <4>1 DEF Passes, PassDocument, PassLock, PassCheck, PassInsert, PassRecord, PassOn
    <3>2. lock[job[r].target] = r /\ job[r].target \notin tombs
      BY <2>3, <3>1 DEF Creating, CreatingOf
    <3>3. lock' = lock \/ \E e : lock' = [lock EXCEPT ![e] = r]
      BY <2>3 DEF Passes, PassDocument, PassLock, PassCheck, PassInsert, PassRecord, PassOn
    <3> QED
      BY <2>3, <2>4, <3>2, <3>3 DEF LocksTyped
  <2> QED
    BY <2>5, <2>6
<1> QED
  BY <1>2, <1>3 DEF Creating

LEMMA RowedKept ==
    ASSUME IInv, Creating, Rowed, Alone, NEW r \in Requests, Step(r)
    PROVE  Rowed'
<1> USE DEF IInv
<1>1. Accepts(r) \/ Fails(r) \/ Passes(r) \/ Commit(r)
  BY StepKinds DEF Typed
<1>2. ASSUME NEW q \in Requests, q # r PROVE RowOf(q)'
  <2>1. Still(q) /\ RowOf(q)
    BY <1>1, <1>2, OthersStill DEF Typed, Rowed
  <2>2. job'[q] = job[q] /\ pc'[q] = pc[q]
    BY <2>1 DEF Still
  <2>3. ASSUME pc[q] \in {"members", "commit"}, Ingests(q) \/ On(q, "delete channel")
        PROVE  channels'[job[q].target] = channels[job[q].target]
    <3>1. job[q].target \in Channels /\ Writing(q, job[q].target)
      BY <2>3, JobFacts DEF Typed, Writing
    <3>2. ~Writing(r, job[q].target)
      BY <1>2, <3>1 DEF Alone
    <3>3. CASE Commit(r)
      <4>1. channels'[job[q].target] = ChannelAfter(r, job[q].target)
        BY <3>1, <3>3 DEF Commit
      <4> QED
        BY <3>2, <4>1 DEF ChannelAfter
    <3>4. CASE channels' = channels
      BY <3>4
    <3> QED
      BY <1>1, <3>3, <3>4, TablesStill
  <2> QED
    BY <2>1, <2>2, <2>3 DEF RowOf, Ingests, On, StillCurrent
<1>3. RowOf(r)'
  <2> SUFFICES ASSUME pc'[r] \in {"members", "commit"} PROVE RowOf(r)'
    BY DEF RowOf
  <2> USE DEF Goto, Typed, StepsTyped, committed
  <2>1. ~Fails(r) /\ ~Commit(r)
    <3>1. ASSUME NEW what, Finish(r, what) PROVE pc'[r] = "done"
      BY <3>1, Ended
    <3> QED
      BY <3>1 DEF Fails, Commit
  <2>2. ~Accepts(r)
    BY DEF Accepts
  <2>3. Passes(r) /\ job' = job /\ channels' = channels /\ Statement(r)
    BY <1>1, <2>1, <2>2, AcceptStep, StatementStep DEF Passes, Step, Abort, Fails
  <2>4. pc[r] \in {"insert", "write", "members", "delete", "cascade"}
    BY <2>3 DEF Passes, PassDocument, PassLock, PassCheck, PassInsert, PassRecord, PassOn
  <2>5. CASE pc[r] = "insert"
    <3>1. PassInsert(r) /\ HasDoc(r) /\ ~Deletes(r)
      BY <2>3, <2>5, JobFacts DEF Passes, PassDocument, PassLock, PassCheck, PassRecord, PassOn, Flow, FlowOf
    <3>2. ~Ingests(r)
      BY <2>5, <3>1, Onward DEF PassInsert
    <3> QED
      BY <2>3, <3>1, <3>2 DEF RowOf, Ingests, Deletes, On
  <2>6. CASE pc[r] = "write"
    <3>1. WriteChannel(r) /\ Ingests(r) /\ HasDoc(r)
      BY <2>3, <2>6 DEF Statement, LockDocument, LockPlaylist, CheckPlaylists, Insert, Record, WriteMembers,
                          DeleteRow, CascadeToSources, Commit, Flow, FlowOf, HasDoc
    <3>2. ~Deletes(r)
      BY <3>1, JobFacts
    <3>3. IF On(r, "create channel") THEN channels[job[r].target] = NoRow ELSE StillCurrent(r)
      BY <3>1 DEF WriteChannel, Finish, Missed
    <3> QED
      BY <2>3, <3>2, <3>3 DEF RowOf, Deletes, On, StillCurrent
  <2>7. CASE pc[r] = "members"
    <3>1. RowOf(r) /\ Ingests(r) /\ HasDoc(r)
      BY <2>7 DEF Rowed, Flow, FlowOf, HasDoc
    <3>2. ~Deletes(r)
      BY <3>1, JobFacts
    <3> QED
      BY <2>3, <2>7, <3>1, <3>2 DEF RowOf, Deletes, On, StillCurrent
  <2>8. CASE pc[r] = "delete"
    <3>1. DeleteRow(r) /\ ~HasDoc(r)
      BY <2>3, <2>8, JobFacts DEF Statement, LockDocument, LockPlaylist, CheckPlaylists, Insert, Record,
                                    WriteChannel, WriteMembers, CascadeToSources, Commit, Flow, FlowOf
    <3>2. On(r, "delete channel") => StillCurrent(r)
      BY <3>1 DEF DeleteRow, Finish, Missed, On
    <3> QED
      BY <2>3, <3>1, <3>2 DEF RowOf, HasDoc, Ingests, On, StillCurrent
  <2>9. CASE pc[r] = "cascade"
    <3>1. On(r, "delete playlist")
      BY <2>9 DEF Flow, FlowOf
    <3> QED
      BY <2>3, <3>1 DEF RowOf, On
  <2> QED
    BY <2>4, <2>5, <2>6, <2>7, <2>8, <2>9
<1> QED
  BY <1>2, <1>3 DEF Rowed

-----------------------------------------------------------------------------
(* MembershipIngest implements PlaylistFeed *)

Effective == Slugged /\ Found /\ Creating /\ Rowed /\ Alone /\ Answered

LEMMA EffectiveKept == IInv /\ Effective /\ [Next]_vars => Effective'
<1> SUFFICES ASSUME IInv, Effective, [Next]_vars PROVE Effective'
  OBVIOUS
<1> USE DEF Effective
<1>1. ASSUME NEW r \in Requests, Step(r) PROVE Effective'
  BY <1>1, SluggedKept, FoundKept, CreatingKept, RowedKept, AloneKept, AnsweredKept
<1>2. CASE UNCHANGED vars
  <2> USE <1>2 DEF vars
  <2>1. Slugged'
    BY DEF Slugged, SlugsOf, SlugStored
  <2>2. Found'
    BY DEF Found, FoundOf, Met, Ingests, On
  <2>3. Creating'
    BY DEF Creating, CreatingOf, On
  <2>4. Rowed'
    BY DEF Rowed, RowOf, StillCurrent, On
  <2>5. Alone'
    BY DEF Alone, Writing, Ingests, On
  <2>6. Answered'
    BY DEF Answered, AnswerOf
  <2> QED
    BY <2>1, <2>2, <2>3, <2>4, <2>5, <2>6
<1> QED
  BY <1>1, <1>2 DEF Next, Step

LEMMA InitiallyEffective == Init => Effective
<1> SUFFICES ASSUME Init PROVE Effective
  OBVIOUS
<1> USE DEF Init
<1>1. Slugged /\ Found
  BY DEF Slugged, SlugsOf, Found, FoundOf
<1>2. Creating /\ Rowed
  BY DEF Creating, CreatingOf, Rowed, RowOf
<1>3. Alone
  BY DEF Alone, Writing
<1>4. Answered
  BY DEF Answered, AnswerOf
<1> QED
  BY <1>1, <1>2, <1>3, <1>4 DEF Effective

LEMMA EffectiveHolds == Spec => [](IInv /\ Effective)
<1>1. Init => Effective
  BY InitiallyEffective
<1>2. IInv /\ Effective /\ [Next]_vars => Effective'
  BY EffectiveKept
<1>3. Spec => []IInv
  BY Inductive, PTL
<1> QED
  BY <1>1, <1>2, <1>3, PTL DEF Spec

(* The two modules speak of documents in the same words. *)
LEMMA SameWords ==
    /\ \A doc : Feed!Ids(doc) = Ids(doc)
    /\ \A doc : Feed!Rows(doc) = Rows(doc)
    /\ \A doc, p : Feed!FirstOf(doc, p) = FirstOf(doc, p)
    /\ Feed!Job = Job /\ Feed!NoJob = NoJob
<1>1. \A doc : Feed!Ids(doc) = Ids(doc)
  BY DEF Feed!Ids, Ids, Feed!ToSet, ToSet
<1>2. \A doc : Feed!Rows(doc) = Rows(doc)
  BY DEF Feed!Rows, Rows
<1>3. \A doc, p : Feed!FirstOf(doc, p) = FirstOf(doc, p)
  BY DEF Feed!FirstOf, FirstOf, Feed!Min, Min
<1>4. Feed!Job = Job /\ Feed!NoJob = NoJob
  BY DEF Feed!Job, Job, Feed!CreateJob, CreateJob, Feed!NoJob, NoJob
<1> QED
  BY <1>1, <1>2, <1>3, <1>4

LEMMA FeedStored ==
    /\ \A p : Feed!Stored(p) <=> playlists[p] # NoRow
    /\ \A c : Feed!Shown(c) <=> channels[c] # NoRow
    /\ \A s : Feed!SlugTaken(s) <=> SlugStored(s)
    /\ \A doc : Feed!New(doc) = {p \in Ids(doc) : playlists[p] = NoRow}
    /\ \A r : Feed!Current(r) <=> StillCurrent(r)
BY SameWords DEF Feed!Stored, Feed!Shown, Feed!SlugTaken, SlugStored, Feed!New, Feed!Current, StillCurrent

(* A request arrives. *)
LEMMA FeedAsks ==
    ASSUME IInv, Effective, NEW r \in Requests, Accept(r)
    PROVE  Feed!Ask(r)
<1> USE DEF IInv
<1>1. pc[r] = "idle" /\ job[r] = NoJob
  BY DEF Effective, Answered, AnswerOf, Accept, AcceptCreate, AcceptReplace, AcceptDelete
<1>2. UNCHANGED <<playlists, channels, members, tombs, reply>>
  BY DEF Accept, AcceptCreate, AcceptReplace, AcceptDelete, committed
<1>3. PICK j : /\ job' = [job EXCEPT ![r] = j] /\ j \in Job
               /\ j.op = "delete playlist" => playlists[j.target] # NoRow
               /\ j.op \in {"replace channel", "delete channel"} =>
                    channels[j.target] # NoRow /\ j.seen = channels[j.target].rev
  <2>1. \A c \in Channels : channels[c] # NoRow => channels[c].rev \in Nat
    BY DEF Typed, TablesTyped, ChannelsTyped, ChannelRow
  <2>2. CASE AcceptCreate(r)
    <3>1. PICK j \in CreateJob : job' = [job EXCEPT ![r] = j]
      BY <2>2 DEF AcceptCreate
    <3>2. j \in Job /\ j.op \in {"create playlist", "create channel"}
      BY <3>1 DEF Job, CreateJob
    <3> QED
      BY <3>1, <3>2
  <2>3. CASE AcceptReplace(r)
    <3>1. PICK c \in Channels, doc \in Documents :
            /\ channels[c] # NoRow
            /\ job' = [job EXCEPT ![r] =
                 [op |-> "replace channel", target |-> c, doc |-> doc, seen |-> channels[c].rev]]
      BY <2>3 DEF AcceptReplace
    <3> DEFINE j == [op |-> "replace channel", target |-> c, doc |-> doc, seen |-> channels[c].rev]
    <3>2. j \in Job
      BY <2>1, <3>1 DEF Job
    <3>3. j.op = "replace channel" /\ j.target = c /\ j.seen = channels[c].rev
      OBVIOUS
    <3> HIDE DEF j
    <3>4. job' = [job EXCEPT ![r] = j]
      BY <3>1 DEF j
    <3> QED
      BY <3>1, <3>2, <3>3, <3>4
  <2>4. CASE AcceptDelete(r)
    <3>1. ASSUME NEW p \in Playlists, playlists[p] # NoRow,
                 job' = [job EXCEPT ![r] = [op |-> "delete playlist", target |-> p]]
          PROVE  \E j : /\ job' = [job EXCEPT ![r] = j] /\ j \in Job
                        /\ j.op = "delete playlist" => playlists[j.target] # NoRow
                        /\ j.op \in {"replace channel", "delete channel"} =>
                             channels[j.target] # NoRow /\ j.seen = channels[j.target].rev
      <4> DEFINE j == [op |-> "delete playlist", target |-> p]
      <4>1. j \in Job /\ j.op = "delete playlist" /\ j.target = p
        BY DEF Job
      <4> HIDE DEF j
      <4>2. job' = [job EXCEPT ![r] = j]
        BY <3>1 DEF j
      <4> QED
        BY <3>1, <4>1, <4>2
    <3>2. ASSUME NEW c \in Channels, channels[c] # NoRow,
                 job' = [job EXCEPT ![r] = [op |-> "delete channel", target |-> c, seen |-> channels[c].rev]]
          PROVE  \E j : /\ job' = [job EXCEPT ![r] = j] /\ j \in Job
                        /\ j.op = "delete playlist" => playlists[j.target] # NoRow
                        /\ j.op \in {"replace channel", "delete channel"} =>
                             channels[j.target] # NoRow /\ j.seen = channels[j.target].rev
      <4> DEFINE j == [op |-> "delete channel", target |-> c, seen |-> channels[c].rev]
      <4>1. j \in Job
        BY <2>1, <3>2 DEF Job
      <4>2. j.op = "delete channel" /\ j.target = c /\ j.seen = channels[c].rev
        OBVIOUS
      <4> HIDE DEF j
      <4>3. job' = [job EXCEPT ![r] = j]
        BY <3>2 DEF j
      <4> QED
        BY <3>2, <4>1, <4>2, <4>3
    <3> QED
      BY <2>4, <3>1, <3>2 DEF AcceptDelete
  <2> QED
    BY <2>2, <2>3, <2>4 DEF Accept
<1>4. job'[r] = j /\ Feed!Requestable(j)
  BY <1>3, FeedStored DEF Typed, JobsTyped, Feed!Requestable
<1>5. job' = [job EXCEPT ![r] = job'[r]] /\ job'[r] \in Job /\ Feed!Requestable(job'[r])
  BY <1>3, <1>4
<1> QED
  BY <1>1, <1>2, <1>5, SameWords DEF Feed!Ask

(* A request is refused for a reason that holds. *)
LEMMA FeedRefuses ==
    ASSUME IInv, Effective, NEW r \in Requests, Step(r), Fails(r), ~Commit(r)
    PROVE  Feed!Refuse(r)
<1> USE DEF IInv
<1>1. /\ pc[r] \notin {"idle", "done"} /\ job[r] # NoJob /\ reply[r] = "none"
      /\ UNCHANGED <<playlists, channels, members, tombs, job>>
  BY DEF Fails, Effective, Answered, AnswerOf
<1>2. ASSUME NEW what \in {"deleted", "exists", "conflict", "notfound", "error"}, Finish(r, what),
             Feed!Because(r, what)
      PROVE  Feed!Refuse(r)
  BY <1>1, <1>2, SameWords DEF Feed!Refuse, Feed!Answer, Finish
<1>3. PICK what \in {"deleted", "exists", "conflict", "notfound", "error"} : Finish(r, what)
  BY DEF Fails
<1> USE DEF committed, Feed!Because, Feed!Names
<1>4. ASSUME Finish(r, "error") PROVE Feed!Refuse(r)
  BY <1>2, <1>4
<1>5. pc'[r] = "done"
  BY <1>3, Ended DEF Typed
<1>6. CASE Accept(r)
  BY <1>1, <1>6 DEF Accept, AcceptCreate, AcceptReplace, AcceptDelete
<1>7. CASE Abort(r)
  BY <1>4, <1>7 DEF Abort
<1>8. CASE LockDocument(r)
  <2>1. CASE On(r, "create channel") /\ job[r].target \in tombs /\ Finish(r, "deleted")
    BY <1>2, <2>1 DEF On
  <2>2. CASE Goto(r, IF On(r, "create channel") THEN "lock playlists" ELSE "delete")
    BY <1>3, <2>2, Ended DEF Goto, Typed, StepsTyped
  <2> QED
    BY <1>8, <2>1, <2>2 DEF LockDocument
<1>9. CASE LockPlaylist(r)
  BY <1>3, <1>9, Ended DEF LockPlaylist, Goto, Typed, StepsTyped
<1>10. CASE CheckPlaylists(r)
  <2>1. HasDoc(r)
    BY <1>10 DEF CheckPlaylists, Flow, FlowOf
  <2>2. CASE Ids(job[r].doc) \cap tombs # {} /\ Finish(r, "deleted")
    BY <1>2, <2>1, <2>2, SameWords DEF HasDoc, Ingests, On
  <2>3. CASE Goto(r, "insert")
    BY <1>3, <2>3, Ended DEF Goto, Typed, StepsTyped
  <2> QED
    BY <1>10, <2>2, <2>3 DEF CheckPlaylists
<1>11. CASE Insert(r)
  <2> DEFINE p == Min(todo[r])
             ref == FirstOf(job[r].doc, p)
  <2>1. pc[r] = "insert"
    BY <1>11 DEF Insert
  <2>2. HasDoc(r) /\ job[r].doc \in Sendable /\ p \in todo[r] /\ p \in Ids(job[r].doc) /\ ref.id = p
    BY <2>1, TodoFacts DEF Typed
  <2>3. Feed!Names(r)
    BY <2>2 DEF HasDoc, Ingests, On
  <2>4. CASE Finish(r, "exists") /\ ~Missing(r) /\ ~Ingests(r)
    <3>1. job[r].op = "create playlist" /\ Feed!Stored(p) /\ p \in Feed!Ids(job[r].doc)
      BY <2>2, <2>4, SameWords, FeedStored DEF HasDoc, On, Missing
    <3>2. Feed!Because(r, "exists")
      BY <3>1
    <3> QED
      BY <1>2, <2>4, <3>2
  <2>5. CASE Finish(r, "exists") /\ Missing(r) /\ SlugTaken(r, ref.slug)
    <3>1. p \in Feed!New(job[r].doc) /\ ref = Feed!FirstOf(job[r].doc, p)
      BY <2>2, <2>5, SameWords, FeedStored DEF Missing
    <3> HIDE DEF p, ref
    <3>2. ASSUME SlugStored(ref.slug) PROVE Feed!Clash(job[r].doc)
      BY <3>1, <3>2, FeedStored DEF Feed!Clash
    <3>3. ASSUME NEW x \in inserted[r], x.slug = ref.slug PROVE Feed!Clash(job[r].doc)
      <4>1. x = FirstOf(job[r].doc, x.id) /\ x.id \notin todo[r]
        BY <2>1 DEF Effective, Slugged, SlugsOf
      <4>2. x.id \in Ids(job[r].doc) /\ playlists[x.id] = NoRow
        BY DEF Unstored, UnstoredOf
      <4>3. x.id \in Feed!New(job[r].doc) \ {p} /\ Feed!FirstOf(job[r].doc, x.id).slug = ref.slug
        BY <2>2, <3>3, <4>1, <4>2, SameWords, FeedStored
      <4> QED
        BY <3>1, <4>3 DEF Feed!Clash
    <3>4. Feed!Clash(job[r].doc)
      BY <2>5, <3>2, <3>3 DEF SlugTaken
    <3>5. Feed!Because(r, "exists")
      BY <2>3, <3>4
    <3> QED
      BY <1>2, <2>5, <3>5
  <2>6. ASSUME Goto(r, IF todo'[r] # {} THEN "insert" ELSE AfterInsert(r))
        PROVE FALSE
    <3>1. pc'[r] \in {"insert", "record", "write", "commit"}
      BY <2>6, Onward DEF Goto, Typed, StepsTyped
    <3> QED
      BY <1>5, <3>1
  <2> QED
    BY <1>11, <2>4, <2>5, <2>6 DEF Insert
<1>12. CASE WriteChannel(r)
  <2>1. CASE On(r, "create channel") /\ channels[job[r].target] # NoRow /\ Finish(r, "exists")
    BY <1>2, <2>1, FeedStored DEF On
  <2>2. CASE On(r, "replace channel") /\ ~StillCurrent(r) /\ Missed(r)
    BY <1>2, <2>2, FeedStored DEF On, Missed
  <2>3. CASE Goto(r, "members")
    BY <1>3, <2>3, Ended DEF Goto, Typed, StepsTyped
  <2> QED
    BY <1>12, <2>1, <2>2, <2>3 DEF WriteChannel
<1>13. CASE WriteMembers(r)
  <2>1. CASE Finish(r, "error")
    BY <1>4, <2>1
  <2>2. CASE Goto(r, "commit")
    BY <1>3, <2>2, Ended DEF Goto, Typed, StepsTyped
  <2> QED
    BY <1>13, <2>1, <2>2 DEF WriteMembers
<1>14. CASE DeleteRow(r)
  <2>1. CASE On(r, "delete playlist") /\ playlists[job[r].target] = NoRow /\ Finish(r, "notfound")
    BY <1>2, <2>1, FeedStored DEF On
  <2>2. CASE On(r, "delete channel") /\ ~StillCurrent(r) /\ Missed(r)
    BY <1>2, <2>2, FeedStored DEF On, Missed
  <2>3. CASE Goto(r, IF On(r, "delete playlist") THEN "cascade" ELSE "commit")
    BY <1>5, <2>3 DEF Goto, Typed, StepsTyped
  <2> QED
    BY <1>14, <2>1, <2>2, <2>3 DEF DeleteRow
<1>15. ~Record(r) /\ ~CascadeToSources(r)
  BY <1>5 DEF Record, CascadeToSources, Goto, Typed, StepsTyped
<1> QED
  BY <1>6, <1>7, <1>8, <1>9, <1>10, <1>11, <1>12, <1>13, <1>14, <1>15 DEF Step, Statement

(* What a commit makes of the playlists it brings in. *)
LEMMA FeedBringsIn ==
    ASSUME IInv, Effective, NEW r \in Requests, Commit(r), HasDoc(r)
    PROVE  Feed!BringIn(r, job[r].doc)
<1> USE DEF IInv
<1> DEFINE doc == job[r].doc
<1>1. pc[r] = "commit" /\ ~Deletes(r) /\ doc \in Sendable
  BY JobFacts DEF Commit, Typed
<1>2. ASSUME NEW p \in Ids(doc), playlists[p] = NoRow
      PROVE  \E x \in inserted[r] : x.id = p /\ x = FirstOf(doc, p)
  <2>1. PICK x \in inserted[r] : x.id = p
    BY <1>1, <1>2 DEF Linked, LinkedOf, Met
  <2> QED
    BY <2>1 DEF Effective, Slugged, SlugsOf
<1>3. ASSUME NEW x \in inserted[r]
      PROVE  x.id \in Ids(doc) /\ playlists[x.id] = NoRow /\ x = FirstOf(doc, x.id)
  BY DEF Unstored, UnstoredOf, Effective, Slugged, SlugsOf
<1>4. Feed!Ids(doc) \cap tombs = {}
  BY <1>1, SameWords DEF Fresh, FreshOf
<1>5. ~Feed!Clash(doc)
  <2> SUFFICES ASSUME NEW p \in Feed!New(doc),
                      \/ Feed!SlugTaken(Feed!FirstOf(doc, p).slug)
                      \/ \E q \in Feed!New(doc) \ {p} : Feed!FirstOf(doc, q).slug = Feed!FirstOf(doc, p).slug
               PROVE  FALSE
    BY DEF Feed!Clash
  <2>1. p \in Ids(doc) /\ playlists[p] = NoRow
    BY FeedStored
  <2>2. PICK x \in inserted[r] : x.id = p /\ x = FirstOf(doc, p)
    BY <1>2, <2>1
  <2>3. SlugsOf(r)
    BY DEF Effective, Slugged
  <2>4. ~SlugStored(FirstOf(doc, p).slug)
    BY <2>2, <2>3 DEF SlugsOf
  <2>5. ASSUME NEW q \in Feed!New(doc) \ {p} PROVE FirstOf(doc, q).slug # FirstOf(doc, p).slug
    <3>1. q \in Ids(doc) /\ playlists[q] = NoRow
      BY FeedStored
    <3>2. PICK y \in inserted[r] : y.id = q /\ y = FirstOf(doc, q)
      BY <1>2, <3>1
    <3> QED
      BY <2>2, <2>3, <2>5, <3>2 DEF SlugsOf
  <2> QED
    BY <2>4, <2>5, SameWords, FeedStored
<1>6. ASSUME NEW p \in Playlists
      PROVE  PlaylistAfter(r, p) = IF p \in Feed!New(doc) THEN [slug |-> Feed!FirstOf(doc, p).slug, by |-> r]
                                   ELSE playlists[p]
  <2>1. CASE p \in Feed!New(doc)
    <3>1. p \in Ids(doc) /\ playlists[p] = NoRow
      BY <2>1, FeedStored
    <3>2. \E x \in inserted[r] : x.id = p
      BY <1>2, <3>1
    <3>3. (CHOOSE x \in inserted[r] : x.id = p) \in inserted[r] /\ (CHOOSE x \in inserted[r] : x.id = p).id = p
      BY <3>2
    <3>4. (CHOOSE x \in inserted[r] : x.id = p) = FirstOf(doc, p)
      BY <1>3, <3>3
    <3> QED
      BY <2>1, <3>2, <3>4, SameWords DEF PlaylistAfter
  <2>2. CASE p \notin Feed!New(doc)
    <3>1. \A x \in inserted[r] : x.id # p
      BY <1>3, <2>2, FeedStored
    <3>2. ~Deleting(r, p)
      BY <1>1 DEF Deleting, Deletes
    <3> QED
      BY <2>2, <3>1, <3>2 DEF PlaylistAfter
  <2> QED
    BY <2>1, <2>2
<1> HIDE DEF doc
<1>7. playlists' = [p \in Playlists |->
         IF p \in Feed!New(doc) THEN [slug |-> Feed!FirstOf(doc, p).slug, by |-> r] ELSE playlists[p]]
  BY <1>6 DEF Commit
<1>8. Feed!BringIn(r, doc)
  BY <1>4, <1>5, <1>7 DEF Feed!BringIn
<1> QED
  BY <1>8 DEF doc

(* A commit that writes no channel leaves them and their members as they are. *)
LEMMA FeedCreatesPlaylist ==
    ASSUME IInv, Effective, NEW r \in Requests, Commit(r), On(r, "create playlist")
    PROVE  Feed!CreatePlaylist(r)
<1> USE DEF IInv
<1>1. ~Ingests(r) /\ ~Deletes(r) /\ HasDoc(r) /\ pc[r] = "commit"
  BY OneKind DEF HasDoc, Commit
<1>2. Feed!BringIn(r, job[r].doc)
  BY <1>1, FeedBringsIn
<1>3. \A c \in Channels : ChannelAfter(r, c) = channels[c] /\ MembersAfter(r, c) = members[c]
  BY <1>1 DEF ChannelAfter, MembersAfter, Writing, Deletes
<1>4. UNCHANGED <<channels, members, tombs>>
  BY <1>1, <1>3 DEF Commit, Typed, TablesTyped, ChannelsTyped, MembersTyped
<1>5. \A p \in Feed!Ids(job[r].doc) : ~Feed!Stored(p)
  <2> SUFFICES ASSUME NEW p \in Ids(job[r].doc) PROVE playlists[p] = NoRow
    BY SameWords, FeedStored
  <2>1. \E x \in inserted[r] : x.id = p
    BY <1>1 DEF Effective, Found, FoundOf
  <2> QED
    BY <2>1 DEF Unstored, UnstoredOf
<1>6. Feed!Acknowledge(r)
  BY <1>1 DEF Feed!Acknowledge, Feed!Answer, Commit, Finish, Effective, Answered, AnswerOf
<1>7. job[r].op = "create playlist"
  BY DEF On
<1> QED
  BY <1>2, <1>4, <1>5, <1>6, <1>7 DEF Feed!CreatePlaylist

LEMMA FeedShows ==
    ASSUME IInv, Effective, NEW r \in Requests, Commit(r), Ingests(r), NEW rev,
           rev = IF channels[job[r].target] = NoRow THEN 1 ELSE channels[job[r].target].rev + 1
    PROVE  Feed!Show(r, rev)
<1> USE DEF IInv
<1> DEFINE c == job[r].target
<1>1. ~On(r, "delete playlist") /\ ~On(r, "delete channel") /\ HasDoc(r) /\ pc[r] = "commit"
      /\ c \in Channels
  BY OneKind, JobFacts DEF HasDoc, Commit, Typed
<1>2. Feed!BringIn(r, job[r].doc)
  BY <1>1, FeedBringsIn
<1>3. ASSUME NEW d \in Channels
      PROVE  /\ ChannelAfter(r, d) = IF d = c THEN [rev |-> rev, doc |-> job[r].doc] ELSE channels[d]
             /\ MembersAfter(r, d) = IF d = c THEN Rows(job[r].doc) ELSE members[d]
  <2>1. Writing(r, d) <=> d = c
    BY <1>1 DEF Writing
  <2>2. CASE d = c
    BY <1>1, <2>1, <2>2 DEF ChannelAfter, MembersAfter
  <2>3. CASE d # c
    BY <1>1, <2>1, <2>3 DEF ChannelAfter, MembersAfter
  <2> QED
    BY <2>2, <2>3
<1> HIDE DEF c
<1>4. channels' = [channels EXCEPT ![c] = [rev |-> rev, doc |-> job[r].doc]]
  BY <1>1, <1>3 DEF Commit, Typed, TablesTyped, ChannelsTyped
<1>5. members' = [members EXCEPT ![c] = Rows(job[r].doc)]
  BY <1>1, <1>3 DEF Commit, Typed, TablesTyped, MembersTyped
<1>6. tombs' = tombs
  BY <1>1 DEF Commit, Deletes
<1>7. Feed!Acknowledge(r)
  BY <1>1 DEF Feed!Acknowledge, Feed!Answer, Commit, Finish, Effective, Answered, AnswerOf
<1> QED
  BY <1>2, <1>4, <1>5, <1>6, <1>7, SameWords DEF Feed!Show, c

LEMMA FeedDeletesPlaylist ==
    ASSUME IInv, Effective, NEW r \in Requests, Commit(r), On(r, "delete playlist")
    PROVE  Feed!DeletePlaylist(r)
<1> USE DEF IInv
<1> DEFINE p == job[r].target
<1>1. ~Ingests(r) /\ Deletes(r) /\ ~On(r, "delete channel") /\ ~HasDoc(r) /\ pc[r] = "commit" /\ p \in Playlists
  BY OneKind, JobFacts DEF HasDoc, Commit, Typed
<1>2. inserted[r] = {}
  BY <1>1 DEF Unstored, UnstoredOf
<1>3. ASSUME NEW q \in Playlists PROVE PlaylistAfter(r, q) = IF q = p THEN NoRow ELSE playlists[q]
  BY <1>1, <1>2 DEF PlaylistAfter, Deleting
<1>4. ASSUME NEW c \in Channels
      PROVE  ChannelAfter(r, c) = channels[c] /\ MembersAfter(r, c) = {m \in members[c] : m[2] # p}
  <2>1. ~Writing(r, c)
    BY <1>1 DEF Writing
  <2> QED
    BY <1>1, <2>1 DEF ChannelAfter, MembersAfter
<1>5. Feed!Acknowledge(r)
  BY <1>1 DEF Feed!Acknowledge, Feed!Answer, Commit, Finish, Effective, Answered, AnswerOf
<1>6. Feed!Stored(p)
  BY <1>1, FeedStored DEF Effective, Found, FoundOf
<1> HIDE DEF p
<1>7. playlists' = [playlists EXCEPT ![p] = NoRow]
  BY <1>1, <1>3 DEF Commit, Typed, TablesTyped, PlaylistsTyped
<1>8. members' = [c \in Channels |-> {m \in members[c] : m[2] # p}] /\ channels' = channels
  BY <1>1, <1>4 DEF Commit, Typed, TablesTyped, ChannelsTyped
<1>9. tombs' = tombs \cup {p}
  BY <1>1 DEF Commit, p
<1> QED
  BY <1>5, <1>6, <1>7, <1>8, <1>9 DEF Feed!DeletePlaylist, p, On

LEMMA FeedDeletesChannel ==
    ASSUME IInv, Effective, NEW r \in Requests, Commit(r), On(r, "delete channel")
    PROVE  Feed!DeleteChannel(r)
<1> USE DEF IInv
<1> DEFINE c == job[r].target
<1>1. ~Ingests(r) /\ Deletes(r) /\ ~On(r, "delete playlist") /\ ~HasDoc(r) /\ pc[r] = "commit" /\ c \in Channels
  BY OneKind, JobFacts DEF HasDoc, Commit, Typed
<1>2. inserted[r] = {}
  BY <1>1 DEF Unstored, UnstoredOf
<1>3. ASSUME NEW q \in Playlists PROVE PlaylistAfter(r, q) = playlists[q]
  BY <1>1, <1>2 DEF PlaylistAfter, Deleting
<1>4. ASSUME NEW d \in Channels
      PROVE  /\ ChannelAfter(r, d) = IF d = c THEN NoRow ELSE channels[d]
             /\ MembersAfter(r, d) = IF d = c THEN {} ELSE members[d]
  <2>1. Writing(r, d) <=> d = c
    BY <1>1 DEF Writing
  <2>2. CASE d = c
    BY <1>1, <2>1, <2>2 DEF ChannelAfter, MembersAfter
  <2>3. CASE d # c
    BY <1>1, <2>1, <2>3 DEF ChannelAfter, MembersAfter
  <2> QED
    BY <2>2, <2>3
<1>5. Feed!Acknowledge(r)
  BY <1>1 DEF Feed!Acknowledge, Feed!Answer, Commit, Finish, Effective, Answered, AnswerOf
<1>6. Feed!Current(r)
  BY <1>1, FeedStored DEF Effective, Rowed, RowOf
<1> HIDE DEF c
<1>7. playlists' = playlists
  BY <1>3 DEF Commit, Typed, TablesTyped, PlaylistsTyped
<1>8. channels' = [channels EXCEPT ![c] = NoRow]
  BY <1>1, <1>4 DEF Commit, Typed, TablesTyped, ChannelsTyped
<1>9. members' = [members EXCEPT ![c] = {}]
  BY <1>1, <1>4 DEF Commit, Typed, TablesTyped, MembersTyped
<1>10. tombs' = tombs \cup {c}
  BY <1>1 DEF Commit, c
<1> QED
  BY <1>5, <1>6, <1>7, <1>8, <1>9, <1>10 DEF Feed!DeleteChannel, c, On

(* A commit carries out what was asked, in one step of the feed. *)
LEMMA FeedCommits ==
    ASSUME IInv, Effective, NEW r \in Requests, Commit(r)
    PROVE  \/ Feed!CreatePlaylist(r) \/ Feed!CreateChannel(r) \/ Feed!ReplaceChannel(r)
           \/ Feed!DeletePlaylist(r) \/ Feed!DeleteChannel(r)
<1> USE DEF IInv
<1>1. pc[r] = "commit" /\ (HasDoc(r) \/ Deletes(r))
  BY DEF Commit, Flow, FlowOf
<1>2. CASE On(r, "create channel")
  <2>1. Ingests(r) /\ channels[job[r].target] = NoRow /\ job[r].target \notin tombs
    BY <1>1, <1>2, OneKind DEF Effective, Rowed, RowOf, Creating, CreatingOf
  <2>2. Feed!Show(r, 1)
    BY <2>1, FeedShows
  <2> QED
    BY <1>2, <2>1, <2>2, FeedStored DEF Feed!CreateChannel, On
<1>3. CASE On(r, "replace channel")
  <2>1. Ingests(r) /\ StillCurrent(r)
    BY <1>1, <1>3, OneKind DEF Effective, Rowed, RowOf
  <2>2. Feed!Show(r, job[r].seen + 1)
    BY <2>1, FeedShows DEF StillCurrent
  <2> QED
    BY <1>3, <2>1, <2>2, FeedStored DEF Feed!ReplaceChannel, On
<1>4. CASE On(r, "create playlist")
  BY <1>4, FeedCreatesPlaylist
<1>5. CASE On(r, "delete playlist")
  BY <1>5, FeedDeletesPlaylist
<1>6. CASE On(r, "delete channel")
  BY <1>6, FeedDeletesChannel
<1> QED
  BY <1>1, <1>2, <1>3, <1>4, <1>5, <1>6 DEF HasDoc, Ingests, Deletes

LEMMA FeedStep == IInv /\ Effective /\ [Next]_vars => [Feed!Next]_(Feed!vars)
<1> SUFFICES ASSUME IInv, Effective, [Next]_vars PROVE Feed!Next \/ UNCHANGED Feed!vars
  OBVIOUS
<1>1. CASE UNCHANGED vars
  BY <1>1 DEF vars, Feed!vars
<1>2. ASSUME NEW r \in Requests, Step(r) PROVE Feed!Next \/ UNCHANGED Feed!vars
  <2>1. CASE Accept(r)
    BY <1>2, <2>1, FeedAsks DEF Feed!Next
  <2>2. CASE Fails(r) /\ ~Commit(r)
    BY <1>2, <2>2, FeedRefuses DEF Feed!Next
  <2>3. CASE Commit(r)
    BY <1>2, <2>3, FeedCommits DEF Feed!Next
  <2>4. CASE Passes(r)
    BY <2>4 DEF Passes, Feed!vars
  <2> QED
    BY <1>2, <2>1, <2>2, <2>3, <2>4, StatementStep DEF Step, IInv, Typed, Abort, Fails, committed
<1> QED
  BY <1>1, <1>2 DEF Next, Step

LEMMA FeedStarts == Init => Feed!Init
BY SameWords DEF Init, Feed!Init

(* Every request takes effect, or is refused for a reason that holds, at one moment:
   the feed clients see is PlaylistFeed, under any interleaving of the locks and
   statements of the transactions, whether word of a commit arrives or is lost. *)
THEOREM Refinement == Spec => ImplementsFeed
BY EffectiveHolds, FeedStep, FeedStarts, PTL DEF Spec, ImplementsFeed, Feed!Spec

-----------------------------------------------------------------------------
(* What follows for clients of the feed, step of PlaylistFeed by step *)

Kept == playlists' = playlists /\ channels' = channels /\ members' = members /\ tombs' = tombs

(* Whatever the feed does beyond asking and refusing, and to which rows. *)
LEMMA FeedMoves ==
    ASSUME IInv, Effective, [Next]_vars
    PROVE  \/ Kept
           \/ \E r \in Requests :
                /\ HasDoc(r) /\ job[r].doc \in Sendable /\ Feed!BringIn(r, job[r].doc)
                /\ Feed!CreatePlaylist(r) \/ (job[r].target \in Channels /\ (Feed!CreateChannel(r) \/ Feed!ReplaceChannel(r)))
           \/ \E r \in Requests : job[r].target \in Playlists /\ Feed!DeletePlaylist(r)
           \/ \E r \in Requests : job[r].target \in Channels /\ Feed!DeleteChannel(r)
<1>1. CASE UNCHANGED vars
  BY <1>1 DEF vars, Kept
<1>2. ASSUME NEW r \in Requests, Step(r), ~Commit(r) PROVE Kept
  BY <1>2, StepKinds, TablesStill DEF IInv, Typed, Kept
<1>3. ASSUME NEW r \in Requests, Commit(r)
      PROVE  \/ /\ HasDoc(r) /\ job[r].doc \in Sendable /\ Feed!BringIn(r, job[r].doc)
                /\ Feed!CreatePlaylist(r) \/ (job[r].target \in Channels /\ (Feed!CreateChannel(r) \/ Feed!ReplaceChannel(r)))
             \/ job[r].target \in Playlists /\ Feed!DeletePlaylist(r)
             \/ job[r].target \in Channels /\ Feed!DeleteChannel(r)
  <2> USE DEF IInv, Typed
  <2>1. CASE Feed!CreatePlaylist(r)
    <3>1. HasDoc(r)
      BY <2>1 DEF Feed!CreatePlaylist, HasDoc, On
    <3> QED
      BY <1>3, <2>1, <3>1, JobFacts, FeedBringsIn
  <2>2. CASE Feed!CreateChannel(r) \/ Feed!ReplaceChannel(r)
    <3>1. HasDoc(r) /\ Ingests(r)
      BY <2>2 DEF Feed!CreateChannel, Feed!ReplaceChannel, HasDoc, Ingests, On
    <3> QED
      BY <1>3, <2>2, <3>1, JobFacts, FeedBringsIn
  <2>3. CASE Feed!DeletePlaylist(r)
    BY <2>3, JobFacts DEF Feed!DeletePlaylist, On
  <2>4. CASE Feed!DeleteChannel(r)
    BY <2>4, JobFacts DEF Feed!DeleteChannel, On
  <2> QED
    BY <1>3, <2>1, <2>2, <2>3, <2>4, FeedCommits
<1> QED
  BY <1>1, <1>2, <1>3 DEF Next, Step

(* What the step that brings playlists in makes of them. *)
LEMMA Brought ==
    ASSUME NEW r \in Requests, NEW doc \in Sendable, Feed!BringIn(r, doc)
    PROVE  /\ \A p \in Ids(doc) : p \notin tombs /\ p \in Playlists
           /\ \A p \in Playlists :
                \/ /\ p \in Ids(doc) /\ playlists[p] = NoRow
                   /\ playlists'[p] = [slug |-> FirstOf(doc, p).slug, by |-> r] /\ playlists'[p] # NoRow
                   /\ ~SlugStored(FirstOf(doc, p).slug)
                   /\ \A q \in Playlists : q \in Ids(doc) /\ playlists[q] = NoRow /\ FirstOf(doc, q).slug = FirstOf(doc, p).slug
                                              => q = p
                \/ /\ playlists'[p] = playlists[p]
                   /\ p \in Ids(doc) => playlists[p] # NoRow
<1>1. \A p \in Ids(doc) : p \notin tombs /\ p \in Playlists
  BY Named, SameWords DEF Feed!BringIn
<1>2. ASSUME NEW p \in Playlists, p \in Ids(doc), playlists[p] = NoRow
      PROVE  /\ playlists'[p] = [slug |-> FirstOf(doc, p).slug, by |-> r] /\ playlists'[p] # NoRow
             /\ ~SlugStored(FirstOf(doc, p).slug)
             /\ \A q \in Playlists : q \in Ids(doc) /\ playlists[q] = NoRow /\ FirstOf(doc, q).slug = FirstOf(doc, p).slug
                                        => q = p
  <2>1. p \in Feed!New(doc)
    BY <1>2, FeedStored
  <2>2. playlists'[p] = [slug |-> FirstOf(doc, p).slug, by |-> r]
    BY <2>1, SameWords DEF Feed!BringIn
  <2>3. FirstOf(doc, p).slug \in Slugs
    <3>1. FirstOf(doc, p) \in [id : Playlists, slug : Slugs, uri : Uris \cup {Elsewhere}]
      BY <1>2, First, RequestsAssumption
    <3> QED
      BY <3>1
  <2>4. [slug |-> FirstOf(doc, p).slug, by |-> r] # NoRow
    BY <2>3, RequestsAssumption
  <2>5. ~Feed!Clash(doc)
    BY DEF Feed!BringIn
  <2>6. ~SlugStored(FirstOf(doc, p).slug)
    BY <2>1, <2>5, SameWords, FeedStored DEF Feed!Clash
  <2>7. ASSUME NEW q \in Playlists, q \in Ids(doc), playlists[q] = NoRow, FirstOf(doc, q).slug = FirstOf(doc, p).slug
        PROVE  q = p
    BY <2>1, <2>5, <2>7, SameWords, FeedStored DEF Feed!Clash
  <2> QED
    BY <2>2, <2>4, <2>6, <2>7
<1>3. ASSUME NEW p \in Playlists, ~(p \in Ids(doc) /\ playlists[p] = NoRow) PROVE playlists'[p] = playlists[p]
  <2>1. p \notin Feed!New(doc)
    BY <1>3, FeedStored
  <2> QED
    BY <2>1 DEF Feed!BringIn
<1> QED
  BY <1>1, <1>2, <1>3

(* No two stored playlists ever share a slug, although nobody locks slugs. *)
THEOREM SlugsUniqueHolds == Spec => []Feed!SlugsUnique
<1>1. Init => Feed!SlugsUnique
  BY DEF Init, Feed!SlugsUnique, Feed!Stored
<1>2. ASSUME IInv, Effective, Feed!SlugsUnique, [Next]_vars PROVE Feed!SlugsUnique'
  <2> SUFFICES ASSUME NEW p \in Playlists, NEW q \in Playlists, playlists'[p] # NoRow, playlists'[q] # NoRow,
                      playlists'[p].slug = playlists'[q].slug
               PROVE  p = q
    BY DEF Feed!SlugsUnique, Feed!Stored
  <2>1. playlists[p] # NoRow /\ playlists[q] # NoRow /\ playlists[p].slug = playlists[q].slug => p = q
    BY <1>2 DEF Feed!SlugsUnique, Feed!Stored
  <2>2. CASE Kept
    BY <2>1, <2>2 DEF Kept
  <2>3. ASSUME NEW r \in Requests, job[r].doc \in Sendable, Feed!BringIn(r, job[r].doc) PROVE p = q
    <3> DEFINE doc == job[r].doc
               New(d) == /\ d \in Ids(doc) /\ playlists[d] = NoRow
                         /\ playlists'[d].slug = FirstOf(doc, d).slug
                         /\ ~SlugStored(FirstOf(doc, d).slug)
                         /\ \A e \in Playlists :
                              e \in Ids(doc) /\ playlists[e] = NoRow /\ FirstOf(doc, e).slug = FirstOf(doc, d).slug
                              => e = d
               Old(d) == playlists'[d] = playlists[d]
    <3>9. doc \in Sendable /\ Feed!BringIn(r, doc)
      BY <2>3
    <3> HIDE DEF doc
    <3>1. ASSUME NEW d \in Playlists PROVE New(d) \/ Old(d)
      <4>1. \/ /\ d \in Ids(doc) /\ playlists[d] = NoRow
               /\ playlists'[d] = [slug |-> FirstOf(doc, d).slug, by |-> r]
               /\ ~SlugStored(FirstOf(doc, d).slug)
               /\ \A e \in Playlists : e \in Ids(doc) /\ playlists[e] = NoRow /\ FirstOf(doc, e).slug = FirstOf(doc, d).slug
                                          => e = d
            \/ playlists'[d] = playlists[d]
        BY <3>9, Brought
      <4> QED
        BY <4>1
    <3>2. ASSUME NEW d \in Playlists, playlists'[d] # NoRow, Old(d) PROVE SlugStored(playlists'[d].slug)
      BY <3>2 DEF SlugStored
    <3>3. CASE Old(p) /\ Old(q)
      BY <2>1, <3>3
    <3>4. CASE New(p) /\ New(q)
      BY <3>4
    <3>5. ~(New(p) /\ Old(q)) /\ ~(Old(p) /\ New(q))
      BY <3>2
    <3> QED
      BY <3>1, <3>3, <3>4, <3>5
  <2>4. ASSUME NEW r \in Requests, job[r].target \in Playlists, Feed!DeletePlaylist(r) PROVE p = q
    <3>1. \A d \in Playlists : playlists'[d] # NoRow => playlists'[d] = playlists[d]
      BY <1>2, <2>4 DEF Feed!DeletePlaylist, IInv, Typed, TablesTyped, PlaylistsTyped
    <3> QED
      BY <2>1, <3>1
  <2>5. ASSUME NEW r \in Requests, Feed!DeleteChannel(r) PROVE p = q
    BY <2>1, <2>5 DEF Feed!DeleteChannel
  <2> QED
    BY <1>2, <2>2, <2>3, <2>4, <2>5, FeedMoves
<1>3. IInv /\ Effective /\ Feed!SlugsUnique /\ [Next]_vars => Feed!SlugsUnique'
  BY <1>2
<1> QED
  BY <1>1, <1>3, EffectiveHolds, PTL DEF Spec

(* What was deleted never comes back, neither as a document of its own nor brought
   in by a channel that names it. *)
THEOREM DeletedForGoodHolds == Spec => []Feed!DeletedForGood
<1>1. Init => Feed!DeletedForGood
  BY DEF Init, Feed!DeletedForGood
<1>2. ASSUME IInv, Effective, Feed!DeletedForGood, [Next]_vars PROVE Feed!DeletedForGood'
  <2> USE RequestsAssumption
  <2> USE DEF IInv, Typed, TablesTyped, PlaylistsTyped, ChannelsTyped
  <2>1. /\ \A p \in Playlists \cap tombs : playlists[p] = NoRow
        /\ \A c \in Channels \cap tombs : channels[c] = NoRow
    BY <1>2 DEF Feed!DeletedForGood, Feed!Stored, Feed!Shown
  <2> SUFFICES /\ \A p \in Playlists \cap tombs' : playlists'[p] = NoRow
               /\ \A c \in Channels \cap tombs' : channels'[c] = NoRow
    BY DEF Feed!DeletedForGood, Feed!Stored, Feed!Shown
  <2>2. CASE Kept
    BY <2>1, <2>2 DEF Kept
  <2>3. ASSUME NEW r \in Requests, job[r].doc \in Sendable, Feed!BringIn(r, job[r].doc),
               NEW p \in Playlists \cap tombs
        PROVE  playlists'[p] = NoRow
    BY <2>1, <2>3, Brought
  <2>4. ASSUME NEW r \in Requests, Feed!CreatePlaylist(r) PROVE tombs' = tombs /\ channels' = channels
    BY <2>4 DEF Feed!CreatePlaylist
  <2>5. ASSUME NEW r \in Requests, Feed!CreateChannel(r) \/ Feed!ReplaceChannel(r), NEW c \in Channels \cap tombs
        PROVE  tombs' = tombs /\ channels'[c] = NoRow
    <3>1. tombs' = tombs /\ c # job[r].target
      BY <2>1, <2>5 DEF Feed!CreateChannel, Feed!ReplaceChannel, Feed!Show, Feed!Current, Feed!Shown
    <3> QED
      BY <1>2, <2>1, <2>5, <3>1 DEF Feed!CreateChannel, Feed!ReplaceChannel, Feed!Show
  <2>6. ASSUME NEW r \in Requests, Feed!CreateChannel(r) \/ Feed!ReplaceChannel(r) PROVE tombs' = tombs
    BY <2>6 DEF Feed!CreateChannel, Feed!ReplaceChannel, Feed!Show
  <2>7. ASSUME NEW r \in Requests, job[r].target \in Playlists, Feed!DeletePlaylist(r)
        PROVE  /\ \A p \in Playlists \cap tombs' : playlists'[p] = NoRow
               /\ \A c \in Channels \cap tombs' : channels'[c] = NoRow
    BY <1>2, <2>1, <2>7 DEF Feed!DeletePlaylist
  <2>8. ASSUME NEW r \in Requests, job[r].target \in Channels, Feed!DeleteChannel(r)
        PROVE  /\ \A p \in Playlists \cap tombs' : playlists'[p] = NoRow
               /\ \A c \in Channels \cap tombs' : channels'[c] = NoRow
    BY <1>2, <2>1, <2>8 DEF Feed!DeleteChannel
  <2>9. ASSUME NEW r \in Requests, job[r].doc \in Sendable, Feed!BringIn(r, job[r].doc),
               Feed!CreatePlaylist(r) \/ Feed!CreateChannel(r) \/ Feed!ReplaceChannel(r)
        PROVE  /\ \A p \in Playlists \cap tombs' : playlists'[p] = NoRow
               /\ \A c \in Channels \cap tombs' : channels'[c] = NoRow
    <3>1. tombs' = tombs
      BY <2>4, <2>6, <2>9
    <3>2. \A c \in Channels \cap tombs : channels'[c] = NoRow
      BY <2>1, <2>4, <2>5, <2>9
    <3> QED
      BY <2>3, <2>9, <3>1, <3>2
  <2> QED
    BY <1>2, <2>2, <2>7, <2>8, <2>9, FeedMoves
<1>3. IInv /\ Effective /\ Feed!DeletedForGood /\ [Next]_vars => Feed!DeletedForGood'
  BY <1>2
<1> QED
  BY <1>1, <1>3, EffectiveHolds, PTL DEF Spec

(* A channel plays what it shows, less what was deleted, and every playlist it plays
   is there: nothing a client reads of a channel leads to a missing playlist. *)
THEOREM PlaysWhatItShowsHolds == Spec => []Feed!PlaysWhatItShows
<1> DEFINE Plays == \A c \in Channels : \A m \in members[c] : playlists[m[2]] # NoRow
<1>1. ASSUME IInv, Effective, MembersFollowDocument, Plays, [Next]_vars PROVE Plays'
  <2> USE RequestsAssumption
  <2> USE DEF IInv, Typed, TablesTyped, PlaylistsTyped, MembersTyped
  <2> SUFFICES ASSUME NEW c \in Channels, NEW m \in members'[c] PROVE playlists'[m[2]] # NoRow
    OBVIOUS
  <2>1. ASSUME m \in members[c], playlists'[m[2]] = playlists[m[2]] PROVE playlists'[m[2]] # NoRow
    BY <1>1, <2>1
  <2>2. CASE Kept
    BY <2>1, <2>2 DEF Kept
  <2>3. ASSUME NEW r \in Requests, HasDoc(r), job[r].doc \in Sendable, Feed!BringIn(r, job[r].doc), m \in members[c]
        PROVE  playlists'[m[2]] # NoRow
    <3>1. m[2] \in Playlists /\ playlists[m[2]] # NoRow
      BY <1>1, <2>3
    <3> QED
      BY <2>3, <3>1, Brought
  <2>4. ASSUME NEW r \in Requests, HasDoc(r), job[r].doc \in Sendable, Feed!BringIn(r, job[r].doc),
               m \in Rows(job[r].doc)
        PROVE  playlists'[m[2]] # NoRow
    <3>1. m[2] \in Ids(job[r].doc) /\ m[2] \in Playlists
      BY <2>4, RowsTyped, Named
    <3> QED
      BY <2>4, <3>1, Brought
  <2>5. ASSUME NEW r \in Requests, Feed!CreatePlaylist(r) PROVE m \in members[c]
    BY <2>5 DEF Feed!CreatePlaylist
  <2>6. ASSUME NEW r \in Requests, job[r].target \in Channels, Feed!CreateChannel(r) \/ Feed!ReplaceChannel(r)
        PROVE  m \in members[c] \/ m \in Rows(job[r].doc)
    BY <1>1, <2>6, SameWords DEF Feed!CreateChannel, Feed!ReplaceChannel, Feed!Show
  <2>7. ASSUME NEW r \in Requests, job[r].target \in Playlists, Feed!DeletePlaylist(r)
        PROVE  playlists'[m[2]] # NoRow
    <3>9. members' = [d \in Channels |-> {n \in members[d] : n[2] # job[r].target}]
      BY <2>7 DEF Feed!DeletePlaylist
    <3>1. m \in members[c] /\ m[2] # job[r].target /\ m[2] \in Playlists
      <4>1. m \in members[c] /\ m[2] # job[r].target
        BY <3>9
      <4>2. members[c] \subseteq Nat \X Playlists
        BY <1>1
      <4> QED
        BY <4>1, <4>2
    <3>2. playlists'[m[2]] = playlists[m[2]]
      BY <1>1, <2>7, <3>1 DEF Feed!DeletePlaylist
    <3> QED
      BY <2>1, <3>1, <3>2
  <2>8. ASSUME NEW r \in Requests, job[r].target \in Channels, Feed!DeleteChannel(r)
        PROVE  playlists'[m[2]] # NoRow
    <3>1. m \in members[c] /\ playlists' = playlists
      BY <1>1, <2>8 DEF Feed!DeleteChannel
    <3> QED
      BY <2>1, <3>1
  <2> QED
    BY <1>1, <2>2, <2>3, <2>4, <2>5, <2>6, <2>7, <2>8, FeedMoves
<1>2. MembersFollowDocument /\ Plays => Feed!PlaysWhatItShows
  BY SameWords DEF MembersFollowDocument, Feed!PlaysWhatItShows, Feed!Shown, Feed!Stored
<1>3. Init => Plays
  BY DEF Init
<1>4. IInv /\ Effective /\ MembersFollowDocument /\ Plays /\ [Next]_vars => Plays'
  BY <1>1
<1> HIDE DEF Plays
<1> QED
  BY <1>2, <1>3, <1>4, EffectiveHolds, MembersFollowDocumentHolds, PTL DEF Spec
=============================================================================
