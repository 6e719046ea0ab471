------------------------ MODULE DeleteListing_proofs ------------------------
(***************************************************************************)
(* Proofs about DeleteListing for every set of deletes and channels and    *)
(* every pool.  The lock excludes the other deletes and the ingests from   *)
(* the moment a delete's read may start to its commit (Exclusive), so what *)
(* the read's snapshot holds is at least what the cascade takes (Covered); *)
(* and each step moves a connection between the pool, a transaction and a  *)
(* read, one for one.  Who has the lock never waits (LockInUse), so with   *)
(* every other step blocked the pool would be full: nobody is stuck.       *)
(***************************************************************************)
EXTENDS DeleteListing, FiniteSetTheorems, TLAPS

DeletePoints == {"begin", "acquire", "lock", "await", "delete", "commit", "collect", "returned"}
ChannelPoints == {"begin", "lock", "check", "link", "linked", "returned"}

Typed ==
    /\ alive \in BOOLEAN /\ buried \in BOOLEAN
    /\ members \subseteq Channels /\ cascaded \subseteq Channels
    /\ lock \in Procs \cup {Nobody}
    /\ pc \in [Procs -> DeletePoints \cup ChannelPoints]
    /\ \A d \in Deletes : pc[d] \in DeletePoints
    /\ \A c \in Channels : pc[c] \in ChannelPoints
    /\ read \in [Deletes -> {"none", "held", "running", "streaming", "ended"}]
    /\ wanted \in [Deletes -> BOOLEAN]
    /\ snapshot \in [Deletes -> SUBSET Channels]
    /\ result \in [Deletes -> {"empty", "rows", "failed"}]
    /\ listing \in [Deletes -> SUBSET Channels]

(* The lock is held from the point a read may start to the commit, and by an
   ingest from its check on; a playlist is deleted once. *)
Exclusive ==
    /\ \A p \in Procs : pc[p] \in {"await", "delete", "commit", "check", "link"} => lock = p
    /\ buried => ~alive
    /\ \A p \in Procs : (pc[p] = "commit" => alive) /\ (pc[p] = "link" => ~buried)

(* Where a delete's read is, and whether its result is still meant to be taken. *)
ReadFlow(d) ==
    /\ pc[d] \in {"begin", "acquire"} => read[d] = "none"
    /\ read[d] = "none" => ~wanted[d]
    /\ read[d] = "held" => pc[d] = "lock"
    /\ pc[d] = "lock" => read[d] \in {"none", "held"}
    /\ pc[d] \in {"delete", "commit", "collect"} /\ wanted[d] => Started(d)
    /\ result[d] # "empty" => read[d] = "ended"
    /\ pc[d] = "collect" => wanted[d] /\ buried
    /\ pc[d] = "returned" /\ wanted[d] => result[d] # "empty" /\ buried

Seen(d) == read[d] = "streaming" \/ result[d] = "rows"

Covered(d) ==
    /\ pc[d] \in {"await", "delete", "commit"} /\ Seen(d) => members \subseteq snapshot[d]
    /\ pc[d] = "collect" /\ Seen(d) => cascaded \subseteq snapshot[d]
    /\ pc[d] = "returned" /\ wanted[d] /\ result[d] = "rows" => cascaded \subseteq listing[d]

Flow == \A d \in Deletes : ReadFlow(d)
Covers == \A d \in Deletes : Covered(d)

-----------------------------------------------------------------------------
(* Types *)

LEMMA ProcFacts ==
    /\ \A d \in Deletes : d \in Procs /\ d \notin Channels /\ d # Nobody
    /\ \A c \in Channels : c \in Procs /\ c \notin Deletes /\ c # Nobody
BY ListingAssumption DEF Procs

LEMMA NobodyIsNoProc == Nobody \notin Procs
BY ListingAssumption DEF Procs

LEMMA InitTyped == Init => Typed
BY ListingAssumption DEF Init, Typed, DeletePoints, ChannelPoints, Procs

LEMMA TypedKept ==
    ASSUME Typed, [Next]_vars
    PROVE  Typed'
<1> USE ProcFacts DEF Typed, DeletePoints, ChannelPoints, Goto, Unlocked
<1>1. ASSUME NEW p \in Procs, Begin(p) PROVE Typed'
  BY <1>1 DEF Begin, Procs
<1>2. ASSUME NEW p \in Procs, Fail(p) PROVE Typed'
  <2>1. read' \in [Deletes -> {"none", "held", "running", "streaming", "ended"}]
    BY <1>2 DEF Fail
  <2> QED
    BY <1>2, <2>1 DEF Fail, Procs
<1>3. ASSUME NEW d \in Deletes, AcquireRead(d) PROVE Typed'
  BY <1>3 DEF AcquireRead
<1>4. ASSUME NEW d \in Deletes, LockPlaylist(d) PROVE Typed'
  BY <1>4 DEF LockPlaylist
<1>5. ASSUME NEW d \in Deletes, AwaitStart(d) PROVE Typed'
  BY <1>5 DEF AwaitStart
<1>6. ASSUME NEW d \in Deletes, DeleteRow(d) PROVE Typed'
  BY <1>6 DEF DeleteRow
<1>7. ASSUME NEW d \in Deletes, Commit(d) PROVE Typed'
  BY <1>7 DEF Commit
<1>8. ASSUME NEW d \in Deletes, Collect(d) PROVE Typed'
  BY <1>8 DEF Collect
<1>9. ASSUME NEW d \in Deletes, ReadStarts(d) PROVE Typed'
  BY <1>9 DEF ReadStarts
<1>10. ASSUME NEW d \in Deletes, ReadEnds(d) PROVE Typed'
  BY <1>10 DEF ReadEnds
<1>11. ASSUME NEW c \in Channels, IngestLock(c) PROVE Typed'
  BY <1>11 DEF IngestLock
<1>12. ASSUME NEW c \in Channels, IngestCheck(c) PROVE Typed'
  BY <1>12 DEF IngestCheck
<1>13. ASSUME NEW c \in Channels, IngestCommit(c) PROVE Typed'
  BY <1>13 DEF IngestCommit
<1>14. ASSUME NEW c \in Channels, Unlink(c) PROVE Typed'
  BY <1>14 DEF Unlink
<1>15. CASE UNCHANGED vars
  BY <1>15 DEF vars
<1> QED
  BY <1>1, <1>2, <1>3, <1>4, <1>5, <1>6, <1>7, <1>8, <1>9, <1>10, <1>11, <1>12, <1>13, <1>14, <1>15
  DEF Next, Delete, Reader, Ingest

-----------------------------------------------------------------------------
(* The lock *)

LEMMA ExclusiveKept ==
    ASSUME Typed, Exclusive, [Next]_vars
    PROVE  Exclusive'
<1> USE ProcFacts DEF Exclusive, Typed, Goto, Unlocked
<1>1. ASSUME NEW p \in Procs, Begin(p) PROVE Exclusive'
  BY <1>1 DEF Begin
<1>2. ASSUME NEW p \in Procs, Fail(p) PROVE Exclusive'
  BY <1>2 DEF Fail
<1>3. ASSUME NEW d \in Deletes, AcquireRead(d) PROVE Exclusive'
  BY <1>3 DEF AcquireRead
<1>4. ASSUME NEW d \in Deletes, LockPlaylist(d) PROVE Exclusive'
  <2>1. \A p \in Procs : pc[p] \notin {"await", "delete", "commit", "check", "link"}
    BY <1>4, NobodyIsNoProc DEF LockPlaylist
  <2> QED
    BY <1>4, <2>1 DEF LockPlaylist
<1>5. ASSUME NEW d \in Deletes, AwaitStart(d) PROVE Exclusive'
  BY <1>5 DEF AwaitStart
<1>6. ASSUME NEW d \in Deletes, DeleteRow(d) PROVE Exclusive'
  BY <1>6 DEF DeleteRow
<1>7. ASSUME NEW d \in Deletes, Commit(d) PROVE Exclusive'
  BY <1>7 DEF Commit
<1>8. ASSUME NEW d \in Deletes, Collect(d) PROVE Exclusive'
  BY <1>8 DEF Collect
<1>9. ASSUME NEW d \in Deletes, Reader(d) PROVE Exclusive'
  BY <1>9 DEF Reader, ReadStarts, ReadEnds
<1>10. ASSUME NEW c \in Channels, IngestLock(c) PROVE Exclusive'
  <2>1. \A p \in Procs : pc[p] \notin {"await", "delete", "commit", "check", "link"}
    BY <1>10, NobodyIsNoProc DEF IngestLock
  <2> QED
    BY <1>10, <2>1 DEF IngestLock
<1>11. ASSUME NEW c \in Channels, IngestCheck(c) PROVE Exclusive'
  BY <1>11 DEF IngestCheck
<1>12. ASSUME NEW c \in Channels, IngestCommit(c) PROVE Exclusive'
  BY <1>12 DEF IngestCommit
<1>13. ASSUME NEW c \in Channels, Unlink(c) PROVE Exclusive'
  BY <1>13 DEF Unlink
<1>14. CASE UNCHANGED vars
  BY <1>14 DEF vars
<1> QED
  BY <1>1, <1>2, <1>3, <1>4, <1>5, <1>6, <1>7, <1>8, <1>9, <1>10, <1>11, <1>12, <1>13, <1>14
  DEF Next, Delete, Ingest

-----------------------------------------------------------------------------
(* The read of a delete *)

LEMMA FlowKept ==
    ASSUME Typed, Exclusive, Flow, [Next]_vars
    PROVE  Flow'
<1> SUFFICES ASSUME NEW e \in Deletes PROVE ReadFlow(e)'
  BY DEF Flow
<1>0. ReadFlow(e)
  BY DEF Flow
<1> USE <1>0, ProcFacts DEF ReadFlow, Typed, Goto, Started
<1>1. ASSUME NEW p \in Procs, Begin(p) PROVE ReadFlow(e)'
  BY <1>1 DEF Begin
<1>2. ASSUME NEW p \in Procs, Fail(p) PROVE ReadFlow(e)'
  BY <1>2 DEF Fail, InTransaction
<1>3. ASSUME NEW d \in Deletes, AcquireRead(d) PROVE ReadFlow(e)'
  BY <1>3 DEF AcquireRead
<1>4. ASSUME NEW d \in Deletes, LockPlaylist(d) PROVE ReadFlow(e)'
  BY <1>4 DEF LockPlaylist
<1>5. ASSUME NEW d \in Deletes, AwaitStart(d) PROVE ReadFlow(e)'
  BY <1>5 DEF AwaitStart
<1>6. ASSUME NEW d \in Deletes, DeleteRow(d) PROVE ReadFlow(e)'
  BY <1>6 DEF DeleteRow
<1>7. ASSUME NEW d \in Deletes, Commit(d) PROVE ReadFlow(e)'
  BY <1>7 DEF Commit
<1>8. ASSUME NEW d \in Deletes, Collect(d) PROVE ReadFlow(e)'
  BY <1>8 DEF Collect
<1>9. ASSUME NEW d \in Deletes, ReadStarts(d) PROVE ReadFlow(e)'
  BY <1>9 DEF ReadStarts
<1>10. ASSUME NEW d \in Deletes, ReadEnds(d) PROVE ReadFlow(e)'
  BY <1>10 DEF ReadEnds
<1>11. ASSUME NEW c \in Channels, Ingest(c) \/ Unlink(c) PROVE ReadFlow(e)'
  BY <1>11 DEF Ingest, IngestLock, IngestCheck, IngestCommit, Unlink
<1>12. CASE UNCHANGED vars
  BY <1>12 DEF vars
<1> QED
  BY <1>1, <1>2, <1>3, <1>4, <1>5, <1>6, <1>7, <1>8, <1>9, <1>10, <1>11, <1>12 DEF Next, Delete, Reader

LEMMA CoversKept ==
    ASSUME Typed, Exclusive, Flow, Covers, [Next]_vars
    PROVE  Covers'
<1> SUFFICES ASSUME NEW e \in Deletes PROVE Covered(e)'
  BY DEF Covers
<1>0. Covered(e) /\ ReadFlow(e)
  BY DEF Covers, Flow
<1> USE <1>0, ProcFacts DEF Covered, Seen, Typed, Goto
<1>1. ASSUME NEW p \in Procs, Begin(p) PROVE Covered(e)'
  BY <1>1 DEF Begin
<1>2. ASSUME NEW p \in Procs, Fail(p) PROVE Covered(e)'
  BY <1>2 DEF Fail, InTransaction
<1>3. ASSUME NEW d \in Deletes, AcquireRead(d) PROVE Covered(e)'
  BY <1>3 DEF AcquireRead
<1>4. ASSUME NEW d \in Deletes, LockPlaylist(d) PROVE Covered(e)'
  BY <1>4 DEF LockPlaylist, ReadFlow
<1>5. ASSUME NEW d \in Deletes, AwaitStart(d) PROVE Covered(e)'
  BY <1>5 DEF AwaitStart
<1>6. ASSUME NEW d \in Deletes, DeleteRow(d) PROVE Covered(e)'
  BY <1>6 DEF DeleteRow
<1>7. ASSUME NEW d \in Deletes, Commit(d) PROVE Covered(e)'
  BY <1>7 DEF Commit, ReadFlow, Exclusive
<1>8. ASSUME NEW d \in Deletes, Collect(d) PROVE Covered(e)'
  BY <1>8 DEF Collect
<1>9. ASSUME NEW d \in Deletes, ReadStarts(d) PROVE Covered(e)'
  BY <1>9 DEF ReadStarts, ReadFlow, Started
<1>10. ASSUME NEW d \in Deletes, ReadEnds(d) PROVE Covered(e)'
  BY <1>10 DEF ReadEnds, ReadFlow
<1>11. ASSUME NEW c \in Channels, IngestLock(c) \/ IngestCheck(c) PROVE Covered(e)'
  BY <1>11 DEF IngestLock, IngestCheck
<1>12. ASSUME NEW c \in Channels, IngestCommit(c) PROVE Covered(e)'
  <2>1. lock = c /\ pc[e] \notin {"await", "delete", "commit"}
    BY <1>12 DEF IngestCommit, Exclusive
  <2> QED
    BY <1>12, <2>1 DEF IngestCommit
<1>13. ASSUME NEW c \in Channels, Unlink(c) PROVE Covered(e)'
  BY <1>13 DEF Unlink
<1>14. CASE UNCHANGED vars
  BY <1>14 DEF vars
<1> QED
  BY <1>1, <1>2, <1>3, <1>4, <1>5, <1>6, <1>7, <1>8, <1>9, <1>10, <1>11, <1>12, <1>13, <1>14
  DEF Next, Delete, Reader, Ingest

-----------------------------------------------------------------------------
(* The pool *)

Transactions == {p \in Procs : InTransaction(p)}
Reads == {d \in Deletes : OnConnection(d)}

Accounted ==
    free \in Nat /\ free + Cardinality(Transactions) + Cardinality(Reads) = PoolSize

LEMMA HoldersFinite ==
    ASSUME NEW S, S \subseteq Procs
    PROVE  IsFiniteSet(S) /\ Cardinality(S) \in Nat
<1>1. IsFiniteSet(Procs)
  BY ListingAssumption, FS_Union DEF Procs
<1> QED
  BY <1>1, FS_Subset, FS_CardinalityType

(* A holder comes or goes. *)
LEMMA OneMore ==
    ASSUME NEW S, S \subseteq Procs, NEW p, p \notin S
    PROVE  Cardinality(S \cup {p}) = Cardinality(S) + 1
BY HoldersFinite, FS_AddElement

LEMMA OneLess ==
    ASSUME NEW S, S \subseteq Procs, NEW p \in S
    PROVE  Cardinality(S \ {p}) = Cardinality(S) - 1
BY HoldersFinite, FS_RemoveElement

LEMMA AccountedInit == Init => Accounted
<1> SUFFICES ASSUME Init PROVE Accounted
  OBVIOUS
<1>1. Transactions = {} /\ Reads = {}
  BY DEF Init, Transactions, Reads, InTransaction, OnConnection
<1> QED
  BY <1>1, FS_EmptySet, ListingAssumption DEF Init, Accounted

(* What a step does to the holders of connections. *)
LEMMA AccountedWhen ==
    ASSUME Accounted,
           \/ free' = free /\ Transactions' = Transactions /\ Reads' = Reads
           \/ \E p \in Procs \ Transactions :
                free > 0 /\ free' = free - 1 /\ Transactions' = Transactions \cup {p} /\ Reads' = Reads
           \/ \E p \in Procs \ Reads :
                free > 0 /\ free' = free - 1 /\ Reads' = Reads \cup {p} /\ Transactions' = Transactions
           \/ \E p \in Transactions : free' = free + 1 /\ Transactions' = Transactions \ {p} /\ Reads' = Reads
           \/ \E p \in Reads : free' = free + 1 /\ Reads' = Reads \ {p} /\ Transactions' = Transactions
           \/ \E p \in Transactions \cap Reads :
                free' = free + 2 /\ Transactions' = Transactions \ {p} /\ Reads' = Reads \ {p}
    PROVE  Accounted'
<1> DEFINE T == Transactions
           R == Reads
<1>1. T \subseteq Procs /\ R \subseteq Procs
  BY DEF Transactions, Reads, Procs
<1>2. /\ Cardinality(T) \in Nat /\ Cardinality(R) \in Nat
      /\ free \in Nat /\ PoolSize \in Nat /\ free + Cardinality(T) + Cardinality(R) = PoolSize
  BY <1>1, HoldersFinite, ListingAssumption DEF Accounted
<1>3. /\ \A p \in Procs \ T : Cardinality(T \cup {p}) = Cardinality(T) + 1
      /\ \A p \in Procs \ R : Cardinality(R \cup {p}) = Cardinality(R) + 1
  BY <1>1, OneMore
<1>4. /\ \A p \in T : Cardinality(T \ {p}) = Cardinality(T) - 1
      /\ \A p \in R : Cardinality(R \ {p}) = Cardinality(R) - 1
  BY <1>1, OneLess
<1>5. Accounted' <=> free' \in Nat /\ free' + Cardinality(T') + Cardinality(R') = PoolSize
  BY DEF Accounted
<1>6. CASE free' = free /\ T' = T /\ R' = R
  BY <1>2, <1>5, <1>6
<1>7. ASSUME NEW p \in Procs \ T, free > 0, free' = free - 1, T' = T \cup {p}, R' = R PROVE Accounted'
  <2>1. Cardinality(T') = Cardinality(T) + 1 /\ Cardinality(R') = Cardinality(R)
    BY <1>3, <1>7
  <2> QED
    BY <1>2, <1>5, <1>7, <2>1
<1>8. ASSUME NEW p \in Procs \ R, free > 0, free' = free - 1, R' = R \cup {p}, T' = T PROVE Accounted'
  <2>1. Cardinality(R') = Cardinality(R) + 1 /\ Cardinality(T') = Cardinality(T)
    BY <1>3, <1>8
  <2> QED
    BY <1>2, <1>5, <1>8, <2>1
<1>9. ASSUME NEW p \in T, free' = free + 1, T' = T \ {p}, R' = R PROVE Accounted'
  <2>1. Cardinality(T') = Cardinality(T) - 1 /\ Cardinality(R') = Cardinality(R)
    BY <1>4, <1>9
  <2> QED
    BY <1>2, <1>5, <1>9, <2>1
<1>10. ASSUME NEW p \in R, free' = free + 1, R' = R \ {p}, T' = T PROVE Accounted'
  <2>1. Cardinality(R') = Cardinality(R) - 1 /\ Cardinality(T') = Cardinality(T)
    BY <1>4, <1>10
  <2> QED
    BY <1>2, <1>5, <1>10, <2>1
<1>11. ASSUME NEW p \in T \cap R, free' = free + 2, T' = T \ {p}, R' = R \ {p} PROVE Accounted'
  <2>1. Cardinality(T') = Cardinality(T) - 1 /\ Cardinality(R') = Cardinality(R) - 1
    BY <1>4, <1>11
  <2> QED
    BY <1>2, <1>5, <1>11, <2>1
<1> QED
  BY <1>6, <1>7, <1>8, <1>9, <1>10, <1>11

LEMMA AccountedKept ==
    ASSUME Typed, Flow, Accounted, [Next]_vars
    PROVE  Accounted'
<1> USE ProcFacts DEF Typed, Goto, Transactions, Reads, InTransaction, OnConnection
<1>1. ASSUME NEW p \in Procs, Begin(p) PROVE Accounted'
  <2>1. p \in Procs \ Transactions /\ Transactions' = Transactions \cup {p} /\ Reads' = Reads
    BY <1>1 DEF Begin
  <2>2. free > 0 /\ free' = free - 1
    BY <1>1 DEF Begin
  <2> QED
    BY <2>1, <2>2, AccountedWhen
<1>2. ASSUME NEW p \in Procs, Fail(p), pc[p] = "begin" PROVE Accounted'
  <2>1. Transactions' = Transactions /\ Reads' = Reads /\ free' = free
    BY <1>2 DEF Fail, Unused, Flow, ReadFlow, Accounted
  <2> QED
    BY <2>1, AccountedWhen
<1>3. ASSUME NEW p \in Procs, Fail(p), pc[p] # "begin" PROVE Accounted'
  <2>1. p \in Transactions /\ Transactions' = Transactions \ {p}
    BY <1>3 DEF Fail
  <2>2. CASE p \in Deletes /\ read[p] = "held"
    <3>1. p \in Reads /\ Reads' = Reads \ {p} /\ free' = free + 2
      BY <1>3, <2>2 DEF Fail, Unused, Accounted
    <3> QED
      BY <2>1, <3>1, AccountedWhen
  <2>3. CASE ~ (p \in Deletes /\ read[p] = "held")
    <3>1. Reads' = Reads /\ free' = free + 1
      BY <1>3, <2>3 DEF Fail, Unused, Accounted
    <3> QED
      BY <2>1, <3>1, AccountedWhen
  <2> QED
    BY <2>2, <2>3
<1>4. ASSUME NEW d \in Deletes, AcquireRead(d) PROVE Accounted'
  <2>1. Transactions' = Transactions
    BY <1>4 DEF AcquireRead
  <2>2. CASE free' = free /\ read' = read
    <3>1. Reads' = Reads
      BY <2>2
    <3> QED
      BY <2>1, <2>2, <3>1, AccountedWhen
  <2>3. CASE free > 0 /\ free' = free - 1 /\ read' = [read EXCEPT ![d] = "held"]
    <3>1. d \in Procs \ Reads /\ Reads' = Reads \cup {d}
      BY <1>4, <2>3 DEF AcquireRead, Flow, ReadFlow
    <3> QED
      BY <2>1, <2>3, <3>1, AccountedWhen
  <2> QED
    BY <1>4, <2>2, <2>3 DEF AcquireRead
<1>5. ASSUME NEW d \in Deletes, LockPlaylist(d) \/ AwaitStart(d) \/ DeleteRow(d) \/ Collect(d) \/ ReadStarts(d)
      PROVE  Accounted'
  <2>1. Transactions' = Transactions
    BY <1>5 DEF LockPlaylist, AwaitStart, DeleteRow, Collect, ReadStarts
  <2>2. Reads' = Reads
    BY <1>5 DEF LockPlaylist, AwaitStart, DeleteRow, Collect, ReadStarts
  <2>3. free' = free
    BY <1>5 DEF LockPlaylist, AwaitStart, DeleteRow, Collect, ReadStarts
  <2> QED
    BY <2>1, <2>2, <2>3, AccountedWhen
<1>6. ASSUME NEW d \in Deletes, Commit(d) PROVE Accounted'
  <2>1. d \in Transactions /\ Transactions' = Transactions \ {d} /\ Reads' = Reads /\ free' = free + 1
    BY <1>6 DEF Commit
  <2> QED
    BY <2>1, AccountedWhen
<1>7. ASSUME NEW d \in Deletes, ReadEnds(d) PROVE Accounted'
  <2>1. d \in Reads /\ Reads' = Reads \ {d} /\ Transactions' = Transactions /\ free' = free + 1
    BY <1>7 DEF ReadEnds
  <2> QED
    BY <2>1, AccountedWhen
<1>8. ASSUME NEW c \in Channels, IngestLock(c) \/ Unlink(c) PROVE Accounted'
  <2>1. Transactions' = Transactions /\ Reads' = Reads /\ free' = free
    BY <1>8 DEF IngestLock, Unlink
  <2> QED
    BY <2>1, AccountedWhen
<1>9. ASSUME NEW c \in Channels, IngestCheck(c) PROVE Accounted'
  <2>1. Reads' = Reads
    BY <1>9 DEF IngestCheck
  <2>2. CASE ~buried
    <3>1. Transactions' = Transactions /\ free' = free
      BY <1>9, <2>2 DEF IngestCheck
    <3> QED
      BY <2>1, <3>1, AccountedWhen
  <2>3. CASE buried
    <3>1. c \in Transactions /\ Transactions' = Transactions \ {c} /\ free' = free + 1
      BY <1>9, <2>3 DEF IngestCheck
    <3> QED
      BY <2>1, <3>1, AccountedWhen
  <2> QED
    BY <2>2, <2>3
<1>10. ASSUME NEW c \in Channels, IngestCommit(c) PROVE Accounted'
  <2>1. c \in Transactions /\ Transactions' = Transactions \ {c} /\ Reads' = Reads /\ free' = free + 1
    BY <1>10 DEF IngestCommit
  <2> QED
    BY <2>1, AccountedWhen
<1>11. CASE UNCHANGED vars
  <2>1. Transactions' = Transactions /\ Reads' = Reads /\ free' = free
    BY <1>11 DEF vars
  <2> QED
    BY <2>1, AccountedWhen
<1> QED
  BY <1>1, <1>2, <1>3, <1>4, <1>5, <1>6, <1>7, <1>8, <1>9, <1>10, <1>11 DEF Next, Delete, Reader, Ingest

-----------------------------------------------------------------------------
(* Theorems *)

IInv == Typed /\ Exclusive /\ Flow /\ Covers /\ Accounted

LEMMA InitIInv == Init => IInv
<1> SUFFICES ASSUME Init PROVE IInv
  OBVIOUS
<1>1. Exclusive /\ Flow /\ Covers
  BY ProcFacts, InitTyped DEF Init, Typed, Exclusive, Flow, ReadFlow, Covers, Covered, Seen, Procs
<1> QED
  BY <1>1, InitTyped, AccountedInit DEF IInv

LEMMA NextIInv == IInv /\ [Next]_vars => IInv'
BY TypedKept, ExclusiveKept, FlowKept, CoversKept, AccountedKept DEF IInv

LEMMA SpecIInv == Spec => []IInv
BY InitIInv, NextIInv, PTL DEF Spec

LEMMA IInvType == IInv => TypeOK
<1> SUFFICES ASSUME IInv PROVE TypeOK
  OBVIOUS
<1>1. Transactions \subseteq Procs /\ Reads \subseteq Procs
  BY DEF Transactions, Reads, Procs
<1>2. Cardinality(Transactions) \in Nat /\ Cardinality(Reads) \in Nat
  BY <1>1, HoldersFinite
<1>3. free \in 0 .. PoolSize
  BY <1>2, ListingAssumption DEF IInv, Accounted
<1> QED
  BY <1>3 DEF IInv, Typed, DeletePoints, ChannelPoints, TypeOK

LEMMA IInvCovers == IInv => ListingCoversCascade
BY DEF IInv, Covers, Covered, ListingCoversCascade

LEMMA IInvAccounted == IInv => ConnectionsAccounted
BY DEF IInv, Accounted, Transactions, Reads, ConnectionsAccounted

(* The types, and a pool that never holds more connections than it has. *)
THEOREM TypeCorrect == Spec => []TypeOK
BY SpecIInv, IInvType, PTL

(* No path of DeletePlaylist and its recipient read leaks a connection, or gives
   one back twice, with any number of deletes and ingests. *)
THEOREM ConnectionsAccountedHolds == Spec => []ConnectionsAccounted
BY SpecIInv, IInvAccounted, PTL

(* The channels a delete returns cover its cascade (DeletePlaylist: "No channel
   that ever listed this playlist can be missed"). *)
THEOREM ListingCoversCascadeHolds == Spec => []ListingCoversCascade
BY SpecIInv, IInvCovers, PTL

-----------------------------------------------------------------------------
(* Waiting *)

(* The lock is with somebody who goes on, and a read that is over has left what
   its delete will collect. *)
LockInUse == lock # Nobody => pc[lock] \in {"await", "delete", "commit", "check", "link"}
Delivered == \A d \in Deletes : read[d] = "ended" => result[d] # "empty" \/ pc[d] = "returned"

LEMMA LockInUseKept ==
    ASSUME Typed, LockInUse, [Next]_vars
    PROVE  LockInUse'
<1> USE ProcFacts, NobodyIsNoProc DEF LockInUse, Typed, Goto, Unlocked
<1>1. ASSUME NEW p \in Procs, Begin(p) \/ Fail(p) PROVE LockInUse'
  BY <1>1 DEF Begin, Fail
<1>2. ASSUME NEW d \in Deletes, AcquireRead(d) \/ LockPlaylist(d) \/ AwaitStart(d) PROVE LockInUse'
  BY <1>2 DEF AcquireRead, LockPlaylist, AwaitStart
<1>3. ASSUME NEW d \in Deletes, DeleteRow(d) \/ Commit(d) \/ Collect(d) PROVE LockInUse'
  BY <1>3 DEF DeleteRow, Commit, Collect
<1>4. ASSUME NEW d \in Deletes, Reader(d) PROVE LockInUse'
  BY <1>4 DEF Reader, ReadStarts, ReadEnds
<1>5. ASSUME NEW c \in Channels, Ingest(c) \/ Unlink(c) PROVE LockInUse'
  BY <1>5 DEF Ingest, IngestLock, IngestCheck, IngestCommit, Unlink
<1>6. CASE UNCHANGED vars
  BY <1>6 DEF vars
<1> QED
  BY <1>1, <1>2, <1>3, <1>4, <1>5, <1>6 DEF Next, Delete

LEMMA DeliveredKept ==
    ASSUME Typed, Flow, Delivered, [Next]_vars
    PROVE  Delivered'
<1> USE ProcFacts DEF Delivered, Typed, Goto
<1>1. ASSUME NEW p \in Procs, Begin(p) PROVE Delivered'
  BY <1>1 DEF Begin, Flow, ReadFlow
<1>2. ASSUME NEW p \in Procs, Fail(p) PROVE Delivered'
  BY <1>2 DEF Fail
<1>3. ASSUME NEW d \in Deletes, AcquireRead(d) \/ LockPlaylist(d) \/ AwaitStart(d) PROVE Delivered'
  BY <1>3 DEF AcquireRead, LockPlaylist, AwaitStart
<1>4. ASSUME NEW d \in Deletes, DeleteRow(d) \/ Commit(d) \/ Collect(d) PROVE Delivered'
  BY <1>4 DEF DeleteRow, Commit, Collect
<1>5. ASSUME NEW d \in Deletes, Reader(d) PROVE Delivered'
  BY <1>5 DEF Reader, ReadStarts, ReadEnds
<1>6. ASSUME NEW c \in Channels, Ingest(c) \/ Unlink(c) PROVE Delivered'
  BY <1>6 DEF Ingest, IngestLock, IngestCheck, IngestCommit, Unlink
<1>7. CASE UNCHANGED vars
  BY <1>7 DEF vars
<1> QED
  BY <1>1, <1>2, <1>3, <1>4, <1>5, <1>6, <1>7 DEF Next, Delete

(* When no transaction can go on and no read is under way, no one is in a
   transaction: the lock is free, so nobody waits for it, and every connection is
   back in the pool. *)
LEMMA SomebodyGoesOn ==
    ASSUME IInv, LockInUse, Delivered
    PROVE  NobodyIsStuck
<1> SUFFICES ASSUME \A p \in Procs : ~CanGoOn(p),
                    \A d \in Deletes : read[d] \notin {"running", "streaming"},
                    NEW p \in Procs, pc[p] \notin {"returned", "linked"}
             PROVE  FALSE
  BY DEF NobodyIsStuck
<1>1. Typed /\ Flow /\ Accounted
  BY DEF IInv
<1>2. \A q \in Procs : pc[q] \in {"begin", "lock", "collect", "linked", "returned"}
  BY <1>1 DEF Typed, CanGoOn, DeletePoints, ChannelPoints
<1>3. lock = Nobody
  BY <1>1, <1>2 DEF LockInUse, Typed
<1>4. \A q \in Procs : pc[q] # "lock"
  BY <1>3 DEF CanGoOn
<1>5. Transactions = {}
  BY <1>2, <1>4 DEF Transactions, InTransaction
<1>6. Reads = {}
  BY <1>1, <1>4, ProcFacts DEF Reads, OnConnection, Flow, ReadFlow
<1>7. free > 0
  BY <1>1, <1>5, <1>6, FS_EmptySet, ListingAssumption DEF Accounted
<1>8. pc[p] = "collect"
  BY <1>2, <1>4, <1>7 DEF CanGoOn
<1>9. p \in Deletes
  BY <1>1, <1>8 DEF Typed, ChannelPoints, Procs
<1>10. read[p] = "ended"
  BY <1>1, <1>8, <1>9 DEF Flow, ReadFlow, Started
<1>11. result[p] # "empty"
  BY <1>8, <1>9, <1>10 DEF Delivered
<1> QED
  BY <1>8, <1>11 DEF CanGoOn

(* Deletes, their reads and the ingests of channels never all wait, whatever the
   pool: a delete that gets no second connection within its bound goes on without
   (DeletePlaylist, acquireListingRead). *)
THEOREM NobodyIsStuckHolds == Spec => []NobodyIsStuck
<1>1. Init => LockInUse /\ Delivered
  BY DEF Init, LockInUse, Delivered
<1>2. IInv /\ LockInUse /\ Delivered /\ [Next]_vars => LockInUse' /\ Delivered'
  BY LockInUseKept, DeliveredKept DEF IInv
<1> QED
  BY <1>1, <1>2, SpecIInv, SomebodyGoesOn, PTL DEF Spec
=============================================================================
