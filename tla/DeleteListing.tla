---------------------------- MODULE DeleteListing ----------------------------
(***************************************************************************)
(* DeletePlaylist of internal/store/pg and the read of the channels that   *)
(* list the playlist: the membership rows go with the playlist's, so they  *)
(* are read while they exist, on a second pool connection, by a goroutine  *)
(* that the delete starts under the playlist's advisory lock and collects  *)
(* after its commit.  Channels that come to list the playlist (ingests)    *)
(* and that stop listing it run at the same time, on the same pool.        *)
(***************************************************************************)
EXTENDS FiniteSets, Naturals

CONSTANTS Deletes,   \* delete requests for the one playlist
          Channels,  \* channels, each published once and perhaps replaced once
          PoolSize,  \* connections of the pool
          Nobody     \* no transaction holds the advisory lock

ASSUME ListingAssumption ==
    /\ PoolSize \in Nat \ {0}
    /\ Nobody \notin Deletes \cup Channels
    /\ Deletes \cap Channels = {}
    /\ IsFiniteSet(Deletes) /\ IsFiniteSet(Channels)

VARIABLES alive,    \* the playlist row is there
          buried,   \* the playlist's id is tombstoned
          members,  \* committed membership rows: the channels that list it
          lock,     \* who holds the playlist's advisory lock
          free,     \* pool connections nobody holds
          pc,       \* pc[p]: the next step of a delete or a channel
          read,     \* read[d]: the listing read of delete d
          wanted,   \* wanted[d]: d still means to collect the result
          snapshot, \* snapshot[d]: what the read's statement sees
          result,   \* result[d]: the buffered channel of the read
          listing,  \* listing[d]: what d returned, nil and empty being the same
          cascaded  \* history: the rows that went with the playlist

vars == <<alive, buried, members, lock, free, pc, read, wanted, snapshot, result, listing, cascaded>>

Procs == Deletes \cup Channels

Init ==
    /\ alive = TRUE /\ buried = FALSE /\ members = {} /\ cascaded = {}
    /\ lock = Nobody
    /\ free = PoolSize
    /\ pc = [p \in Procs |-> "begin"]
    /\ read = [d \in Deletes |-> "none"]
    /\ wanted = [d \in Deletes |-> FALSE]
    /\ snapshot = [d \in Deletes |-> {}]
    /\ result = [d \in Deletes |-> "empty"]
    /\ listing = [d \in Deletes |-> {}]

Goto(p, there) == pc' = [pc EXCEPT ![p] = there]
Unlocked(p) == IF lock = p THEN Nobody ELSE lock

-----------------------------------------------------------------------------
(* A delete *)

Begin(p) ==
    /\ pc[p] = "begin" /\ free > 0
    /\ free' = free - 1
    /\ Goto(p, IF p \in Deletes THEN "acquire" ELSE "lock")
    /\ UNCHANGED <<alive, buried, members, lock, read, wanted, snapshot, result, listing, cascaded>>

(* Mutant: the read waits for its connection as long as it takes. *)
AcquireOrWait(d) ==
    /\ pc[d] = "acquire" /\ free > 0
    /\ free' = free - 1
    /\ read' = [read EXCEPT ![d] = "held"]
    /\ wanted' = [wanted EXCEPT ![d] = TRUE]
    /\ Goto(d, "lock")
    /\ UNCHANGED <<alive, buried, members, lock, snapshot, result, listing, cascaded>>

(* acquireListingRead: a second connection, or after listingReadBound none. *)
AcquireRead(d) ==
    /\ pc[d] = "acquire"
    /\ \/ /\ free > 0
          /\ free' = free - 1
          /\ read' = [read EXCEPT ![d] = "held"]
          /\ wanted' = [wanted EXCEPT ![d] = TRUE]
       \/ UNCHANGED <<free, read, wanted>>
    /\ Goto(d, "lock")
    /\ UNCHANGED <<alive, buried, members, lock, snapshot, result, listing, cascaded>>

(* The advisory lock; the read is started at once, on a goroutine. *)
LockPlaylist(d) ==
    /\ pc[d] = "lock" /\ d \in Deletes /\ lock = Nobody
    /\ lock' = d
    /\ IF read[d] = "held"
         THEN read' = [read EXCEPT ![d] = "running"] /\ Goto(d, "await")
         ELSE Goto(d, "delete") /\ UNCHANGED read
    /\ UNCHANGED <<alive, buried, members, free, wanted, snapshot, result, listing, cascaded>>

Started(d) == read[d] \in {"streaming", "ended"}

(* Mutant: the read that did not start in time is collected all the same. *)
AwaitAndKeep(d) ==
    /\ pc[d] = "await"
    /\ Goto(d, "delete")
    /\ UNCHANGED <<alive, buried, members, lock, free, read, wanted, snapshot, result, listing, cascaded>>

(* The read has started, or after listingReadBound it is abandoned. *)
AwaitStart(d) ==
    /\ pc[d] = "await"
    /\ \/ Started(d) /\ UNCHANGED wanted
       \/ wanted' = [wanted EXCEPT ![d] = FALSE]
    /\ Goto(d, "delete")
    /\ UNCHANGED <<alive, buried, members, lock, free, read, snapshot, result, listing, cascaded>>

(* The conditional DELETE matches, with its cascade and the tombstone. *)
DeleteRow(d) ==
    /\ pc[d] = "delete" /\ alive
    /\ Goto(d, "commit")
    /\ UNCHANGED <<alive, buried, members, lock, free, read, wanted, snapshot, result, listing, cascaded>>

Commit(d) ==
    /\ pc[d] = "commit" /\ d \in Deletes
    /\ alive' = FALSE /\ buried' = TRUE
    /\ members' = {} /\ cascaded' = members
    /\ lock' = Unlocked(d) /\ free' = free + 1
    /\ Goto(d, IF wanted[d] THEN "collect" ELSE "returned")
    /\ UNCHANGED <<read, wanted, snapshot, result, listing>>

(* <-read.result, after the commit. *)
Collect(d) ==
    /\ pc[d] = "collect" /\ result[d] # "empty"
    /\ listing' = [listing EXCEPT ![d] = IF result[d] = "failed" THEN {} ELSE snapshot[d]]
    /\ Goto(d, "returned")
    /\ UNCHANGED <<alive, buried, members, lock, free, read, wanted, snapshot, result, cascaded>>

(* Mutants: only the transaction is cleaned up on an early return; close does
   not ask whether the goroutine owns the connection. *)
UnusedKept(p) == 0
UnusedOrNot(p) == IF p \in Deletes /\ read[p] # "none" THEN 1 ELSE 0

(* close: a connection that was held for a read that never ran goes back. *)
Unused(p) == IF p \in Deletes /\ read[p] = "held" THEN 1 ELSE 0

InTransaction(p) == pc[p] \in {"acquire", "lock", "await", "delete", "commit", "check", "link"}

(* No connection comes in time, the delete does not apply, a statement fails or
   the context ends: the transaction rolls back, a read is cancelled. *)
Fail(p) ==
    /\ pc[p] = "begin" \/ InTransaction(p)
    /\ lock' = Unlocked(p)
    /\ free' = free + Unused(p) + (IF InTransaction(p) THEN 1 ELSE 0)
    /\ read' = [d \in Deletes |-> IF d = p /\ read[d] = "held" THEN "ended" ELSE read[d]]
    /\ wanted' = [d \in Deletes |-> d # p /\ wanted[d]]
    /\ Goto(p, "returned")
    /\ UNCHANGED <<alive, buried, members, snapshot, result, listing, cascaded>>

-----------------------------------------------------------------------------
(* The goroutine of a read *)

(* The statement's snapshot exists: its first row, or its end, has arrived. *)
ReadStarts(d) ==
    /\ read[d] = "running"
    /\ read' = [read EXCEPT ![d] = "streaming"]
    /\ snapshot' = [snapshot EXCEPT ![d] = members]
    /\ UNCHANGED <<alive, buried, members, lock, free, pc, wanted, result, listing, cascaded>>

(* The result is left in the buffer and the connection goes back; a failed or a
   cancelled read leaves nothing to report. *)
ReadEnds(d) ==
    /\ read[d] \in {"running", "streaming"}
    /\ \/ read[d] = "streaming" /\ result' = [result EXCEPT ![d] = "rows"]
       \/ result' = [result EXCEPT ![d] = "failed"]
    /\ read' = [read EXCEPT ![d] = "ended"]
    /\ free' = free + 1
    /\ UNCHANGED <<alive, buried, members, lock, pc, wanted, snapshot, listing, cascaded>>

-----------------------------------------------------------------------------
(* Channels *)

(* lockDocumentIDs locks every playlist the channel names, stored or not. *)
IngestLock(c) ==
    /\ pc[c] = "lock" /\ c \in Channels /\ lock = Nobody
    /\ lock' = c
    /\ Goto(c, "check")
    /\ UNCHANGED <<alive, buried, members, free, read, wanted, snapshot, result, listing, cascaded>>

(* requireNoneTombstoned. *)
IngestCheck(c) ==
    /\ pc[c] = "check"
    /\ IF ~buried
         THEN Goto(c, "link") /\ UNCHANGED <<lock, free>>
         ELSE Goto(c, "returned") /\ lock' = Unlocked(c) /\ free' = free + 1
    /\ UNCHANGED <<alive, buried, members, read, wanted, snapshot, result, listing, cascaded>>

(* The playlist is stored if it is not there, the membership rows name it, and
   the ingest commits. *)
IngestCommit(c) ==
    /\ pc[c] = "link"
    /\ alive' = TRUE
    /\ members' = members \cup {c}
    /\ lock' = Unlocked(c) /\ free' = free + 1
    /\ Goto(c, "linked")
    /\ UNCHANGED <<buried, read, wanted, snapshot, result, listing, cascaded>>

(* A replace of the channel that no longer names the playlist takes no lock of
   the playlist's. *)
Unlink(c) ==
    /\ pc[c] = "linked"
    /\ members' = members \ {c}
    /\ Goto(c, "returned")
    /\ UNCHANGED <<alive, buried, lock, free, read, wanted, snapshot, result, listing, cascaded>>

Delete(d) == \/ AcquireRead(d) \/ LockPlaylist(d) \/ AwaitStart(d) \/ DeleteRow(d)
             \/ Commit(d) \/ Collect(d)
Reader(d) == ReadStarts(d) \/ ReadEnds(d)
Ingest(c) == IngestLock(c) \/ IngestCheck(c) \/ IngestCommit(c)

Next ==
    \/ \E d \in Deletes : Delete(d) \/ Reader(d)
    \/ \E c \in Channels : Ingest(c) \/ Unlink(c)
    \/ \E p \in Procs : Begin(p) \/ Fail(p)

Spec == Init /\ [][Next]_vars

(* Every process goes on when it can, and a delete whose row is gone fails;
   locks and connections are handed out in turn.  No context need ever end. *)
FairSpec ==
    /\ Spec
    /\ \A p \in Procs : SF_vars(Begin(p))
    /\ \A d \in Deletes : /\ SF_vars(Delete(d))
                          /\ WF_vars(~alive /\ pc[d] = "delete" /\ Fail(d))
                          /\ WF_vars(Reader(d))
    /\ \A c \in Channels : SF_vars(Ingest(c))

-----------------------------------------------------------------------------
(* Properties *)

(* Type correctness, and every connection is in the pool or has a holder: the
   transactions under way and the reads that hold or use one. *)
TypeOK ==
    /\ alive \in BOOLEAN /\ buried \in BOOLEAN
    /\ members \subseteq Channels /\ cascaded \subseteq Channels
    /\ lock \in Procs \cup {Nobody}
    /\ pc \in [Procs -> {"begin", "acquire", "lock", "await", "delete", "commit", "collect",
                         "check", "link", "linked", "returned"}]
    /\ read \in [Deletes -> {"none", "held", "running", "streaming", "ended"}]
    /\ wanted \in [Deletes -> BOOLEAN]
    /\ snapshot \in [Deletes -> SUBSET Channels]
    /\ result \in [Deletes -> {"empty", "rows", "failed"}]
    /\ listing \in [Deletes -> SUBSET Channels]
    /\ free \in 0 .. PoolSize

OnConnection(d) == read[d] \in {"held", "running", "streaming"}

(* No path of a delete or of its read, early returns and abandoned reads
   included, leaks a connection or returns one twice. *)
ConnectionsAccounted ==
    free + Cardinality({p \in Procs : InTransaction(p)})
         + Cardinality({d \in Deletes : OnConnection(d)}) = PoolSize

(* "No channel that ever listed this playlist can be missed": a delete that
   collects a completed read returns every channel whose membership row went
   with the playlist. *)
ListingCoversCascade ==
    \A d \in Deletes :
        (pc[d] = "returned" /\ wanted[d] /\ result[d] = "rows") => cascaded \subseteq listing[d]

(* p has a step to take that waits for nobody: a delete of a row that is gone
   fails, and a bounded wait ends. *)
CanGoOn(p) ==
    \/ pc[p] = "begin" /\ free > 0
    \/ pc[p] = "lock" /\ lock = Nobody
    \/ pc[p] = "collect" /\ result[p] # "empty"
    \/ pc[p] \in {"acquire", "await", "delete", "commit", "check", "link"}

(* Deletes that hold a connection and want the lock, or hold the lock and want a
   second connection, or have committed and want what a read has not delivered,
   never wait for each other in a circle with the channels, on whatever pool: as
   long as some request has not returned, one of them or a read can go on. *)
NobodyIsStuck ==
    (\E p \in Procs : pc[p] \notin {"returned", "linked"}) =>
        \/ \E p \in Procs : CanGoOn(p)
        \/ \E d \in Deletes : read[d] \in {"running", "streaming"}

(* A delete needs one connection: whatever the pool, busy or of a single
   connection, every request returns even if no context ever ends. *)
EveryRequestReturns ==
    \A p \in Procs : <>(pc[p] \in {"returned", "linked"})
=============================================================================
