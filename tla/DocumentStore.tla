---------------------------- MODULE DocumentStore ----------------------------
(***************************************************************************)
(* One document table of the feed (playlists, playlist groups or channels) *)
(* served to concurrent requests: the executor's load-and-authorize step   *)
(* followed by the PostgreSQL transaction of internal/store/pg, statement  *)
(* by statement at READ COMMITTED.                                         *)
(*                                                                         *)
(* Between two statements any other transaction may run.  A statement sees *)
(* the committed rows only; a statement that has to change a row, or to    *)
(* check a unique key, that another open transaction has written waits for *)
(* that transaction.  The wall clock is not assumed monotone: now(), fixed *)
(* when a transaction begins, is any of Times.                             *)
(***************************************************************************)
EXTENDS Naturals

CONSTANTS Requests,  \* client requests, each served once
          Ids,       \* document ids (client-assigned UUIDs)
          Slugs,     \* document slugs (client-assigned, UNIQUE in the table)
          Times,     \* values now() may take, in microseconds
          Nobody,    \* no transaction
          NoRow,     \* no row under this id
          Deleted    \* what the table shows for an id that was deleted

Row == [slug : Slugs, gen : Nat, doc : Requests]
NoOp == [op |-> "none"]

ASSUME StoreAssumption ==
    /\ Times \subseteq Nat
    /\ Nobody \notin Requests
    /\ NoRow \notin Row /\ Deleted \notin Row /\ NoRow # Deleted

VARIABLES rows,    \* committed rows: rows[i] is the row of id i or NoRow
          tombs,   \* committed deleted_documents: ids retired on this feed
          docLock, \* docLock[i]: transaction holding the advisory lock of id i
          dirty,   \* dirty[i]: transaction with an uncommitted write to id i
          pc,      \* pc[r]: the next step of request r
          intent,  \* intent[r]: what r asks for; a replace or delete carries the row it loaded
          start,   \* start[r]: now() of r's transaction
          new,     \* new[r]: the row r's transaction inserted or updated, not yet committed
          reply    \* reply[r]: the answer to r, or "none"

vars == <<rows, tombs, docLock, dirty, pc, intent, start, new, reply>>

CreateIntent == [op : {"create"}, id : Ids, slug : Slugs]
WriteIntent == [op : {"replace", "delete"}, id : Ids, seen : Row]

Init ==
    /\ rows = [i \in Ids |-> NoRow]
    /\ tombs = {}
    /\ docLock = [i \in Ids |-> Nobody]
    /\ dirty = [i \in Ids |-> Nobody]
    /\ pc = [r \in Requests |-> "load"]
    /\ intent = [r \in Requests |-> NoOp]
    /\ start = [r \in Requests |-> 0]
    /\ new = [r \in Requests |-> NoRow]
    /\ reply = [r \in Requests |-> "none"]

-----------------------------------------------------------------------------
(* Steps of a request *)

Goto(r, there) == pc' = [pc EXCEPT ![r] = there]

(* Mutant: the advisory lock is session-scoped and survives the transaction. *)
FinishKeepingLock(r, what) ==
    /\ Goto(r, "done")
    /\ reply' = [reply EXCEPT ![r] = what]
    /\ dirty' = [i \in Ids |-> IF dirty[i] = r THEN Nobody ELSE dirty[i]]
    /\ UNCHANGED docLock

(* The transaction of r ends, committed or rolled back: its advisory lock is
   transaction-scoped and its uncommitted row versions are gone. *)
Finish(r, what) ==
    /\ Goto(r, "done")
    /\ reply' = [reply EXCEPT ![r] = what]
    /\ docLock' = [i \in Ids |-> IF docLock[i] = r THEN Nobody ELSE docLock[i]]
    /\ dirty' = [i \in Ids |-> IF dirty[i] = r THEN Nobody ELSE dirty[i]]

(* A create arrives whose signatures, identity and items were accepted; the
   document is not looked up first. *)
AcceptCreate(r) ==
    /\ pc[r] = "load"
    /\ \E c \in CreateIntent : intent' = [intent EXCEPT ![r] = c]
    /\ Goto(r, "begin")
    /\ UNCHANGED <<rows, tombs, docLock, dirty, start, new, reply>>

(* Mutant: the missing row is not turned into an early return. *)
LoadWithoutNotFound(r) ==
    /\ pc[r] = "load"
    /\ \E i \in Ids, op \in {"replace", "delete"} :
         intent' = [intent EXCEPT ![r] = [op |-> op, id |-> i, seen |-> rows[i]]]
    /\ Goto(r, "begin")
    /\ UNCHANGED <<rows, tombs, docLock, dirty, start, new, reply>>

(* A replace or a delete loads the row, by id or by slug, and is authorized
   against it.  From here on it names the row's id, never the slug it came by,
   and carries the row's updated_at. *)
LoadAndAuthorize(r) ==
    /\ pc[r] = "load"
    /\ \E i \in Ids, op \in {"replace", "delete"} :
         /\ rows[i] # NoRow
         /\ intent' = [intent EXCEPT ![r] = [op |-> op, id |-> i, seen |-> rows[i]]]
    /\ Goto(r, "begin")
    /\ UNCHANGED <<rows, tombs, docLock, dirty, start, new, reply>>

(* The request is turned down before any transaction: no such row (or a slug
   whose row is unlisted), or a document, signature, owner or intent check
   fails. *)
Reject(r) ==
    /\ pc[r] = "load"
    /\ Finish(r, "notfound") \/ Finish(r, "refused")
    /\ UNCHANGED <<rows, tombs, intent, start, new>>

(* BEGIN.  A replace takes no advisory lock; a create and a delete do. *)
Begin(r) ==
    /\ pc[r] = "begin"
    /\ \E t \in Times : start' = [start EXCEPT ![r] = t]
    /\ Goto(r, IF intent[r].op = "replace" THEN "write" ELSE "lock")
    /\ UNCHANGED <<rows, tombs, docLock, dirty, intent, new, reply>>

(* Mutant: creates and deletes go on without the advisory lock. *)
LockNothing(r) ==
    /\ pc[r] = "lock"
    /\ Goto(r, IF intent[r].op = "create" THEN "check" ELSE "write")
    /\ UNCHANGED <<rows, tombs, docLock, dirty, intent, start, new, reply>>

(* pg_advisory_xact_lock(table:id), held to the end of the transaction. *)
LockDocument(r) ==
    /\ pc[r] = "lock"
    /\ docLock[intent[r].id] = Nobody
    /\ docLock' = [docLock EXCEPT ![intent[r].id] = r]
    /\ Goto(r, IF intent[r].op = "create" THEN "check" ELSE "write")
    /\ UNCHANGED <<rows, tombs, dirty, intent, start, new, reply>>

(* A create of a deleted id is refused, on the transaction that will insert. *)
RequireNotTombstoned(r) ==
    /\ pc[r] = "check"
    /\ IF intent[r].id \in tombs
         THEN Finish(r, "deleted")
         ELSE Goto(r, "write") /\ UNCHANGED <<docLock, dirty, reply>>
    /\ UNCHANGED <<rows, tombs, intent, start, new>>

(* The slug of an id as a unique-index check sees it: the committed row's, or
   that of a row an open transaction inserted. *)
HoldsSlug(i, s) ==
    \/ rows[i] # NoRow /\ rows[i].slug = s
    \/ dirty[i] # Nobody /\ new[dirty[i]] # NoRow /\ new[dirty[i]].slug = s

(* Mutant: the slug is looked up among the committed rows instead of being left
   to the unique index, which waits for open transactions. *)
InsertUnlessSlugFound(r) ==
    LET i == intent[r].id
        s == intent[r].slug
    IN
    /\ pc[r] = "write" /\ intent[r].op = "create"
    /\ dirty[i] = Nobody
    /\ IF \E j \in Ids : rows[j] # NoRow /\ (j = i \/ rows[j].slug = s)
         THEN Finish(r, "exists") /\ UNCHANGED new
         ELSE /\ dirty' = [dirty EXCEPT ![i] = r]
              /\ new' = [new EXCEPT ![r] = [slug |-> s, gen |-> start[r], doc |-> r]]
              /\ Goto(r, "commit")
              /\ UNCHANGED <<docLock, reply>>
    /\ UNCHANGED <<rows, tombs, intent, start>>

(* INSERT.  It waits for every open transaction that wrote the same id or a
   row with the same slug, then either finds the key taken or inserts with
   updated_at = now(). *)
Insert(r) ==
    LET i == intent[r].id
        s == intent[r].slug
        Conflicting(j) == j = i \/ HoldsSlug(j, s)
    IN
    /\ pc[r] = "write" /\ intent[r].op = "create"
    /\ \A j \in Ids : Conflicting(j) => dirty[j] = Nobody
    /\ IF \E j \in Ids : Conflicting(j) /\ rows[j] # NoRow
         THEN Finish(r, "exists") /\ UNCHANGED new
         ELSE /\ dirty' = [dirty EXCEPT ![i] = r]
              /\ new' = [new EXCEPT ![r] = [slug |-> s, gen |-> start[r], doc |-> r]]
              /\ Goto(r, "commit")
              /\ UNCHANGED <<docLock, reply>>
    /\ UNCHANGED <<rows, tombs, intent, start>>

(* Mutant: the write is by id alone. *)
StillThere(r) == rows[intent[r].id] # NoRow

(* The condition of a conditional UPDATE or DELETE, on the committed row: same
   id and same updated_at as the row the request was authorized on. *)
StillCurrent(r) ==
    LET row == rows[intent[r].id] IN row # NoRow /\ row.gen = intent[r].seen.gen

(* Mutants: the trigger before migration 000008, and one that lets a value repeat. *)
GenIsNow(old, now) == now
GenMayRepeat(old, now) == IF old > now THEN old + 1 ELSE now

(* The generation an UPDATE gives a row: now(), unless the row already carries
   that or a later value, then one microsecond more than it carries. *)
NextGen(old, now) == IF old >= now THEN old + 1 ELSE now

(* UPDATE ... WHERE id AND updated_at. *)
Update(r) ==
    LET i == intent[r].id IN
    /\ pc[r] = "write" /\ intent[r].op = "replace"
    /\ rows[i] = NoRow \/ dirty[i] = Nobody
    /\ IF StillCurrent(r)
         THEN /\ dirty' = [dirty EXCEPT ![i] = r]
              /\ new' = [new EXCEPT ![r] =
                           [slug |-> rows[i].slug, gen |-> NextGen(rows[i].gen, start[r]), doc |-> r]]
              /\ Goto(r, "commit")
         ELSE Goto(r, "classify") /\ UNCHANGED <<dirty, new>>
    /\ UNCHANGED <<rows, tombs, docLock, intent, start, reply>>

(* DELETE ... WHERE id AND updated_at, then the tombstone INSERT. *)
DeleteRow(r) ==
    LET i == intent[r].id IN
    /\ pc[r] = "write" /\ intent[r].op = "delete"
    /\ rows[i] = NoRow \/ dirty[i] = Nobody
    /\ IF StillCurrent(r)
         THEN dirty' = [dirty EXCEPT ![i] = r] /\ Goto(r, "commit")
         ELSE Goto(r, "classify") /\ UNCHANGED dirty
    /\ UNCHANGED <<rows, tombs, docLock, intent, start, new, reply>>

(* A conditional write matched no row: a second statement, with a snapshot of
   its own, asks whether the row is there at all. *)
Classify(r) ==
    /\ pc[r] = "classify"
    /\ Finish(r, IF rows[intent[r].id] # NoRow THEN "conflict" ELSE "notfound")
    /\ UNCHANGED <<rows, tombs, intent, start, new>>

(* Mutant: the tombstone is not part of the transaction that deletes. *)
ApplyWithoutTombstone(r) ==
    /\ rows' = [rows EXCEPT ![intent[r].id] = IF intent[r].op = "delete" THEN NoRow ELSE new[r]]
    /\ UNCHANGED tombs

(* COMMIT: the row written becomes the committed one, or the row is gone and
   its tombstone is there, in one step. *)
Apply(r) ==
    LET i == intent[r].id IN
    IF intent[r].op = "delete"
      THEN /\ rows' = [rows EXCEPT ![i] = NoRow]
           /\ tombs' = tombs \cup {i}
      ELSE /\ rows' = [rows EXCEPT ![i] = new[r]]
           /\ UNCHANGED tombs

(* The request is answered, or the acknowledgement of the commit is lost and
   the client is told of an error though the write took effect. *)
Commit(r) ==
    /\ pc[r] = "commit"
    /\ Apply(r)
    /\ Finish(r, "ok") \/ Finish(r, "error")
    /\ UNCHANGED <<intent, start, new>>

(* Any statement may fail (deadline, connection, operator limit): the deferred
   Rollback undoes the transaction and the request ends with an error. *)
Abort(r) ==
    /\ pc[r] \in {"begin", "lock", "check", "write", "classify", "commit"}
    /\ Finish(r, "error")
    /\ UNCHANGED <<rows, tombs, intent, start, new>>

-----------------------------------------------------------------------------

Step(r) ==
    \/ Begin(r) \/ LockDocument(r) \/ RequireNotTombstoned(r)
    \/ Insert(r) \/ Update(r) \/ DeleteRow(r)
    \/ Classify(r) \/ Commit(r)

Arrive(r) == AcceptCreate(r) \/ LoadAndAuthorize(r) \/ Reject(r)

(* Every request has been answered. *)
AllServed ==
    /\ \A r \in Requests : pc[r] = "done"
    /\ UNCHANGED vars

Next == (\E r \in Requests : Arrive(r) \/ Step(r) \/ Abort(r)) \/ AllServed

(* Weak fairness of every statement of an open transaction: the database
   executes what is enabled.  Arrivals and failures owe nothing. *)
Fairness == \A r \in Requests : WF_vars(Step(r))

Spec == Init /\ [][Next]_vars

FairSpec == Spec /\ Fairness

-----------------------------------------------------------------------------
(* Properties *)

(* Every variable holds a value of its type. *)
TypeOK ==
    /\ rows \in [Ids -> Row \cup {NoRow}]
    /\ tombs \in SUBSET Ids
    /\ docLock \in [Ids -> Requests \cup {Nobody}]
    /\ dirty \in [Ids -> Requests \cup {Nobody}]
    /\ pc \in [Requests -> {"load", "begin", "lock", "check", "write", "classify", "commit", "done"}]
    /\ intent \in [Requests -> {NoOp} \cup CreateIntent \cup WriteIntent]
    /\ start \in [Requests -> Nat]
    /\ new \in [Requests -> Row \cup {NoRow}]
    /\ reply \in [Requests -> {"none", "ok", "exists", "deleted", "conflict", "notfound", "refused", "error"}]

(* A deleted id never comes back: no interleaving of a delete with a create of
   the same id, replayed or retried, leaves both a tombstone and a row.  This is
   what lockDocumentID taken before requireNotTombstoned is for. *)
NoResurrection == \A i \in tombs : rows[i] = NoRow

(* No two live documents share a slug, whatever inserts raced for it. *)
SlugsUnique ==
    \A i, j \in Ids : rows[i] # NoRow /\ rows[j] # NoRow /\ rows[i].slug = rows[j].slug => i = j

(* updated_at is a generation token: a request that finds the updated_at it
   loaded finds the very version it loaded, however many writes ran between and
   whatever their clocks read (the trigger of migration 000008). *)
TokenNamesVersion ==
    \A r \in Requests :
        LET i == intent[r].id IN
        intent[r] \in WriteIntent /\ rows[i] # NoRow /\ rows[i].gen = intent[r].seen.gen
            => rows[i] = intent[r].seen

(* A 404 answered to a write that had been authorized is final: the id is
   retired, no retry can succeed (classifyConditionalWrite). *)
NotFoundIsFinal ==
    \A r \in Requests : intent[r] \in WriteIntent /\ reply[r] = "notfound" => intent[r].id \in tombs

(* A committed document changes or disappears only by the commit of a request
   that was authorized on exactly that version: no update is lost, and no
   decision about one document is applied to another one that took its slug. *)
OnlyAuthorizedWrites ==
    [][\A i \in Ids : rows[i] # NoRow /\ rows'[i] # rows[i] =>
         \E r \in Requests :
            /\ pc[r] = "commit" /\ pc'[r] = "done"
            /\ intent[r] \in WriteIntent /\ intent[r].id = i /\ intent[r].seen = rows[i]]_vars

(* q has what r's next statement needs: the advisory lock of its id, or an
   uncommitted write of its row or of a row with the slug it inserts. *)
Blocks(q, r) ==
    LET i == intent[r].id IN
    \/ pc[r] = "lock" /\ docLock[i] = q
    \/ /\ pc[r] = "write" /\ intent[r].op = "create"
       /\ \E j \in Ids : (j = i \/ HoldsSlug(j, intent[r].slug)) /\ dirty[j] = q
    \/ pc[r] = "write" /\ intent[r].op # "create" /\ rows[i] # NoRow /\ dirty[i] = q

(* No transactions of the table ever wait for each other in a circle: whoever
   waits for the lock of an id waits for one that holds it and waits for a write
   at most, and whoever has written only has to commit. *)
NoDeadlock ==
    \A S \in SUBSET Requests : S # {} => \E r \in S : \A q \in S : ~Blocks(q, r)

(* Every request that opens a transaction is answered: advisory locks and row
   waits never leave transactions waiting on each other. *)
EveryRequestAnswered == \A r \in Requests : pc[r] = "begin" ~> pc[r] = "done"

(* The table as its clients see it, which implements DocumentLifecycle. *)
ShownDocs == [i \in Ids |-> IF i \in tombs THEN Deleted ELSE rows[i]]
Life == INSTANCE DocumentLifecycle WITH docs <- ShownDocs, Absent <- NoRow, Retired <- Deleted
ImplementsLifecycle == Life!Spec
==============================================================================
