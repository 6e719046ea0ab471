-------------------------- MODULE MembershipIngest --------------------------
(***************************************************************************)
(* Channels (and playlist groups, by the same code) that name playlists:   *)
(* publishing or replacing one stores the playlists it names that the feed *)
(* does not hold, and rebuilds its membership rows, in one transaction of  *)
(* internal/store/pg.  Playlists are published and deleted, and channels   *)
(* deleted, at the same time.                                              *)
(*                                                                         *)
(* Advisory locks, rows inserted and rows of playlist_sources upserted are *)
(* taken one at a time; a statement over the membership rows of a channel  *)
(* or of a playlist, or over the sources of a playlist, is one step.       *)
(* The whole implements PlaylistFeed, where each request is one step.      *)
(***************************************************************************)
EXTENDS PlaylistRequests

CONSTANT Nobody \* no transaction

ASSUME IngestAssumption == IsFiniteSet(Requests) /\ Nobody \notin Requests

VARIABLES playlists, \* committed playlist rows: the slug and the request that stored it
          channels,  \* committed channel rows: the revision (updated_at) and the document
          members,   \* committed membership rows of a channel: positions and playlist ids
          tombs,     \* deleted_documents, of both kinds
          sources,   \* playlist_sources: the playlist a URI last resolved to, or NoRow
          lock,      \* lock[d]: transaction holding the advisory lock of document d
          pc,        \* pc[r]: the next step of request r
          job,       \* job[r]: what r asks for; a replace or delete carries what it saw
          todo,      \* todo[r]: playlist ids still to lock, or still to insert
          inserted,  \* inserted[r]: the playlist rows r's transaction has inserted
          recorded,  \* recorded[r]: the URIs whose rows it has upserted
          reply      \* reply[r]: the answer to r, or "none"

vars == <<playlists, channels, members, tombs, sources, lock, pc, job, todo, inserted, recorded,
          reply>>
committed == <<playlists, channels, members, tombs, sources>>

ChannelRow == [rev : Nat, doc : Documents]

Init ==
    /\ playlists = [p \in Playlists |-> NoRow]
    /\ channels = [c \in Channels |-> NoRow]
    /\ members = [c \in Channels |-> {}]
    /\ tombs = {}
    /\ sources = [u \in Uris |-> NoRow]
    /\ lock = [d \in Playlists \cup Channels |-> Nobody]
    /\ pc = [r \in Requests |-> "idle"]
    /\ job = [r \in Requests |-> NoJob]
    /\ todo = [r \in Requests |-> {}]
    /\ inserted = [r \in Requests |-> {}]
    /\ recorded = [r \in Requests |-> {}]
    /\ reply = [r \in Requests |-> "none"]

-----------------------------------------------------------------------------
(* Steps of a request *)

Goto(r, there) == pc' = [pc EXCEPT ![r] = there]
On(r, op) == job[r].op = op
Ingests(r) == On(r, "create channel") \/ On(r, "replace channel")

(* The transaction of r ends and its locks and uncommitted rows are gone. *)
Finish(r, what) ==
    /\ Goto(r, "done")
    /\ reply' = [reply EXCEPT ![r] = what]
    /\ lock' = [d \in DOMAIN lock |-> IF lock[d] = r THEN Nobody ELSE lock[d]]
    /\ inserted' = [inserted EXCEPT ![r] = {}]
    /\ recorded' = [recorded EXCEPT ![r] = {}]
    /\ todo' = [todo EXCEPT ![r] = {}]

(* A request is accepted: what it names is resolved, what it replaces or deletes
   has been read. *)
AcceptCreate(r) ==
    /\ pc[r] = "idle"
    /\ \E j \in CreateJob :
         /\ job' = [job EXCEPT ![r] = j]
         /\ todo' = [todo EXCEPT ![r] = Ids(j.doc)]
         /\ Goto(r, IF j.op = "create channel" THEN "lock document" ELSE "lock playlists")
    /\ UNCHANGED <<committed, lock, inserted, recorded, reply>>

AcceptReplace(r) ==
    /\ pc[r] = "idle"
    /\ \E c \in Channels, doc \in Documents :
         /\ channels[c] # NoRow
         /\ job' = [job EXCEPT ![r] =
              [op |-> "replace channel", target |-> c, doc |-> doc, seen |-> channels[c].rev]]
         /\ todo' = [todo EXCEPT ![r] = Ids(doc)]
    /\ Goto(r, "lock playlists")
    /\ UNCHANGED <<committed, lock, inserted, recorded, reply>>

AcceptDelete(r) ==
    /\ pc[r] = "idle"
    /\ \/ \E p \in Playlists :
            /\ playlists[p] # NoRow
            /\ job' = [job EXCEPT ![r] = [op |-> "delete playlist", target |-> p]]
       \/ \E c \in Channels :
            /\ channels[c] # NoRow
            /\ job' = [job EXCEPT ![r] =
                 [op |-> "delete channel", target |-> c, seen |-> channels[c].rev]]
    /\ Goto(r, "lock document")
    /\ UNCHANGED <<committed, lock, todo, inserted, recorded, reply>>

(* The advisory lock of the one document created or deleted; a create of a
   deleted channel is refused under it. *)
LockDocument(r) ==
    LET d == job[r].target IN
    /\ pc[r] = "lock document" /\ lock[d] = Nobody
    /\ IF On(r, "create channel") /\ d \in tombs
         THEN Finish(r, "deleted")
         ELSE /\ lock' = [lock EXCEPT ![d] = r]
              /\ Goto(r, IF On(r, "create channel") THEN "lock playlists" ELSE "delete")
              /\ UNCHANGED <<todo, inserted, recorded, reply>>
    /\ UNCHANGED <<committed, job>>

(* Mutant: the locks are taken in the order of the document. *)
LockAnyNext(r) == todo[r]

(* lockDocumentIDs: in ascending id order. *)
LockNext(r) == {Min(todo[r])}

(* Mutant: a playlist that is stored is not locked. *)
LockPlaylistIfNew(r) ==
    /\ pc[r] = "lock playlists"
    /\ \E p \in LockNext(r) :
         /\ playlists[p] = NoRow => lock[p] = Nobody
         /\ lock' = IF playlists[p] = NoRow THEN [lock EXCEPT ![p] = r] ELSE lock
         /\ todo' = [todo EXCEPT ![r] = @ \ {p}]
    /\ Goto(r, IF todo'[r] = {} THEN "check" ELSE "lock playlists")
    /\ UNCHANGED <<committed, job, inserted, recorded, reply>>

LockPlaylist(r) ==
    /\ pc[r] = "lock playlists"
    /\ \E p \in LockNext(r) :
         /\ lock[p] = Nobody
         /\ lock' = [lock EXCEPT ![p] = r]
         /\ todo' = [todo EXCEPT ![r] = @ \ {p}]
    /\ Goto(r, IF todo'[r] = {} THEN "check" ELSE "lock playlists")
    /\ UNCHANGED <<committed, job, inserted, recorded, reply>>

(* requireNoneTombstoned, for a create of a playlist and for every reference. *)
CheckPlaylists(r) ==
    /\ pc[r] = "check"
    /\ IF Ids(job[r].doc) \cap tombs # {}
         THEN Finish(r, "deleted")
         ELSE /\ todo' = [todo EXCEPT ![r] = Ids(job[r].doc)]
              /\ Goto(r, "insert")
              /\ UNCHANGED <<lock, inserted, recorded, reply>>
    /\ UNCHANGED <<committed, job>>

-----------------------------------------------------------------------------
(* What an open transaction has written, for others to wait on *)

(* It deletes a playlist, with the membership rows that name it. *)
Deleting(q, p) ==
    pc[q] \in {"cascade", "commit"} /\ On(q, "delete playlist") /\ job[q].target = p

(* It inserted, updated or deleted the row of a channel. *)
Writing(q, c) ==
    /\ pc[q] \in {"members", "commit"}
    /\ Ingests(q) \/ On(q, "delete channel")
    /\ job[q].target = c

(* It deleted the membership rows of a channel. *)
Clearing(q, c) == pc[q] = "commit" /\ Writing(q, c)

(* It inserted a membership row that names the playlist. *)
Linking(q, p) == pc[q] = "commit" /\ Ingests(q) /\ p \in Ids(job[q].doc)

Names(c, p) == \E m \in members[c] : m[2] = p

SlugStored(s) == \E p \in Playlists : playlists[p] # NoRow /\ playlists[p].slug = s

(* It holds a slug: it inserted it, or deletes the playlist that has it. *)
HoldsSlug(q, s) ==
    \/ \E ref \in inserted[q] : ref.slug = s
    \/ \E p \in Playlists : Deleting(q, p) /\ playlists[p].slug = s

Missing(r) == playlists[Min(todo[r])] = NoRow

(* Mutant: what the same statement inserts is not looked at. *)
SlugStoredOnly(r, s) == SlugStored(s)

(* A playlist that is stored, or that r itself has inserted, has the slug. *)
SlugTaken(r, s) == SlugStored(s) \/ \E ref \in inserted[r] : ref.slug = s

(* The rows of playlist_sources it has yet to upsert. *)
Left(r) == UrisOf(job[r].doc) \ recorded[r]

(* It upserted the row of a URI, or deleted it with the playlist it names. *)
HoldsSource(q, u) ==
    \/ u \in recorded[q]
    \/ pc[q] = "commit" /\ On(q, "delete playlist") /\ sources[u] = job[q].target

(* The next statement of r needs a lock, a row or a key that q holds. *)
Blocks(q, r) ==
    \/ pc[r] = "lock document" /\ lock[job[r].target] = q
    \/ pc[r] = "lock playlists" /\ \E p \in LockNext(r) : lock[p] = q
    \/ pc[r] = "insert" /\ Missing(r) /\ HoldsSlug(q, FirstOf(job[r].doc, Min(todo[r])).slug)
    \/ pc[r] = "record" /\ HoldsSource(q, Min(Left(r)))
    \/ pc[r] = "write" /\ Writing(q, job[r].target)
    \/ /\ pc[r] = "members"
       /\ \E p \in Playlists :
            Deleting(q, p) /\ (p \in Ids(job[r].doc) \/ Names(job[r].target, p))
    \/ /\ pc[r] = "delete" /\ On(r, "delete playlist")
       /\ \/ \E c \in Channels : Clearing(q, c) /\ Names(c, job[r].target)
          \/ Linking(q, job[r].target)
    \/ pc[r] = "cascade" /\ \E u \in recorded[q] : sources[u] = job[r].target
    \/ /\ pc[r] = "delete" /\ On(r, "delete channel")
       /\ \/ Writing(q, job[r].target)
          \/ \E p \in Playlists : Deleting(q, p) /\ Names(job[r].target, p)

Holders(r) == {q \in Requests \ {r} : Blocks(q, r)}

Free(r) == Holders(r) = {}

-----------------------------------------------------------------------------
(* Statements *)

(* Where a request goes when its playlists are in. *)
AfterInsert(r) ==
    CASE ~ Ingests(r) -> "commit"
      [] Ingests(r) /\ UrisOf(job[r].doc) = {} -> "write"
      [] Ingests(r) /\ UrisOf(job[r].doc) # {} -> "record"

(* Mutant: an upsert instead of ON CONFLICT DO NOTHING. *)
InsertOrOverwrite(r) ==
    LET p == Min(todo[r]) IN
    /\ pc[r] = "insert" /\ Free(r)
    /\ inserted' = [inserted EXCEPT ![r] = @ \cup {FirstOf(job[r].doc, p)}]
    /\ todo' = [todo EXCEPT ![r] = @ \ {p}]
    /\ Goto(r, IF todo'[r] # {} THEN "insert" ELSE AfterInsert(r))
    /\ UNCHANGED <<committed, job, lock, recorded, reply>>

(* Mutant: each row is inserted in a transaction of its own. *)
InsertAutocommitted(r) ==
    LET p == Min(todo[r])
        ref == FirstOf(job[r].doc, p)
    IN
    /\ pc[r] = "insert" /\ Free(r)
    /\ IF (Missing(r) /\ SlugTaken(r, ref.slug)) \/ (~Missing(r) /\ ~Ingests(r))
         THEN Finish(r, "exists") /\ UNCHANGED playlists
         ELSE /\ playlists' = IF Missing(r) THEN [playlists EXCEPT ![p] = [slug |-> ref.slug, by |-> r]]
                                           ELSE playlists
              /\ todo' = [todo EXCEPT ![r] = @ \ {p}]
              /\ Goto(r, IF todo'[r] # {} THEN "insert" ELSE AfterInsert(r))
              /\ UNCHANGED <<lock, inserted, recorded, reply>>
    /\ UNCHANGED <<channels, members, tombs, sources, job>>

(* The next playlist row, in id order.  An ingest leaves a stored playlist as it
   is; a create of one that is stored, and a new row whose slug is taken, fail. *)
Insert(r) ==
    LET p == Min(todo[r])
        ref == FirstOf(job[r].doc, p)
    IN
    /\ pc[r] = "insert" /\ Free(r)
    /\ IF (Missing(r) /\ SlugTaken(r, ref.slug)) \/ (~Missing(r) /\ ~Ingests(r))
         THEN Finish(r, "exists")
         ELSE /\ inserted' = [inserted EXCEPT ![r] = IF Missing(r) THEN @ \cup {ref} ELSE @]
              /\ todo' = [todo EXCEPT ![r] = @ \ {p}]
              /\ Goto(r, IF todo'[r] # {} THEN "insert" ELSE AfterInsert(r))
              /\ UNCHANGED <<lock, recorded, reply>>
    /\ UNCHANGED <<committed, job>>

(* recordPlaylistSources: the row of the next URI, in the order of their hashes. *)
Record(r) ==
    /\ pc[r] = "record" /\ Free(r)
    /\ recorded' = [recorded EXCEPT ![r] = @ \cup {Min(Left(r))}]
    /\ Goto(r, IF UrisOf(job[r].doc) \subseteq recorded'[r] THEN "write" ELSE "record")
    /\ UNCHANGED <<committed, job, lock, todo, inserted, reply>>

(* The row is there at the revision r was authorized on. *)
StillCurrent(r) == channels[job[r].target] # NoRow /\ channels[job[r].target].rev = job[r].seen

Missed(r) == Finish(r, IF channels[job[r].target] # NoRow THEN "conflict" ELSE "notfound")

(* INSERT of the channel's row, or the conditional UPDATE and its probe. *)
WriteChannel(r) ==
    /\ pc[r] = "write" /\ Free(r)
    /\ \/ On(r, "create channel") /\ channels[job[r].target] # NoRow /\ Finish(r, "exists")
       \/ On(r, "replace channel") /\ ~StillCurrent(r) /\ Missed(r)
       \/ /\ IF On(r, "create channel") THEN channels[job[r].target] = NoRow ELSE StillCurrent(r)
          /\ Goto(r, "members")
          /\ UNCHANGED <<lock, todo, inserted, recorded, reply>>
    /\ UNCHANGED <<committed, job>>

(* The foreign keys of the new membership rows. *)
Linkable(r) ==
    \A p \in Ids(job[r].doc) : playlists[p] # NoRow \/ \E ref \in inserted[r] : ref.id = p

(* The membership rows of the channel are deleted and rebuilt from the document. *)
WriteMembers(r) ==
    /\ pc[r] = "members" /\ Free(r)
    /\ IF Linkable(r)
         THEN Goto(r, "commit") /\ UNCHANGED <<lock, todo, inserted, recorded, reply>>
         ELSE Finish(r, "error")
    /\ UNCHANGED <<committed, job>>

(* The conditional DELETE with the cascade to membership rows, and the tombstone.
   A playlist is not replaced here, so one that is there is the one that was read. *)
DeleteRow(r) ==
    /\ pc[r] = "delete" /\ Free(r)
    /\ \/ /\ IF On(r, "delete playlist") THEN playlists[job[r].target] # NoRow ELSE StillCurrent(r)
          /\ Goto(r, IF On(r, "delete playlist") THEN "cascade" ELSE "commit")
          /\ UNCHANGED <<lock, todo, inserted, recorded, reply>>
       \/ On(r, "delete playlist") /\ playlists[job[r].target] = NoRow /\ Finish(r, "notfound")
       \/ On(r, "delete channel") /\ ~StillCurrent(r) /\ Missed(r)
    /\ UNCHANGED <<committed, job>>

(* The cascade to playlist_sources, the last of the foreign keys to be declared. *)
CascadeToSources(r) ==
    /\ pc[r] = "cascade" /\ Free(r)
    /\ Goto(r, "commit")
    /\ UNCHANGED <<committed, lock, job, todo, inserted, recorded, reply>>

(* Mutant: the rows of the document replaced are not deleted. *)
MembersKept(r, c) ==
    CASE On(r, "delete playlist") -> {m \in members[c] : m[2] # job[r].target}
      [] Writing(r, c) /\ Ingests(r) -> members[c] \cup Rows(job[r].doc)
      [] Writing(r, c) /\ On(r, "delete channel") -> {}
      [] OTHER -> members[c]

(* What the commit of r makes of a channel's membership rows. *)
MembersAfter(r, c) ==
    CASE On(r, "delete playlist") -> {m \in members[c] : m[2] # job[r].target}
      [] Writing(r, c) /\ Ingests(r) -> Rows(job[r].doc)
      [] Writing(r, c) /\ On(r, "delete channel") -> {}
      [] OTHER -> members[c]

ChannelAfter(r, c) ==
    CASE Writing(r, c) /\ Ingests(r) ->
           [rev |-> IF channels[c] = NoRow THEN 1 ELSE channels[c].rev + 1, doc |-> job[r].doc]
      [] Writing(r, c) /\ On(r, "delete channel") -> NoRow
      [] OTHER -> channels[c]

PlaylistAfter(r, p) ==
    IF \E ref \in inserted[r] : ref.id = p
      THEN [slug |-> (CHOOSE ref \in inserted[r] : ref.id = p).slug, by |-> r]
      ELSE IF Deleting(r, p) THEN NoRow ELSE playlists[p]

SourceAfter(r, u) ==
    CASE u \in recorded[r] -> SourceOf(job[r].doc, u)
      [] On(r, "delete playlist") /\ sources[u] = job[r].target -> NoRow
      [] OTHER -> sources[u]

Deletes(r) == On(r, "delete playlist") \/ On(r, "delete channel")

(* The commit takes effect; word of it may be lost. *)
Commit(r) ==
    /\ pc[r] = "commit"
    /\ playlists' = [p \in Playlists |-> PlaylistAfter(r, p)]
    /\ channels' = [c \in Channels |-> ChannelAfter(r, c)]
    /\ members' = [c \in Channels |-> MembersAfter(r, c)]
    /\ tombs' = IF Deletes(r) THEN tombs \cup {job[r].target} ELSE tombs
    /\ sources' = [u \in Uris |-> SourceAfter(r, u)]
    /\ Finish(r, "ok") \/ Finish(r, "error")
    /\ UNCHANGED job

(* A statement or the commit fails, the deadline passes, or PostgreSQL picks r as
   the victim of a deadlock: everything is rolled back. *)
Abort(r) ==
    /\ pc[r] \notin {"idle", "done"}
    /\ Finish(r, "error")
    /\ UNCHANGED <<committed, job>>

Accept(r) == AcceptCreate(r) \/ AcceptReplace(r) \/ AcceptDelete(r)

Statement(r) ==
    \/ LockDocument(r) \/ LockPlaylist(r) \/ CheckPlaylists(r) \/ Insert(r) \/ Record(r)
    \/ WriteChannel(r) \/ WriteMembers(r) \/ DeleteRow(r) \/ CascadeToSources(r) \/ Commit(r)

Next == \E r \in Requests : Accept(r) \/ Statement(r) \/ Abort(r)

Spec == Init /\ [][Next]_vars

-----------------------------------------------------------------------------
(* Properties *)

(* Type correctness of the tables and of the transactions. *)
TypeOK ==
    /\ playlists \in [Playlists -> [slug : Slugs, by : Requests] \cup {NoRow}]
    /\ channels \in [Channels -> ChannelRow \cup {NoRow}]
    /\ members \in [Channels -> SUBSET (Nat \X Playlists)]
    /\ tombs \subseteq Playlists \cup Channels
    /\ sources \in [Uris -> Playlists \cup {NoRow}]
    /\ lock \in [Playlists \cup Channels -> Requests \cup {Nobody}]
    /\ pc \in [Requests -> {"idle", "lock document", "lock playlists", "check", "insert", "record",
                            "write", "members", "delete", "cascade", "commit", "done"}]
    /\ job \in [Requests -> Job \cup {NoJob}]
    /\ todo \in [Requests -> SUBSET Playlists]
    /\ inserted \in [Requests -> SUBSET References]
    /\ recorded \in [Requests -> SUBSET Uris]
    /\ reply \in [Requests -> {"none", "ok", "exists", "deleted", "conflict", "notfound", "error"}]

(* A channel's membership rows are the positions of the document it now shows,
   less the playlists deleted from the feed: no replace, racing another one, a
   delete or a cascade, leaves rows of an older document or drops any. *)
MembersFollowDocument ==
    \A c \in Channels :
        members[c] = IF channels[c] = NoRow THEN {}
                     ELSE {m \in Rows(channels[c].doc) : m[2] \notin tombs}

(* An ingest that gets to its membership rows finds every playlist they name: what
   it found stored is not deleted before it links to it.  Nor does a URI it
   recorded name a playlist that another request was deleting. *)
LinksHold ==
    /\ \A r \in Requests : pc[r] = "members" => Linkable(r)
    /\ \A u \in Uris : sources[u] # NoRow => playlists[sources[u]] # NoRow

(* "Membership ingestion may link a playlist but must never modify one": a stored
   playlist stays as it is until it is deleted, whoever names its id. *)
StoredPlaylistsUntouched ==
    [][\A p \in Playlists : playlists[p] # NoRow => playlists'[p] \in {playlists[p], NoRow}]_vars

(* A request brings in all the playlists it names or none, although it had inserted
   some when another failed it: none when it is refused for a reason, all when it is
   answered "ok", and none or all when the answer is an error, which may be that of
   a commit that took effect. *)
RefusedStoresNothing ==
    \A p \in Playlists : playlists[p] # NoRow =>
        LET r == playlists[p].by IN
        /\ reply[r] \in {"ok", "error"}
        /\ \A q \in Ids(job[r].doc) : playlists[q] # NoRow \/ q \in tombs

(* The feed as its clients see it: every request takes effect, or is refused for a
   reason that holds, at one moment between its arrival and its answer. *)
Feed == INSTANCE PlaylistFeed WITH asked <- job
ImplementsFeed == Feed!Spec

(* The requests of S wait for each other: none can go on until one is aborted. *)
Deadlocked(S) == S # {} /\ \A r \in S : S \cap Holders(r) # {}

(* Advisory locks are in no circle, nor do the rows of channels close one: in a
   deadlock, the requests that wait for rows wait for each other already, and one
   of them waits with slugs, rows of playlist_sources or membership rows taken. *)
OnlyRowsDeadlock ==
    \A S \in SUBSET Requests : Deadlocked(S) =>
        LET R == {r \in S : pc[r] \notin {"lock document", "lock playlists"}} IN
        Deadlocked(R) /\ \E r \in R : pc[r] # "write"

(* internal/store/pg/store.go, on documentLockKey, "Deadlock safety": "no two
   transactions can hold each other's next lock". *)
NoDeadlock == \A r, q \in Requests : ~Deadlocked({r, q})
=============================================================================
