# The DP-1 feed server, specified

TLA+ specifications of the feed server in `src/` (Go, PostgreSQL): what a
document table promises, how the transactions of the store keep that promise
under concurrency, who may change a document, what a delete reports, what the
references of channels and groups resolve to and how they are ingested, what a
client sees that pages through a list, who learns of a channel's change, and how
log records are shipped and drained. TLC checks small instances; TLAPS proves the
safety of all eight components modelled, three of them down to an abstract
specification they implement, for every value of the constants.

Paths below are relative to `src/`. `pg/store.go` stands for
`internal/store/pg/store.go`, `executor.go` and `ownership.go` for the files of
`internal/executor/`.

## 1. The system

| Component | State it keeps | Operations | Talks to |
|---|---|---|---|
| Document tables, `pg/store.go` | three tables (playlists, playlist groups, channels), each id -> slug, body, `updated_at`; `deleted_documents`; advisory locks held by open transactions | create, conditional replace, conditional delete, get by id or slug | PostgreSQL, at READ COMMITTED |
| Membership rows, `pg/store.go` | `playlist_group_members`, `channel_members` (container, position, playlist), `playlist_sources`, `playlist_item_index` | rebuilt by each create or replace of a container, removed by cascades | the document tables, in the same transaction |
| Recipient read of a delete, `pg/store.go` | a second pool connection, a goroutine, a cancel function, a result channel | acquire, start, await, collect, close | the delete's transaction, the pool |
| Executor, `executor.go` | none of its own | the nine create/replace/delete operations, reads, lists | store, ownership rules, signing service, resolver, notifier |
| Ownership rules, `ownership.go`, `signed_auth.go` | none: functions of a stored and an incoming document | owner sets, seven consistency rules, the signed intent of replace and delete | executor |
| Signing service, `dp1svc.go` | the feed's key | co-sign (replaces the feed's earlier entry), verify | executor |
| Reference resolution, `ingest_resolve.go` | per request: eight goroutines, one atomic byte budget, an output slot per position | resolve every playlist URI of a container | fetcher, store |
| Lists and cursors, `pg/store.go`, `pagination.go`, `sort.go` | none: the cursor carries the position | keyset pages by `(created_at, id)`, `(created_at, position, item)` or membership position | store |
| Notifications, `executor.go`, `notification/client.go` | per request: the channels to announce, eight deliveries at a time | announce channel changes once they are persisted | every configured endpoint, whose consumer then reads the channel with its entity tag |
| Log sender, `logger/cloudflare.go` | bounded queue, byte account under a mutex, batch, worker goroutine, flush and close requests | enqueue, flush, close | log calls of every goroutine; the stream endpoint |
| Process, `cmd/server/main.go` | signal context, HTTP server, logger | serve, 15 s drain, logger drain | everything |
| HTTP layer, `httpserver/` | none | routes, binding, entity tags, error mapping | executor |

The paths that matter: a write is *loaded and authorized* on the pool, then
*performed* in a transaction of its own that is conditional on the `updated_at`
that was loaded. Create does not look first: it takes the advisory lock of the
id, reads the tombstones under it and inserts. Delete takes the same lock,
deletes conditionally and writes the tombstone in the same transaction. Replace
takes no advisory lock of its own; when a container brings playlists along, the
transaction takes the locks of all of them, in id order.

What is hard here:

* **Concurrency between statements.** At READ COMMITTED each statement has its
  own snapshot. Anything decided on one statement's result (no tombstone, no
  row changed, slug free) may be stale at the next.
* **Clocks.** `updated_at` is the token of conditional writes; `now()` repeats
  and may go back. The trigger of migration 000008 makes it grow.
* **Lost outcomes.** A commit may take effect and its acknowledgement be lost.
* **Two resources at once.** A delete holds a connection and a document lock and
  wants a second connection; ingests hold the locks of several playlists and
  unique keys of several slugs.
* **Histories.** Ownership is decided per request, but what it protects is a
  property of the whole sequence of versions, rows of an earlier contract included.
* **Snapshots apart.** A client's pages are of different instants; the channels a
  playlist concerns are read in another snapshot than the one its write commits in;
  a consumer puts a channel together from several requests.
* **Channels and counters.** The log sender counts a record *after* putting it
  on a Go channel whose reader is already running.

`PROJECT.json` lists every hazard at its line, with the properties that would
catch it, and every component with its status.

## 2. Modules

| Module | What it is | Composes |
|---|---|---|
| `DocumentLifecycle` | abstract: what a table promises its clients, atomically | |
| `DocumentStore` | the transactions of one table, statement by statement | implements `DocumentLifecycle` (`INSTANCE ... WITH`) |
| `DocumentStore_proofs` | its theorems | `DocumentStore` |
| `Ownership` | the rules of `ownership.go`, as operators on documents | |
| `OwnedResource` | one resource over its life: authorize, then write later | extends `Ownership`; its conditional write is atomic because `DocumentStore` shows it is |
| `OwnedResource_proofs` | its theorems | `OwnedResource` |
| `DeleteListing` | a playlist's delete, its recipient read, channels that come and go | |
| `PlaylistRequests` | what clients ask about playlists and the containers that name them | |
| `PlaylistFeed` | abstract: each such request takes effect, or is refused for a true reason, in one step | extends `PlaylistRequests` |
| `MembershipIngest` | containers that bring playlists in, against creates and deletes, lock by lock and row by row | extends `PlaylistRequests`; implements `PlaylistFeed` |
| `ReferenceResolution` | what references resolve to, and the cache of remote URIs | its ingest, one step here, is taken apart in `MembershipIngest` |
| `ResolutionHistory` | a history of the fetches beside it | extends `ReferenceResolution` |
| `ListPaging` | four paged lists and a client that follows one, beside the writes | the writes are single steps, as `DocumentStore` and `MembershipIngest` show they may be |
| `ChannelNotify` | from a write to the consumers of channel events, and the process that stops | the recipient read of a delete, taken apart in `DeleteListing`, is one step under the lock |
| `LogPipe` | abstract: a pipe that may turn a record away or fail to deliver it, and says so | |
| `StreamSender` | the log sender and its worker | implements `LogPipe` |
| `DeleteListing_proofs`, `MembershipIngest_proofs`, `ReferenceResolution_proofs`, `ListPaging_proofs`, `ChannelNotify_proofs`, `StreamSender_proofs` | theorems about the module each extends | |
| `MC*` | instances for TLC | |

### DocumentStore and DocumentLifecycle

One table stands for three: the code is the same (`CreatePlaylist`,
`CreatePlaylistGroup`, ..., `deleteDocumentRow`), and `deleted_documents` is
keyed by table. Variables: `rows` (committed rows; `gen` is `updated_at`),
`tombs`, `docLock` (transaction-scoped advisory locks), `dirty` (who has an
uncommitted write to a row), and per request `pc`, `intent` (a replace or delete
carries the row it loaded), `start` (`now()` of the transaction), `new` (its
uncommitted row), `reply`.

| Action | Code |
|---|---|
| `AcceptCreate`, `LoadAndAuthorize`, `Reject` | the executor up to the store call: load by id or slug, check, map to 4xx |
| `Begin` | `pool.Begin`; `now()` is fixed here |
| `LockDocument`, `RequireNotTombstoned` | `lockDocumentID`, `requireNotTombstoned` |
| `Insert` | the INSERT: waits for a writer of the same id or holder of the slug, then inserts or hits the unique key (`createConflict`) |
| `Update` | `UPDATE ... WHERE id = $1 AND updated_at = $n`, with the trigger of 000008 |
| `DeleteRow` | the conditional DELETE |
| `Classify` | `classifyConditionalWrite`, a further statement with a snapshot of its own |
| `Commit` | takes effect; the reply is `ok`, or `error` when the acknowledgement was lost |
| `Abort` | any statement fails, or the deadline passes |

`DocumentLifecycle` has no locks and no statements: an id goes absent -> live ->
retired, writes take effect only on the version authorized, and replies say what
happened. `ImplementsLifecycle` maps an id of `tombs` to retired and every other
to its row.

### Ownership and OwnedResource

A document is what the rules read: declared owner keys, a group's curator string,
and a *set of (kid, role) entries*. The signature list is outside the signed
bytes, so any relay may drop, append or re-label entries: a submission comes with
any set of entries of the constant `Submissions`, which the theorems leave open and
the run bounds (section 3). Cryptography is taken as right: a claimed entry verifies.
`WellFormed`, `OwnerSet`, `StoredOwners`, and the seven rules carry the source's
names; `MayCreate` and `MayReplace` are their conjunctions as the executor calls
them; `CoSign` is `mergeSignaturesReplacingPriorFeedSig` and
`appendFeedSignature`. `OwnedResource` starts either empty or with a row of
the previous contract, which the rules never vetted (`legacy`).

### DeleteListing

One playlist, its deletes, and channels that ingest it (`IngestLock`,
`IngestCheck`, `IngestCommit`) or stop to list it (`Unlink`). A delete takes one
connection (`Begin`), tries for a second without waiting beyond its bound
(`AcquireRead`: got it, or goes on without), locks, starts the read, waits for
`started` or gives the read up (`AwaitStart`), deletes, commits, and collects.
`read` is the ownership of the second connection: `held` by the delete until the
goroutine runs, by the goroutine afterwards. `Fail` is every early return with
its deferred rollback, cancel and close. Only channels are read; group rows
cascade likewise and are not reported.

### MembershipIngest, PlaylistRequests and PlaylistFeed

Playlists and channels (groups run the same code) with their membership rows. A
channel's document is a sequence of references, each resolved to an id, the slug
of the copy fetched and the URI it was fetched from, and may repeat an id.
Advisory locks are taken one by one in id order; playlists are inserted row by row
in id order (the statement's `DISTINCT ON (x.id) ... ORDER BY x.id`), each waiting
for whoever holds the slug and failing when a stored playlist, or a row of the
same statement, has it (`SlugTaken`); then the rows of `playlist_sources` are
upserted in the order of their hashes (`Record`), then the container's row is
written, then its membership rows. A playlist's delete takes the membership rows
that name it with its own row (`DeleteRow`) and then its rows of
`playlist_sources` (`CascadeToSources`), for PostgreSQL fires the cascades in the
order the foreign keys were declared in. A commit takes effect and is answered ok,
or an error when word of it is lost. `Blocks(q, r)` says that `q` holds a lock,
key or row that `r`'s next statement needs, which makes both blocking and deadlock
expressible. These liberties are taken:

* a statement over the membership rows of a container or of a playlist, or over the
  sources of a playlist, is one step: what two such statements do to each other with
  part of their rows locked is not seen;
* the probe that tells 404 from 409 comes with the write (`DocumentStore` separates
  them);
* playlists are not replaced, and the item index and the slugs of containers are left
  out, with the locks they would take;
* the rows of `playlist_sources` are followed for the URIs of `Uris`. Every other
  reference has the address `Elsewhere`: a playlist of this feed, which leaves no
  row, or a URI whose row is not followed, through which an ingest may bring a
  playlist in as well. What URIs resolve to, and when, is `ReferenceResolution`'s.

`PlaylistFeed` promises the outcomes without locks or statements: a request that
brings playlists in stores all the new ones and shows its document, or changes
nothing. An answer of ok is given for what was done, an error for either, since
the commit may take effect and be reported failed (`tx.Commit` in every write of
`pg/store.go`); a refusal changes nothing and names a reason that holds when it is
given (an id deleted, a slug or id taken, a revision gone by, a row not there).
`ImplementsFeed` reads the committed tables and maps every other variable away.
`SlugsUnique`, `DeletedForGood` and `PlaysWhatItShows` are said of the abstract
feed and proved of the transactions.

### ReferenceResolution and ResolutionHistory

Requests of `resolvePlaylistURIs` (`ingest_resolve.go`) with the world they read:
what each origin serves (`origin`), the stored playlists, tombstones and
`playlist_sources` (`sources`). A goroutine per distinct URI goes through `Fetch`
(takes one of `Limit` slots and gets its answer), `LookUp` (the query of the store:
by the local id, by the URI when the origin was unavailable, by the id in the body
otherwise) and `Charge` (`resolved.Add`, the comparison, the positions). `Ingest` is
`insertMissingPlaylistsBatch` with `recordPlaylistSources`. Between any two steps an
origin may change (`Move`) and playlists may be published or deleted, with the
cascade that forgets what resolved to them.

A playlist body is an id, a size and whether the feed would accept it as a create;
a failed fetch is `Down` (unavailable) or `Gone` (any answer that is not a playlist
to fetch: 404, 410, too large, refused destination). No configured fetcher is an
origin that is always down. After the first failure the error group is cancelled and
its other goroutines can only read, so the request ends at once. A local URI names
one id (a slug may be taken over by another playlist, which is `DocumentStore`'s
subject), and stored playlists are not replaced. `served`, `seen` and, in
`ResolutionHistory`, `latest` are histories that the properties speak of.

### ListPaging

One client picks a list (the directory of playlists, the directory of items, the
items of one container, the playlists of one container) and a direction, and asks
for page after page with the token it was given; it may also present that token to
any list that did not issue it. The two lists of items honour each other's tokens,
which name no container; the other lists refuse a token of another shape. A
membership token is also presented in the other direction, which it does not allow;
that of a list by `created_at` allows it (`pg/store.go:2064-2067`), which the client
here does not try. A page is one statement's
snapshot: `Serve` takes `Limit` rows strictly after the token, and issues a token
for the last one kept only when a further row exists. The items of a container take
two statements, `ResolveScope` and `ReadScoped`, with writes between them; the
playlists of a container are read with its revision in one, and `Bound` compares
the token's container, direction and revision.

| Action | Code |
|---|---|
| `ReadPlaylists` | `ListPlaylists`, `createdAtListQuery` |
| `ReadItems`, `ResolveScope`, `ReadScoped` | `ListPlaylistItems`, `resolveContainer` |
| `ReadMembers` | `listPlaylistsByMembership` |
| `DecodesAs...`, `TokenFor` | the three cursor payloads and what each decoder requires and forbids |
| `BeginInsert`, `CommitInsert` | `created_at` is `now()` at the start of a transaction, and shared by all the rows of one ingest; they appear at its commit |
| `Replace`, `Delete` | bodies with their index rows; the cascade to membership rows, which leaves the container's row alone |
| `WriteContainer`, `DeleteContainer` | membership rows rebuilt; a replace moves the revision, a create takes a new id |

A row is its key and the playlist it is of. An item row's key is not unique, so
`Serve` chooses among tied rows. `steady`, `base` and `replaced` are histories:
the rows listed at every instant since the first page, those at the first page,
whether the container was written since. A container is known by its slug, which
is taken again after a delete under a new id.

### ChannelNotify

Requests that write channels or playlists go through `runChannelMutation`: one that
is over before it has begun is not begun, one that has begun no longer notices that
its client is gone (`Persist`). The commit may be acknowledged or not; after an
acknowledged one the channels concerned are known (`Committed`), read
(`ReadListing`, after a playlist's update) or were read before (`ReadBeforeDelete`,
under the delete's lock). `Send` is `notifyChannels`: the next channel, to every
client at once, while one of `Concurrency` slots is free; `StopSending` is what the
end of the deadline does to the channels not enqueued, and each delivery ends in
`Deliver` or `Fail`. Signing and the HTTP exchange of a delivery are one step.

A consumer told of a channel looks at it with the tag it holds (`LookAt`,
`GetChannel` and `strongETagFromJSONBytesAndRevision`) and fetches the members of
what it got one by one (`FetchMember`). The process stops in three steps: `Signal`,
`ShutdownReturns` with or without handlers that outlived the 15 s, `Exit`, which
ends those handlers and rolls back what they had open. Only a stop by signal is
modelled: a listener that fails ends the process without a drain of the handlers
(`main.go:142-143`).

`excused` records, per channel and consumer, that an event was missed for a reason
the design admits: a failed delivery, a lost acknowledgement, a recipient read that
did not come in time, the deadline, or the 15 s; a consumer that looks again is
excused no more. What a channel's document names (`lists`) and its membership rows
(`rows`) differ once a member is deleted: the document still names it.

### StreamSender and LogPipe

Log calls (`Send` then `Count`, or `Drop`), flush callers, close callers and the
worker. `Send` and `Count` are two steps although both are under `mu`, because
the worker does not take `mu` before receiving. The select loop is one action per
case; appending, delivering and draining are steps of the worker, so that calls
arrive between them. `Deliver` succeeds or fails. Body sizes include the JSON
array's brackets and commas, as the byte limits do.

`LogPipe` has no queue, no worker and no counters: records are accepted or turned
away, a `Post` gives the next few accepted ones one outcome, a flush or a close that
succeeds vouches for what was accepted before it, one that fails does so because a
record did, and after a close began nothing is accepted. `ImplementsPipe` keeps what
became of the records and maps a call to "pending" until it has returned.

## 3. Runs

| Run | Instance | What it shows |
|---|---|---|
| `document_store` | 4 requests, 2 ids, 2 slugs, clock in {0, 1}; symmetric | type, no resurrection, tokens name versions, refinement of the lifecycle |
| `document_store_live` | 3 requests on 1 id, fair | every request that opens a transaction is answered |
| `owned_resource` | keys a, b and the feed's, each signing at most once; 2 requests; 3 versions; 3 kinds | one owner, each owner edits alone, owners only grow, and consent, and only they change it |
| `delete_listing` | 2 deletes, 2 channels, pool of 2, fair | connections accounted for, the report covers the cascade, everyone returns |
| `membership_ingest` | 4 requests, 3 playlists, 2 channels, 3 slugs, 1 URI, 2 documents; symmetric | membership follows the document, foreign keys hold, an ingest brings in all or nothing, advisory locks are in no deadlock, refinement of the feed |
| `crossed_slugs` | 2 requests, 4 playlists, 2 slugs, 2 documents | the deadlock through slugs (section 6) |
| `reference_resolution` | 2 requests, 1 remote and 3 local URIs, 2 playlists and a body that may not be created, 2 slots, a budget of two playlists, 1 change of origin, 5 documents; symmetric | one URI means one playlist, memory bounded, a reachable origin is authoritative, the cache names what was served and is stored |
| `sources_follow_latest` | same | a fallback written back over a later answer (section 6) |
| `list_paging` | 3 playlists, two of them ingested together, pages of 1 row, clock in {1, 2}, 3 ids or revisions of the container; four lists in two directions, tokens carried from one to another | within a list nothing that stays is skipped; pages go forward and nothing comes twice at its place; pages of a container are of one document, refusals only after a write |
| `item_page_ties` | 2 playlists with a copied work | an item that is skipped (section 6) |
| `channel_notify` | 2 requests, 2 channels, 1 playlist, 2 clients, 1 slot; symmetric in the clients | consumers catch up, a tag tells every change |
| `stream_sender` | 3 records of size 1 or 3, 1 flush, 1 close, 2-record batches of 5 bytes, 2-record queue of 4 bytes, fair | limits kept, once and in order, flushed means sent, refinement of the pipe, close completes |

Why the bounds are enough. Four requests allow a create, a delete of it, a
replayed create, and a replace authorized in between; a second id and slug bring
in slug reuse. Two clock values suffice for equal, later and *earlier* `now()`,
and the trigger adds one to the stored value when the clock does not exceed it.
Three versions of a resource with two concurrent requests are a replace, a race
with it, and a successor judged against the result; two client keys beside the
feed's give an owner, a newcomer and the operator, and the entries of a submission
are any in which each key signs at most once, as an owner, as something else (the
feed's key: as the feed) or not at all. Two deletes and two channels on two
connections make the second connection scarce. Of the two documents of
`MCMembershipIngest` one fetches playlist 2 from the one URI, the other fetches 3
from it, twice, so that a replace upserts a row that names the playlist it drops;
it also names 1, in a copy with the slug of 3: the two clash when both are new,
and 1 stays as it is when it was published under a slug of its own. Different
requests with one document meet in its ids, and in what they lock, insert and
record. Of the documents of `MCReferenceResolution` one repeats the remote URI
with padding beside a local one, one has more URIs than slots and meets and then
exceeds the budget, and three are refused; one change of an origin, from any of
its five initial answers to any other, is a re-pointing, a failure, a recovery or
a withdrawal, at any point of two overlapping requests.

Pages of one row put a token between any two neighbours. Of the playlists of
`MCListPaging` two share one `created_at`, the third may be given the same one by a
transaction that starts at that instant and commits later; one loses an item, one is
hidden and shown again, and one document names a playlist twice. Three ids or
revisions of the container allow a page of the first, a replace or a recreation, and
another. In `MCChannelNotify` the playlist is replaced or deleted while another
request makes a channel take it in, drop it, or go; two channels on one slot make
the second wait, two clients make one fail where the other is served. The sender's
limits are all reachable: one record of 3 fills a batch to the byte, two of 1 fill
it by count, 3 + 1 fill the queue by bytes, two records fill it by slots.

`CHECK_DEADLOCK FALSE` is set where requests are served once and the system then
rests; `DocumentStore` has an explicit final stutter instead. TLC's own deadlock check
says little in any of them, since an open transaction can always be aborted. What
excludes waiting in a circle is stated without the steps that fail: `NoDeadlock` of
`DocumentStore_proofs`, `EveryRequestAnswered` (fair statements, no fairness of
`Abort`), `OnlyRowsDeadlock`, `EveryRequestReturns`.

**Fairness.** `DocumentStore`: weak fairness of each open transaction's statements
(PostgreSQL executes what is not blocked); arrivals and failures owe nothing.
`DeleteListing`: strong fairness of taking connections and locks, because pgxpool
and the lock manager queue their waiters, and of each process's own steps; no
fairness of context ends, so nothing is saved by a timeout. `StreamSender`: weak
fairness of the worker, which always has an enabled case or waits, and of a
producer between send and count, which holds a mutex across no blocking call.
`ListPaging` and `ChannelNotify` assume none. That consumers catch up is stated of
the states where everything owed is done (`Quiet`): nothing in the code repeats a
delivery, so what is not current by then would stay so. A client pages on only as
long as it wants to, and what it is promised is stated of a sequence that ended.

## 4. What is proved

Eight modules of proofs, one per component. Every theorem is `Spec => []P` or
`Spec => P` for every value of the constants the `ASSUME`s admit: any sets of
requests, ids, playlists, channels, keys and documents, and any limits. The
`ASSUME`s say that distinguished values are distinct, that limits are naturals, and
where a count or a maximum is taken that the set is finite (the clients and channels
of `ChannelNotify`, the deletes and channels of `DeleteListing`, the playlists of
`ListPaging`, the requests of `MembershipIngest`). `MembershipIngest` has the
assumptions on documents and references from `PlaylistRequests`. TLC evaluates them
on every run. In each module an invariant `IInv` is shown of the initial states and
of every step, and the theorems follow from it.

| Module | Theorems of what the runs check, beside type correctness | Further theorems |
|---|---|---|
| `DocumentStore_proofs` | `NoResurrection`, `TokenNamesVersion`, `ImplementsLifecycle` | `SlugsUnique`, `NotFoundIsFinal`, `OnlyAuthorizedWrites`, `NoDeadlock` |
| `OwnedResource_proofs` | `OwnersOnlyGrow`, `OwnersConsent`, `ExactlyOneOwner`, `EachOwnerMayEditAlone`, `OnlyOwnersChangeIt` | `SoleOwnerForLife`, `ResolutionsAgree` |
| `DeleteListing_proofs` | `ConnectionsAccounted`, `ListingCoversCascade` | `NobodyIsStuck` |
| `MembershipIngest_proofs` | `LinksHold`, `MembersFollowDocument`, `RefusedStoresNothing`, `OnlyRowsDeadlock`, `ImplementsFeed` | `Feed!SlugsUnique`, `Feed!DeletedForGood`, `Feed!PlaysWhatItShows`, `StoredPlaylistsUntouched` |
| `ReferenceResolution_proofs` | `OneMeaningPerURI`, `OriginIsAuthoritative`, `SourcesServed`, `MemoryBounded` | |
| `ListPaging_proofs` | `NothingSkipped`, `NothingRepeated`, `OneDocument`, `RefusedOnlyAfterWrite` | |
| `ChannelNotify_proofs` | `ConsumersCatchUp`, `TagTellsChange` | |
| `StreamSender_proofs` | `EachRecordOnceInOrder`, `FlushedMeansSent`, `LimitsKept`, `ImplementsPipe` | `DoneMeansDrained`, `CloseGoesOn`, `DrainEnds` |

The further theorems are consequences of what the runs check, or the part of a
liveness property that is a safety property and within the prover's reach: that
nobody waits in a circle (`NoDeadlock`, `NobodyIsStuck`), that a close is not lost
(`CloseGoesOn`) and that its drain has ever fewer steps left (`DrainEnds`). What it
means there to be able to go on is written out, guard by guard (`Blocks`,
`CanGoOn`, `WorkerCanGoOn`), because ENABLED is out of the prover's reach.

*The store.* `NoResurrection` is not inductive: it says
nothing of a create that already passed the tombstone check. `IInv` adds, per
request, `Flow` (which steps which operation visits), `Locked` (past its lock step,
a create or delete holds the id's advisory lock), `Pending` (its uncommitted row
and `dirty` agree with where it is), `SlugHeld` (a pending row's slug is held by
nobody else, committed or pending), and `Seen` (what a write loaded is the row
now, or an older generation, or gone for good). The create's check and its insert
are then under one lock with the delete's tombstone, which is the whole argument
for `NoResurrection`; `Seen` with `NextGenGrows` (the trigger) is the one for
`TokenNamesVersion` and `OnlyAuthorizedWrites`. The refinement maps each `Commit`,
and each failing check, to the abstract operation, and everything else to a
stutter. `NoDeadlock` needs `Owned`: whoever has written a row is at its commit, and
whoever holds an advisory lock is past it, so a chain of waiting has two links at
most.

*Ownership.* `RowSound` describes a vetted row up to the
co-signature (well-formed, one owner unless a playlist declares several, no
second owner-role signer without a declaration). `CreateSound`, `ReplaceSound` and
`DeleteSound` say of each pending write that it would, **if the row is still the
one it was authorized on**, keep the row sound and only grow its owners; at the
commit the version test discharges that hypothesis, which is why the version must
identify the row. A legacy row satisfies no `RowSound`; the transition and
sole-owner rules are stated without it.

*The delete's listing.* `Exclusive`: from the moment a read may start to the commit,
the delete has the playlist's lock, and so does an ingest from its check to its link.
Hence what the read's snapshot holds is at least what the cascade takes (`Covered`);
channels may drop the playlist meanwhile, which is why it is only at least.
`Accounted` counts the transactions and the reads that hold a connection, and
each step moves one element in or out of those sets as it gives or takes one of
`free`. `NobodyIsStuck` puts the two together: the holder of the lock always has a
step (`LockInUse`), so were nobody able to go on, the lock would be free and no
transaction open, a read that is over would have delivered (`Delivered`), and the
whole pool would be free for whoever begins.

*Membership ingest.* An ingest that has checked its playlists holds the lock of each
(`Holding`). So nobody deletes what it found stored (`Linked`), nobody
else stores what it found missing (`Unstored`), and what it inserted is not linked by
another before it commits. Foreign keys and the correspondence of rows and document
are then kept by every commit, in whatever order slugs let the inserts go on; so are
the sources (`SourcesHold`), each of which names a playlist that its request held.
For `RefusedStoresNothing`: whoever a stored playlist is of is done (`Storers`), and
when it committed every playlist of its document was in, its own or found stored
(`Linked`), to leave only with a tombstone (`CommitKeeps`).
For `OnlyRowsDeadlock`: whoever holds a row is past its advisory locks (`Recorded`,
`Unstored`, and where it is), so nobody at a row waits for somebody at a lock
(`RowsAfterLocks`), and the members of a stuck set that wait for rows are stuck by
themselves, or there are none. There cannot be none: of those that lock playlists
take the one whose next lock is the greatest (`Greatest`; the requests are finitely
many): its holder is in the set too, has that lock behind it (`Owners`) and a greater
one before it (`InOrder`, `NoCircleOfLocks`). Nor do all of them wait for the rows of
channels, since whoever has written one no longer waits for another (`DeadlockAtLocks`).
The refinement needs more, `Effective`: the slugs of the rows inserted are free and
differ (`Slugged`), what was found missing or stored when checked still is
(`Found`), the row of the container is the one its write met, and its writer is
alone (`Creating`, `Rowed`, `Alone`), and nobody is answered twice (`Answered`). Each
commit is then one abstract step with everything it stores, acknowledged or not, each
refusal has its reason in the tables of that moment, and every other statement changes
none of them.

*Reference resolution.* What is known of a request is a formula `Req` on the *values*
of its own variables and of the world's, so that a step of one request leaves the
others' as they are, and a change of an origin only lets the set `seen` grow
(`GrowReq`). `Vetted` says of a result, from the moment it is looked up to the moment
it is placed, that it is one the URI stands for: of the local id, or of a body the
origin served, or of the cache when the origin did not answer.
`MemoryBounded` is about a sum over a set. A body of size n is counted as n pairs of
the body and a number (`Units`), so sums are cardinalities, and a lemma shows that
the recursive fold of the community modules gives the same number. The invariant
`Meter` says that `spent` is exactly the units of the bodies retained and within the
budget, and that no more goroutines run than there are slots; it is a formula on the
values of one request, so that only its own steps touch it.

*Lists.* `Less` is a strict total order of keys of one length (`LessTransitive`,
`LessTotal`), so a finite page that has a row left out has a last one (`LastRow`).
The token is the key of that row: everything shown is at or before it (`Behind`),
and what was listed all along and lies at or before it has been shown, ties apart
(`Ahead`). Writes never change the key of a row that stays, since `created_at` is
set once (`Dated`, `DatedPages`). For a container's playlists `Doc` and `Pinned` say
that a token which names the container's id and revision names the document its
pages came from: ids and revisions only grow (`ContainerMoves`).

*Notifications.* `CopySound`: neither the tag nor the bodies a consumer has run ahead
of what is stored, and where the tag's entry for a member is of today, so is the
body, for the members are fetched after the tag. With `RowsSound` (rows are the
listed playlists that are left) this is `TagTellsChange`. `Known`: for each channel
and consumer whose copy is old, somebody knows: the consumer, a request with the
announcement before it or in flight, or `excused`. Its hard case is the playlist's
delete, whose listing was taken earlier: under the lock no channel takes the
playlist in, so the listing has not grown (`Snapshot`).

*The log sender.* `Layout`: the records accepted are, in order, those attempted,
the batch, the one in hand and the queue. `ServedSeen`: when a flush has drained the
queue, whatever was accepted before it is attempted or in the batch, and `Errors`
(an error is remembered exactly if a record failed) makes its answer true.
`LimitsKept` counts bytes as units as well (`Weight`). `Balance` is the account:
what is counted is the queue, with the record in hand not yet uncounted, less the
one that `mu` is held to count; it rests on the worker waiting for `mu` before it
uncounts. `Fits` and `Measured` give the batch: no record alone exceeds it, and
`batchBytes` is what it weighs. For the refinement, `Layout` makes a delivery the
`Post` of the next records, and `ErrorsTold` (a call is told of an error only when a
record failed) its answers. `CloseAsked` (a close is on its channel or being served)
is `CloseGoesOn`, and `DrainEnds` is a rank of the worker's position plus eight for
each record queued, which admission can no longer add to.

Only model-checked: the liveness properties (`EveryRequestAnswered`,
`EveryRequestReturns`, `CloseCompletes`), which rest on fairness and are out of the
prover's reach. The three disagreements of section 6 are counterexamples, found by
TLC.

## 5. Not modelled

* Cryptography, schema validation and canonical JSON (libraries).
* The freshness window of an intent: no clock in the models, an accepted intent is a
  fresh one. Within the window the version it names binds it to one row.
* Filters on attribution, which only narrow a list, and the lists of groups and of
  channels, which are `createdAtListQuery` on their own tables.
* HTTP routing, binding, formatting and error mapping (stateless); the fetcher's
  parsing and address policy (its outcomes are inputs of `ReferenceResolution`);
  configuration (read once); migrations (run before serving); the construction of
  loggers; models, mocks, fixtures and documents.
* How many deliveries go before a close of the log sender: `CloseCompletes` says that
  it ends, not when.
* The order in which PostgreSQL locks the rows *within* one statement is not fixed by
  the code, so statements over membership rows are single steps and a deadlock inside
  two of them would not be seen.

## 6. Where text and code disagree

* `crossed_slugs`: `pg/store.go:66-67` says no two transactions hold each other's
  next lock; the unique index on slugs is one more lock, which id order does not
  sort. PostgreSQL aborts one of the two, which is answered as an internal error
  and leaves nothing behind (`RefusedStoresNothing`). Slugs are not the only rows that
  close a circle. A channel lists `p` through a URI that now serves another playlist; its
  replace upserts the URI's row of `playlist_sources`, which names `p`; the delete of `p`
  has removed the membership row and waits for that row, and the replace comes to
  wait for the membership row. (In the run `membership_ingest`: playlist 1 is published and a
  channel created with the first document, then a replace by the second comes up to
  "members" and a delete of playlist 2 to "cascade".) What the comment says is true
  of the advisory locks: they are in no circle (`OnlyRowsDeadlock`).
* `sources_follow_latest`: `pg/store.go:352-355` says `playlist_sources` tracks the
  most recent successful resolution. A request that fell back on a cached id writes
  that id again when it commits, also after another request has fetched and recorded
  a new one, so the cache goes back to what the origin abandoned. The cache still
  names only what the URI once served (`SourcesServed`), and a fetch that succeeds
  corrects it.
* `item_page_ties`: `internal/store/store.go:171` promises stable keyset pagination of
  items and `pg/store.go:2146` names the item id as the tie-break. The tuple paged by
  is not unique: the playlists of one ingest share a `created_at`, and a copied work
  has one id at one position of both. A page that ends on the first of the two rows
  leaves the second out of every later one. `NothingSkipped` holds for all other rows.

Smaller ones, of wording only, which no run is spent on: `internal/store/store.go:25-26`
says ids are reusable after a delete, but every create of one is refused
(`NoResurrection`); `pg/store.go:177-178` says the probe that tells 404 from 409 sees
the snapshot of the failed write, but it is a second statement with its own, and
its answers are right all the same (`NotFoundIsFinal`, `ImplementsLifecycle`);
`dp1svc.go:30-31` says an entry with the feed's kid is replaced, but an owner-role
entry of that kid is kept, on purpose.

## 7. Plan

Done: the modules above, in the order of section 2 (the table's promise first, then
who may write, then what spans tables, references, lists and notifications, and the
components with threads of their own), and the proofs of every safety property a run
checks.

What is left, by importance:

1. `StreamSender` with a count of deliveries between close and done, against
   `DefaultShutdownTimeout` (`cloudflare.go:28-43`): the select has no priority.
   `DrainEnds` bounds the steps once the close is taken, not before.
2. A clock for the freshness window of intents (`signed_auth.go:254`).
3. Item index and container slugs in `MembershipIngest`, and a slug that local URIs
   name in `ReferenceResolution`.
4. Abstract specifications, with refinement proofs, for the components that have
   none: an atomic delete that lists what it cascades for `DeleteListing`, and
   consumers that are told or excused for `ChannelNotify`.
