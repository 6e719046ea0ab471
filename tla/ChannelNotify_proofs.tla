------------------------ MODULE ChannelNotify_proofs ------------------------
(***************************************************************************)
(* Proofs about ChannelNotify for every set of requests, channels,         *)
(* playlists and clients.  Three arguments: the tag and the bodies a       *)
(* consumer holds never run ahead of what is stored, and the tag never of  *)
(* the bodies (CopySound); what a playlist delete read under its lock has  *)
(* not grown when it commits (Snapshot); and whatever a consumer's copy    *)
(* lacks is known to somebody: the consumer, a request that has still to   *)
(* announce it, or the record of excused events (Known).                   *)
(***************************************************************************)
EXTENDS ChannelNotify, FiniteSetTheorems, TLAPS

Edition == Nat \cup {None}
Parts == UNION {[S -> Edition] : S \in SUBSET Playlists}
Copy == [tag : [edition : Edition, members : Parts], edition : Edition, bodies : Parts]

StoreTyped ==
    /\ edition \in [Channels -> Edition] /\ gen \in [Playlists -> Nat]
    /\ lists \in [Channels -> SUBSET Playlists] /\ rows \in [Channels -> SUBSET Playlists]
    /\ lock \in [Playlists -> Requests \cup {None}]

RequestTyped ==
    /\ pc \in [Requests -> {"idle", "begun", "lock", "read", "write", "write unread", "list", "notify", "done"}]
    /\ op \in [Requests -> Writes \cup {None}]
    /\ gone \subseteq Requests /\ late \subseteq Requests
    /\ announce \in [Requests -> SUBSET Channels]
    /\ flight \in [Requests -> SUBSET (Channels \X Clients)]

ConsumerTyped ==
    /\ dirty \in [Clients -> SUBSET Channels] /\ busy \in [Clients -> Channels \cup {None}]
    /\ fetch \in [Clients -> SUBSET Playlists]
    /\ copy \in [Clients -> [Channels -> Copy]]
    /\ excused \subseteq Channels \X Clients

(* What request r is doing at each point of the executor and of the store. *)
Flow(r) ==
    /\ InProgress(r) => op[r] \in Writes
    /\ pc[r] \in {"lock", "read", "write unread"} => op[r].do = "delete playlist"
    /\ pc[r] = "list" => op[r].do = "write playlist"
    /\ pc[r] # "notify" => flight[r] = {}

Holds(r, p) ==
    /\ op[r] \in Writes /\ op[r].do = "delete playlist" /\ op[r].of = p
    /\ pc[r] \in {"read", "write", "write unread"}

LockSound == \A p \in Playlists : lock[p] # None => Holds(lock[p], p)

Paced == \A r \in Requests : Cardinality(InFlight(r)) <= Concurrency

(* The consumer fetches members of the copy it is busy with, and has their
   bodies otherwise. *)
FetchSound ==
    \A k \in Clients :
        /\ fetch[k] # {} => busy[k] \in Channels /\ fetch[k] \subseteq DOMAIN copy[k][busy[k]].bodies
        /\ \A c \in Channels : \A p \in DOMAIN copy[k][c].bodies :
             copy[k][c].bodies[p] = None => busy[k] = c /\ p \in fetch[k]

Typed ==
    /\ StoreTyped /\ RequestTyped /\ ConsumerTyped
    /\ \A r \in Requests : Flow(r)
    /\ LockSound

-----------------------------------------------------------------------------
(* Constants and data *)

LEMMA WriteFacts ==
    ASSUME NEW o \in Writes
    PROVE  /\ o # None
           /\ o.do = "write channel" => o.of \in Channels /\ o.members \subseteq Playlists
           /\ o.do = "delete channel" => o.of \in Channels
           /\ o.do \in {"write playlist", "delete playlist"} => o.of \in Playlists
BY NotifyAssumption DEF Writes

LEMMA NoneFacts == None \notin Requests /\ None \notin Channels /\ None \notin Writes /\ None \notin Nat
BY NotifyAssumption

LEMMA PartsElim ==
    ASSUME NEW f \in Parts
    PROVE  DOMAIN f \in SUBSET Playlists /\ f \in [DOMAIN f -> Edition]
BY DEF Parts

LEMMA PartsIntro ==
    ASSUME NEW S \in SUBSET Playlists, NEW f \in [S -> Edition]
    PROVE  f \in Parts
BY DEF Parts

LEMMA FreshTyped ==
    ASSUME StoreTyped, NEW c \in Channels
    PROVE  Fresh(c) \in Copy
<1>1. Tag(c).members \in Parts /\ Bodies(c) \in Parts
  <2>1. rows[c] \in SUBSET Playlists /\ lists[c] \in SUBSET Playlists
    BY DEF StoreTyped
  <2>2. [p \in rows[c] |-> gen[p]] \in [rows[c] -> Edition]
    BY <2>1 DEF StoreTyped, Edition
  <2>3. [p \in lists[c] |-> gen[p]] \in [lists[c] -> Edition]
    BY <2>1 DEF StoreTyped, Edition
  <2> QED
    BY <2>1, <2>2, <2>3, PartsIntro DEF Tag, Bodies
<1> QED
  BY <1>1 DEF Fresh, Tag, Copy, StoreTyped

-----------------------------------------------------------------------------
(* Types and flow *)

LEMMA InitTyped == Init => Typed
<1> SUFFICES ASSUME Init PROVE Typed
  OBVIOUS
<1>1. StoreTyped
  BY NotifyAssumption DEF Init, StoreTyped, Edition
<1>2. RequestTyped
  BY NoneFacts DEF Init, RequestTyped
<1>3. ConsumerTyped
  BY <1>1, FreshTyped DEF Init, ConsumerTyped
<1>4. \A r \in Requests : Flow(r)
  BY DEF Init, Flow, InProgress
<1>5. LockSound
  BY DEF Init, LockSound
<1> QED
  BY <1>1, <1>2, <1>3, <1>4, <1>5 DEF Typed

(* Flow and the locks are kept for every request but the one that moves. *)
LEMMA FlowByOne ==
    ASSUME Typed, NEW r \in Requests, Flow(r)',
           \A q \in Requests \ {r} : pc'[q] = pc[q] /\ op'[q] = op[q] /\ flight'[q] = flight[q]
    PROVE  \A q \in Requests : Flow(q)'
<1>1. ASSUME NEW q \in Requests \ {r} PROVE Flow(q)'
  <2>1. Flow(q) /\ pc'[q] = pc[q] /\ op'[q] = op[q] /\ flight'[q] = flight[q]
    BY DEF Typed
  <2> QED
    BY <2>1 DEF Flow, InProgress
<1> QED
  BY <1>1

LEMMA LockHeld ==
    ASSUME Typed, NEW p \in Playlists, NEW r \in Requests, lock[p] = r
    PROVE  Holds(r, p)
BY NoneFacts DEF Typed, LockSound

LEMMA LocksByOne ==
    ASSUME Typed, NEW r \in Requests,
           \A q \in Requests \ {r} : pc'[q] = pc[q] /\ op'[q] = op[q] /\ flight'[q] = flight[q],
           \A p \in Playlists : lock'[p] \in {lock[p], None, r},
           \A p \in Playlists : lock'[p] = r => Holds(r, p)' \/ (lock[p] = r /\ (Holds(r, p) => Holds(r, p)'))
    PROVE  LockSound'
<1>1. ASSUME NEW p \in Playlists, lock'[p] # None, lock'[p] # r PROVE Holds(lock[p], p)'
  <2>1. lock'[p] = lock[p] /\ lock[p] \in Requests \ {r}
    BY <1>1 DEF Typed, StoreTyped
  <2>2. PICK q \in Requests \ {r} : lock[p] = q /\ lock'[p] = q
    BY <2>1
  <2>3. Holds(q, p) /\ pc'[q] = pc[q] /\ op'[q] = op[q]
    BY <2>2, LockHeld
  <2>4. Holds(q, p)'
    BY <2>3 DEF Holds
  <2> QED
    BY <2>2, <2>4 DEF Holds
<1>2. ASSUME NEW p \in Playlists, lock'[p] = r PROVE Holds(r, p)'
  BY <1>2, LockHeld
<1>3. ASSUME NEW p \in Playlists, lock'[p] # None PROVE Holds(lock[p], p)'
  <2>1. CASE lock'[p] = r
    BY <2>1, <1>2 DEF Holds
  <2> QED
    BY <2>1, <1>1, <1>3
<1> QED
  BY <1>3 DEF LockSound

(* A commit with what follows it, for a request that is not announcing yet. *)
LEMMA CommittedTyped ==
    ASSUME Typed, NEW r \in Requests, NEW A \in SUBSET Channels, NEW B \in SUBSET Channels,
           Committed(r, A, B), pc[r] \in {"write", "write unread"}, UNCHANGED <<flight, consumer>>
    PROVE  /\ RequestTyped' /\ ConsumerTyped' /\ Flow(r)'
           /\ \A q \in Requests \ {r} : pc'[q] = pc[q] /\ op'[q] = op[q] /\ flight'[q] = flight[q]
           /\ pc'[r] \in {"notify", "done"}
<1>1. pc' \in [Requests -> {"idle", "begun", "lock", "read", "write", "write unread", "list", "notify", "done"}]
  BY DEF Committed, Return, Continue, Goto, Typed, RequestTyped
<1>2. announce' \in [Requests -> SUBSET Channels]
  BY DEF Committed, Typed, RequestTyped
<1>3. op' \in [Requests -> Writes \cup {None}]
  BY DEF Committed, Return, Continue, Typed, RequestTyped
<1>4. RequestTyped'
  BY <1>1, <1>2, <1>3 DEF Committed, Return, Continue, Typed, RequestTyped
<1>5. ConsumerTyped'
  BY DEF Committed, Typed, ConsumerTyped, consumer
<1>6. Flow(r)'
  BY DEF Committed, Return, Continue, Goto, Typed, RequestTyped, Flow, InProgress
<1>7. \A q \in Requests \ {r} : pc'[q] = pc[q] /\ op'[q] = op[q] /\ flight'[q] = flight[q]
  BY DEF Committed, Return, Continue, Goto, Typed, RequestTyped
<1>8. pc'[r] \in {"notify", "done"}
  BY DEF Committed, Return, Continue, Goto, Typed, RequestTyped
<1> QED
  BY <1>4, <1>5, <1>6, <1>7, <1>8

LEMMA BeginTyped ==
    ASSUME Typed, NEW r \in Requests, NEW o \in Ops[r], Begin(r, o)
    PROVE  Typed'
<1>1. o \in Writes
  BY NotifyAssumption
<1>2. StoreTyped'
  BY <1>1, NoneFacts DEF Begin, Goto, Typed, StoreTyped, store
<1>3. RequestTyped'
  BY <1>1, NoneFacts DEF Begin, Goto, Typed, RequestTyped
<1>4. ConsumerTyped'
  BY <1>1, NoneFacts DEF Begin, Goto, Typed, ConsumerTyped, consumer
<1>5. Flow(r)'
  BY <1>1, NoneFacts DEF Begin, Goto, Typed, RequestTyped, Flow, InProgress
<1>6. \A q \in Requests \ {r} : pc'[q] = pc[q] /\ op'[q] = op[q] /\ flight'[q] = flight[q]
  BY DEF Begin, Goto, Typed, RequestTyped
<1>7. \A p \in Playlists : lock'[p] = lock[p]
  BY NoneFacts DEF Begin, Typed, StoreTyped, store
<1>8. \A p \in Playlists : Holds(r, p) => Holds(r, p)'
  BY <1>1, NoneFacts DEF Begin, Goto, Typed, RequestTyped, Holds
<1> QED
  BY <1>2, <1>3, <1>4, <1>5, <1>6, <1>7, <1>8, FlowByOne, LocksByOne DEF Typed

LEMMA DisconnectTyped ==
    ASSUME Typed, NEW r \in Requests, Disconnect(r)
    PROVE  Typed'
<1>1. StoreTyped'
  BY NoneFacts DEF Disconnect, Typed, StoreTyped, store
<1>2. RequestTyped'
  BY NoneFacts DEF Disconnect, Typed, RequestTyped
<1>3. ConsumerTyped'
  BY NoneFacts DEF Disconnect, Typed, ConsumerTyped, consumer
<1>4. Flow(r)'
  BY NoneFacts DEF Disconnect, Typed, RequestTyped, Flow, InProgress
<1>5. \A q \in Requests \ {r} : pc'[q] = pc[q] /\ op'[q] = op[q] /\ flight'[q] = flight[q]
  BY DEF Disconnect, Typed, RequestTyped
<1>6. \A p \in Playlists : lock'[p] = lock[p]
  BY NoneFacts DEF Disconnect, Typed, StoreTyped, store
<1>7. \A p \in Playlists : Holds(r, p) => Holds(r, p)'
  BY NoneFacts DEF Disconnect, Typed, RequestTyped, Holds
<1> QED
  BY <1>1, <1>2, <1>3, <1>4, <1>5, <1>6, <1>7, FlowByOne, LocksByOne DEF Typed

LEMMA DeadlinePassesTyped ==
    ASSUME Typed, NEW r \in Requests, DeadlinePasses(r)
    PROVE  Typed'
<1>1. StoreTyped'
  BY NoneFacts DEF DeadlinePasses, Typed, StoreTyped, store
<1>2. RequestTyped'
  BY NoneFacts DEF DeadlinePasses, Typed, RequestTyped
<1>3. ConsumerTyped'
  BY NoneFacts DEF DeadlinePasses, Typed, ConsumerTyped, consumer
<1>4. Flow(r)'
  BY NoneFacts DEF DeadlinePasses, Typed, RequestTyped, Flow, InProgress
<1>5. \A q \in Requests \ {r} : pc'[q] = pc[q] /\ op'[q] = op[q] /\ flight'[q] = flight[q]
  BY DEF DeadlinePasses, Typed, RequestTyped
<1>6. \A p \in Playlists : lock'[p] = lock[p]
  BY NoneFacts DEF DeadlinePasses, Typed, StoreTyped, store
<1>7. \A p \in Playlists : Holds(r, p) => Holds(r, p)'
  BY NoneFacts DEF DeadlinePasses, Typed, RequestTyped, Holds
<1> QED
  BY <1>1, <1>2, <1>3, <1>4, <1>5, <1>6, <1>7, FlowByOne, LocksByOne DEF Typed

LEMMA PersistTyped ==
    ASSUME Typed, NEW r \in Requests, Persist(r)
    PROVE  Typed'
<1>1. StoreTyped'
  BY NoneFacts DEF Persist, Return, Continue, Goto, Typed, StoreTyped, store
<1>2. RequestTyped'
  BY NoneFacts DEF Persist, Return, Continue, Goto, Typed, RequestTyped
<1>3. ConsumerTyped'
  BY NoneFacts DEF Persist, Return, Continue, Goto, Typed, ConsumerTyped, consumer
<1>4. Flow(r)'
  BY NoneFacts DEF Persist, Return, Continue, Goto, Typed, RequestTyped, Flow, InProgress
<1>5. \A q \in Requests \ {r} : pc'[q] = pc[q] /\ op'[q] = op[q] /\ flight'[q] = flight[q]
  BY DEF Persist, Return, Continue, Goto, Typed, RequestTyped
<1>6. \A p \in Playlists : lock'[p] = lock[p]
  BY NoneFacts DEF Persist, Typed, StoreTyped, store
<1>7. \A p \in Playlists : Holds(r, p) => Holds(r, p)'
  BY NoneFacts DEF Persist, Return, Continue, Goto, Typed, RequestTyped, Holds
<1> QED
  BY <1>1, <1>2, <1>3, <1>4, <1>5, <1>6, <1>7, FlowByOne, LocksByOne DEF Typed

LEMMA RefuseTyped ==
    ASSUME Typed, NEW r \in Requests, Refuse(r)
    PROVE  Typed'
<1>1. StoreTyped'
  BY NoneFacts DEF Refuse, Return, Goto, Unlocked, Typed, StoreTyped
<1>2. RequestTyped'
  BY NoneFacts DEF Refuse, Return, Goto, Unlocked, Typed, RequestTyped
<1>3. ConsumerTyped'
  BY NoneFacts DEF Refuse, Return, Goto, Unlocked, Typed, ConsumerTyped, consumer
<1>4. Flow(r)'
  BY NoneFacts DEF Refuse, Return, Goto, Unlocked, Typed, RequestTyped, Flow, InProgress
<1>5. \A q \in Requests \ {r} : pc'[q] = pc[q] /\ op'[q] = op[q] /\ flight'[q] = flight[q]
  BY DEF Refuse, Return, Goto, Unlocked, Typed, RequestTyped
<1>6. \A p \in Playlists : lock'[p] \in {lock[p], None, r}
  BY NoneFacts DEF Refuse, Typed, StoreTyped, Unlocked
<1>7. \A p \in Playlists : lock'[p] # r
  BY NoneFacts DEF Refuse, Return, Goto, Unlocked, Typed, RequestTyped, Holds
<1> QED
  BY <1>1, <1>2, <1>3, <1>4, <1>5, <1>6, <1>7, FlowByOne, LocksByOne DEF Typed

LEMMA CommitChannelTyped ==
    ASSUME Typed, NEW r \in Requests, CommitChannel(r)
    PROVE  Typed'
<1>1. op[r] \in Writes /\ op[r].do = "write channel"
  BY DEF CommitChannel, Writing, Typed, Flow, InProgress
<1>2. op[r].of \in Channels /\ op[r].members \in SUBSET Playlists
  BY <1>1, WriteFacts
<1>3. edition[op[r].of] \in Nat
  BY <1>2 DEF CommitChannel, Typed, StoreTyped, Edition
<1>4. edition[op[r].of] + 1 \in Edition
  BY <1>3 DEF Edition
<1>5. StoreTyped'
  BY <1>1, <1>2, <1>3, <1>4, NoneFacts DEF CommitChannel, Typed, StoreTyped
<1>6. /\ RequestTyped' /\ ConsumerTyped' /\ Flow(r)'
      /\ \A q \in Requests \ {r} : pc'[q] = pc[q] /\ op'[q] = op[q] /\ flight'[q] = flight[q]
  <2>1. Committed(r, {op[r].of}, {op[r].of}) /\ pc[r] = "write" /\ UNCHANGED <<flight, consumer>>
    BY DEF CommitChannel, Writing
  <2> QED
    <3>1. {op[r].of} \in SUBSET Channels
      BY <1>2
    <3> QED
      BY <2>1, <3>1, CommittedTyped
<1>7. \A p \in Playlists : lock'[p] = lock[p] /\ lock[p] # r
  BY <1>1, LockHeld, NoneFacts DEF CommitChannel, Holds
<1> QED
  BY <1>5, <1>6, <1>7, FlowByOne, LocksByOne DEF Typed

LEMMA CommitDeleteChannelTyped ==
    ASSUME Typed, NEW r \in Requests, CommitDeleteChannel(r)
    PROVE  Typed'
<1>1. op[r] \in Writes /\ op[r].do = "delete channel"
  BY DEF CommitDeleteChannel, Writing, Typed, Flow, InProgress
<1>2. op[r].of \in Channels
  BY <1>1, WriteFacts
<1>3. None \in Edition
  BY DEF Edition
<1>4. StoreTyped'
  BY <1>1, <1>2, <1>3, NoneFacts DEF CommitDeleteChannel, Typed, StoreTyped
<1>5. /\ RequestTyped' /\ ConsumerTyped' /\ Flow(r)'
      /\ \A q \in Requests \ {r} : pc'[q] = pc[q] /\ op'[q] = op[q] /\ flight'[q] = flight[q]
  <2>1. Committed(r, {op[r].of}, {op[r].of}) /\ pc[r] = "write" /\ UNCHANGED <<flight, consumer>>
    BY DEF CommitDeleteChannel, Writing
  <2> QED
    <3>1. {op[r].of} \in SUBSET Channels
      BY <1>2
    <3> QED
      BY <2>1, <3>1, CommittedTyped
<1>6. \A p \in Playlists : lock'[p] = lock[p] /\ lock[p] # r
  BY <1>1, LockHeld, NoneFacts DEF CommitDeleteChannel, Holds
<1> QED
  BY <1>4, <1>5, <1>6, FlowByOne, LocksByOne DEF Typed

LEMMA CommitPlaylistTyped ==
    ASSUME Typed, NEW r \in Requests, CommitPlaylist(r)
    PROVE  Typed'
<1>1. op[r] \in Writes /\ op[r].do = "write playlist"
  BY DEF CommitPlaylist, Writing, Typed, Flow, InProgress
<1>2. op[r].of \in Playlists
  BY <1>1, WriteFacts
<1>3. gen[op[r].of] + 1 \in Nat
  BY <1>2 DEF Typed, StoreTyped
<1>4. Listing(op[r].of) \subseteq Channels
  BY DEF Listing
<1>5. StoreTyped'
  BY <1>1, <1>2, <1>3, <1>4, NoneFacts DEF CommitPlaylist, Writing, Return, Continue, Goto, Typed, StoreTyped
<1>6. RequestTyped'
  BY <1>1, <1>2, <1>3, <1>4, NoneFacts DEF CommitPlaylist, Writing, Return, Continue, Goto, Typed, RequestTyped
<1>7. ConsumerTyped'
  BY <1>1, <1>2, <1>3, <1>4, NoneFacts DEF CommitPlaylist, Writing, Return, Continue, Goto, Typed, ConsumerTyped, consumer
<1>8. Flow(r)'
  BY <1>1, <1>2, <1>3, <1>4, NoneFacts DEF CommitPlaylist, Writing, Return, Continue, Goto, Typed, RequestTyped, Flow, InProgress
<1>9. \A q \in Requests \ {r} : pc'[q] = pc[q] /\ op'[q] = op[q] /\ flight'[q] = flight[q]
  BY DEF CommitPlaylist, Writing, Return, Continue, Goto, Typed, RequestTyped
<1>10. \A p \in Playlists : lock'[p] = lock[p]
  BY NoneFacts DEF CommitPlaylist, Typed, StoreTyped
<1>11. \A p \in Playlists : Holds(r, p) => Holds(r, p)'
  BY <1>1, <1>2, <1>3, <1>4, NoneFacts DEF CommitPlaylist, Writing, Return, Continue, Goto, Typed, RequestTyped, Holds
<1> QED
  BY <1>5, <1>6, <1>7, <1>8, <1>9, <1>10, <1>11, FlowByOne, LocksByOne DEF Typed

LEMMA ReadListingTyped ==
    ASSUME Typed, NEW r \in Requests, ReadListing(r)
    PROVE  Typed'
<1>1. Listing(op[r].of) \subseteq Channels
  BY DEF Listing
<1>2. announce' \in [Requests -> SUBSET Channels]
  BY <1>1 DEF ReadListing, Typed, RequestTyped
<1>3. StoreTyped'
  BY <1>1, <1>2, NoneFacts DEF ReadListing, Goto, Typed, StoreTyped, store
<1>4. RequestTyped'
  BY <1>1, <1>2, NoneFacts DEF ReadListing, Goto, Typed, RequestTyped
<1>5. ConsumerTyped'
  BY <1>1, <1>2, NoneFacts DEF ReadListing, Goto, Typed, ConsumerTyped, consumer
<1>6. Flow(r)'
  BY <1>1, <1>2, NoneFacts DEF ReadListing, Goto, Typed, RequestTyped, Flow, InProgress
<1>7. \A q \in Requests \ {r} : pc'[q] = pc[q] /\ op'[q] = op[q] /\ flight'[q] = flight[q]
  BY DEF ReadListing, Goto, Typed, RequestTyped
<1>8. \A p \in Playlists : lock'[p] = lock[p]
  BY NoneFacts DEF ReadListing, Typed, StoreTyped, store
<1>9. \A p \in Playlists : Holds(r, p) => Holds(r, p)'
  BY <1>1, <1>2, NoneFacts DEF ReadListing, Goto, Typed, RequestTyped, Holds
<1> QED
  BY <1>3, <1>4, <1>5, <1>6, <1>7, <1>8, <1>9, FlowByOne, LocksByOne DEF Typed

LEMMA LockPlaylistTyped ==
    ASSUME Typed, NEW r \in Requests, LockPlaylist(r)
    PROVE  Typed'
<1>1. op[r] \in Writes /\ op[r].do = "delete playlist"
  BY DEF LockPlaylist, Typed, Flow, InProgress
<1>2. op[r].of \in Playlists
  BY <1>1, WriteFacts
<1>3. StoreTyped'
  BY <1>1, <1>2, NoneFacts DEF LockPlaylist, Goto, Typed, StoreTyped
<1>4. RequestTyped'
  BY <1>1, <1>2, NoneFacts DEF LockPlaylist, Goto, Typed, RequestTyped
<1>5. ConsumerTyped'
  BY <1>1, <1>2, NoneFacts DEF LockPlaylist, Goto, Typed, ConsumerTyped, consumer
<1>6. Flow(r)'
  BY <1>1, <1>2, NoneFacts DEF LockPlaylist, Goto, Typed, RequestTyped, Flow, InProgress
<1>7. \A q \in Requests \ {r} : pc'[q] = pc[q] /\ op'[q] = op[q] /\ flight'[q] = flight[q]
  BY DEF LockPlaylist, Goto, Typed, RequestTyped
<1>8. \A p \in Playlists : lock'[p] \in {lock[p], r}
  BY DEF LockPlaylist, Typed, StoreTyped
<1>9. \A p \in Playlists : lock'[p] = r => Holds(r, p)'
  <2>1. ASSUME NEW p \in Playlists, lock'[p] = r PROVE p = op[r].of
    <3>1. CASE lock[p] = r
      BY <3>1, LockHeld DEF LockPlaylist, Holds
    <3> QED
      BY <2>1, <3>1 DEF LockPlaylist, Typed, StoreTyped
  <2> QED
    BY <1>1, <2>1 DEF LockPlaylist, Goto, Typed, RequestTyped, Holds
<1> QED
  BY <1>3, <1>4, <1>5, <1>6, <1>7, <1>8, <1>9, FlowByOne, LocksByOne DEF Typed

LEMMA ReadBeforeDeleteTyped ==
    ASSUME Typed, NEW r \in Requests, ReadBeforeDelete(r)
    PROVE  Typed'
<1>1. Listing(op[r].of) \subseteq Channels
  BY DEF Listing
<1>2. announce' \in [Requests -> SUBSET Channels]
  BY <1>1 DEF ReadBeforeDelete, Typed, RequestTyped
<1>3. StoreTyped'
  BY <1>1, <1>2, NoneFacts DEF ReadBeforeDelete, Goto, Typed, StoreTyped, store
<1>4. RequestTyped'
  BY <1>1, <1>2, NoneFacts DEF ReadBeforeDelete, Goto, Typed, RequestTyped
<1>5. ConsumerTyped'
  BY <1>1, <1>2, NoneFacts DEF ReadBeforeDelete, Goto, Typed, ConsumerTyped, consumer
<1>6. Flow(r)'
  BY <1>1, <1>2, NoneFacts DEF ReadBeforeDelete, Goto, Typed, RequestTyped, Flow, InProgress
<1>7. \A q \in Requests \ {r} : pc'[q] = pc[q] /\ op'[q] = op[q] /\ flight'[q] = flight[q]
  BY DEF ReadBeforeDelete, Goto, Typed, RequestTyped
<1>8. \A p \in Playlists : lock'[p] = lock[p]
  BY NoneFacts DEF ReadBeforeDelete, Typed, StoreTyped, store
<1>9. \A p \in Playlists : Holds(r, p) => Holds(r, p)'
  BY <1>1, <1>2, NoneFacts DEF ReadBeforeDelete, Goto, Typed, RequestTyped, Holds
<1> QED
  BY <1>3, <1>4, <1>5, <1>6, <1>7, <1>8, <1>9, FlowByOne, LocksByOne DEF Typed

LEMMA CommitDeletePlaylistTyped ==
    ASSUME Typed, NEW r \in Requests, CommitDeletePlaylist(r)
    PROVE  Typed'
<1>1. /\ op[r] \in Writes /\ op[r].do = "delete playlist"
      /\ pc[r] \in {"write", "write unread"}
  BY DEF CommitDeletePlaylist, Writing, Typed, Flow, InProgress
<1>2. op[r].of \in Playlists
  BY <1>1, WriteFacts
<1> DEFINE concerned == IF pc[r] = "write" THEN announce[r] ELSE Listing(op[r].of)
<1>3. concerned \subseteq Channels /\ announce[r] \subseteq Channels
  BY DEF Listing, Typed, RequestTyped
<1>4. Committed(r, concerned, announce[r])
  BY DEF CommitDeletePlaylist
<1> HIDE DEF concerned
<1>5. StoreTyped'
  BY <1>2, NoneFacts DEF CommitDeletePlaylist, Unlocked, Typed, StoreTyped
<1>6. /\ RequestTyped' /\ ConsumerTyped' /\ Flow(r)'
      /\ \A q \in Requests \ {r} : pc'[q] = pc[q] /\ op'[q] = op[q] /\ flight'[q] = flight[q]
  <2>1. UNCHANGED <<flight, consumer>>
    BY DEF CommitDeletePlaylist
  <2> QED
    BY <1>1, <1>3, <1>4, <2>1, CommittedTyped
<1>7. \A p \in Playlists : lock'[p] \in {lock[p], None} /\ lock'[p] # r
  BY NoneFacts DEF CommitDeletePlaylist, Unlocked
<1> QED
  BY <1>5, <1>6, <1>7, FlowByOne, LocksByOne DEF Typed

LEMMA SendTyped ==
    ASSUME Typed, NEW r \in Requests, NEW c \in Channels, Send(r, c)
    PROVE  Typed'
<1>1. StoreTyped'
  BY NoneFacts DEF Send, Typed, StoreTyped, store
<1>2. RequestTyped'
  BY NoneFacts DEF Send, Typed, RequestTyped
<1>3. ConsumerTyped'
  BY NoneFacts DEF Send, Typed, ConsumerTyped, consumer
<1>4. Flow(r)'
  BY NoneFacts DEF Send, Typed, RequestTyped, Flow, InProgress
<1>5. \A q \in Requests \ {r} : pc'[q] = pc[q] /\ op'[q] = op[q] /\ flight'[q] = flight[q]
  BY DEF Send, Typed, RequestTyped
<1>6. \A p \in Playlists : lock'[p] = lock[p]
  BY NoneFacts DEF Send, Typed, StoreTyped, store
<1>7. \A p \in Playlists : Holds(r, p) => Holds(r, p)'
  BY NoneFacts DEF Send, Typed, RequestTyped, Holds
<1> QED
  BY <1>1, <1>2, <1>3, <1>4, <1>5, <1>6, <1>7, FlowByOne, LocksByOne DEF Typed

LEMMA DeliverTyped ==
    ASSUME Typed, NEW r \in Requests, NEW c \in Channels, NEW k \in Clients, Deliver(r, c, k)
    PROVE  Typed'
<1>1. StoreTyped'
  BY NoneFacts DEF Deliver, Typed, StoreTyped, store
<1>2. RequestTyped'
  BY NoneFacts DEF Deliver, Typed, RequestTyped
<1>3. ConsumerTyped'
  BY NoneFacts DEF Deliver, Typed, ConsumerTyped
<1>4. Flow(r)'
  BY NoneFacts DEF Deliver, Typed, RequestTyped, Flow, InProgress
<1>5. \A q \in Requests \ {r} : pc'[q] = pc[q] /\ op'[q] = op[q] /\ flight'[q] = flight[q]
  BY DEF Deliver, Typed, RequestTyped
<1>6. \A p \in Playlists : lock'[p] = lock[p]
  BY NoneFacts DEF Deliver, Typed, StoreTyped, store
<1>7. \A p \in Playlists : Holds(r, p) => Holds(r, p)'
  BY NoneFacts DEF Deliver, Typed, RequestTyped, Holds
<1> QED
  BY <1>1, <1>2, <1>3, <1>4, <1>5, <1>6, <1>7, FlowByOne, LocksByOne DEF Typed

LEMMA FailTyped ==
    ASSUME Typed, NEW r \in Requests, NEW c \in Channels, NEW k \in Clients, Fail(r, c, k)
    PROVE  Typed'
<1>1. StoreTyped'
  BY NoneFacts DEF Fail, Typed, StoreTyped, store
<1>2. RequestTyped'
  BY NoneFacts DEF Fail, Typed, RequestTyped
<1>3. ConsumerTyped'
  BY NoneFacts DEF Fail, Typed, ConsumerTyped, consumer
<1>4. Flow(r)'
  BY NoneFacts DEF Fail, Typed, RequestTyped, Flow, InProgress
<1>5. \A q \in Requests \ {r} : pc'[q] = pc[q] /\ op'[q] = op[q] /\ flight'[q] = flight[q]
  BY DEF Fail, Typed, RequestTyped
<1>6. \A p \in Playlists : lock'[p] = lock[p]
  BY NoneFacts DEF Fail, Typed, StoreTyped, store
<1>7. \A p \in Playlists : Holds(r, p) => Holds(r, p)'
  BY NoneFacts DEF Fail, Typed, RequestTyped, Holds
<1> QED
  BY <1>1, <1>2, <1>3, <1>4, <1>5, <1>6, <1>7, FlowByOne, LocksByOne DEF Typed

LEMMA StopSendingTyped ==
    ASSUME Typed, NEW r \in Requests, StopSending(r)
    PROVE  Typed'
<1>1. announce[r] \subseteq Channels
  BY DEF Typed, RequestTyped
<1>2. StoreTyped'
  BY <1>1, NoneFacts DEF StopSending, Typed, StoreTyped, store
<1>3. RequestTyped'
  BY <1>1, NoneFacts DEF StopSending, Typed, RequestTyped
<1>4. ConsumerTyped'
  BY <1>1, NoneFacts DEF StopSending, Typed, ConsumerTyped, consumer
<1>5. Flow(r)'
  BY <1>1, NoneFacts DEF StopSending, Typed, RequestTyped, Flow, InProgress
<1>6. \A q \in Requests \ {r} : pc'[q] = pc[q] /\ op'[q] = op[q] /\ flight'[q] = flight[q]
  BY DEF StopSending, Typed, RequestTyped
<1>7. \A p \in Playlists : lock'[p] = lock[p]
  BY NoneFacts DEF StopSending, Typed, StoreTyped, store
<1>8. \A p \in Playlists : Holds(r, p) => Holds(r, p)'
  BY <1>1, NoneFacts DEF StopSending, Typed, RequestTyped, Holds
<1> QED
  BY <1>2, <1>3, <1>4, <1>5, <1>6, <1>7, <1>8, FlowByOne, LocksByOne DEF Typed

LEMMA RespondTyped ==
    ASSUME Typed, NEW r \in Requests, Respond(r)
    PROVE  Typed'
<1>1. StoreTyped'
  BY NoneFacts DEF Respond, Return, Goto, Typed, StoreTyped, store
<1>2. RequestTyped'
  BY NoneFacts DEF Respond, Return, Goto, Typed, RequestTyped
<1>3. ConsumerTyped'
  BY NoneFacts DEF Respond, Return, Goto, Typed, ConsumerTyped, consumer
<1>4. Flow(r)'
  BY NoneFacts DEF Respond, Return, Goto, Typed, RequestTyped, Flow, InProgress
<1>5. \A q \in Requests \ {r} : pc'[q] = pc[q] /\ op'[q] = op[q] /\ flight'[q] = flight[q]
  BY DEF Respond, Return, Goto, Typed, RequestTyped
<1>6. \A p \in Playlists : lock'[p] = lock[p]
  BY NoneFacts DEF Respond, Typed, StoreTyped, store
<1>7. \A p \in Playlists : Holds(r, p) => Holds(r, p)'
  BY NoneFacts DEF Respond, Return, Goto, Typed, RequestTyped, Holds
<1> QED
  BY <1>1, <1>2, <1>3, <1>4, <1>5, <1>6, <1>7, FlowByOne, LocksByOne DEF Typed

(* A step of a consumer leaves the store and the requests as they are. *)
LEMMA AsideTyped ==
    ASSUME Typed, UNCHANGED <<store, request>>, ConsumerTyped'
    PROVE  Typed'
<1>1. StoreTyped' /\ RequestTyped' /\ LockSound'
  BY DEF Typed, StoreTyped, RequestTyped, LockSound, Holds, store, request
<1>2. \A r \in Requests : Flow(r)'
  BY DEF Typed, Flow, InProgress, request
<1> QED
  BY <1>1, <1>2 DEF Typed

LEMMA LookAtTyped ==
    ASSUME Typed, NEW k \in Clients, NEW c \in Channels, LookAt(k, c)
    PROVE  Typed'
<1> DEFINE new == [tag |-> Tag(c), edition |-> edition[c], bodies |-> [p \in lists[c] |-> None]]
<1>1. new \in Copy
  <2>1. [p \in lists[c] |-> None] \in [lists[c] -> Edition] /\ lists[c] \in SUBSET Playlists
    BY DEF Typed, StoreTyped, Edition
  <2>2. [p \in lists[c] |-> None] \in Parts
    BY <2>1, PartsIntro
  <2>3. Fresh(c) \in Copy
    BY FreshTyped DEF Typed
  <2> QED
    BY <2>2, <2>3 DEF Fresh, Copy
<1>2. copy' = copy \/ copy' = [copy EXCEPT ![k][c] = new]
  BY DEF LookAt
<1>3. UNCHANGED <<store, request>> /\ lists[c] \in SUBSET Playlists
  BY DEF LookAt, Typed, StoreTyped
<1>4. busy' \in [Clients -> Channels \cup {None}] /\ fetch' \in [Clients -> SUBSET Playlists]
  BY <1>3 DEF LookAt, Typed, ConsumerTyped
<1> HIDE DEF new
<1>5. copy' \in [Clients -> [Channels -> Copy]]
  <2>1. copy \in [Clients -> [Channels -> Copy]]
    BY DEF Typed, ConsumerTyped
  <2>2. [copy[k] EXCEPT ![c] = new] \in [Channels -> Copy]
    BY <1>1, <2>1
  <2> QED
    BY <1>2, <2>1, <2>2
<1>6. ConsumerTyped'
  BY <1>4, <1>5 DEF LookAt, Typed, ConsumerTyped
<1> QED
  BY <1>3, <1>6, AsideTyped

LEMMA FetchMemberTyped ==
    ASSUME Typed, FetchSound, NEW k \in Clients, NEW p \in Playlists, FetchMember(k, p)
    PROVE  Typed'
<1> DEFINE c == busy[k]
           new == [copy[k][c] EXCEPT !.bodies = [@ EXCEPT ![p] = gen[p]]]
<1>1. c \in Channels /\ p \in DOMAIN copy[k][c].bodies
  BY DEF FetchMember, FetchSound
<1>2. copy[k][c] \in Copy /\ copy \in [Clients -> [Channels -> Copy]]
  BY <1>1 DEF Typed, ConsumerTyped
<1>3. new \in Copy
  <2>1. copy[k][c].bodies \in Parts
    BY <1>2 DEF Copy
  <2>2. [copy[k][c].bodies EXCEPT ![p] = gen[p]] \in [DOMAIN copy[k][c].bodies -> Edition]
    BY <1>1, <2>1, PartsElim DEF Typed, StoreTyped, Edition
  <2>3. [copy[k][c].bodies EXCEPT ![p] = gen[p]] \in Parts
    BY <2>1, <2>2, PartsElim, PartsIntro
  <2> QED
    BY <1>2, <2>3 DEF Copy
<1>4. copy' = [copy EXCEPT ![k] = [@ EXCEPT ![c] = new]]
  BY DEF FetchMember
<1>5. UNCHANGED <<store, request, dirty, excused>>
  BY DEF FetchMember
<1>6. busy' \in [Clients -> Channels \cup {None}] /\ fetch' \in [Clients -> SUBSET Playlists]
  BY DEF FetchMember, Typed, ConsumerTyped
<1> HIDE DEF new
<1>7. copy' \in [Clients -> [Channels -> Copy]]
  <2>1. [copy[k] EXCEPT ![c] = new] \in [Channels -> Copy]
    BY <1>2, <1>3
  <2> QED
    BY <1>2, <1>4, <2>1
<1>8. ConsumerTyped'
  BY <1>5, <1>6, <1>7 DEF Typed, ConsumerTyped
<1> QED
  BY <1>5, <1>8, AsideTyped

LEMMA ExitTyped ==
    ASSUME Typed, Exit
    PROVE  Typed'
<1>1. StoreTyped'
  BY DEF Exit, Typed, StoreTyped
<1>2. RequestTyped'
  BY DEF Exit, Typed, RequestTyped
<1>3. ConsumerTyped'
  <2>1. \A r \in Requests : Owed(r) \subseteq Channels \X Clients
    BY DEF Owed, Listing, Typed, RequestTyped
  <2>2. excused' \subseteq Channels \X Clients
    <3>1. ASSUME NEW e \in UNION {Owed(r) : r \in Requests} PROVE e \in Channels \X Clients
      <4>1. PICK r \in Requests : e \in Owed(r)
        OBVIOUS
      <4> QED
        BY <2>1, <4>1
    <3> QED
      BY <3>1 DEF Exit, Typed, ConsumerTyped
  <2> QED
    BY <2>2 DEF Exit, Typed, ConsumerTyped, consumer
<1>4. \A r \in Requests : Flow(r)'
  BY DEF Exit, Typed, RequestTyped, Flow, InProgress
<1>5. LockSound'
  BY DEF Exit, LockSound
<1> QED
  BY <1>1, <1>2, <1>3, <1>4, <1>5 DEF Typed

LEMMA TypedKept ==
    ASSUME Typed, FetchSound, [Next]_vars
    PROVE  Typed'
<1>1. ASSUME NEW r \in Requests, Step(r) PROVE Typed'
  BY <1>1, PersistTyped, RefuseTyped, CommitChannelTyped, CommitDeleteChannelTyped, CommitPlaylistTyped,
     ReadListingTyped, LockPlaylistTyped, ReadBeforeDeleteTyped, CommitDeletePlaylistTyped, SendTyped,
     DeliverTyped, FailTyped, StopSendingTyped, RespondTyped DEF Step
<1>2. ASSUME NEW r \in Requests, (\E o \in Ops[r] : Begin(r, o)) \/ Disconnect(r) \/ DeadlinePasses(r) PROVE Typed'
  BY <1>2, BeginTyped, DisconnectTyped, DeadlinePassesTyped
<1>3. CASE Signal \/ ShutdownReturns \/ UNCHANGED vars
  <2>1. UNCHANGED <<store, request>> /\ UNCHANGED <<consumer, excused>>
    BY <1>3 DEF Signal, ShutdownReturns, vars
  <2>2. ConsumerTyped'
    BY <2>1 DEF Typed, ConsumerTyped, consumer
  <2> QED
    BY <2>1, <2>2, AsideTyped
<1> QED
  BY <1>1, <1>2, <1>3, LookAtTyped, FetchMemberTyped, ExitTyped DEF Next

-----------------------------------------------------------------------------
(* What a consumer fetches *)

(* Only the consumer's own steps touch its copies. *)
LEMMA CopiesFrame ==
    ASSUME [Next]_vars
    PROVE  \/ UNCHANGED <<copy, busy, fetch>>
           \/ \E k \in Clients : \E c \in Channels : LookAt(k, c)
           \/ \E k \in Clients : \E p \in Playlists : FetchMember(k, p)
<1>1. ASSUME NEW r \in Requests, Step(r) PROVE UNCHANGED <<copy, busy, fetch>>
  BY <1>1 DEF Step, consumer, Persist, Refuse, CommitChannel, CommitDeleteChannel, CommitPlaylist, ReadListing,
     LockPlaylist, ReadBeforeDelete, CommitDeletePlaylist, Send, StopSending, Deliver, Fail, Respond
<1>2. ASSUME NEW r \in Requests, (\E o \in Ops[r] : Begin(r, o)) \/ Disconnect(r) \/ DeadlinePasses(r)
      PROVE  UNCHANGED <<copy, busy, fetch>>
  BY <1>2 DEF Begin, Disconnect, DeadlinePasses, consumer
<1>3. Signal \/ ShutdownReturns \/ Exit \/ UNCHANGED vars => UNCHANGED <<copy, busy, fetch>>
  BY DEF Signal, ShutdownReturns, Exit, vars, consumer
<1> QED
  BY <1>1, <1>2, <1>3 DEF Next

(* What LookAt does when the tag is another, and what FetchMember does, to the
   copies of every consumer. *)
TakesCopy(k, c) ==
    /\ copy'[k][c] = [tag |-> Tag(c), edition |-> edition[c], bodies |-> [p \in lists[c] |-> None]]
    /\ \A k1 \in Clients, c1 \in Channels : k1 # k \/ c1 # c => copy'[k1][c1] = copy[k1][c1]
    /\ busy'[k] = (IF lists[c] = {} THEN None ELSE c) /\ fetch'[k] = lists[c]
    /\ \A k1 \in Clients \ {k} : busy'[k1] = busy[k1] /\ fetch'[k1] = fetch[k1]
    /\ busy[k] = None

TakesBody(k, p) ==
    /\ busy[k] \in Channels /\ p \in DOMAIN copy[k][busy[k]].bodies /\ p \in fetch[k]
    /\ copy'[k][busy[k]].tag = copy[k][busy[k]].tag
    /\ copy'[k][busy[k]].edition = copy[k][busy[k]].edition
    /\ copy'[k][busy[k]].bodies = [copy[k][busy[k]].bodies EXCEPT ![p] = gen[p]]
    /\ \A k1 \in Clients, c1 \in Channels : k1 # k \/ c1 # busy[k] => copy'[k1][c1] = copy[k1][c1]
    /\ busy'[k] = (IF fetch[k] = {p} THEN None ELSE busy[k]) /\ fetch'[k] = fetch[k] \ {p}
    /\ \A k1 \in Clients \ {k} : busy'[k1] = busy[k1] /\ fetch'[k1] = fetch[k1]

LEMMA LookAtCopy ==
    ASSUME Typed, NEW k \in Clients, NEW c \in Channels, LookAt(k, c), copy[k][c].tag # Tag(c)
    PROVE  TakesCopy(k, c)
<1> DEFINE new == [tag |-> Tag(c), edition |-> edition[c], bodies |-> [p \in lists[c] |-> None]]
<1>1. copy' = [copy EXCEPT ![k][c] = new]
  BY DEF LookAt
<1> HIDE DEF new
<1>2. copy'[k][c] = new /\ \A k1 \in Clients, c1 \in Channels : k1 # k \/ c1 # c => copy'[k1][c1] = copy[k1][c1]
  BY <1>1 DEF Typed, ConsumerTyped
<1>3. busy'[k] = (IF lists[c] = {} THEN None ELSE c) /\ fetch'[k] = lists[c]
  BY DEF LookAt, Typed, ConsumerTyped
<1>4. \A k1 \in Clients \ {k} : busy'[k1] = busy[k1] /\ fetch'[k1] = fetch[k1]
  BY DEF LookAt, Typed, ConsumerTyped
<1> QED
  BY <1>2, <1>3, <1>4 DEF LookAt, new, TakesCopy

LEMMA FetchMemberCopy ==
    ASSUME Typed, FetchSound, NEW k \in Clients, NEW p \in Playlists, FetchMember(k, p)
    PROVE  TakesBody(k, p)
<1> DEFINE c == busy[k]
           new == [copy[k][c] EXCEPT !.bodies = [@ EXCEPT ![p] = gen[p]]]
<1>1. c \in Channels /\ p \in DOMAIN copy[k][c].bodies /\ copy' = [copy EXCEPT ![k] = [@ EXCEPT ![c] = new]]
  BY DEF FetchMember, FetchSound
<1>2. copy[k][c] \in Copy
  BY <1>1 DEF Typed, ConsumerTyped
<1>3. /\ new.tag = copy[k][c].tag /\ new.edition = copy[k][c].edition
      /\ new.bodies = [copy[k][c].bodies EXCEPT ![p] = gen[p]]
  BY <1>2 DEF Copy
<1> HIDE DEF new
<1>4. copy'[k][c] = new /\ \A k1 \in Clients, c1 \in Channels : k1 # k \/ c1 # c => copy'[k1][c1] = copy[k1][c1]
  BY <1>1 DEF Typed, ConsumerTyped
<1>5. busy'[k] = (IF fetch[k] = {p} THEN None ELSE busy[k]) /\ fetch'[k] = fetch[k] \ {p}
  BY DEF FetchMember, Typed, ConsumerTyped
<1>6. \A k1 \in Clients \ {k} : busy'[k1] = busy[k1] /\ fetch'[k1] = fetch[k1]
  BY DEF FetchMember, Typed, ConsumerTyped
<1> QED
  BY <1>1, <1>3, <1>4, <1>5, <1>6 DEF TakesBody, FetchMember

LEMMA FetchSoundInit == Init => FetchSound
<1> SUFFICES ASSUME Init PROVE FetchSound
  OBVIOUS
<1>1. ASSUME NEW k \in Clients, NEW c \in Channels, NEW p \in DOMAIN copy[k][c].bodies
      PROVE  copy[k][c].bodies[p] # None
  <2>1. StoreTyped
    BY InitTyped DEF Typed
  <2>2. copy[k][c].bodies = [q \in lists[c] |-> gen[q]]
    BY DEF Init, Fresh, Bodies
  <2> QED
    BY <2>1, <2>2, NoneFacts DEF StoreTyped
<1> QED
  BY <1>1 DEF Init, FetchSound

LEMMA FetchSoundKept ==
    ASSUME Typed, FetchSound, [Next]_vars
    PROVE  FetchSound'
<1> DEFINE S(k) == /\ fetch[k] # {} => busy[k] \in Channels /\ fetch[k] \subseteq DOMAIN copy[k][busy[k]].bodies
                   /\ \A c \in Channels : \A p \in DOMAIN copy[k][c].bodies :
                        copy[k][c].bodies[p] = None => busy[k] = c /\ p \in fetch[k]
<1>1. CASE UNCHANGED <<copy, busy, fetch>>
  BY <1>1 DEF FetchSound
<1>2. ASSUME NEW k \in Clients, NEW c \in Channels, LookAt(k, c), copy[k][c].tag # Tag(c) PROVE FetchSound'
  <2>1. TakesCopy(k, c)
    BY <1>2, LookAtCopy
  <2>2. ASSUME NEW k1 \in Clients \ {k} PROVE S(k1)'
    BY <2>1 DEF FetchSound, TakesCopy
  <2>3. fetch[k] = {}
    BY <2>1, NoneFacts DEF FetchSound, TakesCopy
  <2>4. copy'[k][c].bodies = [p \in lists[c] |-> None] /\ \A c1 \in Channels \ {c} : copy'[k][c1] = copy[k][c1]
    BY <2>1 DEF TakesCopy
  <2>5. S(k)'
    BY <2>1, <2>3, <2>4, NoneFacts DEF FetchSound, TakesCopy
  <2> QED
    BY <2>2, <2>5 DEF FetchSound
<1>3. ASSUME NEW k \in Clients, NEW c \in Channels, LookAt(k, c), copy[k][c].tag = Tag(c) PROVE FetchSound'
  BY <1>3 DEF LookAt, FetchSound
<1>4. ASSUME NEW k \in Clients, NEW p \in Playlists, FetchMember(k, p) PROVE FetchSound'
  <2>1. TakesBody(k, p)
    BY <1>4, FetchMemberCopy
  <2>2. ASSUME NEW k1 \in Clients \ {k} PROVE S(k1)'
    BY <2>1 DEF FetchSound, TakesBody
  <2>3. gen[p] # None
    BY NoneFacts DEF Typed, StoreTyped
  <2>4. S(k)'
    BY <2>1, <2>3, NoneFacts DEF FetchSound, TakesBody
  <2> QED
    BY <2>2, <2>4 DEF FetchSound
<1> QED
  BY <1>1, <1>2, <1>3, <1>4, CopiesFrame

-----------------------------------------------------------------------------
(* The store *)

Grows ==
    /\ \A p \in Playlists : gen'[p] = gen[p] \/ gen'[p] = 0 \/ (gen[p] > 0 /\ gen'[p] = gen[p] + 1)
    /\ \A c \in Channels :
         \/ edition'[c] = edition[c] /\ lists'[c] = lists[c]
         \/ edition[c] # None /\ edition'[c] \in {edition[c] + 1, None}

(* A channel's rows are the playlists it lists, less those that were deleted. *)
RowsSound == \A c \in Channels : rows[c] = {p \in lists[c] : gen[p] > 0}

LEMMA StoreFrame ==
    ASSUME [Next]_vars
    PROVE  \/ UNCHANGED <<edition, lists, rows, gen>>
           \/ \E r \in Requests : \/ CommitChannel(r) \/ CommitDeleteChannel(r)
                                  \/ CommitPlaylist(r) \/ CommitDeletePlaylist(r)
<1>1. ASSUME NEW r \in Requests, Step(r)
      PROVE  \/ UNCHANGED <<edition, lists, rows, gen>>
             \/ CommitChannel(r) \/ CommitDeleteChannel(r) \/ CommitPlaylist(r) \/ CommitDeletePlaylist(r)
  BY <1>1 DEF Step, store, Persist, Refuse, ReadListing, LockPlaylist, ReadBeforeDelete, Send, StopSending,
     Deliver, Fail, Respond
<1>2. ASSUME NEW r \in Requests, (\E o \in Ops[r] : Begin(r, o)) \/ Disconnect(r) \/ DeadlinePasses(r)
      PROVE  UNCHANGED <<edition, lists, rows, gen>>
  BY <1>2 DEF Begin, Disconnect, DeadlinePasses, store
<1>3. ASSUME NEW k \in Clients, NEW c \in Channels, LookAt(k, c) PROVE UNCHANGED <<edition, lists, rows, gen>>
  BY <1>3 DEF LookAt, store
<1>4. ASSUME NEW k \in Clients, NEW p \in Playlists, FetchMember(k, p) PROVE UNCHANGED <<edition, lists, rows, gen>>
  BY <1>4 DEF FetchMember, store
<1>5. Signal \/ ShutdownReturns \/ Exit \/ UNCHANGED vars => UNCHANGED <<edition, lists, rows, gen>>
  BY DEF Signal, ShutdownReturns, Exit, vars, store
<1> QED
  BY <1>1, <1>2, <1>3, <1>4, <1>5 DEF Next

LEMMA RowsSoundInit == Init => RowsSound
<1> SUFFICES ASSUME Init, NEW c \in Channels PROVE rows[c] = {p \in lists[c] : gen[p] > 0}
  BY DEF RowsSound
<1>1. lists[c] \in SUBSET Playlists
  BY InitTyped DEF Typed, StoreTyped
<1>2. rows[c] = lists[c] /\ \A p \in Playlists : gen[p] = 1
  BY DEF Init
<1> QED
  BY <1>1, <1>2

LEMMA StoreSteps ==
    ASSUME Typed, RowsSound, [Next]_vars
    PROVE  Grows /\ RowsSound'
<1>1. CASE UNCHANGED <<edition, lists, rows, gen>>
  BY <1>1 DEF Grows, RowsSound
<1>2. ASSUME NEW r \in Requests, CommitChannel(r) PROVE Grows /\ RowsSound'
  <2>1. op[r] \in Writes /\ op[r].do = "write channel"
    BY <1>2 DEF CommitChannel, Writing, Typed, Flow, InProgress
  <2>2. op[r].of \in Channels /\ op[r].members \in SUBSET Playlists
    BY <2>1, WriteFacts
  <2>3. edition[op[r].of] # None /\ gen' = gen /\ \A p \in op[r].members : gen[p] > 0
    BY <1>2 DEF CommitChannel
  <2>4. /\ edition'[op[r].of] = edition[op[r].of] + 1
        /\ lists'[op[r].of] = op[r].members /\ rows'[op[r].of] = op[r].members
    BY <1>2, <2>2 DEF CommitChannel, Typed, StoreTyped
  <2>5. \A c \in Channels \ {op[r].of} : edition'[c] = edition[c] /\ lists'[c] = lists[c] /\ rows'[c] = rows[c]
    BY <1>2, <2>2 DEF CommitChannel, Typed, StoreTyped
  <2> QED
    BY <2>2, <2>3, <2>4, <2>5 DEF Grows, RowsSound
<1>3. ASSUME NEW r \in Requests, CommitDeleteChannel(r) PROVE Grows /\ RowsSound'
  <2>1. op[r] \in Writes /\ op[r].do = "delete channel"
    BY <1>3 DEF CommitDeleteChannel, Writing, Typed, Flow, InProgress
  <2>2. op[r].of \in Channels
    BY <2>1, WriteFacts
  <2>3. edition[op[r].of] # None /\ gen' = gen
    BY <1>3 DEF CommitDeleteChannel, Live
  <2>4. edition'[op[r].of] = None /\ lists'[op[r].of] = {} /\ rows'[op[r].of] = {}
    BY <1>3, <2>2 DEF CommitDeleteChannel, Typed, StoreTyped
  <2>5. \A c \in Channels \ {op[r].of} : edition'[c] = edition[c] /\ lists'[c] = lists[c] /\ rows'[c] = rows[c]
    BY <1>3, <2>2 DEF CommitDeleteChannel, Typed, StoreTyped
  <2> QED
    BY <2>2, <2>3, <2>4, <2>5 DEF Grows, RowsSound
<1>4. ASSUME NEW r \in Requests, CommitPlaylist(r) PROVE Grows /\ RowsSound'
  <2>1. op[r] \in Writes /\ op[r].do = "write playlist"
    BY <1>4 DEF CommitPlaylist, Writing, Typed, Flow, InProgress
  <2>2. op[r].of \in Playlists
    BY <2>1, WriteFacts
  <2>3. gen[op[r].of] > 0 /\ edition' = edition /\ lists' = lists /\ rows' = rows
    BY <1>4 DEF CommitPlaylist
  <2>4. gen'[op[r].of] = gen[op[r].of] + 1 /\ \A p \in Playlists \ {op[r].of} : gen'[p] = gen[p]
    BY <1>4, <2>2 DEF CommitPlaylist, Typed, StoreTyped
  <2>5. \A p \in Playlists : gen[p] \in Nat
    BY DEF Typed, StoreTyped
  <2>6. Grows
    BY <2>2, <2>3, <2>4 DEF Grows
  <2>7. \A p \in Playlists : gen'[p] > 0 <=> gen[p] > 0
    BY <2>2, <2>3, <2>4, <2>5
  <2> QED
    BY <2>3, <2>6, <2>7 DEF RowsSound, Typed, StoreTyped
<1>5. ASSUME NEW r \in Requests, CommitDeletePlaylist(r) PROVE Grows /\ RowsSound'
  <2>1. op[r] \in Writes /\ op[r].do = "delete playlist"
    BY <1>5 DEF CommitDeletePlaylist, Writing, Typed, Flow, InProgress
  <2>2. op[r].of \in Playlists
    BY <2>1, WriteFacts
  <2>3. edition' = edition /\ lists' = lists /\ \A c \in Channels : rows'[c] = rows[c] \ {op[r].of}
    BY <1>5 DEF CommitDeletePlaylist
  <2>4. gen'[op[r].of] = 0 /\ \A p \in Playlists \ {op[r].of} : gen'[p] = gen[p]
    BY <1>5, <2>2 DEF CommitDeletePlaylist, Typed, StoreTyped
  <2>5. Grows
    BY <2>2, <2>3, <2>4 DEF Grows
  <2> QED
    BY <2>2, <2>3, <2>4, <2>5 DEF RowsSound, Typed, StoreTyped
<1> QED
  BY <1>1, <1>2, <1>3, <1>4, <1>5, StoreFrame

-----------------------------------------------------------------------------
(* Tags tell changes *)

(* The copy x against what is stored of the channel: edition e, list L, and the
   playlists' generations g. *)
TagSound(x, e, g) ==
    /\ x.edition = x.tag.edition
    /\ x.edition = None => e = None
    /\ x.edition # None /\ e # None => x.edition <= e
    /\ \A p \in DOMAIN x.tag.members :
         x.tag.members[p] \in Nat \ {0} /\ (g[p] = 0 \/ x.tag.members[p] <= g[p])

BodySound(x, p, g) ==
    /\ p \notin DOMAIN x.tag.members => g[p] = 0 /\ x.bodies[p] \in {0, None}
    /\ x.bodies[p] # None =>
         /\ x.bodies[p] = 0 => g[p] = 0
         /\ x.bodies[p] > 0 => g[p] = 0 \/ x.bodies[p] <= g[p]
         /\ p \in DOMAIN x.tag.members /\ x.bodies[p] > 0 => x.tag.members[p] <= x.bodies[p]

Sound(x, e, L, g) ==
    /\ TagSound(x, e, g)
    /\ x.edition = e => DOMAIN x.bodies = L
    /\ \A p \in DOMAIN x.bodies : BodySound(x, p, g)

CopySound == \A k \in Clients, c \in Channels : Sound(copy[k][c], edition[c], lists[c], gen)

LEMMA CopySoundInit == Init => CopySound
<1> SUFFICES ASSUME Init, NEW k \in Clients, NEW c \in Channels
             PROVE Sound(copy[k][c], edition[c], lists[c], gen)
  BY DEF CopySound
<1>1. StoreTyped
  BY InitTyped DEF Typed
<1>2. copy[k][c] = [tag |-> [edition |-> edition[c], members |-> [p \in rows[c] |-> gen[p]]],
                    edition |-> edition[c], bodies |-> [p \in lists[c] |-> gen[p]]]
  BY DEF Init, Fresh, Tag, Bodies
<1>3. rows[c] = lists[c] /\ lists[c] \subseteq Playlists /\ \A p \in Playlists : gen[p] = 1
  BY <1>1 DEF Init, StoreTyped
<1>4. TagSound(copy[k][c], edition[c], gen)
  BY <1>1, <1>2, <1>3, NoneFacts DEF TagSound, StoreTyped, Edition
<1>5. \A p \in lists[c] : BodySound(copy[k][c], p, gen)
  BY <1>2, <1>3, NoneFacts DEF BodySound
<1> QED
  BY <1>2, <1>4, <1>5 DEF Sound

(* What is stored may only run away from a copy. *)
LEMMA SoundWhileStoreGrows ==
    ASSUME Typed, Grows, NEW c \in Channels, NEW x \in Copy, Sound(x, edition[c], lists[c], gen),
           \A p \in Playlists : gen'[p] \in Nat
    PROVE  Sound(x, edition'[c], lists'[c], gen')
<1>1. x.edition \in Edition /\ edition[c] \in Edition /\ DOMAIN x.bodies \subseteq Playlists
      /\ DOMAIN x.tag.members \subseteq Playlists /\ \A p \in DOMAIN x.bodies : x.bodies[p] \in Edition
  BY PartsElim DEF Copy, Typed, StoreTyped
<1>2. \A p \in Playlists : gen[p] \in Nat /\ (gen[p] = 0 => gen'[p] = 0) /\ (gen'[p] = 0 \/ gen[p] <= gen'[p])
  BY DEF Grows, Typed, StoreTyped
<1>3. TagSound(x, edition'[c], gen')
  <2>1. \A p \in DOMAIN x.tag.members :
          x.tag.members[p] \in Nat \ {0} /\ (gen'[p] = 0 \/ x.tag.members[p] <= gen'[p])
    BY <1>1, <1>2 DEF Sound, TagSound
  <2>2. /\ x.edition = None => edition'[c] = None
        /\ x.edition # None /\ edition'[c] # None => x.edition <= edition'[c]
    BY <1>1, NoneFacts DEF Sound, TagSound, Grows, Edition
  <2> QED
    BY <2>1, <2>2 DEF Sound, TagSound
<1>4. x.edition = edition'[c] => DOMAIN x.bodies = lists'[c]
  BY <1>1, NoneFacts DEF Sound, TagSound, Grows, Edition
<1>5. ASSUME NEW p \in DOMAIN x.bodies PROVE BodySound(x, p, gen')
  <2>1. p \in Playlists /\ x.bodies[p] \in Edition /\ BodySound(x, p, gen)
    BY <1>1 DEF Sound
  <2> QED
    BY <1>2, <2>1 DEF BodySound, Edition
<1> QED
  BY <1>3, <1>4, <1>5 DEF Sound

LEMMA CopySoundKept ==
    ASSUME Typed, Typed', FetchSound, RowsSound, CopySound, [Next]_vars
    PROVE  CopySound'
<1>1. Grows /\ \A p \in Playlists : gen'[p] \in Nat
  BY StoreSteps DEF Typed, StoreTyped
<1>2. ASSUME NEW k \in Clients, NEW c \in Channels, copy'[k][c] = copy[k][c]
      PROVE  Sound(copy[k][c], edition[c], lists[c], gen)'
  <2>1. copy[k][c] \in Copy /\ Sound(copy[k][c], edition[c], lists[c], gen)
    BY DEF Typed, ConsumerTyped, CopySound
  <2>2. Sound(copy[k][c], edition'[c], lists'[c], gen')
    BY <1>1, <2>1, SoundWhileStoreGrows
  <2> QED
    BY <1>2, <2>2
<1>3. CASE UNCHANGED <<copy, busy, fetch>>
  BY <1>2, <1>3 DEF CopySound
<1>4. ASSUME NEW k \in Clients, NEW c \in Channels, LookAt(k, c), copy[k][c].tag # Tag(c) PROVE CopySound'
  <2>1. TakesCopy(k, c) /\ UNCHANGED <<edition, lists, gen>>
    BY <1>4, LookAtCopy DEF LookAt, store
  <2>2. copy'[k][c] = [tag |-> [edition |-> edition[c], members |-> [p \in rows[c] |-> gen[p]]],
                       edition |-> edition[c], bodies |-> [p \in lists[c] |-> None]]
    BY <2>1 DEF TakesCopy, Tag
  <2>3. rows[c] = {p \in lists[c] : gen[p] > 0} /\ lists[c] \subseteq Playlists /\ edition[c] \in Edition
        /\ \A p \in Playlists : gen[p] \in Nat
    BY DEF RowsSound, Typed, StoreTyped
  <2>4. TagSound(copy'[k][c], edition[c], gen)
    BY <2>2, <2>3, NoneFacts DEF TagSound, Edition
  <2>5. \A p \in lists[c] : BodySound(copy'[k][c], p, gen)
    BY <2>2, <2>3 DEF BodySound
  <2>6. Sound(copy'[k][c], edition[c], lists[c], gen)
    BY <2>2, <2>4, <2>5 DEF Sound
  <2>7. ASSUME NEW k1 \in Clients, NEW c1 \in Channels, k1 # k \/ c1 # c
        PROVE  Sound(copy[k1][c1], edition[c1], lists[c1], gen)'
    BY <1>2, <2>1, <2>7 DEF TakesCopy
  <2> QED
    BY <2>1, <2>6, <2>7 DEF CopySound
<1>5. ASSUME NEW k \in Clients, NEW c \in Channels, LookAt(k, c), copy[k][c].tag = Tag(c) PROVE CopySound'
  BY <1>3, <1>5 DEF LookAt
<1>6. ASSUME NEW k \in Clients, NEW p \in Playlists, FetchMember(k, p) PROVE CopySound'
  <2>1. TakesBody(k, p) /\ UNCHANGED <<edition, lists, gen>>
    BY <1>6, FetchMemberCopy DEF FetchMember, store
  <2> DEFINE c == busy[k]
  <2>2. c \in Channels /\ p \in DOMAIN copy[k][c].bodies /\ gen[p] \in Nat
        /\ Sound(copy[k][c], edition[c], lists[c], gen)
    BY <2>1 DEF TakesBody, CopySound, Typed, StoreTyped
  <2>3. copy'[k][c].tag = copy[k][c].tag /\ copy'[k][c].edition = copy[k][c].edition
        /\ copy'[k][c].bodies = [copy[k][c].bodies EXCEPT ![p] = gen[p]]
    BY <2>1 DEF TakesBody
  <2>4. TagSound(copy'[k][c], edition[c], gen)
    BY <2>2, <2>3 DEF Sound, TagSound
  <2>5. ASSUME NEW q \in DOMAIN copy[k][c].bodies PROVE BodySound(copy'[k][c], q, gen)
    <3>1. BodySound(copy[k][c], q, gen)
      BY <2>2 DEF Sound
    <3>2. CASE q # p
      BY <2>3, <3>1, <3>2 DEF BodySound
    <3>3. CASE q = p
      <4>1. copy'[k][c].bodies[p] = gen[p]
        BY <2>2, <2>3
      <4>2. p \in DOMAIN copy[k][c].tag.members => gen[p] = 0 \/ copy[k][c].tag.members[p] <= gen[p]
        BY <2>2 DEF Sound, TagSound
      <4> QED
        BY <2>2, <2>3, <3>1, <3>3, <4>1, <4>2 DEF BodySound
    <3> QED
      BY <3>2, <3>3
  <2>6. Sound(copy'[k][c], edition[c], lists[c], gen)
    BY <2>2, <2>3, <2>4, <2>5 DEF Sound
  <2>7. ASSUME NEW k1 \in Clients, NEW c1 \in Channels, k1 # k \/ c1 # c
        PROVE  Sound(copy[k1][c1], edition[c1], lists[c1], gen)'
    BY <1>2, <2>1, <2>7 DEF TakesBody
  <2> QED
    BY <2>1, <2>2, <2>6, <2>7 DEF CopySound
<1> QED
  BY <1>3, <1>4, <1>5, <1>6, CopiesFrame

(* A copy whose tag is the current one, and whose members are fetched, is what
   is stored. *)
LEMMA SoundCopyIsCurrent ==
    ASSUME Typed, FetchSound, RowsSound, CopySound, NEW k \in Clients, NEW c \in Channels,
           copy[k][c].tag = Tag(c), busy[k] # c
    PROVE  Current(k, c)
<1> DEFINE x == copy[k][c]
<1>1. x \in Copy /\ Sound(x, edition[c], lists[c], gen) /\ edition[c] \in Edition
  BY DEF Typed, ConsumerTyped, StoreTyped, CopySound
<1>2. x.edition = edition[c] /\ x.tag.members = [p \in rows[c] |-> gen[p]]
  BY <1>1 DEF Sound, TagSound, Tag
<1>3. DOMAIN x.bodies = lists[c] /\ x.bodies \in [DOMAIN x.bodies -> Edition] /\ lists[c] \subseteq Playlists
  BY <1>1, <1>2, PartsElim DEF Sound, Copy
<1>4. ASSUME NEW p \in lists[c] PROVE x.bodies[p] = gen[p]
  <2>1. x.bodies[p] \in Nat
    BY <1>3 DEF FetchSound, Edition
  <2>2. BodySound(x, p, gen) /\ gen[p] \in Nat /\ x.bodies[p] # None
    BY <1>1, <1>3, <2>1, NoneFacts DEF Sound, Typed, StoreTyped
  <2>3. CASE p \in rows[c]
    <3>1. gen[p] > 0 /\ p \in DOMAIN x.tag.members /\ x.tag.members[p] = gen[p]
      BY <1>2, <2>3 DEF RowsSound
    <3> QED
      BY <2>1, <2>2, <3>1 DEF BodySound
  <2>4. CASE p \notin rows[c]
    <3>1. p \notin DOMAIN x.tag.members
      BY <1>2, <2>4
    <3> QED
      BY <2>1, <2>2, <3>1 DEF BodySound
  <2> QED
    BY <2>3, <2>4
<1>5. x.bodies = [p \in lists[c] |-> gen[p]]
  <2>1. x.bodies = [p \in DOMAIN x.bodies |-> x.bodies[p]]
    BY <1>3
  <2> QED
    BY <1>3, <1>4, <2>1
<1> QED
  BY <1>2, <1>5 DEF Current, Bodies

-----------------------------------------------------------------------------
(* The fan-out's limit *)

LEMMA InFlightFinite ==
    ASSUME NEW F \in SUBSET (Channels \X Clients)
    PROVE  IsFiniteSet({f[1] : f \in F}) /\ Cardinality({f[1] : f \in F}) \in Nat
<1>1. {f[1] : f \in F} \in SUBSET Channels
  <2>1. ASSUME NEW f \in F PROVE f[1] \in Channels
    <3>1. f \in Channels \X Clients
      OBVIOUS
    <3> QED
      BY <3>1
  <2> QED
    BY <2>1
<1>2. IsFiniteSet({f[1] : f \in F})
  BY <1>1, NotifyAssumption, FS_Subset
<1> QED
  BY <1>2, FS_CardinalityType

LEMMA PacedInit == Init => Paced
<1> SUFFICES ASSUME Init, NEW r \in Requests PROVE Cardinality(InFlight(r)) <= Concurrency
  BY DEF Paced
<1>1. InFlight(r) = {}
  BY DEF Init, InFlight
<1> QED
  BY <1>1, FS_EmptySet, NotifyAssumption

(* A request's deliveries only begin in its Send. *)
LEMMA FlightFrame ==
    ASSUME Typed, [Next]_vars, NEW r \in Requests
    PROVE  flight'[r] \subseteq flight[r] \/ \E c \in Channels : Send(r, c)
<1>1. ASSUME NEW q \in Requests, Step(q)
      PROVE  flight'[r] \subseteq flight[r] \/ \E c \in Channels : Send(r, c)
  <2>1. CASE \E c \in Channels : Send(q, c)
    BY <2>1 DEF Send, Typed, RequestTyped
  <2>2. CASE \E c \in Channels, k \in Clients : Deliver(q, c, k) \/ Fail(q, c, k)
    BY <2>2 DEF Deliver, Fail, Typed, RequestTyped
  <2>3. CASE \/ Persist(q) \/ Refuse(q) \/ CommitChannel(q) \/ CommitDeleteChannel(q) \/ CommitPlaylist(q)
             \/ ReadListing(q) \/ LockPlaylist(q) \/ ReadBeforeDelete(q) \/ CommitDeletePlaylist(q)
             \/ StopSending(q) \/ Respond(q)
    BY <2>3 DEF Persist, Refuse, CommitChannel, CommitDeleteChannel, CommitPlaylist, ReadListing, LockPlaylist,
       ReadBeforeDelete, CommitDeletePlaylist, StopSending, Respond
  <2> QED
    BY <1>1, <2>1, <2>2, <2>3 DEF Step
<1>2. ASSUME NEW q \in Requests, (\E o \in Ops[q] : Begin(q, o)) \/ Disconnect(q) \/ DeadlinePasses(q)
      PROVE  flight' = flight
  BY <1>2 DEF Begin, Disconnect, DeadlinePasses
<1>3. ASSUME NEW k \in Clients, NEW c \in Channels, LookAt(k, c) PROVE flight' = flight
  BY <1>3 DEF LookAt, request
<1>4. ASSUME NEW k \in Clients, NEW p \in Playlists, FetchMember(k, p) PROVE flight' = flight
  BY <1>4 DEF FetchMember, request
<1>5. Signal \/ ShutdownReturns \/ UNCHANGED vars => flight' = flight
  BY DEF Signal, ShutdownReturns, vars, request
<1>6. Exit => flight'[r] = {}
  BY DEF Exit
<1> QED
  BY <1>1, <1>2, <1>3, <1>4, <1>5, <1>6 DEF Next

LEMMA PacedKept ==
    ASSUME Typed, Typed', Paced, [Next]_vars
    PROVE  Paced'
<1> SUFFICES ASSUME NEW r \in Requests PROVE (Cardinality(InFlight(r)) <= Concurrency)'
  BY DEF Paced
<1>0. flight[r] \in SUBSET (Channels \X Clients) /\ flight'[r] \in SUBSET (Channels \X Clients)
  BY DEF Typed, RequestTyped
<1>1. Cardinality(InFlight(r)) \in Nat /\ Cardinality(InFlight(r)') \in Nat /\ Cardinality(InFlight(r)) <= Concurrency
  BY <1>0, InFlightFinite DEF Paced, InFlight
<1>2. IsFiniteSet(InFlight(r)) /\ IsFiniteSet(InFlight(r)')
  BY <1>0, InFlightFinite DEF InFlight
<1>3. CASE flight'[r] \subseteq flight[r]
  <2>1. InFlight(r)' \subseteq InFlight(r)
    BY <1>3 DEF InFlight
  <2>2. Cardinality(InFlight(r)') <= Cardinality(InFlight(r))
    BY <1>2, <2>1, FS_Subset
  <2> QED
    BY <1>1, <2>2, NotifyAssumption
<1>4. ASSUME NEW c \in Channels, Send(r, c) PROVE Cardinality(InFlight(r)') <= Concurrency
  <2>1. InFlight(r)' \subseteq InFlight(r) \cup {c}
    BY <1>4 DEF Send, InFlight, Typed, RequestTyped
  <2>2. /\ IsFiniteSet(InFlight(r) \cup {c})
        /\ Cardinality(InFlight(r) \cup {c}) <= Cardinality(InFlight(r)) + 1
        /\ Cardinality(InFlight(r) \cup {c}) \in Nat
    <3> DEFINE S == InFlight(r)
    <3> HIDE DEF S
    <3>1. IsFiniteSet(S \cup {c}) /\ Cardinality(S \cup {c}) = IF c \in S THEN Cardinality(S) ELSE Cardinality(S) + 1
      BY <1>2, FS_AddElement DEF S
    <3>2. Cardinality(S) \in Nat
      BY <1>1 DEF S
    <3>3. Cardinality(S \cup {c}) <= Cardinality(S) + 1 /\ Cardinality(S \cup {c}) \in Nat
      BY <3>1, <3>2
    <3> QED
      BY <3>1, <3>3 DEF S
  <2>3. Cardinality(InFlight(r)') <= Cardinality(InFlight(r) \cup {c})
    BY <2>1, <2>2, FS_Subset
  <2>4. Cardinality(InFlight(r)) < Concurrency
    BY <1>4 DEF Send
  <2> QED
    BY <1>1, <2>2, <2>3, <2>4, NotifyAssumption
<1> QED
  BY <1>3, <1>4, FlightFrame

-----------------------------------------------------------------------------
(* The shutdown, and the snapshot a delete reads under its lock *)

(* What a step of request r may touch of the others: nothing but the rows. *)
Alone(r) ==
    \A q \in Requests \ {r} :
        /\ pc'[q] = pc[q] /\ op'[q] = op[q] /\ flight'[q] = flight[q] /\ announce'[q] = announce[q]
        /\ \A p \in Playlists : lock[p] = q => lock'[p] = q

LEMMA StepAlone ==
    ASSUME Typed, NEW r \in Requests, Step(r)
    PROVE  Alone(r) /\ InProgress(r) /\ UNCHANGED phase
<1> USE NoneFacts DEF Alone, Goto, Return, Continue, Typed, RequestTyped, StoreTyped, InProgress
<1>1. CASE Persist(r)
  BY <1>1 DEF Persist, store
<1>2. CASE Refuse(r)
  BY <1>2 DEF Refuse, Unlocked
<1>3. CASE CommitChannel(r)
  <2>1. \E c \in {op[r].of} : Committed(r, {c}, {c})
    BY <1>3 DEF CommitChannel
  <2>2. pc[r] = "write" /\ UNCHANGED <<lock, flight, phase>>
    BY <1>3 DEF CommitChannel, Writing
  <2> QED
    BY <2>1, <2>2 DEF Committed
<1>4. CASE CommitDeleteChannel(r)
  BY <1>4 DEF CommitDeleteChannel, Committed, Writing
<1>5. CASE CommitPlaylist(r)
  BY <1>5 DEF CommitPlaylist, Writing
<1>6. CASE ReadListing(r)
  BY <1>6 DEF ReadListing, store
<1>7. CASE LockPlaylist(r)
  BY <1>7 DEF LockPlaylist
<1>8. CASE ReadBeforeDelete(r)
  BY <1>8 DEF ReadBeforeDelete, store
<1>9. CASE CommitDeletePlaylist(r)
  BY <1>9 DEF CommitDeletePlaylist, Committed, Writing, Unlocked
<1>10. ASSUME NEW c \in Channels, Send(r, c) PROVE Alone(r) /\ InProgress(r) /\ UNCHANGED phase
  BY <1>10 DEF Send, store
<1>11. ASSUME NEW c \in Channels, NEW k \in Clients, Deliver(r, c, k) \/ Fail(r, c, k)
       PROVE  Alone(r) /\ InProgress(r) /\ UNCHANGED phase
  <2>1. pc[r] = "notify"
    BY <1>11 DEF Deliver, Fail, Flow
  <2> QED
    BY <1>11, <2>1 DEF Deliver, Fail, store
<1>12. CASE StopSending(r)
  BY <1>12 DEF StopSending, store
<1>13. CASE Respond(r)
  BY <1>13 DEF Respond, store
<1> QED
  BY <1>1, <1>2, <1>3, <1>4, <1>5, <1>6, <1>7, <1>8, <1>9, <1>10, <1>11, <1>12, <1>13 DEF Step

(* An orderly close leaves no request behind. *)
Drained == phase = "closing" => \A r \in Requests : ~ InProgress(r)

LEMMA DrainedKept ==
    ASSUME Typed, Drained, [Next]_vars
    PROVE  Drained'
<1>1. ASSUME NEW r \in Requests, Step(r) PROVE Drained'
  BY <1>1, StepAlone DEF Drained
<1>2. ASSUME NEW r \in Requests, \E o \in Ops[r] : Begin(r, o) PROVE Drained'
  BY <1>2 DEF Begin, Drained
<1>3. ASSUME NEW r \in Requests, Disconnect(r) \/ DeadlinePasses(r) PROVE Drained'
  BY <1>3 DEF Disconnect, DeadlinePasses, Drained, InProgress
<1>4. ASSUME NEW k \in Clients, NEW c \in Channels, LookAt(k, c) PROVE Drained'
  BY <1>4 DEF LookAt, Drained, InProgress, request
<1>5. ASSUME NEW k \in Clients, NEW p \in Playlists, FetchMember(k, p) PROVE Drained'
  BY <1>5 DEF FetchMember, Drained, InProgress, request
<1>6. Signal \/ ShutdownReturns \/ Exit => Drained'
  BY DEF Signal, ShutdownReturns, Exit, Drained, InProgress, request
<1>7. UNCHANGED vars => Drained'
  BY DEF vars, request, Drained, InProgress
<1> QED
  BY <1>1, <1>2, <1>3, <1>4, <1>5, <1>6, <1>7 DEF Next

(* What a playlist delete has read before its statement, it read under the lock,
   and no channel has taken the playlist in since. *)
SnapshotOf(r) ==
    /\ pc[r] = "read" => lock[op[r].of] = r
    /\ pc[r] = "write" /\ op[r].do = "delete playlist" =>
         lock[op[r].of] = r /\ Listing(op[r].of) \subseteq announce[r]

Snapshot == \A r \in Requests : SnapshotOf(r)

(* A locked playlist is not taken in. *)
LEMMA LockedListing ==
    ASSUME Typed, RowsSound, [Next]_vars, NEW p \in Playlists, lock[p] # None
    PROVE  Listing(p)' \subseteq Listing(p)
<1>1. CASE UNCHANGED rows
  BY <1>1 DEF Listing
<1>2. ASSUME NEW r \in Requests, CommitChannel(r) PROVE Listing(p)' \subseteq Listing(p)
  <2>1. op[r].of \in Channels
    BY <1>2, WriteFacts DEF CommitChannel, Writing, Typed, Flow, InProgress
  <2>2. rows' = [rows EXCEPT ![op[r].of] = op[r].members] /\ p \notin op[r].members
    BY <1>2 DEF CommitChannel
  <2> QED
    BY <2>1, <2>2 DEF Listing, Typed, StoreTyped
<1>3. ASSUME NEW r \in Requests, CommitDeleteChannel(r) PROVE Listing(p)' \subseteq Listing(p)
  BY <1>3 DEF CommitDeleteChannel, Listing, Typed, StoreTyped
<1>4. ASSUME NEW r \in Requests, CommitPlaylist(r) PROVE UNCHANGED rows
  BY <1>4 DEF CommitPlaylist
<1>5. ASSUME NEW r \in Requests, CommitDeletePlaylist(r) PROVE Listing(p)' \subseteq Listing(p)
  BY <1>5 DEF CommitDeletePlaylist, Listing
<1> QED
  BY <1>1, <1>2, <1>3, <1>4, <1>5, StoreFrame

LEMMA SnapshotByOthers ==
    ASSUME Typed, RowsSound, Snapshot, [Next]_vars, NEW q \in Requests,
           pc'[q] = pc[q], op'[q] = op[q], announce'[q] = announce[q],
           \A p \in Playlists : lock[p] = q => lock'[p] = q
    PROVE  SnapshotOf(q)'
<1>1. SnapshotOf(q) /\ Flow(q)
  BY DEF Snapshot, Typed
<1>2. CASE pc[q] = "read"
  <2>1. op[q].of \in Playlists
    BY <1>1, <1>2, WriteFacts DEF Flow, InProgress
  <2> QED
    BY <1>1, <1>2, <2>1 DEF SnapshotOf
<1>3. CASE pc[q] = "write" /\ op[q].do = "delete playlist"
  <2>1. op[q].of \in Playlists
    BY <1>1, <1>3, WriteFacts DEF Flow, InProgress
  <2>2. lock[op[q].of] = q /\ lock'[op[q].of] = q /\ Listing(op[q].of) \subseteq announce[q]
    BY <1>1, <1>3, <2>1 DEF SnapshotOf
  <2>3. Listing(op[q].of)' \subseteq announce'[q]
    <3>1. \A p \in Playlists : lock[p] # None => {c \in Channels : p \in rows'[c]} \subseteq Listing(p)
      BY LockedListing DEF Listing
    <3>2. {c \in Channels : op[q].of \in rows'[c]} \subseteq Listing(op[q].of)
      BY <2>1, <2>2, <3>1, NoneFacts
    <3> QED
      BY <2>2, <3>2 DEF Listing
  <2> QED
    BY <1>3, <2>2, <2>3 DEF SnapshotOf
<1>4. CASE pc[q] # "read" /\ ~ (pc[q] = "write" /\ op[q].do = "delete playlist")
  BY <1>4 DEF SnapshotOf
<1> QED
  BY <1>2, <1>3, <1>4

LEMMA SnapshotKept ==
    ASSUME Typed, RowsSound, Snapshot, [Next]_vars
    PROVE  Snapshot'
<1>1. ASSUME NEW r \in Requests, Step(r) PROVE Snapshot'
  <2>1. \A q \in Requests \ {r} : SnapshotOf(q)'
    BY <1>1, StepAlone, SnapshotByOthers DEF Alone
  <2>2. SnapshotOf(r)'
    <3> USE NoneFacts DEF Goto, Return, Continue, Typed, RequestTyped, StoreTyped, SnapshotOf
    <3>1. CASE Persist(r)
      BY <1>1, <3>1 DEF Persist, Flow, InProgress
    <3>2. CASE Refuse(r) \/ CommitChannel(r) \/ CommitDeleteChannel(r) \/ CommitPlaylist(r) \/ ReadListing(r)
             \/ CommitDeletePlaylist(r) \/ Respond(r)
      <4>1. pc'[r] \in {"done", "list", "notify"}
        BY <3>2 DEF Refuse, CommitChannel, CommitDeleteChannel, CommitPlaylist, ReadListing, CommitDeletePlaylist,
           Respond, Committed
      <4> QED
        BY <4>1
    <3>3. CASE LockPlaylist(r)
      <4>1. op[r].of \in Playlists
        BY <3>3, WriteFacts DEF LockPlaylist, Flow, InProgress
      <4> QED
        BY <3>3, <4>1 DEF LockPlaylist
    <3>4. CASE ReadBeforeDelete(r)
      <4>1. lock[op[r].of] = r
        BY <3>4 DEF ReadBeforeDelete, Snapshot
      <4>2. UNCHANGED <<rows, lock, op>>
        BY <3>4 DEF ReadBeforeDelete, store
      <4>3. \/ pc'[r] = "write" /\ announce'[r] = Listing(op[r].of)
            \/ pc'[r] = "write unread"
        BY <3>4 DEF ReadBeforeDelete
      <4>4. Listing(op[r].of)' = Listing(op[r].of)
        BY <4>2 DEF Listing
      <4> QED
        BY <4>1, <4>2, <4>3, <4>4
    <3>5. CASE \/ \E c \in Channels : Send(r, c) \/ \E k \in Clients : Deliver(r, c, k) \/ Fail(r, c, k)
               \/ StopSending(r)
      <4>1. pc[r] = "notify" /\ pc'[r] = "notify"
        BY <3>5 DEF Send, Deliver, Fail, StopSending, Flow
      <4> QED
        BY <4>1
    <3> QED
      BY <1>1, <3>1, <3>2, <3>3, <3>4, <3>5 DEF Step
  <2> QED
    BY <2>1, <2>2 DEF Snapshot
<1>2. ASSUME NEW r \in Requests, \E o \in Ops[r] : Begin(r, o) PROVE Snapshot'
  <2>1. \A q \in Requests \ {r} : SnapshotOf(q)'
    BY <1>2, SnapshotByOthers DEF Begin, Goto, Typed, RequestTyped, store
  <2>2. SnapshotOf(r)'
    BY <1>2 DEF Begin, Goto, Typed, RequestTyped, SnapshotOf
  <2> QED
    BY <2>1, <2>2 DEF Snapshot
<1>3. CASE UNCHANGED <<pc, op, announce, lock>>
  BY <1>3, SnapshotByOthers DEF Snapshot
<1>4. ASSUME NEW r \in Requests, Disconnect(r) \/ DeadlinePasses(r) PROVE UNCHANGED <<pc, op, announce, lock>>
  BY <1>4 DEF Disconnect, DeadlinePasses, store
<1>5. ASSUME NEW k \in Clients, NEW c \in Channels, LookAt(k, c) PROVE UNCHANGED <<pc, op, announce, lock>>
  BY <1>5 DEF LookAt, store, request
<1>6. ASSUME NEW k \in Clients, NEW p \in Playlists, FetchMember(k, p) PROVE UNCHANGED <<pc, op, announce, lock>>
  BY <1>6 DEF FetchMember, store, request
<1>7. Signal \/ ShutdownReturns \/ UNCHANGED vars => UNCHANGED <<pc, op, announce, lock>>
  BY DEF Signal, ShutdownReturns, vars, store, request
<1>8. CASE Exit
  BY <1>8 DEF Exit, InProgress, Snapshot, SnapshotOf, Typed, RequestTyped
<1> QED
  BY <1>1, <1>2, <1>3, <1>4, <1>5, <1>6, <1>7, <1>8 DEF Next

-----------------------------------------------------------------------------
(* What a copy lacks is known *)

Pending(r, c, k) ==
    \/ <<c, k>> \in flight[r]
    \/ pc[r] = "notify" /\ c \in announce[r]
    \/ pc[r] = "list" /\ op[r].of \in rows[c]

Accounted(k, c) ==
    c \in dirty[k] \/ <<c, k>> \in excused \/ \E r \in Requests : Pending(r, c, k)

(* The copy is of another edition, or lacks a body that it is not to get yet. *)
Stale(k, c) ==
    \/ copy[k][c].edition # edition[c]
    \/ \E p \in lists[c] : copy[k][c].bodies[p] # gen[p] /\ ~ (busy[k] = c /\ p \in fetch[k])

Known == \A k \in Clients, c \in Channels : Stale(k, c) => Accounted(k, c)

LEMMA OwedFacts ==
    ASSUME NEW r \in Requests, NEW c \in Channels, NEW k \in Clients, Pending(r, c, k)
    PROVE  <<c, k>> \in Owed(r)
BY DEF Pending, Owed, Listing

(* A request that moves, with the rows of a channel unchanged, leaves what the
   others have to announce of it. *)
LEMMA AccountedByOne ==
    ASSUME NEW r \in Requests, NEW k \in Clients, NEW c \in Channels, Alone(r), rows'[c] = rows[c],
           dirty[k] \subseteq dirty'[k], excused \subseteq excused', Accounted(k, c),
           Pending(r, c, k) => c \in dirty'[k] \/ <<c, k>> \in excused' \/ Pending(r, c, k)'
    PROVE  Accounted(k, c)'
<1>1. CASE c \in dirty[k] \/ <<c, k>> \in excused \/ Pending(r, c, k)
  BY <1>1 DEF Accounted
<1>2. ASSUME NEW q \in Requests \ {r}, Pending(q, c, k) PROVE Pending(q, c, k)'
  BY <1>2 DEF Alone, Pending
<1> QED
  BY <1>1, <1>2 DEF Accounted

(* A commit adds to what is excused. *)
LEMMA CommitsExcuse ==
    ASSUME NEW r \in Requests,
           CommitChannel(r) \/ CommitDeleteChannel(r) \/ CommitDeletePlaylist(r) \/ CommitPlaylist(r)
    PROVE  excused \subseteq excused'
<1>1. CASE \E A, B : Committed(r, A, B)
  <2>1. PICK A, B : Committed(r, A, B)
    BY <1>1
  <2>2. \/ excused' = excused \cup ((A \ B) \X Clients)
        \/ excused' = excused \cup (A \X Clients)
    BY <2>1 DEF Committed
  <2> QED
    BY <2>2
<1>2. CASE CommitPlaylist(r)
  <2>1. excused' = excused \/ excused' = excused \cup (Listing(op[r].of) \X Clients)
    BY <1>2 DEF CommitPlaylist
  <2> QED
    BY <2>1
<1>3. CommitChannel(r) \/ CommitDeleteChannel(r) => Committed(r, {op[r].of}, {op[r].of})
  BY DEF CommitChannel, CommitDeleteChannel
<1>4. CommitDeletePlaylist(r) =>
        Committed(r, IF pc[r] = "write" THEN announce[r] ELSE Listing(op[r].of), announce[r])
  BY DEF CommitDeletePlaylist
<1> QED
  BY <1>1, <1>2, <1>3, <1>4

(* The steps of a request that change nothing stored. *)
LEMMA AccountedAlong ==
    ASSUME Typed, NEW r \in Requests, Step(r), UNCHANGED <<edition, lists, rows, gen>>,
           NEW k \in Clients, NEW c \in Channels, Accounted(k, c)
    PROVE  Accounted(k, c)'
<1> USE NoneFacts DEF Goto, Return, Continue, Typed, RequestTyped, ConsumerTyped
<1> DEFINE Goal == /\ dirty[k] \subseteq dirty'[k] /\ excused \subseteq excused'
                   /\ Pending(r, c, k) => c \in dirty'[k] \/ <<c, k>> \in excused' \/ Pending(r, c, k)'
<1>1. CASE Persist(r) \/ Refuse(r) \/ LockPlaylist(r) \/ ReadBeforeDelete(r) \/ Respond(r)
  <2>1. ~ Pending(r, c, k)
    BY <1>1 DEF Persist, Refuse, LockPlaylist, ReadBeforeDelete, Respond, Pending, Flow
  <2>2. UNCHANGED <<dirty, excused>>
    BY <1>1 DEF Persist, Refuse, LockPlaylist, ReadBeforeDelete, Respond, consumer
  <2> QED
    BY <2>1, <2>2, StepAlone, AccountedByOne
<1>2. CASE CommitChannel(r) \/ CommitDeleteChannel(r) \/ CommitDeletePlaylist(r) \/ CommitPlaylist(r)
  <2>1. ~ Pending(r, c, k)
    BY <1>2 DEF CommitChannel, CommitDeleteChannel, CommitDeletePlaylist, CommitPlaylist, Writing, Pending, Flow
  <2>2. dirty' = dirty /\ excused \subseteq excused'
    <3>1. dirty' = dirty
      BY <1>2 DEF CommitChannel, CommitDeleteChannel, CommitDeletePlaylist, CommitPlaylist, consumer
    <3> QED
      BY <1>2, <3>1, CommitsExcuse
  <2> QED
    BY <2>1, <2>2, StepAlone, AccountedByOne
<1>3. CASE ReadListing(r)
  <2>1. Pending(r, c, k) => <<c, k>> \in excused' \/ Pending(r, c, k)'
    <3>1. pc[r] = "list" /\ pc'[r] = "notify" /\ flight[r] = {}
      BY <1>3 DEF ReadListing, Flow
    <3>2. announce'[r] = Listing(op[r].of) \/ excused' = excused \cup (Listing(op[r].of) \X Clients)
      BY <1>3 DEF ReadListing
    <3> QED
      BY <3>1, <3>2 DEF Pending, Listing
  <2>2. dirty' = dirty /\ excused \subseteq excused'
    BY <1>3 DEF ReadListing, consumer
  <2> QED
    BY <2>1, <2>2, StepAlone, AccountedByOne
<1>4. ASSUME NEW d \in Channels, Send(r, d) PROVE Accounted(k, c)'
  <2>1. Pending(r, c, k) => Pending(r, c, k)'
    <3>1. /\ pc[r] = "notify" /\ pc'[r] = "notify"
          /\ announce'[r] = announce[r] \ {d} /\ flight'[r] = flight[r] \cup ({d} \X Clients)
      BY <1>4 DEF Send
    <3> QED
      BY <3>1 DEF Pending
  <2>2. UNCHANGED <<dirty, excused>>
    BY <1>4 DEF Send, consumer
  <2> QED
    BY <2>1, <2>2, StepAlone, AccountedByOne
<1>5. ASSUME NEW d \in Channels, NEW l \in Clients, Deliver(r, d, l) PROVE Accounted(k, c)'
  <2>1. /\ flight'[r] = flight[r] \ {<<d, l>>} /\ dirty'[l] = dirty[l] \cup {d}
        /\ \A l1 \in Clients \ {l} : dirty'[l1] = dirty[l1]
        /\ UNCHANGED <<pc, op, announce, rows, excused>>
    BY <1>5 DEF Deliver, store
  <2>2. Pending(r, c, k) => c \in dirty'[k] \/ Pending(r, c, k)'
    BY <2>1 DEF Pending
  <2>3. dirty[k] \subseteq dirty'[k]
    BY <2>1
  <2> QED
    BY <2>1, <2>2, <2>3, StepAlone, AccountedByOne
<1>6. ASSUME NEW d \in Channels, NEW l \in Clients, Fail(r, d, l) PROVE Accounted(k, c)'
  <2>1. /\ flight'[r] = flight[r] \ {<<d, l>>} /\ excused' = excused \cup {<<d, l>>}
        /\ UNCHANGED <<pc, op, announce, rows, dirty>>
    BY <1>6 DEF Fail, store, consumer
  <2>2. Pending(r, c, k) => <<c, k>> \in excused' \/ Pending(r, c, k)'
    BY <2>1 DEF Pending
  <2> QED
    BY <2>1, <2>2, StepAlone, AccountedByOne
<1>7. CASE StopSending(r)
  <2>1. /\ pc[r] = "notify" /\ flight' = flight /\ excused' = excused \cup (announce[r] \X Clients) /\ dirty' = dirty
    BY <1>7 DEF StopSending, consumer
  <2>2. Pending(r, c, k) => <<c, k>> \in excused' \/ Pending(r, c, k)'
    BY <2>1 DEF Pending
  <2> QED
    BY <2>1, <2>2, StepAlone, AccountedByOne
<1> QED
  BY <1>1, <1>2, <1>3, <1>4, <1>5, <1>6, <1>7 DEF Step

(* A copy does not become stale while what it is of stays as it is. *)
LEMMA StaleFrame ==
    ASSUME NEW k \in Clients, NEW c \in Channels, copy'[k][c] = copy[k][c], busy'[k] = busy[k], fetch'[k] = fetch[k],
           edition'[c] = edition[c], lists'[c] = lists[c], \A p \in lists[c] : gen'[p] = gen[p], Stale(k, c)'
    PROVE  Stale(k, c)
BY DEF Stale

LEMMA CommittedTells ==
    ASSUME Typed, NEW r \in Requests, NEW A, NEW B, Committed(r, A, B), NEW k \in Clients, NEW c \in A, c \in Channels
    PROVE  Accounted(k, c)'
<1>1. \/ pc'[r] = "notify" /\ announce'[r] = B /\ excused' = excused \cup ((A \ B) \X Clients)
      \/ excused' = excused \cup (A \X Clients)
  BY DEF Committed, Continue, Goto, Typed, RequestTyped
<1> QED
  BY <1>1 DEF Accounted, Pending

(* A commit: what it concerns is accounted for, the rest as it was. *)
LEMMA CommitKnown ==
    ASSUME Typed, Known, NEW r \in Requests, Step(r), UNCHANGED consumer, excused \subseteq excused',
           pc[r] \in {"write", "write unread"}, NEW k \in Clients, NEW c \in Channels,
           edition'[c] = edition[c], lists'[c] = lists[c], rows'[c] = rows[c], \A p \in lists[c] : gen'[p] = gen[p],
           Stale(k, c)'
    PROVE  Accounted(k, c)'
<1>1. Stale(k, c)
  BY StaleFrame DEF consumer
<1>2. Accounted(k, c) /\ dirty'[k] = dirty[k]
  BY <1>1 DEF Known, consumer
<1>3. ~ Pending(r, c, k)
  BY DEF Pending, Typed, Flow
<1> QED
  BY <1>2, <1>3, StepAlone, AccountedByOne

LEMMA CommitChannelKnown ==
    ASSUME Typed, Known, NEW r \in Requests, CommitChannel(r) \/ CommitDeleteChannel(r)
    PROVE  Known'
<1> SUFFICES ASSUME NEW k \in Clients, NEW c \in Channels, Stale(k, c)' PROVE Accounted(k, c)'
  BY DEF Known
<1>1. op[r].of \in Channels /\ pc[r] = "write"
  BY WriteFacts DEF CommitChannel, CommitDeleteChannel, Writing, Typed, Flow, InProgress
<1>2. /\ Committed(r, {op[r].of}, {op[r].of}) /\ UNCHANGED <<gen, consumer>>
      /\ \A d \in Channels \ {op[r].of} : edition'[d] = edition[d] /\ lists'[d] = lists[d] /\ rows'[d] = rows[d]
  BY DEF CommitChannel, CommitDeleteChannel, Typed, StoreTyped
<1>3. CASE c = op[r].of
  BY <1>2, <1>3, CommittedTells
<1>4. CASE c # op[r].of
  BY <1>1, <1>2, <1>4, CommitsExcuse, CommitKnown DEF Step
<1> QED
  BY <1>3, <1>4

LEMMA CommitPlaylistKnown ==
    ASSUME Typed, RowsSound, Known, NEW r \in Requests, CommitPlaylist(r)
    PROVE  Known'
<1> SUFFICES ASSUME NEW k \in Clients, NEW c \in Channels, Stale(k, c)' PROVE Accounted(k, c)'
  BY DEF Known
<1> DEFINE p == op[r].of
<1>1. p \in Playlists /\ pc[r] = "write"
  BY WriteFacts DEF CommitPlaylist, Writing, Typed, Flow, InProgress
<1>2. /\ UNCHANGED <<edition, lists, rows, consumer>> /\ gen[p] > 0
      /\ \A q \in Playlists \ {p} : gen'[q] = gen[q]
  BY <1>1 DEF CommitPlaylist, Typed, StoreTyped
<1>3. CASE p \in lists[c]
  <2>1. p \in rows[c] /\ c \in Listing(p)
    BY <1>2, <1>3 DEF RowsSound, Listing
  <2>2. (pc'[r] = "list" /\ op'[r] = op[r]) \/ excused' = excused \cup (Listing(p) \X Clients)
    BY DEF CommitPlaylist, Continue, Goto, Typed, RequestTyped
  <2> QED
    BY <1>2, <2>1, <2>2 DEF Accounted, Pending
<1>4. CASE p \notin lists[c]
  <2>1. \A q \in lists[c] : gen'[q] = gen[q]
    BY <1>2, <1>4 DEF Typed, StoreTyped
  <2> QED
    BY <1>1, <1>2, <2>1, CommitsExcuse, CommitKnown DEF Step
<1> QED
  BY <1>3, <1>4

LEMMA CommitDeletePlaylistKnown ==
    ASSUME Typed, RowsSound, Snapshot, Known, NEW r \in Requests, CommitDeletePlaylist(r)
    PROVE  Known'
<1> SUFFICES ASSUME NEW k \in Clients, NEW c \in Channels, Stale(k, c)' PROVE Accounted(k, c)'
  BY DEF Known
<1> DEFINE p == op[r].of
<1>1. p \in Playlists /\ pc[r] \in {"write", "write unread"}
      /\ (pc[r] = "write" => op[r].do = "delete playlist")
  BY WriteFacts DEF CommitDeletePlaylist, Writing, Typed, Flow, InProgress
<1>2. /\ UNCHANGED <<edition, lists, consumer>> /\ gen[p] > 0
      /\ (\A q \in Playlists \ {p} : gen'[q] = gen[q]) /\ \A d \in Channels : rows'[d] = rows[d] \ {p}
  BY <1>1 DEF CommitDeletePlaylist, Typed, StoreTyped
<1>3. CASE p \in lists[c]
  <2>1. c \in Listing(p)
    BY <1>2, <1>3 DEF RowsSound, Listing
  <2>2. c \in IF pc[r] = "write" THEN announce[r] ELSE Listing(p)
    BY <1>1, <2>1 DEF Snapshot, SnapshotOf
  <2>3. Committed(r, IF pc[r] = "write" THEN announce[r] ELSE Listing(p), announce[r])
    BY DEF CommitDeletePlaylist
  <2> QED
    BY <2>2, <2>3, CommittedTells
<1>4. CASE p \notin lists[c]
  <2>1. \A q \in lists[c] : gen'[q] = gen[q]
    BY <1>2, <1>4 DEF Typed, StoreTyped
  <2>2. rows'[c] = rows[c]
    <3>1. p \notin rows[c]
      BY <1>4 DEF RowsSound
    <3> QED
      BY <1>2, <3>1
  <2> QED
    BY <1>1, <1>2, <2>1, <2>2, CommitsExcuse, CommitKnown DEF Step
<1> QED
  BY <1>3, <1>4

LEMMA StepKnown ==
    ASSUME Typed, RowsSound, Snapshot, Known, NEW r \in Requests, Step(r)
    PROVE  Known'
<1>1. CASE CommitChannel(r) \/ CommitDeleteChannel(r) \/ CommitPlaylist(r) \/ CommitDeletePlaylist(r)
  BY <1>1, CommitChannelKnown, CommitPlaylistKnown, CommitDeletePlaylistKnown
<1>2. CASE UNCHANGED <<edition, lists, rows, gen>> /\ UNCHANGED <<copy, busy, fetch>>
  <2>1. ASSUME NEW k \in Clients, NEW c \in Channels, Stale(k, c)' PROVE Accounted(k, c)'
    <3>1. Stale(k, c)
      BY <1>2, <2>1 DEF Stale
    <3> QED
      BY <1>2, <3>1, AccountedAlong DEF Known
  <2> QED
    BY <2>1 DEF Known
<1>3. \/ CommitChannel(r) \/ CommitDeleteChannel(r) \/ CommitPlaylist(r) \/ CommitDeletePlaylist(r)
      \/ UNCHANGED <<edition, lists, rows, gen>> /\ UNCHANGED <<copy, busy, fetch>>
  BY DEF Step, store, consumer, Persist, Refuse, ReadListing, LockPlaylist, ReadBeforeDelete, Send, StopSending,
     Deliver, Fail, Respond
<1> QED
  BY <1>1, <1>2, <1>3

(* The steps of the clients, of time and of the process. *)
LEMMA AsideKnown ==
    ASSUME Known, UNCHANGED <<store, consumer, excused>>,
           \A r \in Requests, c \in Channels, k \in Clients : Pending(r, c, k) => Pending(r, c, k)'
    PROVE  Known'
<1> SUFFICES ASSUME NEW k \in Clients, NEW c \in Channels, Stale(k, c)' PROVE Accounted(k, c)'
  BY DEF Known
<1>1. Stale(k, c)
  BY DEF Stale, store, consumer
<1> QED
  BY <1>1 DEF Known, Accounted, store, consumer

LEMMA LookAtKnown ==
    ASSUME Typed, FetchSound, RowsSound, CopySound, Known, NEW k \in Clients, NEW c \in Channels, LookAt(k, c)
    PROVE  Known'
<1> SUFFICES ASSUME NEW l \in Clients, NEW d \in Channels, Stale(l, d)' PROVE Accounted(l, d)'
  BY DEF Known
<1>1. UNCHANGED <<edition, lists, rows, gen, request>> /\ busy[k] # c /\ busy[k] = None
  BY NoneFacts DEF LookAt, store
<1>2. /\ l # k \/ d # c => (d \in dirty[l] => d \in dirty'[l])
      /\ l # k \/ d # c => (<<d, l>> \in excused => <<d, l>> \in excused')
  BY DEF LookAt, Typed, ConsumerTyped
<1>3. l # k \/ d # c => Stale(l, d)
  <2>1. CASE copy[k][c].tag = Tag(c)
    BY <1>1, <2>1 DEF LookAt, Stale
  <2>2. CASE copy[k][c].tag # Tag(c)
    <3>1. TakesCopy(k, c)
      BY <2>2, LookAtCopy
    <3>2. CASE l # k
      BY <1>1, <3>1, <3>2 DEF TakesCopy, Stale
    <3>3. CASE l = k /\ d # c
      <4>1. copy'[l][d] = copy[l][d] /\ busy[l] # d
        BY <1>1, <3>1, <3>3, NoneFacts DEF TakesCopy
      <4> QED
        BY <1>1, <4>1 DEF Stale
    <3> QED
      BY <3>2, <3>3
  <2> QED
    BY <2>1, <2>2
<1>4. ~ (l = k /\ d = c)
  <2>1. CASE copy[k][c].tag = Tag(c)
    <3>1. Current(k, c)
      BY <1>1, <2>1, SoundCopyIsCurrent
    <3>2. UNCHANGED <<copy, busy, fetch>>
      BY <2>1 DEF LookAt
    <3>3. copy[k][c].edition = edition[c] /\ \A p \in lists[c] : copy[k][c].bodies[p] = gen[p]
      BY <3>1 DEF Current, Bodies
    <3> QED
      BY <1>1, <3>2, <3>3 DEF Stale
  <2>2. CASE copy[k][c].tag # Tag(c)
    <3>1. TakesCopy(k, c)
      BY <2>2, LookAtCopy
    <3>2. copy'[k][c].edition = edition[c] /\ fetch'[k] = lists[c] /\ (lists[c] # {} => busy'[k] = c)
      BY <3>1 DEF TakesCopy
    <3> QED
      BY <1>1, <3>2 DEF Stale
  <2> QED
    BY <2>1, <2>2
<1> QED
  <2>1. Accounted(l, d)
    BY <1>3, <1>4 DEF Known
  <2> QED
    BY <1>1, <1>2, <1>4, <2>1 DEF Accounted, Pending, request

LEMMA FetchMemberKnown ==
    ASSUME Typed, FetchSound, Known, NEW k \in Clients, NEW p \in Playlists, FetchMember(k, p)
    PROVE  Known'
<1> SUFFICES ASSUME NEW l \in Clients, NEW d \in Channels, Stale(l, d)' PROVE Accounted(l, d)'
  BY DEF Known
<1>1. TakesBody(k, p) /\ UNCHANGED <<edition, lists, rows, gen, request, dirty, excused>>
  BY FetchMemberCopy DEF FetchMember, store
<1>2. Stale(l, d)
  <2>1. CASE l # k
    BY <1>1, <2>1 DEF TakesBody, Stale
  <2>2. CASE l = k /\ d # busy[k]
    <3>1. copy'[l][d] = copy[l][d]
      BY <1>1, <2>2 DEF TakesBody
    <3> QED
      BY <1>1, <2>2, <3>1 DEF Stale
  <2>3. CASE l = k /\ d = busy[k]
    <3>1. /\ copy'[k][d].edition = copy[k][d].edition
          /\ copy'[k][d].bodies = [copy[k][d].bodies EXCEPT ![p] = gen[p]] /\ p \in DOMAIN copy[k][d].bodies
      BY <1>1, <2>3 DEF TakesBody
    <3>2. ASSUME NEW q \in lists[d], copy'[k][d].bodies[q] # gen[q], ~ (busy'[k] = d /\ q \in fetch'[k])
          PROVE  copy[k][d].bodies[q] # gen[q] /\ q \notin fetch[k]
      <4>1. q # p
        BY <3>1, <3>2
      <4>2. copy'[k][d].bodies[q] = copy[k][d].bodies[q]
        BY <3>1, <4>1
      <4>3. busy'[k] = (IF fetch[k] = {p} THEN None ELSE d) /\ fetch'[k] = fetch[k] \ {p}
        BY <1>1, <2>3 DEF TakesBody
      <4> QED
        BY <3>2, <4>1, <4>2, <4>3
    <3> QED
      BY <1>1, <2>3, <3>1, <3>2 DEF Stale
  <2> QED
    BY <2>1, <2>2, <2>3
<1> QED
  BY <1>1, <1>2 DEF Known, Accounted, Pending, request

LEMMA ExitKnown ==
    ASSUME Typed, Drained, Known, Exit
    PROVE  Known'
<1> SUFFICES ASSUME NEW k \in Clients, NEW c \in Channels, Stale(k, c)' PROVE Accounted(k, c)'
  BY DEF Known
<1>1. Stale(k, c)
  BY DEF Stale, Exit, consumer
<1>2. Accounted(k, c) /\ dirty' = dirty
  BY <1>1 DEF Known, Exit, consumer
<1>3. ASSUME NEW r \in Requests, Pending(r, c, k) PROVE <<c, k>> \in excused'
  <2>1. phase = "closing, overrun"
    BY <1>3 DEF Exit, Drained, InProgress, Pending, Typed, Flow
  <2>2. <<c, k>> \in UNION {Owed(q) : q \in Requests}
    BY <1>3, OwedFacts
  <2> QED
    BY <2>1, <2>2 DEF Exit
<1>4. <<c, k>> \in excused => <<c, k>> \in excused'
  BY DEF Exit
<1> QED
  BY <1>2, <1>3, <1>4 DEF Accounted

LEMMA KnownKept ==
    ASSUME Typed, FetchSound, RowsSound, CopySound, Snapshot, Drained, Known, [Next]_vars
    PROVE  Known'
<1>1. ASSUME NEW r \in Requests, Step(r) PROVE Known'
  BY <1>1, StepKnown
<1>2. ASSUME NEW r \in Requests, (\E o \in Ops[r] : Begin(r, o)) \/ Disconnect(r) \/ DeadlinePasses(r) PROVE Known'
  <2>1. UNCHANGED <<store, consumer, excused, announce, flight>>
    BY <1>2 DEF Begin, Disconnect, DeadlinePasses
  <2>2. ASSUME NEW q \in Requests, NEW c \in Channels, NEW k \in Clients, Pending(q, c, k) PROVE Pending(q, c, k)'
    <3>1. pc[q] \in {"notify", "list"}
      BY <2>2 DEF Pending, Typed, Flow
    <3>2. pc'[q] = pc[q] /\ op'[q] = op[q]
      BY <1>2, <3>1 DEF Begin, Disconnect, DeadlinePasses, Goto, Typed, RequestTyped
    <3> QED
      BY <2>1, <2>2, <3>2 DEF Pending, store
  <2> QED
    BY <2>1, <2>2, AsideKnown
<1>3. CASE Signal \/ ShutdownReturns \/ UNCHANGED vars
  <2>1. UNCHANGED <<store, request, consumer, excused>>
    BY <1>3 DEF Signal, ShutdownReturns, vars
  <2>2. \A q \in Requests, c \in Channels, k \in Clients : Pending(q, c, k) => Pending(q, c, k)'
    BY <2>1 DEF Pending, store, request
  <2> QED
    BY <2>1, <2>2, AsideKnown
<1> QED
  BY <1>1, <1>2, <1>3, LookAtKnown, FetchMemberKnown, ExitKnown DEF Next

LEMMA KnownInit == Init => Known
<1> SUFFICES ASSUME Init, NEW k \in Clients, NEW c \in Channels PROVE ~ Stale(k, c)
  BY DEF Known
<1>1. copy[k][c].edition = edition[c] /\ copy[k][c].bodies = [p \in lists[c] |-> gen[p]]
  BY DEF Init, Fresh, Bodies
<1> QED
  BY <1>1 DEF Stale

-----------------------------------------------------------------------------
(* Theorems *)

IInv == Typed /\ Paced /\ FetchSound /\ RowsSound /\ CopySound /\ Snapshot /\ Drained /\ Known

LEMMA InitIInv == Init => IInv
<1> SUFFICES ASSUME Init PROVE IInv
  OBVIOUS
<1>1. Snapshot /\ Drained
  BY DEF Init, Snapshot, SnapshotOf, Drained
<1> QED
  BY <1>1, InitTyped, PacedInit, FetchSoundInit, RowsSoundInit, CopySoundInit, KnownInit DEF IInv

LEMMA NextIInv == IInv /\ [Next]_vars => IInv'
<1> SUFFICES ASSUME IInv, [Next]_vars PROVE IInv'
  OBVIOUS
<1>1. Typed'
  BY TypedKept DEF IInv
<1>2. FetchSound' /\ RowsSound' /\ Snapshot' /\ Drained' /\ Known'
  BY FetchSoundKept, StoreSteps, SnapshotKept, DrainedKept, KnownKept DEF IInv
<1>3. Paced' /\ CopySound'
  BY <1>1, PacedKept, CopySoundKept DEF IInv
<1> QED
  BY <1>1, <1>2, <1>3 DEF IInv

LEMMA SpecIInv == Spec => []IInv
BY InitIInv, NextIInv, PTL DEF Spec

LEMMA IInvType == IInv => TypeOK
BY DEF IInv, Typed, StoreTyped, RequestTyped, ConsumerTyped, LockSound, Holds, Paced, TypeOK, Edition

LEMMA IInvTag == IInv => TagTellsChange
BY SoundCopyIsCurrent DEF IInv, TagTellsChange

LEMMA IInvCatchUp == IInv => ConsumersCatchUp
<1> SUFFICES ASSUME IInv, Quiet, NEW k \in Clients, NEW c \in Channels, <<c, k>> \notin excused PROVE Current(k, c)
  BY DEF ConsumersCatchUp
<1>1. ~ Accounted(k, c)
  BY DEF IInv, Quiet, Accounted, Pending, Typed, Flow, InProgress
<1>2. ~ Stale(k, c) /\ busy[k] # c
  BY <1>1, NoneFacts DEF IInv, Known, Quiet
<1>3. /\ copy[k][c].edition = edition[c] /\ \A p \in lists[c] : copy[k][c].bodies[p] = gen[p]
  BY <1>2 DEF Stale
<1>4. copy[k][c].bodies \in Parts /\ DOMAIN copy[k][c].bodies = lists[c]
  BY <1>3 DEF IInv, CopySound, Sound, Typed, ConsumerTyped, Copy
<1>5. copy[k][c].bodies = [p \in DOMAIN copy[k][c].bodies |-> copy[k][c].bodies[p]]
  BY <1>4, PartsElim
<1> QED
  BY <1>3, <1>4, <1>5 DEF Current, Bodies

(* The types, the lock a delete holds and the limit of the fan-out, for any
   number of requests, channels and clients (notifyChannels, DeletePlaylist). *)
THEOREM TypeCorrect == Spec => []TypeOK
BY SpecIInv, IInvType, PTL

(* A consumer whose tag is the current one has what is stored, of the channel
   and of every member (the member digest in GetChannel's tag). *)
THEOREM TagTellsChangeHolds == Spec => []TagTellsChange
BY SpecIInv, IInvTag, PTL

(* When nothing is in progress, every consumer has what is stored, or the reason
   it has not is one the design admits (executor.notify*, UpdatePlaylist's read
   after its commit, DeletePlaylist's under its lock, serveUntilShutdown). *)
THEOREM ConsumersCatchUpHolds == Spec => []ConsumersCatchUp
BY SpecIInv, IInvCatchUp, PTL
=============================================================================
