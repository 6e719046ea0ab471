----------------------------- MODULE ChannelNotify -----------------------------
(***************************************************************************)
(* From a request that writes a channel or a playlist to the consumers of  *)
(* channel events: the executor's write, detached from the client once it  *)
(* has begun, the channels a playlist write concerns, the fan-out under    *)
(* what is left of the deadline, a consumer that looks at a channel again  *)
(* when told to, with the entity tag it holds, and the server process      *)
(* that stops in the middle of it.  Authorization, reference resolution    *)
(* and the statements of a write are other modules'.                       *)
(***************************************************************************)
EXTENDS FiniteSets, Naturals

CONSTANTS Requests, Channels, Playlists,
          Clients,     \* the notification clients, each with a consumer behind it
          Ops,         \* Ops[r]: the writes request r may ask for
          Start,       \* the channels there are at the start, with what they list
          Concurrency, \* notifyConcurrency
          None

Writes ==
    [do : {"write channel"}, of : Channels, members : SUBSET Playlists]
      \cup [do : {"delete channel"}, of : Channels]
      \cup [do : {"write playlist", "delete playlist"}, of : Playlists]

ASSUME NotifyAssumption ==
    /\ Concurrency \in Nat \ {0}
    /\ IsFiniteSet(Clients) /\ IsFiniteSet(Channels)
    /\ Ops \in [Requests -> SUBSET Writes]
    /\ DOMAIN Start \subseteq Channels /\ \A c \in DOMAIN Start : Start[c] \subseteq Playlists
    /\ None \notin Requests \cup Channels \cup Writes \cup Nat

VARIABLES edition, \* edition[c]: the channel's document, 0 before and None after it
          lists,   \* lists[c]: the playlists that document names
          rows,    \* rows[c]: its membership rows
          gen,     \* gen[p]: the playlist's generation, 0 once it is deleted
          lock,    \* lock[p]: the delete that holds the playlist's advisory lock
          pc, op,  \* of each request
          gone,    \* requests whose client has disconnected
          late,    \* requests whose deadline has passed
          announce,\* announce[r]: channels r has still to announce
          flight,  \* flight[r]: deliveries in flight, channel and client
          dirty,   \* dirty[k]: channels consumer k was told of
          copy,    \* copy[k][c]: what consumer k has of channel c, and its tag
          busy,    \* busy[k]: the channel consumer k is looking at
          fetch,   \* fetch[k]: members of it that it has still to get
          phase,   \* of the server process
          excused  \* history: events a consumer missed for a reason the design admits

store == <<edition, lists, rows, gen, lock>>
request == <<pc, op, gone, late, announce, flight>>
consumer == <<dirty, copy, busy, fetch>>
vars == <<store, request, consumer, phase, excused>>

Live(c) == edition[c] \notin {0, None}
Listing(p) == {c \in Channels : p \in rows[c]}

(* Mutant: the tag is over the document's bytes alone. *)
TagOfBytes(c) == [edition |-> edition[c], members |-> <<>>]

(* strongETagFromJSONBytesAndRevision: the document and each member row's id and
   updated_at.  A channel that is not there has no document and no rows. *)
Tag(c) == [edition |-> edition[c], members |-> [p \in rows[c] |-> gen[p]]]

Bodies(c) == [p \in lists[c] |-> gen[p]]
Current(k, c) == copy[k][c].edition = edition[c] /\ copy[k][c].bodies = Bodies(c)

Fresh(c) == [tag |-> Tag(c), edition |-> edition[c], bodies |-> Bodies(c)]

(* Channels list some playlists; the consumers know them. *)
Init ==
    /\ edition = [c \in Channels |-> IF c \in DOMAIN Start THEN 1 ELSE 0]
    /\ lists = [c \in Channels |-> IF c \in DOMAIN Start THEN Start[c] ELSE {}]
    /\ rows = lists
    /\ gen = [p \in Playlists |-> 1]
    /\ lock = [p \in Playlists |-> None]
    /\ pc = [r \in Requests |-> "idle"] /\ op = [r \in Requests |-> None]
    /\ gone = {} /\ late = {}
    /\ announce = [r \in Requests |-> {}] /\ flight = [r \in Requests |-> {}]
    /\ dirty = [k \in Clients |-> {}]
    /\ copy = [k \in Clients |-> [c \in Channels |-> Fresh(c)]]
    /\ busy = [k \in Clients |-> None] /\ fetch = [k \in Clients |-> {}]
    /\ phase = "serving"
    /\ excused = {}

InProgress(r) == pc[r] \notin {"idle", "done"}
Goto(r, there) == pc' = [pc EXCEPT ![r] = there]

(* The handler returns, and its context with it. *)
Return(r) ==
    /\ Goto(r, "done")
    /\ op' = [op EXCEPT ![r] = None]
    /\ gone' = gone \ {r} /\ late' = late \ {r}
Continue(r, there) == Goto(r, there) /\ UNCHANGED <<op, gone, late>>

-----------------------------------------------------------------------------
(* The write *)

(* RequestDeadline: the deadline exists from here on. *)
Begin(r, o) ==
    /\ pc[r] = "idle" /\ phase = "serving"
    /\ op' = [op EXCEPT ![r] = o]
    /\ Goto(r, "begun")
    /\ UNCHANGED <<store, gone, late, announce, flight, consumer, phase, excused>>

Disconnect(r) ==
    /\ InProgress(r) /\ r \notin gone
    /\ gone' = gone \cup {r}
    /\ UNCHANGED <<store, pc, op, late, announce, flight, consumer, phase, excused>>

DeadlinePasses(r) ==
    /\ InProgress(r) /\ r \notin late
    /\ late' = late \cup {r}
    /\ UNCHANGED <<store, pc, op, gone, announce, flight, consumer, phase, excused>>

(* runChannelMutation: a request that is over already is not begun; one that is
   begun no longer notices its client. *)
Persist(r) ==
    /\ pc[r] = "begun"
    /\ IF r \in gone \cup late THEN Return(r)
       ELSE Continue(r, IF op[r].do = "delete playlist" THEN "lock" ELSE "write")
    /\ UNCHANGED <<store, announce, flight, consumer, phase, excused>>

Unlocked(r) == [p \in Playlists |-> IF lock[p] = r THEN None ELSE lock[p]]

(* Not found, a conflict, a failed statement, the deadline. *)
Refuse(r) ==
    /\ pc[r] \in {"begun", "lock", "read", "write", "write unread"}
    /\ lock' = Unlocked(r)
    /\ announce' = [announce EXCEPT ![r] = {}]
    /\ Return(r)
    /\ UNCHANGED <<edition, lists, rows, gen, flight, consumer, phase, excused>>

(* What follows a commit that concerns some channels, with those that the request
   is to tell: the acknowledgement may be lost with the connection or the
   deadline, and then nothing is announced. *)
Committed(r, concerned, told) ==
    \/ /\ Continue(r, "notify")
       /\ announce' = [announce EXCEPT ![r] = told]
       /\ excused' = excused \cup ((concerned \ told) \X Clients)
    \/ /\ Return(r)
       /\ announce' = [announce EXCEPT ![r] = {}]
       /\ excused' = excused \cup (concerned \X Clients)

Writing(r, what) == pc[r] = "write" /\ op[r].do = what

(* A create or a replace, whose rows go in under the locks of the playlists it
   names; an id whose channel was deleted is not used again. *)
CommitChannel(r) ==
    /\ Writing(r, "write channel")
    /\ LET c == op[r].of  S == op[r].members IN
        /\ edition[c] # None
        /\ \A p \in S : lock[p] = None /\ gen[p] > 0
        /\ edition' = [edition EXCEPT ![c] = @ + 1]
        /\ lists' = [lists EXCEPT ![c] = S]
        /\ rows' = [rows EXCEPT ![c] = S]
        /\ Committed(r, {c}, {c})
    /\ UNCHANGED <<gen, lock, flight, consumer, phase>>

CommitDeleteChannel(r) ==
    /\ Writing(r, "delete channel")
    /\ LET c == op[r].of IN
        /\ Live(c)
        /\ edition' = [edition EXCEPT ![c] = None]
        /\ lists' = [lists EXCEPT ![c] = {}]
        /\ rows' = [rows EXCEPT ![c] = {}]
        /\ Committed(r, {c}, {c})
    /\ UNCHANGED <<gen, lock, flight, consumer, phase>>

(* Mutant: the channels that list the playlist are read before the commit. *)
CommitPlaylistListedBefore(r) ==
    \/ /\ Writing(r, "write playlist") /\ gen[op[r].of] > 0
       /\ announce' = [announce EXCEPT ![r] = Listing(op[r].of)]
       /\ Goto(r, "list")
       /\ UNCHANGED <<store, op, gone, late, flight, consumer, phase, excused>>
    \/ /\ pc[r] = "list"
       /\ gen' = [gen EXCEPT ![op[r].of] = @ + 1]
       /\ Goto(r, "notify")
       /\ UNCHANGED <<edition, lists, rows, lock, op, gone, late, announce, flight, consumer, phase, excused>>

CommitPlaylist(r) ==
    /\ Writing(r, "write playlist")
    /\ LET p == op[r].of IN
        /\ gen[p] > 0
        /\ gen' = [gen EXCEPT ![p] = @ + 1]
        /\ \/ Continue(r, "list") /\ UNCHANGED excused
           \/ Return(r) /\ excused' = excused \cup (Listing(p) \X Clients)
    /\ UNCHANGED <<edition, lists, rows, lock, announce, flight, consumer, phase>>

(* UpdatePlaylist, after its commit; a read that fails announces nothing. *)
ReadListing(r) ==
    /\ pc[r] = "list"
    /\ LET p == op[r].of IN
        \/ announce' = [announce EXCEPT ![r] = Listing(p)] /\ UNCHANGED excused
        \/ excused' = excused \cup (Listing(p) \X Clients) /\ UNCHANGED announce
    /\ Goto(r, "notify")
    /\ UNCHANGED <<store, op, gone, late, flight, consumer, phase>>

(* Mutant: the recipient read starts before the lock is held. *)
LockNothing(r) ==
    /\ pc[r] = "lock"
    /\ Goto(r, "read")
    /\ UNCHANGED <<store, op, gone, late, announce, flight, consumer, phase, excused>>

LockPlaylist(r) ==
    /\ pc[r] = "lock" /\ lock[op[r].of] = None
    /\ lock' = [lock EXCEPT ![op[r].of] = r]
    /\ Goto(r, "read")
    /\ UNCHANGED <<edition, lists, rows, gen, op, gone, late, announce, flight, consumer, phase, excused>>

(* DeletePlaylist under the playlist's lock (DeleteListing): the snapshot that
   becomes the listing, or none in time. *)
ReadBeforeDelete(r) ==
    /\ pc[r] = "read"
    /\ \/ announce' = [announce EXCEPT ![r] = Listing(op[r].of)] /\ Goto(r, "write")
       \/ UNCHANGED announce /\ Goto(r, "write unread")
    /\ UNCHANGED <<store, op, gone, late, flight, consumer, phase, excused>>

CommitDeletePlaylist(r) ==
    /\ Writing(r, "delete playlist") \/ pc[r] = "write unread"
    /\ LET p == op[r].of IN
        /\ gen[p] > 0
        /\ gen' = [gen EXCEPT ![p] = 0]
        /\ rows' = [c \in Channels |-> rows[c] \ {p}]
        /\ Committed(r, IF pc[r] = "write" THEN announce[r] ELSE Listing(p), announce[r])
    /\ lock' = Unlocked(r)
    /\ UNCHANGED <<edition, lists, flight, consumer, phase>>

-----------------------------------------------------------------------------
(* The fan-out *)

InFlight(r) == {f[1] : f \in flight[r]}

(* Mutant: the fan-out has no limit. *)
SendUnbounded(r, c) ==
    /\ pc[r] = "notify" /\ c \in announce[r] /\ r \notin late
    /\ announce' = [announce EXCEPT ![r] = @ \ {c}]
    /\ flight' = [flight EXCEPT ![r] = @ \cup ({c} \X Clients)]
    /\ UNCHANGED <<store, pc, op, gone, late, consumer, phase, excused>>

(* notifyChannels: the next channel, to all clients at once, when one of the
   slots is free. *)
Send(r, c) ==
    /\ pc[r] = "notify" /\ c \in announce[r] /\ r \notin late
    /\ Cardinality(InFlight(r)) < Concurrency
    /\ announce' = [announce EXCEPT ![r] = @ \ {c}]
    /\ flight' = [flight EXCEPT ![r] = @ \cup ({c} \X Clients)]
    /\ UNCHANGED <<store, pc, op, gone, late, consumer, phase, excused>>

(* The delivery context is done: what is not enqueued yet is not sent. *)
StopSending(r) ==
    /\ pc[r] = "notify" /\ r \in late /\ announce[r] # {}
    /\ excused' = excused \cup (announce[r] \X Clients)
    /\ announce' = [announce EXCEPT ![r] = {}]
    /\ UNCHANGED <<store, pc, op, gone, late, flight, consumer, phase>>

Deliver(r, c, k) ==
    /\ <<c, k>> \in flight[r]
    /\ flight' = [flight EXCEPT ![r] = @ \ {<<c, k>>}]
    /\ dirty' = [dirty EXCEPT ![k] = @ \cup {c}]
    /\ UNCHANGED <<store, pc, op, gone, late, announce, copy, busy, fetch, phase, excused>>

(* An error, an answer other than 2xx, the dispatcher's timeout, the deadline. *)
Fail(r, c, k) ==
    /\ <<c, k>> \in flight[r]
    /\ flight' = [flight EXCEPT ![r] = @ \ {<<c, k>>}]
    /\ excused' = excused \cup {<<c, k>>}
    /\ UNCHANGED <<store, pc, op, gone, late, announce, consumer, phase>>

Respond(r) ==
    /\ pc[r] = "notify" /\ announce[r] = {} /\ flight[r] = {}
    /\ Return(r)
    /\ UNCHANGED <<store, announce, flight, consumer, phase, excused>>

-----------------------------------------------------------------------------
(* A consumer *)

(* GET /channels/{id} with If-None-Match: 304 leaves everything as it is, 404
   and 200 replace the copy; after a 200 the members are fetched. *)
LookAt(k, c) ==
    /\ c \in dirty[k] /\ busy[k] = None
    /\ dirty' = [dirty EXCEPT ![k] = @ \ {c}]
    /\ excused' = excused \ {<<c, k>>}
    /\ IF copy[k][c].tag = Tag(c) THEN UNCHANGED <<copy, busy, fetch>>
       ELSE /\ copy' = [copy EXCEPT ![k][c] =
                          [tag |-> Tag(c), edition |-> edition[c],
                           bodies |-> [p \in lists[c] |-> None]]]
            /\ busy' = [busy EXCEPT ![k] = IF lists[c] = {} THEN None ELSE c]
            /\ fetch' = [fetch EXCEPT ![k] = lists[c]]
    /\ UNCHANGED <<store, request, phase>>

(* GET /playlists/{id}. *)
FetchMember(k, p) ==
    /\ p \in fetch[k]
    /\ copy' = [copy EXCEPT ![k][busy[k]].bodies[p] = gen[p]]
    /\ fetch' = [fetch EXCEPT ![k] = @ \ {p}]
    /\ busy' = [busy EXCEPT ![k] = IF fetch[k] = {p} THEN None ELSE @]
    /\ UNCHANGED <<store, request, dirty, phase, excused>>

-----------------------------------------------------------------------------
(* The process *)

Signal ==
    /\ phase = "serving"
    /\ phase' = "draining"
    /\ UNCHANGED <<store, request, consumer, excused>>

(* serveUntilShutdown: Shutdown returns when no handler runs, or after 15 s. *)
ShutdownReturns ==
    /\ phase = "draining"
    /\ phase' = IF \E r \in Requests : InProgress(r) THEN "closing, overrun" ELSE "closing"
    /\ UNCHANGED <<store, request, consumer, excused>>

(* The events request r has still to deliver for what it committed. *)
Owed(r) == flight[r] \cup (IF pc[r] = "notify" THEN announce[r] \X Clients
                           ELSE IF pc[r] = "list" THEN Listing(op[r].of) \X Clients ELSE {})

(* The logger is closed and the process ends, with the handlers that outlived
   the 15 s; open transactions roll back. *)
Exit ==
    /\ phase \in {"closing", "closing, overrun"}
    /\ phase' = "exited"
    /\ pc' = [r \in Requests |-> IF InProgress(r) THEN "done" ELSE pc[r]]
    /\ op' = [r \in Requests |-> None] /\ gone' = {} /\ late' = {}
    /\ lock' = [p \in Playlists |-> None]
    /\ announce' = [r \in Requests |-> {}] /\ flight' = [r \in Requests |-> {}]
    /\ excused' = IF phase = "closing" THEN excused
                  ELSE excused \cup UNION {Owed(r) : r \in Requests}
    /\ UNCHANGED <<edition, lists, rows, gen, consumer>>

-----------------------------------------------------------------------------
Step(r) ==
    \/ Persist(r) \/ Refuse(r)
    \/ CommitChannel(r) \/ CommitDeleteChannel(r)
    \/ CommitPlaylist(r) \/ ReadListing(r)
    \/ LockPlaylist(r) \/ ReadBeforeDelete(r) \/ CommitDeletePlaylist(r)
    \/ \E c \in Channels : Send(r, c) \/ \E k \in Clients : Deliver(r, c, k) \/ Fail(r, c, k)
    \/ StopSending(r) \/ Respond(r)

Next ==
    \/ \E r \in Requests :
         \/ \E o \in Ops[r] : Begin(r, o)
         \/ Disconnect(r) \/ DeadlinePasses(r) \/ Step(r)
    \/ \E k \in Clients : \E c \in Channels : LookAt(k, c)
    \/ \E k \in Clients : \E p \in Playlists : FetchMember(k, p)
    \/ Signal \/ ShutdownReturns \/ Exit

Spec == Init /\ [][Next]_vars

-----------------------------------------------------------------------------
(* Properties *)

(* Types; a delete holds the lock of the playlist it deletes, and no request
   announces more than notifyConcurrency channels at once. *)
TypeOK ==
    /\ edition \in [Channels -> Nat \cup {None}] /\ gen \in [Playlists -> Nat]
    /\ lists \in [Channels -> SUBSET Playlists] /\ rows \in [Channels -> SUBSET Playlists]
    /\ lock \in [Playlists -> Requests \cup {None}]
    /\ pc \in [Requests -> {"idle", "begun", "lock", "read", "write", "write unread", "list", "notify", "done"}]
    /\ op \in [Requests -> Writes \cup {None}]
    /\ gone \subseteq Requests /\ late \subseteq Requests
    /\ announce \in [Requests -> SUBSET Channels]
    /\ flight \in [Requests -> SUBSET (Channels \X Clients)]
    /\ dirty \in [Clients -> SUBSET Channels] /\ busy \in [Clients -> Channels \cup {None}]
    /\ fetch \in [Clients -> SUBSET Playlists]
    /\ excused \subseteq Channels \X Clients
    /\ \A r \in Requests : Cardinality(InFlight(r)) <= Concurrency
    /\ \A p \in Playlists : lock[p] # None => op[lock[p]].of = p /\ pc[lock[p]] \in {"read", "write", "write unread"}

Quiet == (\A r \in Requests : ~ InProgress(r)) /\ (\A k \in Clients : dirty[k] = {} /\ busy[k] = None)

(* When all requests are over and every consumer has looked at what it was told
   of, it has what is stored, unless a delivery, the recipient read or an
   acknowledgement failed, or a deadline or the 15 s of the shutdown passed:
   neither a client that disconnects, nor another client that fails, nor a write
   that commits beside (UpdatePlaylist 1145-1150), nor an orderly stop leaves a
   consumer with something old. *)
ConsumersCatchUp ==
    Quiet => \A k \in Clients, c \in Channels : <<c, k>> \in excused \/ Current(k, c)

(* A consumer whose tag of a channel is the current one has the current document
   and the current bodies of all its members, whatever it was not told
   (GetChannel's member digest, taken in one snapshot with the document). *)
TagTellsChange ==
    \A k \in Clients, c \in Channels :
        copy[k][c].tag = Tag(c) /\ busy[k] # c => Current(k, c)
=============================================================================
