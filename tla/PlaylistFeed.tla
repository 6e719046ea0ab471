---------------------------- MODULE PlaylistFeed ----------------------------
(***************************************************************************)
(* What the feed promises about playlists and the channels that name them, *)
(* with no transactions, locks or statements in sight: a request is        *)
(* answered in one step, which either does all it asks or leaves the feed  *)
(* as it is and says why.  "error" says neither: the answer of what was    *)
(* done may be lost.  MembershipIngest implements this specification.      *)
(***************************************************************************)
EXTENDS PlaylistRequests

VARIABLES playlists, \* playlists[p]: NoRow, or the slug and the request that stored it
          channels,  \* channels[c]: NoRow, or the revision and the document shown
          members,   \* members[c]: what the channel plays, positions and playlist ids
          tombs,     \* ids that were deleted
          asked,     \* asked[r]: what r asks for; a replace or delete carries what it saw
          reply      \* reply[r]: the answer to r, or "none"

vars == <<playlists, channels, members, tombs, asked, reply>>

Init ==
    /\ playlists = [p \in Playlists |-> NoRow]
    /\ channels = [c \in Channels |-> NoRow]
    /\ members = [c \in Channels |-> {}]
    /\ tombs = {}
    /\ asked = [r \in Requests |-> NoJob]
    /\ reply = [r \in Requests |-> "none"]

Stored(p) == playlists[p] # NoRow
Shown(c) == channels[c] # NoRow

(* What a request to replace or delete may say it saw. *)
Requestable(j) ==
    /\ j.op = "delete playlist" => Stored(j.target)
    /\ j.op \in {"replace channel", "delete channel"} =>
         Shown(j.target) /\ j.seen = channels[j.target].rev

Ask(r) ==
    /\ asked[r] = NoJob
    /\ asked'[r] \in Job /\ Requestable(asked'[r])
    /\ asked' = [asked EXCEPT ![r] = asked'[r]]
    /\ UNCHANGED <<playlists, channels, members, tombs, reply>>

Answer(r, what) ==
    /\ reply[r] = "none" /\ reply' = [reply EXCEPT ![r] = what]
    /\ UNCHANGED asked

(* What was done is answered so, unless word of the commit is lost. *)
Acknowledge(r) == Answer(r, "ok") \/ Answer(r, "error")

-----------------------------------------------------------------------------
(* Playlists that a document brings in *)

New(doc) == {p \in Ids(doc) : ~Stored(p)}

SlugTaken(s) == \E p \in Playlists : Stored(p) /\ playlists[p].slug = s

(* A new playlist would come under a slug that another one has. *)
Clash(doc) ==
    \E p \in New(doc) :
        \/ SlugTaken(FirstOf(doc, p).slug)
        \/ \E q \in New(doc) \ {p} : FirstOf(doc, q).slug = FirstOf(doc, p).slug

(* All the new playlists of the document are stored, and no other one changes. *)
BringIn(r, doc) ==
    /\ Ids(doc) \cap tombs = {} /\ ~Clash(doc)
    /\ playlists' = [p \in Playlists |->
         IF p \in New(doc) THEN [slug |-> FirstOf(doc, p).slug, by |-> r] ELSE playlists[p]]

-----------------------------------------------------------------------------
(* Requests that are carried out *)

CreatePlaylist(r) ==
    /\ asked[r].op = "create playlist"
    /\ Acknowledge(r)
    /\ \A p \in Ids(asked[r].doc) : ~Stored(p)
    /\ BringIn(r, asked[r].doc)
    /\ UNCHANGED <<channels, members, tombs>>

(* The channel shows the document at this revision, and plays its playlists. *)
Show(r, rev) ==
    LET c == asked[r].target IN
    /\ Acknowledge(r)
    /\ BringIn(r, asked[r].doc)
    /\ channels' = [channels EXCEPT ![c] = [rev |-> rev, doc |-> asked[r].doc]]
    /\ members' = [members EXCEPT ![c] = Rows(asked[r].doc)]
    /\ UNCHANGED tombs

CreateChannel(r) ==
    /\ asked[r].op = "create channel"
    /\ ~Shown(asked[r].target) /\ asked[r].target \notin tombs
    /\ Show(r, 1)

(* The channel is there at the revision the request was authorized on. *)
Current(r) == Shown(asked[r].target) /\ channels[asked[r].target].rev = asked[r].seen

ReplaceChannel(r) ==
    /\ asked[r].op = "replace channel" /\ Current(r)
    /\ Show(r, asked[r].seen + 1)

(* A deleted playlist drops out of every channel. *)
DeletePlaylist(r) ==
    LET p == asked[r].target IN
    /\ asked[r].op = "delete playlist" /\ Stored(p)
    /\ Acknowledge(r)
    /\ playlists' = [playlists EXCEPT ![p] = NoRow]
    /\ members' = [c \in Channels |-> {m \in members[c] : m[2] # p}]
    /\ tombs' = tombs \cup {p}
    /\ UNCHANGED channels

DeleteChannel(r) ==
    LET c == asked[r].target IN
    /\ asked[r].op = "delete channel" /\ Current(r)
    /\ Acknowledge(r)
    /\ channels' = [channels EXCEPT ![c] = NoRow]
    /\ members' = [members EXCEPT ![c] = {}]
    /\ tombs' = tombs \cup {c}
    /\ UNCHANGED playlists

-----------------------------------------------------------------------------
(* Requests that leave the feed as it is: a reason is true when it is given *)

Names(r) == asked[r].op \in {"create playlist", "create channel", "replace channel"}

Because(r, what) ==
    \/ /\ what = "deleted"
       /\ \/ asked[r].op = "create channel" /\ asked[r].target \in tombs
          \/ Names(r) /\ Ids(asked[r].doc) \cap tombs # {}
    \/ /\ what = "exists"
       /\ \/ asked[r].op = "create channel" /\ Shown(asked[r].target)
          \/ asked[r].op = "create playlist" /\ \E p \in Ids(asked[r].doc) : Stored(p)
          \/ Names(r) /\ Clash(asked[r].doc)
    \/ /\ what = "conflict"
       /\ asked[r].op \in {"replace channel", "delete channel"}
       /\ Shown(asked[r].target) /\ ~Current(r)
    \/ /\ what = "notfound"
       /\ \/ asked[r].op \in {"replace channel", "delete channel"} /\ ~Shown(asked[r].target)
          \/ asked[r].op = "delete playlist" /\ ~Stored(asked[r].target)
    \/ what = "error"

Refuse(r) ==
    /\ asked[r] # NoJob
    /\ \E what \in {"deleted", "exists", "conflict", "notfound", "error"} :
         Answer(r, what) /\ Because(r, what)
    /\ UNCHANGED <<playlists, channels, members, tombs>>

Next ==
    \E r \in Requests :
        \/ Ask(r) \/ Refuse(r)
        \/ CreatePlaylist(r) \/ CreateChannel(r) \/ ReplaceChannel(r)
        \/ DeletePlaylist(r) \/ DeleteChannel(r)

Spec == Init /\ [][Next]_vars

-----------------------------------------------------------------------------
(* What follows *)

(* No two stored playlists share a slug. *)
SlugsUnique ==
    \A p, q \in Playlists : Stored(p) /\ Stored(q) /\ playlists[p].slug = playlists[q].slug => p = q

(* What was deleted is neither stored nor shown again. *)
DeletedForGood ==
    /\ \A p \in Playlists \cap tombs : ~Stored(p)
    /\ \A c \in Channels \cap tombs : ~Shown(c)

(* A channel plays the playlists it shows less the deleted ones, and each is there. *)
PlaysWhatItShows ==
    \A c \in Channels :
        /\ members[c] = IF ~Shown(c) THEN {} ELSE {m \in Rows(channels[c].doc) : m[2] \notin tombs}
        /\ \A m \in members[c] : Stored(m[2])
=============================================================================
