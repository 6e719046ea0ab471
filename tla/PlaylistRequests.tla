-------------------------- MODULE PlaylistRequests --------------------------
(***************************************************************************)
(* What clients ask of the feed about playlists and about the channels     *)
(* that name them: the vocabulary of PlaylistFeed, which promises an       *)
(* outcome for each request, and of MembershipIngest, which carries them   *)
(* out.  A document is the sequence of the references it makes, each       *)
(* resolved to a playlist id, to the slug of the copy that was fetched and *)
(* to the URI it was fetched from.                                         *)
(***************************************************************************)
EXTENDS Naturals, FiniteSetsExt, SequencesExt

CONSTANTS Requests,   \* client requests, each served once
          Playlists,  \* playlist ids, as numbers for the order of their bytes
          Channels,   \* channel ids
          References, \* what a reference may resolve to
          Documents,  \* the sequences of references a channel may make
          Slugs,      \* playlist slugs
          Uris,       \* remote URIs, as numbers for the order of their hashes
          Elsewhere,  \* the address of a playlist of this feed, or a URI not followed
          NoRow       \* no row under this id

ASSUME RequestsAssumption ==
    /\ Playlists \subseteq Nat /\ Channels \cap Playlists = {}
    /\ Uris \subseteq Nat /\ Elsewhere \notin Uris
    /\ References \subseteq [id : Playlists, slug : Slugs, uri : Uris \cup {Elsewhere}]
    /\ Documents \subseteq Seq(References) \ {<<>>}
    /\ NoRow \notin Playlists /\ NoRow \notin [rev : Nat, doc : Documents] \cup [slug : Slugs, by : Requests]

Ids(doc) == {ref.id : ref \in ToSet(doc)}

(* Repeated ids count once, with their first occurrence. *)
FirstOf(doc, p) == doc[Min({n \in DOMAIN doc : doc[n].id = p})]

(* recordPlaylistSources: each URI once, with what it resolved to. *)
UrisOf(doc) == {ref.uri : ref \in ToSet(doc)} \ {Elsewhere}
SourceOf(doc, u) == doc[Min({n \in DOMAIN doc : doc[n].uri = u})].id

(* Mutant: positions are taken from a count that starts at zero. *)
RowsFromZero(doc) == {<<n - 2, doc[n].id>> : n \in DOMAIN doc}

(* The membership rows of a document: positions from zero. *)
Rows(doc) == {<<n - 1, doc[n].id>> : n \in DOMAIN doc}

(* A playlist that is posted was fetched from nowhere. *)
CreateJob ==
    [op : {"create playlist"}, doc : {<<ref>> : ref \in {x \in References : x.uri = Elsewhere}}]
        \cup [op : {"create channel"}, target : Channels, doc : Documents]
Job ==
    CreateJob
        \cup [op : {"replace channel"}, target : Channels, doc : Documents, seen : Nat]
        \cup [op : {"delete playlist"}, target : Playlists]
        \cup [op : {"delete channel"}, target : Channels, seen : Nat]

NoJob == [op |-> "none"]
=============================================================================
