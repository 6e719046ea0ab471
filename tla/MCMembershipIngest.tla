------------------------- MODULE MCMembershipIngest -------------------------
(* Two channels over three playlists.  The URI that one document fetched 2 from
   serves 3 when the other is resolved; that one names 3 twice, and a copy of 1 that
   took the slug of 3: when both are new they clash, when 1 is stored it stays under
   the slug it has. *)
EXTENDS MembershipIngest, TLC

CONSTANTS s, t, w

named(p, slug, u) == [id |-> p, slug |-> slug, uri |-> u]
hosted(p, slug) == named(p, slug, Elsewhere)

MCDocuments == {<<named(2, t, 1)>>, <<named(3, s, 1), hosted(1, s), named(3, s, 1)>>}

(* Disjoint documents that meet in both slugs. *)
CrossDocuments == {<<hosted(2, t), hosted(3, s)>>, <<hosted(1, s), hosted(4, t)>>}

MCReferences == {hosted(1, w)} \cup UNION {ToSet(doc) : doc \in MCDocuments}
CrossReferences == UNION {ToSet(doc) : doc \in CrossDocuments}

Symmetry == Permutations(Requests) \cup Permutations(Channels)
=============================================================================
