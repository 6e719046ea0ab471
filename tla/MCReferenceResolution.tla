----------------------- MODULE MCReferenceResolution -----------------------
(* A remote URI, also written with padding, and three local ones; two playlists
   and a body that claims the id of the first but could not be created.  The
   second document has more URIs than there are goroutines, the third is empty,
   the fourth makes too many references, the fifth one that is too long.  The
   budget is met exactly by two playlists and exceeded by three. *)
EXTENDS ReferenceResolution, TLC

CONSTANTS u, v, w, x

first == [id |-> 1, size |-> 2, ok |-> TRUE]
second == [id |-> 2, size |-> 2, ok |-> TRUE]
forged == [id |-> 1, size |-> 1, ok |-> FALSE]

MCBodies == {first, second, forged}
MCTrim == "u" :> u @@ " u" :> u @@ "v" :> v @@ "w" :> w @@ "x" :> x @@ "uuu" :> u
MCLocalId == v :> 2 @@ w :> 2 @@ x :> 1
MCDocuments ==
    {<<"u", "v", " u">>, <<"v", "x", "w">>, <<>>, <<"u", "u", "v", "w">>, <<"uuu">>}

Symmetry == Permutations(Requests)
=============================================================================
