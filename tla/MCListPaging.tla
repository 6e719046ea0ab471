---------------------------- MODULE MCListPaging ----------------------------
(* Three playlists: two come in with one ingest, one is published by itself.
   The third is hidden and shown again, the first loses an item. *)
EXTENDS ListPaging, TLC

MCVersions ==
    (1 :> <<[listed |-> TRUE, items |-> <<4, 5>>], [listed |-> TRUE, items |-> <<5>>]>>)
 @@ (2 :> <<[listed |-> TRUE, items |-> <<6>>]>>)
 @@ (3 :> <<[listed |-> TRUE, items |-> <<4>>], [listed |-> FALSE, items |-> <<4>>]>>)

MCBatches == {{1, 2}, {3}}

MCDocuments == {<<1, 2, 1>>, <<2, 1>>}

(* An ingest of a playlist and of a copy of it made for another directory: the
   works keep their ids. *)
CopyVersions ==
    (1 :> <<[listed |-> TRUE, items |-> <<4, 5>>]>>)
 @@ (2 :> <<[listed |-> TRUE, items |-> <<4, 6>>]>>)

CopyBatches == {{1, 2}}
=============================================================================
