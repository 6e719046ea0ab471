--------------------------- MODULE MCDocumentStore ---------------------------
(* Small instances of DocumentStore for TLC. *)
EXTENDS DocumentStore, TLC

(* Requests, ids and slugs are interchangeable. *)
Symmetry == Permutations(Requests) \cup Permutations(Ids) \cup Permutations(Slugs)

==============================================================================
