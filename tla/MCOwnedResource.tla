--------------------------- MODULE MCOwnedResource ---------------------------
(* Two client keys and the feed's, which its operator may also publish with. *)
EXTENDS OwnedResource, TLC

CONSTANTS a, b, f

(* Each key signs at most once; the feed's entry is an owner's or the feed's. *)
MCSubmissions ==
    LET roles(k) == IF k = f THEN {"owner", "feed", "none"} ELSE {"owner", "other", "none"}
        entries(g) == {s \in [kid : Keys, role : Roles] : g[s.kid] = s.role}
        signed == {g \in [Keys -> Roles \cup {"none"}] : \A k \in Keys : g[k] \in roles(k)}
    IN [declared : SUBSET Keys, curator : Keys \cup {NoKey}, sigs : {entries(g) : g \in signed}]

Symmetry == Permutations({a, b}) \cup Permutations(Requests)
=============================================================================
