------------------------------ MODULE Ownership ------------------------------
(***************************************************************************)
(* Who owns a document, and which documents may replace which: the rules   *)
(* of internal/executor/ownership.go, and what the feed's co-signature     *)
(* does to the signature list (internal/dp1svc).                           *)
(*                                                                         *)
(* A document is what these rules read of it.  The signed bytes fix the    *)
(* declared owner keys (curators[].key of a playlist, publisher.key of a   *)
(* channel) and a group's curator string.  The signature list is outside   *)
(* the signed bytes: whoever relays a document may drop an entry, append   *)
(* one of a key he holds, or change the role of any entry, and everything  *)
(* still verifies.  So a document may come with any set of entries; which  *)
(* ones do is for the module that uses these rules to say.                 *)
(***************************************************************************)
CONSTANTS Keys,  \* signing keys (did:key / did:pkh kids)
          Feed,  \* the feed's own signing key
          NoKey  \* a curator string that is empty or a plain display name

ASSUME OwnershipAssumption == Feed \in Keys /\ NoKey \notin Keys

Kinds == {"playlist", "group", "channel"}

\* "owner" is curator (playlists, groups) or publisher (channels); "other" is
\* licensor, institution, agent and the rest.
Roles == {"owner", "other", "feed"}

Signature == [kid : Keys, role : Roles]

Document == [declared : SUBSET Keys, curator : Keys \cup {NoKey}, sigs : SUBSET Signature]

\* What a document of each kind can declare.
WellFormed(kind, d) ==
    /\ kind # "group" => d.curator = NoKey
    /\ kind = "group" => d.declared = {}
    /\ kind = "channel" => \A j, k \in d.declared : j = k

Signers(sigs, role) == {s.kid : s \in {e \in sigs : e.role = role}}

AtMostOne(S) == \A j, k \in S : j = k

-----------------------------------------------------------------------------
(* Owner sets *)

(* Declared owners win; otherwise the keys that signed in the owner role. *)
OwnerSet(declared, sigs) ==
    IF declared # {} THEN declared ELSE Signers(sigs, "owner")

ClientSigners(sigs) == {s.kid : s \in {e \in sigs : e.role # "feed"}}

(* The owner set of a stored group: the signer its curator string names, in
   whatever role; else its one curator-role signer; else nobody. *)
StoredGroupOwners(d) ==
    IF d.curator \in ClientSigners(d.sigs)
      THEN {d.curator}
      ELSE {k \in Signers(d.sigs, "owner") : AtMostOne(Signers(d.sigs, "owner"))}

StoredOwners(kind, d) ==
    IF kind = "group" THEN StoredGroupOwners(d) ELSE OwnerSet(d.declared, d.sigs)

-----------------------------------------------------------------------------
(* Rules on an incoming document *)

(* Mutant: several owner-role signers of an undeclared document are taken for
   co-owners. *)
AnySigners(d) == TRUE

(* With no declaration at most one key may sign in the owner role. *)
Unambiguous(d) == d.declared # {} \/ AtMostOne(Signers(d.sigs, "owner"))

(* A curator string that names a signer names the curator-role signer. *)
CuratorConsistent(d) ==
    d.curator \in ClientSigners(d.sigs) => d.curator \in Signers(d.sigs, "owner")

(* A signature of one of the owners, in the owner role. *)
ActsAsOwner(owners, sigs) == owners \cap Signers(sigs, "owner") # {}

DeclarationRetained(stored, d) == stored.declared # {} => d.declared # {}

OwnersRetained(stored, incoming) == stored \subseteq incoming

(* Mutant: declaring the owners needs no more than one owner's signature. *)
TransitionUnguarded(stored, d, owners) == TRUE

(* The replacement that first declares owners is signed by every stored one. *)
RegimeTransitionConsent(stored, d, owners) ==
    stored.declared = {} /\ d.declared # {} => owners \subseteq Signers(d.sigs, "owner")

(* Mutant: a new owner's signature counts in whatever role. *)
NewOwnerSigned(owners, incoming, d) == incoming \ owners \subseteq ClientSigners(d.sigs)

(* Every key that enters the owner set signs the replacement in that role. *)
NewOwnerConsent(owners, incoming, d) ==
    incoming \ owners \subseteq Signers(d.sigs, "owner")

-----------------------------------------------------------------------------
(* The three authorization decisions and the co-signature *)

(* A create: open to anyone, on the document's own claims. *)
MayCreate(kind, d) ==
    /\ d.sigs # {}
    /\ Unambiguous(d)
    /\ kind = "group" => CuratorConsistent(d)
    /\ ActsAsOwner(OwnerSet(d.declared, d.sigs), d.sigs)

(* A replacement of stored by d, the signatures of d having been verified. *)
MayReplace(kind, stored, d) ==
    LET owners == StoredOwners(kind, stored)
        incoming == OwnerSet(d.declared, d.sigs)
    IN /\ d.sigs # {}
       /\ DeclarationRetained(stored, d)
       /\ Unambiguous(d)
       /\ kind = "group" => CuratorConsistent(d)
       /\ OwnersRetained(owners, incoming)
       /\ kind # "group" => RegimeTransitionConsent(stored, d, owners)
       /\ kind # "group" => NewOwnerConsent(owners, incoming, d)
       /\ ActsAsOwner(owners, d.sigs)

(* Mutant: every entry of the feed's key is replaced, whatever its role. *)
CoSignDroppingKid(d) ==
    [d EXCEPT !.sigs = {s \in @ : s.kid # Feed} \cup {[kid |-> Feed, role |-> "feed"]}]

(* Mutant: the signer is built without a kid. *)
CoSignWithoutKid(d) ==
    [d EXCEPT !.sigs = @ \cup {[kid |-> NoKey, role |-> "feed"]}]

(* The feed drops its own previous entry (its kid in the feed role) and appends
   a new one; nothing else of the document changes. *)
CoSign(d) ==
    [d EXCEPT !.sigs = (@ \ {[kid |-> Feed, role |-> "feed"]})
                          \cup {[kid |-> Feed, role |-> "feed"]}]
=============================================================================
