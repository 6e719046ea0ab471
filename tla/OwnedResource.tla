---------------------------- MODULE OwnedResource ----------------------------
(***************************************************************************)
(* One resource of the feed over its life: created, replaced and deleted   *)
(* by signed requests, several of them under way at once.  A request is    *)
(* authorized against the row it read (internal/executor) and written      *)
(* later, if that row is still the current one (the conditional write that *)
(* DocumentStore shows to be atomic).  The row may also be one left by the *)
(* previous contract of the feed, which the ownership rules of today never *)
(* vetted.                                                                 *)
(***************************************************************************)
EXTENDS Ownership, Naturals

CONSTANTS Requests,    \* client requests, each served once
          Submissions, \* documents the clients may submit
          MaxVersions, \* bound on the versions of the resource
          NoRow,       \* no row under the id
          Idle, Done   \* a request before its authorization, and answered

Create == [op : {"create"}, doc : Document]
Replace == [op : {"replace"}, doc : Document, seen : Nat, actor : Keys]
Delete == [op : {"delete"}, seen : Nat, actor : Keys]

ASSUME ResourceAssumption ==
    /\ Submissions \subseteq Document
    /\ MaxVersions \in Nat
    /\ NoRow \notin Document
    /\ Idle # Done
    /\ Idle \notin Create \cup Replace \cup Delete
    /\ Done \notin Create \cup Replace \cup Delete

VARIABLES kind,    \* what the resource is
          row,     \* the stored document, or NoRow
          version, \* the generation of the row (its updated_at)
          deleted, \* the id is tombstoned
          legacy,  \* the row predates the ownership rules
          pending  \* pending[r]: the authorized write of request r, Idle or Done

vars == <<kind, row, version, deleted, legacy, pending>>

Owners == StoredOwners(kind, row)

(* A row of the previous contract: co-signed by the feed, otherwise any. *)
Init ==
    /\ kind \in Kinds
    /\ \/ row = NoRow /\ version = 0 /\ legacy = FALSE
       \/ /\ \E d \in Submissions :
               d.sigs # {} /\ WellFormed(kind, d) /\ row = CoSign(d)
          /\ version = 1
          /\ legacy = TRUE
    /\ deleted = FALSE
    /\ pending = [r \in Requests |-> Idle]

-----------------------------------------------------------------------------
(* Authorization, against the row as it is now *)

(* The signatures on the submission verify and it is accepted on its own
   claims; the stored row is not read. *)
AuthorizeCreate(r) ==
    /\ pending[r] = Idle
    /\ \E d \in Submissions :
         /\ WellFormed(kind, d) /\ MayCreate(kind, d)
         /\ pending' = [pending EXCEPT ![r] = [op |-> "create", doc |-> CoSign(d)]]
    /\ UNCHANGED <<kind, row, version, deleted, legacy>>

(* The intent is fresh, names this resource and binds this document; actor is
   an owner of the stored row and signed the intent in the owner role. *)
AuthorizeReplace(r) ==
    /\ pending[r] = Idle /\ row # NoRow /\ version < MaxVersions
    /\ \E d \in Submissions, actor \in Owners :
         /\ WellFormed(kind, d) /\ MayReplace(kind, row, d)
         /\ pending' = [pending EXCEPT ![r] =
              [op |-> "replace", doc |-> CoSign(d), seen |-> version, actor |-> actor]]
    /\ UNCHANGED <<kind, row, version, deleted, legacy>>

(* Mutant: the intent of a delete is checked against the keys that signed the
   stored document, not against its owners. *)
AuthorizeDeleteBySigner(r) ==
    /\ pending[r] = Idle /\ row # NoRow
    /\ \E actor \in ClientSigners(row.sigs) :
         pending' = [pending EXCEPT ![r] =
              [op |-> "delete", seen |-> version, actor |-> actor]]
    /\ UNCHANGED <<kind, row, version, deleted, legacy>>

(* A delete needs the intent alone. *)
AuthorizeDelete(r) ==
    /\ pending[r] = Idle /\ row # NoRow
    /\ \E actor \in Owners :
         pending' = [pending EXCEPT ![r] =
              [op |-> "delete", seen |-> version, actor |-> actor]]
    /\ UNCHANGED <<kind, row, version, deleted, legacy>>

-----------------------------------------------------------------------------
(* The write, later *)

(* Mutant: the write is by id alone. *)
WriteById(r) == row # NoRow

(* The conditional write matches: the row is there, at the version authorized. *)
StillCurrent(r) == row # NoRow /\ version = pending[r].seen

(* The write found no row to change (404 or 409), or the id or slug taken. *)
Refused(r) ==
    /\ pending[r] \notin {Idle, Done}
    /\ IF pending[r].op = "create" THEN row # NoRow \/ deleted ELSE ~StillCurrent(r)
    /\ pending' = [pending EXCEPT ![r] = Done]
    /\ UNCHANGED <<kind, row, version, deleted, legacy>>

Install(r) ==
    /\ row' = pending[r].doc
    /\ version' = version + 1
    /\ legacy' = FALSE
    /\ pending' = [pending EXCEPT ![r] = Done]
    /\ UNCHANGED <<kind, deleted>>

CommitCreate(r) ==
    /\ pending[r] \in Create
    /\ row = NoRow /\ ~deleted
    /\ Install(r)

CommitReplace(r) ==
    /\ pending[r] \in Replace
    /\ StillCurrent(r)
    /\ Install(r)

CommitDelete(r) ==
    /\ pending[r] \in Delete
    /\ StillCurrent(r)
    /\ row' = NoRow
    /\ deleted' = TRUE
    /\ pending' = [pending EXCEPT ![r] = Done]
    /\ UNCHANGED <<kind, version, legacy>>

(* A request that was refused before its write, or that nobody answers. *)
Abandon(r) ==
    /\ pending[r] # Done
    /\ pending' = [pending EXCEPT ![r] = Done]
    /\ UNCHANGED <<kind, row, version, deleted, legacy>>

Next ==
    \E r \in Requests :
       \/ AuthorizeCreate(r) \/ AuthorizeReplace(r) \/ AuthorizeDelete(r)
       \/ CommitCreate(r) \/ CommitReplace(r) \/ CommitDelete(r)
       \/ Refused(r) \/ Abandon(r)

Spec == Init /\ [][Next]_vars

-----------------------------------------------------------------------------
(* Properties *)

(* Type correctness of the resource and of the writes under way. *)
TypeOK ==
    /\ kind \in Kinds
    /\ row \in Document \cup {NoRow}
    /\ row # NoRow => WellFormed(kind, row)
    /\ version \in Nat
    /\ deleted \in BOOLEAN /\ legacy \in BOOLEAN
    /\ pending \in [Requests -> Create \cup Replace \cup Delete \cup {Idle, Done}]

Replaced == row # NoRow /\ row' # NoRow

(* An owner is never removed and a declaration never dropped, however the
   replacements interleave: requireOwnersRetained and requireDeclarationRetained
   judge the row that was read, the conditional write makes it the row replaced. *)
OwnersOnlyGrow ==
    [][Replaced => /\ Owners \subseteq Owners'
                   /\ row.declared # {} => row'.declared # {}]_vars

(* Who becomes an owner agreed to it: a key that joins signed the very document
   that made it one, in the owner role (requireNewOwnerConsent; for a group,
   requireUnambiguousOwner and requireGroupCuratorConsistent), and a document
   that starts to declare its owners was signed by every owner it had, those of a
   row of the previous contract included (requireRegimeTransitionConsent). *)
OwnersConsent ==
    [][Replaced => /\ Owners' \ Owners \subseteq Signers(row'.sigs, "owner")
                   /\ row.declared = {} /\ row'.declared # {}
                        => Owners \subseteq Signers(row'.sigs, "owner")]_vars

(* A group's or a channel's owner can neither change nor be joined, and a legacy
   group that names no owner stays as it is (storedGroupOwnerSet). *)
SoleOwnerForLife ==
    [][Replaced /\ kind # "playlist" => Owners' = Owners]_vars

(* A row vetted by the rules has exactly one owner unless it is a playlist that
   declares several: never none, which nobody could change any more. *)
ExactlyOneOwner ==
    row # NoRow /\ ~legacy =>
      /\ Owners # {}
      /\ kind # "playlist" \/ row.declared = {} => AtMostOne(Owners)

(* The owner read back from a stored row is the one its submission was judged by:
   the co-signature, or a curator string, makes nobody an owner. *)
ResolutionsAgree ==
    row # NoRow /\ ~legacy => Owners = OwnerSet(row.declared, row.sigs \ {[kid |-> Feed, role |-> "feed"]})

(* Whatever signatures the current row carries, each owner can go on alone: the
   same document signed by him only is accepted as a replacement. *)
EachOwnerMayEditAlone ==
    row # NoRow /\ ~legacy =>
      \A k \in Owners :
        MayReplace(kind, row, [row EXCEPT !.sigs = {[kid |-> k, role |-> "owner"]}])

(* The step that ends the request of an owner. *)
AnOwnerActs ==
    \E r \in Requests : /\ pending[r] \in Replace \cup Delete
                        /\ pending'[r] = Done
                        /\ pending[r].actor \in Owners

(* Whoever replaces or deletes the row is an owner of the row he replaces or
   deletes, also when it changed after he was authorized. *)
OnlyOwnersChangeIt == [][row # NoRow /\ row' # row => AnOwnerActs]_vars
=============================================================================
