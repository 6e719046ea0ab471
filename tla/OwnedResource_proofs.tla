------------------------ MODULE OwnedResource_proofs ------------------------
(***************************************************************************)
(* Proofs about OwnedResource for every set of keys, submissions and       *)
(* requests.  The argument: what a pending write was authorized to do it   *)
(* may still do as long as the row has the version it was authorized       *)
(* against (WriteSound), and a row the rules vetted is a co-signed         *)
(* document that owns itself (Vetted).                                     *)
(***************************************************************************)
EXTENDS OwnedResource, TLAPS

FeedEntry == [kid |-> Feed, role |-> "feed"]

(* What MayCreate and MayReplace both establish of the submitted document. *)
Vetted(k, d) ==
    /\ WellFormed(k, d)
    /\ Unambiguous(d)
    /\ k = "group" => CuratorConsistent(d)
    /\ ActsAsOwner(OwnerSet(d.declared, d.sigs), d.sigs)

RowSound ==
    row # NoRow /\ ~legacy => \E d \in Document : row = CoSign(d) /\ Vetted(kind, d)

CreateSound(w) ==
    w \in Create => \E d \in Document : w.doc = CoSign(d) /\ Vetted(kind, d)

ReplaceSound(w) ==
    w \in Replace =>
      /\ w.seen <= version
      /\ row # NoRow /\ w.seen = version =>
           /\ w.actor \in Owners
           /\ \E d \in Document : /\ w.doc = CoSign(d)
                                  /\ WellFormed(kind, d)
                                  /\ MayReplace(kind, row, d)

DeleteSound(w) ==
    w \in Delete =>
      /\ w.seen <= version
      /\ row # NoRow /\ w.seen = version => w.actor \in Owners

WriteSound(r) ==
    /\ CreateSound(pending[r])
    /\ ReplaceSound(pending[r])
    /\ DeleteSound(pending[r])

IInv ==
    /\ TypeOK
    /\ RowSound
    /\ deleted => row = NoRow
    /\ \A r \in Requests : WriteSound(r)

-----------------------------------------------------------------------------
(* Signature sets and the co-signature *)

(* The co-signed document is a document with the same owner-role and client
   signers and the same signed fields. *)
LEMMA CoSignKeeps ==
    ASSUME NEW d \in Document
    PROVE  /\ CoSign(d) \in Document
           /\ CoSign(d).declared = d.declared
           /\ CoSign(d).curator = d.curator
           /\ Signers(CoSign(d).sigs, "owner") = Signers(d.sigs, "owner")
           /\ ClientSigners(CoSign(d).sigs) = ClientSigners(d.sigs)
           /\ Signers(CoSign(d).sigs \ {FeedEntry}, "owner") = Signers(d.sigs, "owner")
<1>1. FeedEntry \in Signature
  BY OwnershipAssumption DEF FeedEntry, Signature, Roles
<1>2. CoSign(d) = [declared |-> d.declared, curator |-> d.curator,
                   sigs |-> (d.sigs \ {FeedEntry}) \cup {FeedEntry}]
  BY DEF CoSign, Document, FeedEntry
<1>3. CoSign(d).sigs = d.sigs \cup {FeedEntry} /\ d.sigs \subseteq Signature
  BY <1>2 DEF Document
<1>4. FeedEntry.role = "feed"
  BY DEF FeedEntry
<1>5. Signers(CoSign(d).sigs, "owner") = Signers(d.sigs, "owner")
  BY <1>3, <1>4 DEF Signers
<1>6. ClientSigners(CoSign(d).sigs) = ClientSigners(d.sigs)
  BY <1>3, <1>4 DEF ClientSigners
<1>7. Signers(CoSign(d).sigs \ {FeedEntry}, "owner") = Signers(d.sigs, "owner")
  BY <1>3, <1>4 DEF Signers
<1>8. CoSign(d) \in Document
  BY <1>1, <1>2, <1>3 DEF Document
<1> QED
  BY <1>2, <1>5, <1>6, <1>7, <1>8

(* Co-signing does not change what a kind of document may declare. *)
LEMMA CoSignWellFormed ==
    ASSUME NEW k \in Kinds, NEW d \in Document, WellFormed(k, d)
    PROVE  WellFormed(k, CoSign(d))
BY CoSignKeeps DEF WellFormed

(* The owners read back from a vetted, co-signed document are the ones it was
   vetted with. *)
LEMMA VettedOwners ==
    ASSUME NEW k \in Kinds, NEW d \in Document, Vetted(k, d)
    PROVE  StoredOwners(k, CoSign(d)) = OwnerSet(d.declared, d.sigs)
<1>1. CASE k # "group"
  BY <1>1, CoSignKeeps DEF StoredOwners, OwnerSet
<1>2. CASE k = "group"
  <2>1. d.declared = {} /\ OwnerSet(d.declared, d.sigs) = Signers(d.sigs, "owner")
    BY <1>2 DEF Vetted, WellFormed, OwnerSet
  <2>2. AtMostOne(Signers(d.sigs, "owner"))
    BY <2>1 DEF Vetted, Unambiguous
  <2>3. d.curator \in ClientSigners(d.sigs) => Signers(d.sigs, "owner") = {d.curator}
    BY <1>2, <2>2 DEF Vetted, CuratorConsistent, AtMostOne
  <2> QED
    BY <1>2, <2>1, <2>2, <2>3, CoSignKeeps DEF StoredOwners, StoredGroupOwners
<1> QED
  BY <1>1, <1>2

(* A document that may create is vetted. *)
LEMMA CreateVets ==
    ASSUME NEW k \in Kinds, NEW d \in Document, WellFormed(k, d), MayCreate(k, d)
    PROVE  Vetted(k, d)
BY DEF Vetted, MayCreate

(* So is one that may replace: it is signed by an owner it keeps. *)
LEMMA ReplaceVets ==
    ASSUME NEW k \in Kinds, NEW s \in Document, NEW d \in Document,
           WellFormed(k, d), MayReplace(k, s, d)
    PROVE  Vetted(k, d)
<1>1. StoredOwners(k, s) \subseteq OwnerSet(d.declared, d.sigs)
  BY DEF MayReplace, OwnersRetained
<1>2. StoredOwners(k, s) \cap Signers(d.sigs, "owner") # {}
  BY DEF MayReplace, ActsAsOwner
<1>3. ActsAsOwner(OwnerSet(d.declared, d.sigs), d.sigs)
  BY <1>1, <1>2 DEF ActsAsOwner
<1> QED
  BY <1>3 DEF Vetted, MayReplace

(* What one accepted replacement does to the owner set. *)
LEMMA ReplaceOwners ==
    ASSUME NEW k \in Kinds, NEW s \in Document, NEW d \in Document,
           WellFormed(k, s), WellFormed(k, d), MayReplace(k, s, d)
    PROVE  LET old == StoredOwners(k, s)
               now == StoredOwners(k, CoSign(d))
               owners == Signers(CoSign(d).sigs, "owner")
           IN /\ old \subseteq now
              /\ s.declared # {} => CoSign(d).declared # {}
              /\ now \ old \subseteq owners
              /\ s.declared = {} /\ CoSign(d).declared # {} => old \subseteq owners
              /\ k # "playlist" => now = old
<1> DEFINE old == StoredOwners(k, s)
           now == OwnerSet(d.declared, d.sigs)
           owners == Signers(d.sigs, "owner")
<1>1. Vetted(k, d)
  BY ReplaceVets
<1>2. /\ StoredOwners(k, CoSign(d)) = now
      /\ Signers(CoSign(d).sigs, "owner") = owners
      /\ CoSign(d).declared = d.declared
  BY <1>1, VettedOwners, CoSignKeeps
<1>3. old \subseteq now /\ (s.declared # {} => d.declared # {})
  BY DEF MayReplace, OwnersRetained, DeclarationRetained
<1>4. k = "group" => d.declared = {} /\ now = owners
  BY DEF WellFormed, OwnerSet
<1>5. now \ old \subseteq owners
  BY <1>4 DEF MayReplace, NewOwnerConsent
<1>6. s.declared = {} /\ d.declared # {} => old \subseteq owners
  BY <1>4 DEF MayReplace, RegimeTransitionConsent
<1>7. k # "playlist" => now = old
  <2>1. old # {}
    BY DEF MayReplace, ActsAsOwner
  <2>2. k # "playlist" => AtMostOne(now)
    BY DEF Kinds, WellFormed, MayReplace, Unambiguous, OwnerSet, AtMostOne
  <2> QED
    BY <2>1, <2>2, <1>3 DEF AtMostOne
<1> QED
  BY <1>2, <1>3, <1>5, <1>6, <1>7

-----------------------------------------------------------------------------
(* The invariant *)

LEMMA InitInv == Init => IInv
<1> SUFFICES ASSUME Init PROVE IInv
  OBVIOUS
<1> USE ResourceAssumption
<1>1. row # NoRow => \E d \in Document : WellFormed(kind, d) /\ row = CoSign(d)
  BY DEF Init
<1>2. row \in Document \cup {NoRow} /\ (row # NoRow => WellFormed(kind, row))
  BY <1>1, CoSignKeeps, CoSignWellFormed DEF Init
<1>3. TypeOK
  <2>0. version \in Nat
    BY DEF Init
  <2>1. deleted \in BOOLEAN /\ legacy \in BOOLEAN
    BY Zenon DEF Init
  <2>2. pending \in [Requests -> Create \cup Replace \cup Delete \cup {Idle, Done}]
    BY DEF Init
  <2>3. kind \in Kinds
    BY DEF Init
  <2> QED
    BY <1>2, <2>0, <2>1, <2>2, <2>3 DEF TypeOK
<1>4. RowSound
  BY DEF Init, RowSound
<1>5. \A r \in Requests : WriteSound(r)
  BY DEF Init, WriteSound, CreateSound, ReplaceSound, DeleteSound
<1> QED
  BY <1>3, <1>4, <1>5 DEF Init, IInv

(* A step that only sets one pending write keeps the invariant if the new write
   is sound. *)
LEMMA AsideKeeps ==
    ASSUME IInv, NEW r \in Requests, NEW w \in Create \cup Replace \cup Delete \cup {Idle, Done},
           UNCHANGED <<kind, row, version, deleted, legacy>>,
           pending' = [pending EXCEPT ![r] = w],
           CreateSound(w), ReplaceSound(w), DeleteSound(w)
    PROVE  IInv'
<1>1. TypeOK'
  BY DEF IInv, TypeOK
<1>2. RowSound' /\ (deleted => row = NoRow)'
  BY DEF IInv, RowSound
<1>3. ASSUME NEW q \in Requests PROVE WriteSound(q)'
  <2>1. pending'[q] = w \/ pending'[q] = pending[q]
    BY DEF IInv, TypeOK
  <2>2. CreateSound(pending'[q]) /\ ReplaceSound(pending'[q]) /\ DeleteSound(pending'[q])
    BY <2>1 DEF IInv, WriteSound
  <2> QED
    BY <2>2 DEF WriteSound, CreateSound, ReplaceSound, DeleteSound, Owners
<1> QED
  BY <1>1, <1>2, <1>3 DEF IInv

(* Answering a request leaves nothing to justify. *)
LEMMA DoneIsSound == /\ CreateSound(Done) /\ ReplaceSound(Done) /\ DeleteSound(Done)
BY ResourceAssumption DEF CreateSound, ReplaceSound, DeleteSound

(* A record of one kind of write is no record of another. *)
LEMMA OpsDisjoint ==
    ASSUME NEW w
    PROVE  /\ w \in Create => w \notin Replace /\ w \notin Delete
           /\ w \in Replace => w \notin Create /\ w \notin Delete
           /\ w \in Delete => w \notin Create /\ w \notin Replace
<1>1. w \in Create => w.op = "create"
  BY DEF Create
<1>2. w \in Replace => w.op = "replace"
  BY DEF Replace
<1>3. w \in Delete => w.op = "delete"
  BY DEF Delete
<1> QED
  BY <1>1, <1>2, <1>3

LEMMA AuthorizeCreateKeeps ==
    ASSUME IInv, NEW r \in Requests, AuthorizeCreate(r) PROVE IInv'
<1>1. PICK d \in Submissions :
        /\ WellFormed(kind, d) /\ MayCreate(kind, d)
        /\ pending' = [pending EXCEPT ![r] = [op |-> "create", doc |-> CoSign(d)]]
  BY DEF AuthorizeCreate
<1> DEFINE w == [op |-> "create", doc |-> CoSign(d)]
<1>2. d \in Document /\ kind \in Kinds
  BY ResourceAssumption DEF IInv, TypeOK
<1>3. w \in Create
  BY <1>2, CoSignKeeps DEF Create
<1>4. CreateSound(w)
  BY <1>1, <1>2, CreateVets DEF CreateSound
<1>5. ReplaceSound(w) /\ DeleteSound(w)
  BY <1>3, OpsDisjoint DEF ReplaceSound, DeleteSound
<1> QED
  BY <1>1, <1>3, <1>4, <1>5, AsideKeeps DEF AuthorizeCreate

LEMMA AuthorizeReplaceKeeps ==
    ASSUME IInv, NEW r \in Requests, AuthorizeReplace(r) PROVE IInv'
<1>1. PICK d \in Submissions, actor \in Owners :
        /\ WellFormed(kind, d) /\ MayReplace(kind, row, d)
        /\ pending' = [pending EXCEPT ![r] =
             [op |-> "replace", doc |-> CoSign(d), seen |-> version, actor |-> actor]]
  BY DEF AuthorizeReplace
<1> DEFINE w == [op |-> "replace", doc |-> CoSign(d), seen |-> version, actor |-> actor]
<1>2. d \in Document /\ kind \in Kinds /\ row \in Document /\ version \in Nat
  BY ResourceAssumption DEF IInv, TypeOK, AuthorizeReplace
<1>3. actor \in Keys
  <2>1. Owners \subseteq Keys
    BY <1>2 DEF Owners, StoredOwners, StoredGroupOwners, OwnerSet, Signers, ClientSigners,
                Document, Signature
  <2> QED
    BY <2>1
<1>4. w \in Replace
  BY <1>2, <1>3, CoSignKeeps DEF Replace
<1>5. ReplaceSound(w)
  BY <1>1, <1>2 DEF ReplaceSound
<1>6. CreateSound(w) /\ DeleteSound(w)
  BY <1>4, OpsDisjoint DEF CreateSound, DeleteSound
<1> QED
  BY <1>1, <1>4, <1>5, <1>6, AsideKeeps DEF AuthorizeReplace

LEMMA AuthorizeDeleteKeeps ==
    ASSUME IInv, NEW r \in Requests, AuthorizeDelete(r) PROVE IInv'
<1>1. PICK actor \in Owners :
        pending' = [pending EXCEPT ![r] = [op |-> "delete", seen |-> version, actor |-> actor]]
  BY DEF AuthorizeDelete
<1> DEFINE w == [op |-> "delete", seen |-> version, actor |-> actor]
<1>2. row \in Document /\ version \in Nat
  BY DEF IInv, TypeOK, AuthorizeDelete
<1>3. Owners \subseteq Keys
  BY <1>2 DEF Owners, StoredOwners, StoredGroupOwners, OwnerSet, Signers, ClientSigners,
              Document, Signature
<1>4. w \in Delete
  BY <1>2, <1>3 DEF Delete
<1>5. DeleteSound(w)
  BY <1>2 DEF DeleteSound
<1>6. CreateSound(w) /\ ReplaceSound(w)
  BY <1>4, OpsDisjoint DEF CreateSound, ReplaceSound
<1> QED
  BY <1>1, <1>4, <1>5, <1>6, AsideKeeps DEF AuthorizeDelete

(* Refusing or abandoning a request is a step aside. *)
LEMMA AnswerKeeps ==
    ASSUME IInv, NEW r \in Requests, Refused(r) \/ Abandon(r) PROVE IInv'
BY DoneIsSound, AsideKeeps DEF Refused, Abandon

(* A vetted document installed over a row that is not deleted keeps the
   invariant: every other write under way was authorized against an older row. *)
LEMMA InstallKeeps ==
    ASSUME IInv, NEW r \in Requests, Install(r), ~deleted,
           NEW d \in Document, pending[r].doc = CoSign(d), Vetted(kind, d)
    PROVE  IInv'
<1>1. /\ kind \in Kinds /\ version \in Nat
      /\ pending \in [Requests -> Create \cup Replace \cup Delete \cup {Idle, Done}]
  BY DEF IInv, TypeOK
<1>2. /\ row' = CoSign(d) /\ version' = version + 1 /\ legacy' = FALSE
      /\ kind' = kind /\ deleted' = deleted
      /\ pending' = [pending EXCEPT ![r] = Done]
  BY DEF Install
<1>3. CoSign(d) \in Document /\ WellFormed(kind, CoSign(d))
  BY <1>1, CoSignKeeps, CoSignWellFormed DEF Vetted
<1>4. TypeOK'
  <2>1. pending' \in [Requests -> Create \cup Replace \cup Delete \cup {Idle, Done}]
    BY <1>1, <1>2
  <2>2. deleted' \in BOOLEAN /\ legacy' \in BOOLEAN
    BY <1>2 DEF IInv, TypeOK
  <2> QED
    BY <1>1, <1>2, <1>3, <2>1, <2>2 DEF TypeOK
<1>5. RowSound'
  BY <1>2 DEF RowSound
<1>6. (deleted => row = NoRow)'
  BY <1>2
<1>7. ASSUME NEW q \in Requests PROVE WriteSound(q)'
  <2>1. CASE q = r
    <3>1. pending'[q] = Done
      BY <1>1, <1>2, <2>1
    <3> QED
      BY <3>1, ResourceAssumption DEF WriteSound, CreateSound, ReplaceSound, DeleteSound
  <2>2. CASE q # r
    <3>1. pending'[q] = pending[q]
      BY <1>1, <1>2, <2>2
    <3>2. WriteSound(q)
      BY DEF IInv
    <3>3. CreateSound(pending[q])'
      BY <1>2, <3>1, <3>2 DEF WriteSound, CreateSound
    <3>4. pending[q] \in Replace \cup Delete =>
            pending[q].seen \in Nat /\ pending[q].seen <= version
      BY <3>2 DEF WriteSound, ReplaceSound, DeleteSound, Replace, Delete
    <3>5. ReplaceSound(pending[q])' /\ DeleteSound(pending[q])'
      BY <1>1, <1>2, <3>1, <3>4 DEF ReplaceSound, DeleteSound
    <3> QED
      BY <3>3, <3>5 DEF WriteSound
  <2> QED
    BY <2>1, <2>2
<1> QED
  BY <1>4, <1>5, <1>6, <1>7 DEF IInv

LEMMA CommitCreateKeeps ==
    ASSUME IInv, NEW r \in Requests, CommitCreate(r) PROVE IInv'
<1>1. PICK d \in Document : pending[r].doc = CoSign(d) /\ Vetted(kind, d)
  BY DEF IInv, WriteSound, CreateSound, CommitCreate
<1> QED
  BY <1>1, InstallKeeps DEF CommitCreate

(* What is known of a replacement that is about to be installed. *)
LEMMA CommitReplaceSound ==
    ASSUME IInv, NEW r \in Requests, CommitReplace(r)
    PROVE  /\ row \in Document /\ kind \in Kinds /\ WellFormed(kind, row) /\ ~deleted
           /\ pending[r].actor \in Owners
           /\ \E d \in Document : /\ pending[r].doc = CoSign(d)
                                  /\ WellFormed(kind, d)
                                  /\ MayReplace(kind, row, d)
BY DEF IInv, TypeOK, WriteSound, ReplaceSound, CommitReplace, StillCurrent

LEMMA CommitReplaceKeeps ==
    ASSUME IInv, NEW r \in Requests, CommitReplace(r) PROVE IInv'
<1>1. PICK d \in Document : /\ pending[r].doc = CoSign(d)
                            /\ WellFormed(kind, d)
                            /\ MayReplace(kind, row, d)
  BY CommitReplaceSound
<1>2. Vetted(kind, d)
  BY <1>1, CommitReplaceSound, ReplaceVets
<1>3. ~deleted
  BY CommitReplaceSound
<1> QED
  BY <1>1, <1>2, <1>3, InstallKeeps DEF CommitReplace

LEMMA CommitDeleteKeeps ==
    ASSUME IInv, NEW r \in Requests, CommitDelete(r) PROVE IInv'
<1>1. /\ row' = NoRow /\ deleted' = TRUE /\ pending' = [pending EXCEPT ![r] = Done]
      /\ UNCHANGED <<kind, version, legacy>>
  BY DEF CommitDelete
<1>2. TypeOK'
  BY <1>1 DEF IInv, TypeOK
<1>3. RowSound' /\ (deleted => row = NoRow)'
  BY <1>1 DEF RowSound
<1>4. ASSUME NEW q \in Requests PROVE WriteSound(q)'
  <2>1. pending'[q] = Done \/ pending'[q] = pending[q]
    BY <1>1 DEF IInv, TypeOK
  <2>2. CreateSound(pending'[q]) /\ ReplaceSound(pending'[q]) /\ DeleteSound(pending'[q])
    BY <2>1, DoneIsSound DEF IInv, WriteSound
  <2> QED
    BY <1>1, <2>2 DEF WriteSound, CreateSound, ReplaceSound, DeleteSound
<1> QED
  BY <1>1, <1>2, <1>3, <1>4 DEF IInv

LEMMA StepKeeps == IInv /\ [Next]_vars => IInv'
<1> SUFFICES ASSUME IInv, [Next]_vars PROVE IInv'
  OBVIOUS
<1>1. CASE UNCHANGED vars
  BY <1>1 DEF vars, IInv, TypeOK, RowSound, WriteSound, CreateSound, ReplaceSound, DeleteSound, Owners
<1>2. CASE Next
  BY <1>2, AuthorizeCreateKeeps, AuthorizeReplaceKeeps, AuthorizeDeleteKeeps, CommitCreateKeeps,
     CommitReplaceKeeps, CommitDeleteKeeps, AnswerKeeps DEF Next
<1> QED
  BY <1>1, <1>2

LEMMA Inductive == Spec => []IInv
BY InitInv, StepKeeps, PTL DEF Spec

(* Only CommitReplace turns a row into another one. *)
LEMMA ReplacedByCommit ==
    ASSUME IInv, [Next]_vars, row # NoRow, row' # row
    PROVE  \E r \in Requests : CommitReplace(r) \/ CommitDelete(r)
<1>1. Next
  BY DEF vars
<1>2. PICK r \in Requests :
        \/ AuthorizeCreate(r) \/ AuthorizeReplace(r) \/ AuthorizeDelete(r)
        \/ CommitCreate(r) \/ CommitReplace(r) \/ CommitDelete(r)
        \/ Refused(r) \/ Abandon(r)
  BY <1>1 DEF Next
<1> QED
  BY <1>2 DEF AuthorizeCreate, AuthorizeReplace, AuthorizeDelete, CommitCreate, Refused, Abandon

(* What a step that replaces the row, or leaves it alone, does to its owners. *)
LEMMA ReplacedOwners ==
    ASSUME IInv, [Next]_vars, Replaced
    PROVE  /\ Owners \subseteq Owners'
           /\ row.declared # {} => row'.declared # {}
           /\ row' # row => Owners' \ Owners \subseteq Signers(row'.sigs, "owner")
           /\ row.declared = {} /\ row'.declared # {} => Owners \subseteq Signers(row'.sigs, "owner")
           /\ kind # "playlist" => Owners' = Owners
           /\ row' = row => Owners' = Owners
<1>1. kind' = kind
  BY DEF Next, vars, AuthorizeCreate, AuthorizeReplace, AuthorizeDelete, CommitCreate,
         CommitReplace, CommitDelete, Install, Refused, Abandon
<1>2. CASE row' = row
  BY <1>1, <1>2 DEF Owners
<1>3. CASE row' # row
  <2>1. PICK r \in Requests : CommitReplace(r)
    BY <1>3, ReplacedByCommit DEF Replaced, CommitDelete
  <2>2. PICK d \in Document : /\ pending[r].doc = CoSign(d)
                              /\ WellFormed(kind, d)
                              /\ MayReplace(kind, row, d)
    BY <2>1, CommitReplaceSound
  <2>3. row' = CoSign(d)
    BY <2>1, <2>2 DEF CommitReplace, Install
  <2>4. row \in Document /\ kind \in Kinds /\ WellFormed(kind, row)
    BY <2>1, CommitReplaceSound
  <2>5. Owners = StoredOwners(kind, row) /\ Owners' = StoredOwners(kind, CoSign(d))
    BY <1>1, <2>3 DEF Owners
  <2> QED
    BY <1>3, <2>2, <2>3, <2>4, <2>5, ReplaceOwners
<1> QED
  BY <1>2, <1>3

(* What the invariant says of a vetted row. *)
LEMMA RowFacts == IInv => ExactlyOneOwner /\ ResolutionsAgree /\ EachOwnerMayEditAlone
<1> SUFFICES ASSUME IInv, row # NoRow, ~legacy
             PROVE  ExactlyOneOwner /\ ResolutionsAgree /\ EachOwnerMayEditAlone
  BY DEF ExactlyOneOwner, ResolutionsAgree, EachOwnerMayEditAlone
<1>1. PICK d \in Document : row = CoSign(d) /\ Vetted(kind, d)
  BY DEF IInv, RowSound
<1>2. kind \in Kinds /\ row \in Document
  BY DEF IInv, TypeOK
<1>3. Owners = OwnerSet(d.declared, d.sigs)
  BY <1>1, <1>2, VettedOwners DEF Owners
<1>4. row.declared = d.declared /\ row.curator = d.curator
  BY <1>1, CoSignKeeps
<1>5. ExactlyOneOwner
  BY <1>1, <1>2, <1>3, <1>4
     DEF ExactlyOneOwner, Vetted, WellFormed, Unambiguous, ActsAsOwner, OwnerSet, AtMostOne, Kinds
<1>6. ResolutionsAgree
  BY <1>1, <1>3, <1>4, CoSignKeeps DEF ResolutionsAgree, OwnerSet, FeedEntry
<1>7. ASSUME NEW k \in Owners
      PROVE  MayReplace(kind, row, [row EXCEPT !.sigs = {[kid |-> k, role |-> "owner"]}])
  <2> DEFINE e == [kid |-> k, role |-> "owner"]
             n == [row EXCEPT !.sigs = {e}]
  <2>1. n.declared = row.declared /\ n.curator = row.curator /\ n.sigs = {e}
    BY <1>2 DEF Document
  <2>2. Signers(n.sigs, "owner") = {k} /\ ClientSigners(n.sigs) = {k}
    <3>1. e.kid = k /\ e.role = "owner"
      OBVIOUS
    <3>2. {s \in {e} : s.role = "owner"} = {e} /\ {s \in {e} : s.role # "feed"} = {e}
      BY <3>1
    <3>3. {s.kid : s \in {e}} = {k}
      BY <3>1
    <3> QED
      BY <2>1, <3>2, <3>3 DEF Signers, ClientSigners
  <2>3. Owners = OwnerSet(n.declared, n.sigs)
    <3>1. CASE row.declared # {}
      BY <3>1, <1>3, <1>4, <2>1 DEF OwnerSet
    <3>2. CASE row.declared = {}
      <4>1. AtMostOne(Owners)
        BY <1>5, <3>2 DEF ExactlyOneOwner
      <4>2. Owners = {k}
        BY <4>1 DEF AtMostOne
      <4> QED
        BY <3>2, <4>2, <2>1, <2>2 DEF OwnerSet
    <3> QED
      BY <3>1, <3>2
  <2>4. Unambiguous(n) /\ CuratorConsistent(n) /\ n.sigs # {}
    BY <2>1, <2>2 DEF Unambiguous, CuratorConsistent, AtMostOne
  <2>5. /\ DeclarationRetained(row, n)
        /\ OwnersRetained(Owners, OwnerSet(n.declared, n.sigs))
        /\ RegimeTransitionConsent(row, n, Owners)
        /\ NewOwnerConsent(Owners, OwnerSet(n.declared, n.sigs), n)
        /\ ActsAsOwner(Owners, n.sigs)
    BY <2>1, <2>2, <2>3 DEF DeclarationRetained, OwnersRetained, RegimeTransitionConsent,
       NewOwnerConsent, ActsAsOwner
  <2> QED
    BY <2>4, <2>5 DEF MayReplace, Owners
<1>8. EachOwnerMayEditAlone
  BY <1>7 DEF EachOwnerMayEditAlone
<1> QED
  BY <1>5, <1>6, <1>8

-----------------------------------------------------------------------------
(* Theorems *)

(* Type correctness, for every set of keys, submissions and requests. *)
THEOREM ResourceTypeCorrect == Spec => []TypeOK
BY Inductive, PTL DEF IInv

(* requireOwnersRetained, requireDeclarationRetained and the conditional write:
   no interleaving of replacements removes an owner or a declaration. *)
THEOREM OwnersOnlyGrowHolds == Spec => OwnersOnlyGrow
<1>1. IInv /\ [Next]_vars =>
        [Replaced => /\ Owners \subseteq Owners'
                     /\ row.declared # {} => row'.declared # {}]_vars
  BY ReplacedOwners
<1> QED
  BY <1>1, Inductive, PTL DEF Spec, OwnersOnlyGrow

(* requireNewOwnerConsent, the single-signer rule and
   requireRegimeTransitionConsent: who joins has signed, and a first declaration
   is unanimous. *)
THEOREM OwnersConsentHolds == Spec => OwnersConsent
<1>1. IInv /\ [Next]_vars =>
        [Replaced => /\ Owners' \ Owners \subseteq Signers(row'.sigs, "owner")
                     /\ row.declared = {} /\ row'.declared # {}
                          => Owners \subseteq Signers(row'.sigs, "owner")]_vars
  BY ReplacedOwners
<1> QED
  BY <1>1, Inductive, PTL DEF Spec, OwnersConsent

(* A group's or a channel's owner neither changes nor is joined. *)
THEOREM SoleOwnerForLifeHolds == Spec => SoleOwnerForLife
<1>1. IInv /\ [Next]_vars =>
        [Replaced /\ kind # "playlist" => Owners' = Owners]_vars
  BY ReplacedOwners
<1> QED
  BY <1>1, Inductive, PTL DEF Spec, SoleOwnerForLife

(* Every vetted row has an owner, and one only unless it declares several. *)
THEOREM ExactlyOneOwnerHolds == Spec => []ExactlyOneOwner
BY Inductive, RowFacts, PTL

(* The owner set read back from the stored row is the submission's. *)
THEOREM ResolutionsAgreeHolds == Spec => []ResolutionsAgree
BY Inductive, RowFacts, PTL

(* Each owner of a vetted row can replace it on his own. *)
THEOREM EachOwnerMayEditAloneHolds == Spec => []EachOwnerMayEditAlone
BY Inductive, RowFacts, PTL

(* The actor of a replace or a delete owns the row it changes at that moment. *)
THEOREM OnlyOwnersChangeItHolds == Spec => OnlyOwnersChangeIt
<1>1. ASSUME IInv, [Next]_vars, row # NoRow, row' # row PROVE AnOwnerActs
  <2>1. PICK r \in Requests : CommitReplace(r) \/ CommitDelete(r)
    BY <1>1, ReplacedByCommit
  <2>2. pending'[r] = Done
    BY <1>1, <2>1 DEF IInv, TypeOK, CommitReplace, CommitDelete, Install
  <2>3. pending[r] \in Replace \cup Delete
    BY <2>1 DEF CommitReplace, CommitDelete
  <2>4. pending[r].actor \in Owners
    BY <1>1, <2>1 DEF IInv, WriteSound, ReplaceSound, DeleteSound, CommitReplace, CommitDelete,
                      StillCurrent
  <2> QED
    BY <2>2, <2>3, <2>4 DEF AnOwnerActs
<1>2. IInv /\ [Next]_vars => [row # NoRow /\ row' # row => AnOwnerActs]_vars
  BY <1>1
<1> QED
  BY <1>2, Inductive, PTL DEF Spec, OnlyOwnersChangeIt
=============================================================================
