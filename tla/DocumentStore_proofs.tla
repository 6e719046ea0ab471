------------------------ MODULE DocumentStore_proofs -------------------------
(***************************************************************************)
(* The safety of DocumentStore for any set of requests, ids, slugs and     *)
(* clock values.                                                           *)
(*                                                                         *)
(* None of the safety properties is inductive: each holds because of what  *)
(* the open transactions have already checked and still protect, by the    *)
(* advisory lock or by the uncommitted row.  IInv says that.               *)
(***************************************************************************)
EXTENDS DocumentStore, TLAPS

Creates(r) == intent[r] \in CreateIntent
Writes(r) == intent[r] \in WriteIntent
Target(r) == intent[r].id

(* Where a request is and what it has filled in by then. *)
Flow(r) ==
    /\ pc[r] = "load" => intent[r] = NoOp
    /\ pc[r] \notin {"load", "done"} => Creates(r) \/ Writes(r)
    /\ pc[r] # "done" => reply[r] = "none"
    /\ pc[r] = "check" => Creates(r)
    /\ pc[r] = "classify" => Writes(r)

(* A create past its lock and a delete past its lock hold it to the end. *)
Locked(r) ==
    /\ Creates(r) \/ intent[r].op = "delete"
    /\ pc[r] \in {"check", "write", "classify", "commit"}
    => docLock[Target(r)] = r

(* The id a create has checked stays without a tombstone while it runs. *)
Checked(r) == Creates(r) /\ pc[r] \in {"write", "commit"} => Target(r) \notin tombs

(* An uncommitted write owns its row, and what it depends on is still so. *)
Pending(r) ==
    pc[r] = "commit" =>
       /\ dirty[Target(r)] = r
       /\ Creates(r) =>
            /\ rows[Target(r)] = NoRow
            /\ new[r] \in Row /\ new[r].slug = intent[r].slug /\ new[r].doc = r
       /\ Writes(r) => rows[Target(r)] = intent[r].seen
       /\ intent[r].op = "replace" =>
            /\ new[r] \in Row /\ new[r].slug = intent[r].seen.slug /\ new[r].doc = r
            /\ new[r].gen > intent[r].seen.gen

(* A slug about to be committed by a create is free and not about to be
   committed by another. *)
Inserting(r) == pc[r] = "commit" /\ Creates(r)
SlugHeld(r) ==
    Inserting(r) =>
       /\ \A i \in Ids : rows[i] # NoRow => rows[i].slug # intent[r].slug
       /\ \A q \in Requests : Inserting(q) /\ intent[q].slug = intent[r].slug => q = r

(* Since a request loaded its row, the generation under that id has not gone
   back, and a row that is gone is retired. *)
Seen(r) ==
    Writes(r) =>
       /\ rows[Target(r)] # NoRow =>
            /\ rows[Target(r)].gen >= intent[r].seen.gen
            /\ rows[Target(r)].gen = intent[r].seen.gen => rows[Target(r)] = intent[r].seen
       /\ rows[Target(r)] = NoRow => Target(r) \in tombs

(* A conditional write that matched no row would match none later either. *)
Missed(r) == pc[r] = "classify" => rows[Target(r)] # intent[r].seen

(* What the invariant says of one request. *)
Sound(r) ==
    /\ Flow(r) /\ Locked(r) /\ Checked(r) /\ Pending(r) /\ SlugHeld(r) /\ Seen(r) /\ Missed(r)
    /\ Writes(r) /\ reply[r] = "notfound" => Target(r) \in tombs

IInv ==
    /\ TypeOK
    /\ \A r \in Requests : Sound(r)
    /\ NoResurrection /\ SlugsUnique

-----------------------------------------------------------------------------
(* Types *)

(* An intent is a record of one of three shapes, told apart by its op. *)
LEMMA IntentShape ==
    ASSUME NEW x \in {NoOp} \cup CreateIntent \cup WriteIntent
    PROVE  /\ x \in CreateIntent <=> x.op = "create"
           /\ x \in WriteIntent <=> x.op \in {"replace", "delete"}
           /\ x = NoOp <=> x.op = "none"
           /\ x \in CreateIntent => x.id \in Ids /\ x.slug \in Slugs
           /\ x \in WriteIntent => x.id \in Ids /\ x.seen \in Row
  BY DEF NoOp, CreateIntent, WriteIntent

(* The generation the trigger gives is a natural number above the one it replaces. *)
LEMMA NextGenGrows ==
    ASSUME NEW old \in Nat, NEW now \in Nat
    PROVE  NextGen(old, now) \in Nat /\ NextGen(old, now) > old
  BY DEF NextGen

LEMMA TypeInit == Init => TypeOK
  BY StoreAssumption DEF Init, TypeOK, NoOp

LEMMA TypeStep == TypeOK /\ [Next]_vars => TypeOK'
<1> SUFFICES ASSUME TypeOK, [Next]_vars PROVE TypeOK'
  OBVIOUS
<1> USE StoreAssumption DEF TypeOK
<1>1. ASSUME NEW r \in Requests, AcceptCreate(r) PROVE TypeOK'
  BY <1>1 DEF AcceptCreate, Goto
<1>2. ASSUME NEW r \in Requests, LoadAndAuthorize(r) PROVE TypeOK'
  <2>1. PICK i \in Ids, op \in {"replace", "delete"} :
           /\ rows[i] # NoRow
           /\ intent' = [intent EXCEPT ![r] = [op |-> op, id |-> i, seen |-> rows[i]]]
    BY <1>2 DEF LoadAndAuthorize
  <2>2. [op |-> op, id |-> i, seen |-> rows[i]] \in WriteIntent
    BY <2>1 DEF WriteIntent
  <2> QED BY <1>2, <2>1, <2>2 DEF LoadAndAuthorize, Goto
<1>3. ASSUME NEW r \in Requests, Reject(r) PROVE TypeOK'
  BY <1>3 DEF Reject, Goto, Finish
<1>4. ASSUME NEW r \in Requests, Begin(r) PROVE TypeOK'
  BY <1>4 DEF Begin, Goto
<1>5. ASSUME NEW r \in Requests, LockDocument(r) PROVE TypeOK'
  BY <1>5 DEF LockDocument, Goto
<1>6. ASSUME NEW r \in Requests, RequireNotTombstoned(r) PROVE TypeOK'
  BY <1>6 DEF RequireNotTombstoned, Goto, Finish
<1>7. ASSUME NEW r \in Requests, Insert(r) PROVE TypeOK'
  <2>1. intent[r].op = "create" /\ intent[r].slug \in Slugs
    BY <1>7, IntentShape DEF Insert
  <2>2. [slug |-> intent[r].slug, gen |-> start[r], doc |-> r] \in Row
    BY <2>1 DEF Row
  <2> QED BY <1>7, <2>2 DEF Insert, Goto, Finish
<1>8. ASSUME NEW r \in Requests, Update(r) PROVE TypeOK'
  <2> DEFINE i == intent[r].id
             w == [slug |-> rows[i].slug, gen |-> NextGen(rows[i].gen, start[r]), doc |-> r]
  <2>1. i \in Ids
    BY <1>8, IntentShape DEF Update
  <2>2. StillCurrent(r) => w \in Row
    BY <2>1, NextGenGrows DEF StillCurrent, Row
  <2> QED BY <1>8, <2>2 DEF Update, Goto
<1>9. ASSUME NEW r \in Requests, DeleteRow(r) PROVE TypeOK'
  BY <1>9 DEF DeleteRow, Goto
<1>10. ASSUME NEW r \in Requests, Classify(r) PROVE TypeOK'
  BY <1>10 DEF Classify, Goto, Finish
<1>11. ASSUME NEW r \in Requests, Commit(r) PROVE TypeOK'
  <2>1. rows' \in [Ids -> Row \cup {NoRow}]
    BY <1>11 DEF Commit, Apply
  <2>2. tombs' \in SUBSET Ids
    BY <1>11, IntentShape DEF Commit, Apply
  <2> QED BY <1>11, <2>1, <2>2 DEF Commit, Finish, Goto
<1>12. ASSUME NEW r \in Requests, Abort(r) PROVE TypeOK'
  BY <1>12 DEF Abort, Goto, Finish
<1>13. CASE UNCHANGED vars
  BY <1>13 DEF vars
<1> QED
  BY <1>1, <1>2, <1>3, <1>4, <1>5, <1>6, <1>7, <1>8, <1>9, <1>10, <1>11, <1>12, <1>13
     DEF Next, Arrive, Step, AllServed

(* Every variable keeps its type, for any instance. *)
THEOREM TypeCorrect == Spec => []TypeOK
<1>1. Init => TypeOK BY TypeInit
<1>2. TypeOK /\ [Next]_vars => TypeOK' BY TypeStep
<1> QED BY <1>1, <1>2, PTL DEF Spec

-----------------------------------------------------------------------------
(* The inductive invariant *)

LEMMA IntentTyped ==
    ASSUME TypeOK, NEW r \in Requests
    PROVE  /\ Creates(r) <=> intent[r].op = "create"
           /\ Writes(r) <=> intent[r].op \in {"replace", "delete"}
           /\ Creates(r) \/ Writes(r) => intent[r].id \in Ids
           /\ Creates(r) => intent[r].slug \in Slugs
           /\ Writes(r) => intent[r].seen \in Row
  BY IntentShape DEF TypeOK, Creates, Writes

LEMMA IInvInit == Init => IInv
<1> SUFFICES ASSUME Init PROVE IInv
  OBVIOUS
<1>1. TypeOK
  BY TypeInit
<1>2. \A r \in Requests : ~Creates(r) /\ ~Writes(r)
  BY <1>1, IntentTyped DEF Init, NoOp
<1>3. NoResurrection /\ SlugsUnique
  BY DEF Init, NoResurrection, SlugsUnique
<1>4. \A r \in Requests : Sound(r)
  BY <1>2 DEF Init, Sound, Flow, Locked, Checked, Pending, SlugHeld, Inserting, Seen, Missed, NoOp
<1> QED
  BY <1>1, <1>3, <1>4 DEF IInv

(* A step of r that changes no committed table and no reply, and takes nothing
   another request holds, keeps the invariant if it keeps what the invariant
   says of r. *)
LEMMA StatementKeeps ==
    ASSUME IInv, TypeOK', NEW r \in Requests,
           UNCHANGED <<rows, tombs>>,
           \A q \in Requests \ {r} :
              /\ pc'[q] = pc[q] /\ intent'[q] = intent[q]
              /\ new'[q] = new[q] /\ reply'[q] = reply[q]
              /\ \A i \in Ids : docLock[i] = q => docLock'[i] = q
              /\ \A i \in Ids : dirty[i] = q => dirty'[i] = q,
           Sound(r)'
    PROVE  IInv'
<1>1. TypeOK /\ (\A q \in Requests : Sound(q)) /\ NoResurrection /\ SlugsUnique
  BY DEF IInv
<1>2. NoResurrection' /\ SlugsUnique'
  BY <1>1 DEF NoResurrection, SlugsUnique
<1>3. ASSUME NEW q \in Requests, q # r PROVE Sound(q)'
  <2>1. /\ pc'[q] = pc[q] /\ intent'[q] = intent[q]
        /\ new'[q] = new[q] /\ reply'[q] = reply[q]
        /\ \A i \in Ids : docLock[i] = q => docLock'[i] = q
        /\ \A i \in Ids : dirty[i] = q => dirty'[i] = q
    BY <1>3
  <2>2. Creates(q)' = Creates(q) /\ Writes(q)' = Writes(q) /\ Target(q)' = Target(q)
    BY <2>1 DEF Creates, Writes, Target
  <2>3. Creates(q) \/ Writes(q) => Target(q) \in Ids
    BY <1>1, IntentTyped DEF Target
  <2>4. Flow(q)' /\ Checked(q)' /\ Seen(q)' /\ Missed(q)'
    BY <1>1, <2>1, <2>2 DEF Sound, Flow, Checked, Seen, Missed
  <2>5. Locked(q)'
    BY <1>1, <2>1, <2>2, <2>3, IntentTyped DEF Sound, Locked
  <2>6. Pending(q)'
    BY <1>1, <2>1, <2>2, <2>3 DEF Sound, Pending, Flow
  <2>7. SlugHeld(q)'
    <3>1. \A p \in Requests : p # r => Inserting(p)' = Inserting(p) /\ intent'[p] = intent[p]
      BY DEF Inserting, Creates
    <3>2. Inserting(r)' /\ Inserting(q)' => intent'[q].slug # intent'[r].slug
      BY <1>3 DEF Sound, SlugHeld
    <3> QED BY <1>1, <1>3, <3>1, <3>2 DEF Sound, SlugHeld
  <2> QED BY <1>1, <2>1, <2>2, <2>4, <2>5, <2>6, <2>7 DEF Sound
<1> QED BY <1>2, <1>3 DEF IInv

(* Ending a transaction without an effect keeps the invariant; a 404 is
   answered to an authorized write only when the row is gone. *)
LEMMA FinishKeeps ==
    ASSUME IInv, TypeOK', NEW r \in Requests, NEW what,
           Finish(r, what), UNCHANGED <<rows, tombs, intent, start, new>>,
           what = "notfound" /\ Writes(r) => rows[Target(r)] = NoRow
    PROVE  IInv'
<1>1. TypeOK /\ Sound(r)
  BY DEF IInv
<1>2. \A q \in Requests \ {r} :
         /\ pc'[q] = pc[q] /\ intent'[q] = intent[q]
         /\ new'[q] = new[q] /\ reply'[q] = reply[q]
         /\ \A i \in Ids : docLock[i] = q => docLock'[i] = q
         /\ \A i \in Ids : dirty[i] = q => dirty'[i] = q
  BY <1>1 DEF Finish, Goto, TypeOK
<1>3. pc'[r] = "done" /\ reply'[r] = what
  BY <1>1 DEF Finish, Goto, TypeOK
<1>4. Creates(r)' = Creates(r) /\ Writes(r)' = Writes(r) /\ Target(r)' = Target(r)
  BY DEF Creates, Writes, Target
<1>5. Sound(r)'
  BY <1>1, <1>3, <1>4 DEF Sound, Flow, Locked, Checked, Pending, SlugHeld, Inserting, Seen, Missed
<1> QED BY <1>2, <1>5, StatementKeeps

(* What the other requests keep in a step of r that only moves r on, or that
   takes a lock or a row nobody holds. *)
Aside(r) ==
    /\ UNCHANGED <<rows, tombs, reply>>
    /\ \A q \in Requests \ {r} : pc'[q] = pc[q] /\ intent'[q] = intent[q] /\ new'[q] = new[q]
    /\ \A q \in Requests \ {r}, i \in Ids : docLock[i] = q => docLock'[i] = q
    /\ \A q \in Requests \ {r}, i \in Ids : dirty[i] = q => dirty'[i] = q

LEMMA AsideKeeps ==
    ASSUME IInv, TypeOK', NEW r \in Requests, Aside(r), Sound(r)'
    PROVE  IInv'
  BY StatementKeeps DEF Aside

LEMMA LoadKeeps ==
    ASSUME IInv, TypeOK', NEW r \in Requests, AcceptCreate(r) \/ LoadAndAuthorize(r)
    PROVE  IInv'
<1>1. TypeOK /\ Sound(r)
  BY DEF IInv
<1>2. Aside(r) /\ pc[r] = "load" /\ pc'[r] = "begin"
  BY <1>1 DEF Aside, AcceptCreate, LoadAndAuthorize, Goto, TypeOK
<1>3. CASE AcceptCreate(r)
  <2>1. Creates(r)' /\ ~Writes(r)'
    BY <1>1, <1>3 DEF AcceptCreate, Creates, Writes, CreateIntent, WriteIntent, TypeOK
  <2>2. intent'[r].op # "delete" /\ intent'[r].op # "replace"
    BY <2>1 DEF Creates, CreateIntent
  <2> QED BY <1>1, <1>2, <2>1, <2>2, AsideKeeps
             DEF Sound, Flow, Locked, Checked, Pending, SlugHeld, Inserting, Seen, Missed, Aside
<1>4. CASE LoadAndAuthorize(r)
  <2>1. PICK i \in Ids, op \in {"replace", "delete"} :
           rows[i] # NoRow /\ intent'[r] = [op |-> op, id |-> i, seen |-> rows[i]]
    BY <1>1, <1>4 DEF LoadAndAuthorize, TypeOK
  <2>2. rows[i] \in Row
    BY <1>1, <2>1 DEF TypeOK
  <2>3. Writes(r)' /\ ~Creates(r)' /\ Target(r)' = i /\ intent'[r].seen = rows[i]
    BY <2>1, <2>2 DEF Writes, Creates, Target, WriteIntent, CreateIntent
  <2>4. Seen(r)'
    BY <1>2, <2>1, <2>2, <2>3 DEF Seen, Aside, Row
  <2> QED BY <1>1, <1>2, <2>3, <2>4, AsideKeeps
             DEF Sound, Flow, Locked, Checked, Pending, SlugHeld, Inserting, Missed, Aside
<1> QED BY <1>3, <1>4

LEMMA BeginKeeps ==
    ASSUME IInv, TypeOK', NEW r \in Requests, Begin(r) PROVE IInv'
<1>1. TypeOK /\ Sound(r)
  BY DEF IInv
<1>2. Aside(r) /\ pc[r] = "begin" /\ UNCHANGED intent
      /\ pc'[r] = IF intent[r].op = "replace" THEN "write" ELSE "lock"
  BY <1>1 DEF Aside, Begin, Goto, TypeOK
<1>3. Creates(r)' = Creates(r) /\ Writes(r)' = Writes(r) /\ Target(r)' = Target(r)
  BY <1>2 DEF Creates, Writes, Target
<1>4. Sound(r)'
  BY <1>1, <1>2, <1>3, IntentTyped
     DEF Sound, Flow, Locked, Checked, Pending, SlugHeld, Inserting, Seen, Missed, Aside
<1> QED BY <1>2, <1>4, AsideKeeps

LEMMA LockKeeps ==
    ASSUME IInv, TypeOK', NEW r \in Requests, LockDocument(r) PROVE IInv'
<1>1. TypeOK /\ Sound(r)
  BY DEF IInv
<1>2. Target(r) \in Ids
  BY <1>1, IntentTyped DEF LockDocument, Sound, Flow, Target
<1>3. Aside(r) /\ pc[r] = "lock" /\ UNCHANGED intent /\ docLock'[Target(r)] = r
      /\ pc'[r] = IF intent[r].op = "create" THEN "check" ELSE "write"
  BY <1>1, <1>2, StoreAssumption DEF Aside, LockDocument, Goto, TypeOK, Target
<1>4. Creates(r)' = Creates(r) /\ Writes(r)' = Writes(r) /\ Target(r)' = Target(r)
  BY <1>3 DEF Creates, Writes, Target
<1>5. Sound(r)'
  BY <1>1, <1>3, <1>4, IntentTyped
     DEF Sound, Flow, Locked, Checked, Pending, SlugHeld, Inserting, Seen, Missed, Aside
<1> QED BY <1>3, <1>5, AsideKeeps

LEMMA CheckKeeps ==
    ASSUME IInv, TypeOK', NEW r \in Requests, RequireNotTombstoned(r) PROVE IInv'
<1>1. TypeOK /\ Sound(r)
  BY DEF IInv
<1>2. CASE Target(r) \in tombs
  BY <1>2, FinishKeeps DEF RequireNotTombstoned, Target
<1>3. CASE Target(r) \notin tombs
  <2>1. Aside(r) /\ pc[r] = "check" /\ pc'[r] = "write" /\ UNCHANGED <<intent, docLock>>
    BY <1>1, <1>3 DEF Aside, RequireNotTombstoned, Goto, TypeOK, Target
  <2>2. Creates(r)' = Creates(r) /\ Writes(r)' = Writes(r) /\ Target(r)' = Target(r)
    BY <2>1 DEF Creates, Writes, Target
  <2>3. Sound(r)'
    BY <1>1, <1>3, <2>1, <2>2
       DEF Sound, Flow, Locked, Checked, Pending, SlugHeld, Inserting, Seen, Missed, Aside
  <2> QED BY <2>1, <2>3, AsideKeeps
<1> QED BY <1>2, <1>3

LEMMA InsertKeeps ==
    ASSUME IInv, TypeOK', NEW r \in Requests, Insert(r) PROVE IInv'
<1>1. TypeOK /\ \A q \in Requests : Sound(q)
  BY DEF IInv
<1>2. Creates(r) /\ ~Writes(r) /\ Target(r) \in Ids /\ intent[r].slug \in Slugs
  BY <1>1, IntentTyped DEF Insert, Target
<1> DEFINE i == Target(r)
           s == intent[r].slug
           Conflicting(j) == j = i \/ HoldsSlug(j, s)
           Taken == \E j \in Ids : Conflicting(j) /\ rows[j] # NoRow
<1>3. CASE Taken
  <2>1. Finish(r, "exists") /\ UNCHANGED <<rows, tombs, intent, start, new>>
    BY <1>3 DEF Insert, Target
  <2> QED BY <2>1, FinishKeeps
<1>4. CASE ~Taken
  <2>1. /\ Aside(r) /\ pc[r] = "write" /\ pc'[r] = "commit" /\ UNCHANGED <<intent, docLock>>
        /\ dirty'[i] = r /\ new'[r] = [slug |-> s, gen |-> start[r], doc |-> r]
    BY <1>1, <1>2, <1>4, StoreAssumption DEF Aside, Insert, Goto, TypeOK, Target
  <2>2. Creates(r)' = Creates(r) /\ Writes(r)' = Writes(r) /\ Target(r)' = Target(r)
    BY <2>1 DEF Creates, Writes, Target
  <2>3. \A j \in Ids : rows[j] # NoRow => rows[j].slug # s
    BY <1>4 DEF HoldsSlug
  <2>4. ASSUME NEW q \in Requests, q # r, Inserting(q), intent[q].slug = s PROVE FALSE
    <3>1. Target(q) \in Ids /\ dirty[Target(q)] = q /\ new[q] \in Row /\ new[q].slug = s
      BY <1>1, <2>4, IntentTyped DEF Sound, Pending, Inserting, Target
    <3>2. HoldsSlug(Target(q), s)
      BY <3>1, StoreAssumption DEF HoldsSlug
    <3>3. dirty[Target(q)] = Nobody
      BY <3>1, <3>2 DEF Insert
    <3> QED BY <3>1, <3>3, StoreAssumption
  <2>5. SlugHeld(r)'
    <3>1. \A q \in Requests \ {r} : Inserting(q)' = Inserting(q) /\ intent'[q] = intent[q]
      BY <2>1 DEF Inserting, Creates, Aside
    <3> QED BY <2>1, <2>3, <2>4, <3>1 DEF SlugHeld, Aside
  <2>6. Pending(r)'
    <3>1. new'[r] \in Row /\ new'[r].slug = s /\ new'[r].doc = r
      BY <1>1, <1>2, <2>1 DEF Row, TypeOK
    <3>2. rows[i] = NoRow
      BY <1>2, <1>4
    <3>3. intent[r].op = "create"
      BY DEF Insert
    <3> QED BY <1>2, <2>1, <2>2, <3>1, <3>2, <3>3 DEF Pending, Aside
  <2>7. Sound(r)'
    BY <1>1, <1>2, <2>1, <2>2, <2>5, <2>6 DEF Sound, Flow, Locked, Checked, Seen, Missed, Aside
  <2> QED BY <2>1, <2>7, AsideKeeps
<1> QED BY <1>3, <1>4

(* What makes a conditional write sound: the row that still carries the
   generation the request loaded is the row it loaded. *)
LEMMA CurrentIsSeen ==
    ASSUME IInv, NEW r \in Requests, Writes(r), StillCurrent(r)
    PROVE  rows[Target(r)] = intent[r].seen /\ rows[Target(r)] # NoRow
  BY DEF IInv, Sound, Seen, StillCurrent, Target

LEMMA NotCurrentIsNotSeen ==
    ASSUME TypeOK, NEW r \in Requests, Writes(r), ~StillCurrent(r)
    PROVE  rows[Target(r)] # intent[r].seen
  BY IntentTyped, StoreAssumption DEF StillCurrent, Target

LEMMA UpdateKeeps ==
    ASSUME IInv, TypeOK', NEW r \in Requests, Update(r) PROVE IInv'
<1>1. TypeOK /\ Sound(r)
  BY DEF IInv
<1>2. Writes(r) /\ ~Creates(r) /\ Target(r) \in Ids /\ intent[r].seen \in Row
  BY <1>1, IntentTyped DEF Update, Target
<1>3. UNCHANGED intent
  BY DEF Update
<1>4. Creates(r)' = Creates(r) /\ Writes(r)' = Writes(r) /\ Target(r)' = Target(r)
  BY <1>3 DEF Creates, Writes, Target
<1>5. CASE StillCurrent(r)
  <2>1. rows[Target(r)] = intent[r].seen /\ rows[Target(r)] # NoRow
    BY <1>2, <1>5, CurrentIsSeen
  <2> DEFINE old == rows[Target(r)]
  <2>2. /\ Aside(r) /\ pc[r] = "write" /\ pc'[r] = "commit" /\ UNCHANGED docLock
        /\ dirty'[Target(r)] = r
        /\ new'[r] = [slug |-> old.slug, gen |-> NextGen(old.gen, start[r]), doc |-> r]
    BY <1>1, <1>2, <1>5, <2>1, StoreAssumption DEF Aside, Update, Goto, TypeOK, Target
  <2>3. NextGen(old.gen, start[r]) \in Nat /\ NextGen(old.gen, start[r]) > old.gen
    BY <1>1, <1>2, <2>1, NextGenGrows DEF TypeOK, Row
  <2>4. new'[r] \in Row /\ new'[r].slug = old.slug /\ new'[r].doc = r /\ new'[r].gen > old.gen
    BY <1>2, <2>1, <2>2, <2>3 DEF Row
  <2>5. Pending(r)'
    BY <1>2, <1>3, <1>4, <2>1, <2>2, <2>4 DEF Pending, Aside
  <2>6. Sound(r)'
    BY <1>1, <1>2, <1>3, <1>4, <2>2, <2>5, IntentTyped
       DEF Sound, Flow, Locked, Checked, SlugHeld, Inserting, Seen, Missed, Aside
  <2> QED BY <2>2, <2>6, AsideKeeps
<1>6. CASE ~StillCurrent(r)
  <2>1. Aside(r) /\ pc[r] = "write" /\ pc'[r] = "classify" /\ UNCHANGED docLock
    BY <1>1, <1>6 DEF Aside, Update, Goto, TypeOK
  <2>2. Sound(r)'
    BY <1>1, <1>2, <1>3, <1>4, <1>6, <2>1, NotCurrentIsNotSeen
       DEF Sound, Flow, Locked, Checked, Pending, SlugHeld, Inserting, Seen, Missed, Aside
  <2> QED BY <2>1, <2>2, AsideKeeps
<1> QED BY <1>5, <1>6

LEMMA DeleteKeeps ==
    ASSUME IInv, TypeOK', NEW r \in Requests, DeleteRow(r) PROVE IInv'
<1>1. TypeOK /\ Sound(r)
  BY DEF IInv
<1>2. Writes(r) /\ ~Creates(r) /\ Target(r) \in Ids /\ intent[r].op # "replace"
  BY <1>1, IntentTyped DEF DeleteRow, Target
<1>3. UNCHANGED <<intent, docLock, new>> /\ pc[r] = "write"
  BY DEF DeleteRow
<1>4. Creates(r)' = Creates(r) /\ Writes(r)' = Writes(r) /\ Target(r)' = Target(r)
  BY <1>3 DEF Creates, Writes, Target
<1>5. CASE StillCurrent(r)
  <2>1. rows[Target(r)] = intent[r].seen /\ rows[Target(r)] # NoRow
    BY <1>2, <1>5, CurrentIsSeen
  <2>2. Aside(r) /\ pc'[r] = "commit" /\ dirty'[Target(r)] = r
    BY <1>1, <1>2, <1>5, <2>1, StoreAssumption DEF Aside, DeleteRow, Goto, TypeOK, Target
  <2>3. Pending(r)'
    BY <1>2, <1>3, <1>4, <2>1, <2>2 DEF Pending, Aside
  <2>4. Sound(r)'
    BY <1>1, <1>2, <1>3, <1>4, <2>2, <2>3
       DEF Sound, Flow, Locked, Checked, SlugHeld, Inserting, Seen, Missed, Aside
  <2> QED BY <2>2, <2>4, AsideKeeps
<1>6. CASE ~StillCurrent(r)
  <2>1. Aside(r) /\ pc'[r] = "classify"
    BY <1>1, <1>6 DEF Aside, DeleteRow, Goto, TypeOK
  <2>2. Sound(r)'
    BY <1>1, <1>2, <1>3, <1>4, <1>6, <2>1, NotCurrentIsNotSeen
       DEF Sound, Flow, Locked, Checked, Pending, SlugHeld, Inserting, Seen, Missed, Aside
  <2> QED BY <2>1, <2>2, AsideKeeps
<1> QED BY <1>5, <1>6

(* The commit of r disturbs only its own id.  Another open transaction on that
   id cannot depend on its row: the row is r's uncommitted one. *)
LEMMA CommitKeeps ==
    ASSUME IInv, TypeOK', NEW r \in Requests, Commit(r) PROVE IInv'
<1>1. TypeOK /\ (\A q \in Requests : Sound(q)) /\ NoResurrection /\ SlugsUnique
  BY DEF IInv
<1> DEFINE i == Target(r)
<1>2. pc[r] = "commit" /\ UNCHANGED <<intent, start, new>>
  BY DEF Commit
<1>3. i \in Ids /\ (Creates(r) \/ Writes(r)) /\ ~(Creates(r) /\ Writes(r))
  BY <1>1, <1>2, IntentTyped DEF Sound, Flow, Target
<1>4. \A q \in Requests : Creates(q)' = Creates(q) /\ Writes(q)' = Writes(q) /\ Target(q)' = Target(q)
  BY <1>2 DEF Creates, Writes, Target
<1>5. \A q \in Requests : Creates(q) \/ Writes(q) => Target(q) \in Ids
  BY <1>1, IntentTyped DEF Target
<1>6. /\ pc'[r] = "done" /\ reply'[r] \in {"ok", "error"}
      /\ \A q \in Requests \ {r} :
           /\ pc'[q] = pc[q] /\ reply'[q] = reply[q]
           /\ \A j \in Ids : docLock[j] = q => docLock'[j] = q
           /\ \A j \in Ids : dirty[j] = q => dirty'[j] = q
  BY <1>1 DEF Commit, Finish, Goto, TypeOK
<1>7. \A j \in Ids \ {i} : rows'[j] = rows[j] /\ (j \in tombs' <=> j \in tombs)
  BY <1>1 DEF Commit, Apply, TypeOK, Target
<1>8. \/ intent[r].op = "delete" /\ rows'[i] = NoRow /\ i \in tombs'
      \/ Creates(r) /\ rows'[i] = new[r] /\ i \notin tombs' /\ new[r] \in Row
      \/ intent[r].op = "replace" /\ rows'[i] = new[r] /\ i \notin tombs' /\ new[r] \in Row
  <2>1. Writes(r) => i \notin tombs
    BY <1>1, <1>2, <1>3, IntentTyped, StoreAssumption DEF Sound, Pending, NoResurrection
  <2>2. Creates(r) => i \notin tombs
    BY <1>1, <1>2 DEF Sound, Checked
  <2> QED BY <1>1, <1>2, <1>3, <2>1, <2>2, IntentTyped DEF Commit, Apply, Sound, Pending, TypeOK, Target
<1>9. new[r] \in Row => new[r] # NoRow
  BY StoreAssumption
<1>10. tombs \subseteq tombs'
  BY DEF Commit, Apply
<1>11. \A q \in Requests \ {r} : pc[q] = "commit" => Target(q) # i
  BY <1>1, <1>2 DEF Sound, Pending
<1>12. NoResurrection'
  BY <1>1, <1>7, <1>8 DEF NoResurrection, TypeOK
<1>13. rows'[i] # NoRow => \A j \in Ids \ {i} : rows[j] # NoRow => rows[j].slug # rows'[i].slug
  <2>1. CASE Creates(r)
    BY <1>1, <1>2, <1>3, <1>8, <2>1, IntentTyped DEF Sound, Pending, SlugHeld, Inserting
  <2>2. CASE Writes(r)
    <3>1. rows[i] = intent[r].seen /\ rows[i] # NoRow
      BY <1>1, <1>2, <2>2, IntentTyped, StoreAssumption DEF Sound, Pending
    <3>2. intent[r].op = "replace" => rows'[i].slug = rows[i].slug
      BY <1>1, <1>2, <1>3, <1>8, <2>2, <3>1, IntentTyped DEF Sound, Pending
    <3> QED BY <1>1, <1>3, <1>8, <2>2, <3>1, <3>2, IntentTyped DEF SlugsUnique
  <2> QED BY <1>3, <2>1, <2>2
<1>14. SlugsUnique'
  BY <1>1, <1>3, <1>7, <1>13 DEF SlugsUnique
<1>15. Sound(r)'
  <2>1. Seen(r)'
    <3> SUFFICES ASSUME Writes(r) PROVE Seen(r)'
      BY <1>4 DEF Seen
    <3>1. intent[r].op = "replace" => new[r].gen > intent[r].seen.gen /\ rows'[i] = new[r]
      BY <1>1, <1>2, <1>3, <1>8, IntentTyped DEF Sound, Pending
    <3>2. intent[r].seen.gen \in Nat /\ (new[r] \in Row => new[r].gen \in Nat)
      BY <1>1, IntentTyped DEF Row
    <3> QED BY <1>2, <1>3, <1>4, <1>8, <1>9, <3>1, <3>2, IntentTyped, <1>1 DEF Seen
  <2> QED BY <1>1, <1>2, <1>4, <1>6, <2>1 DEF Sound, Flow, Locked, Checked, Pending, SlugHeld, Inserting, Missed
<1>16. ASSUME NEW q \in Requests, q # r PROVE Sound(q)'
  <2>1. Creates(q)' = Creates(q) /\ Writes(q)' = Writes(q) /\ Target(q)' = Target(q)
        /\ intent'[q] = intent[q] /\ new'[q] = new[q]
    BY <1>2, <1>4
  <2>2. pc'[q] = pc[q] /\ reply'[q] = reply[q]
    BY <1>6, <1>16
  <2>3. Flow(q)'
    BY <1>1, <2>1, <2>2 DEF Sound, Flow
  <2>4. Locked(q)'
    BY <1>1, <1>5, <1>6, <1>16, <2>1, <2>2, IntentTyped DEF Sound, Locked
  <2>5. Checked(q)'
    <3> SUFFICES ASSUME Creates(q), pc[q] \in {"write", "commit"} PROVE Target(q) \notin tombs'
      BY <2>1, <2>2 DEF Checked
    <3>1. Target(q) \in Ids /\ Target(q) \notin tombs /\ docLock[Target(q)] = q
      BY <1>1, <1>5 DEF Sound, Checked, Locked, Target
    <3>2. intent[r].op = "delete" => docLock[i] = r
      BY <1>1, <1>2 DEF Sound, Locked, Target
    <3>3. i \in tombs' => intent[r].op = "delete"
      BY <1>1, <1>8, IntentTyped
    <3> QED BY <1>7, <1>16, <3>1, <3>2, <3>3
  <2>6. Pending(q)'
    BY <1>1, <1>5, <1>6, <1>7, <1>11, <1>16, <2>1, <2>2, <2>3 DEF Sound, Pending, Flow
  <2>7. SlugHeld(q)'
    <3>1. \A p \in Requests : Inserting(p)' => Inserting(p) /\ p # r
      BY <1>4, <1>6 DEF Inserting
    <3>2. ASSUME Inserting(q), rows'[i] # NoRow PROVE rows'[i].slug # intent[q].slug
      <4>1. CASE Creates(r)
        BY <1>1, <1>2, <1>8, <1>16, <3>2, <4>1, IntentTyped DEF Sound, SlugHeld, Inserting, Pending
      <4>2. CASE intent[r].op = "replace"
        <5>1. rows[i] = intent[r].seen /\ rows[i] # NoRow /\ rows'[i].slug = rows[i].slug
          BY <1>1, <1>2, <1>8, <4>2, IntentTyped, StoreAssumption DEF Sound, Pending
        <5> QED BY <1>1, <1>3, <3>2, <5>1 DEF Sound, SlugHeld
      <4> QED BY <1>8, <3>2, <4>1, <4>2
    <3>3. intent' = intent
      BY <1>2
    <3> QED BY <1>1, <1>3, <1>7, <3>1, <3>2, <3>3 DEF Sound, SlugHeld
  <2>8. Seen(q)' /\ (Writes(q) /\ rows[Target(q)] # intent[q].seen => rows'[Target(q)] # intent[q].seen)
    <3> SUFFICES ASSUME Writes(q)
                 PROVE  Seen(q)' /\ (rows[Target(q)] # intent[q].seen => rows'[Target(q)] # intent[q].seen)
      BY <2>1 DEF Seen
    <3>1. CASE Target(q) # i
      BY <1>1, <1>5, <1>7, <2>1, <3>1 DEF Sound, Seen
    <3>2. CASE Target(q) = i /\ intent[r].op = "delete"
      <4>1. rows'[i] = NoRow /\ i \in tombs' /\ intent[q].seen # NoRow
        BY <1>1, <1>8, <3>2, IntentTyped, StoreAssumption
      <4> QED BY <2>1, <3>2, <4>1 DEF Seen
    <3>3. CASE Target(q) = i /\ Creates(r)
      <4>1. rows[i] = NoRow /\ i \notin tombs
        BY <1>1, <1>2, <3>3 DEF Sound, Pending, Checked
      <4> QED BY <1>1, <3>3, <4>1 DEF Sound, Seen
    <3>4. CASE Target(q) = i /\ intent[r].op = "replace"
      <4>1. rows[i] = intent[r].seen /\ rows[i] # NoRow /\ rows[i] \in Row
        BY <1>1, <1>2, <3>4, IntentTyped, StoreAssumption DEF Sound, Pending
      <4>2. rows'[i] = new[r] /\ new[r] \in Row /\ new[r].gen > rows[i].gen
        BY <1>1, <1>2, <1>8, <3>4, <4>1, IntentTyped DEF Sound, Pending
      <4>3. rows[i].gen >= intent[q].seen.gen
        BY <1>1, <3>4, <4>1 DEF Sound, Seen
      <4>4. intent[q].seen.gen \in Nat /\ rows[i].gen \in Nat /\ new[r].gen \in Nat
        BY <1>1, <4>1, <4>2, IntentTyped DEF Row
      <4>5. rows'[i].gen >= intent[q].seen.gen /\ rows'[i].gen # intent[q].seen.gen
        BY <4>2, <4>3, <4>4
      <4> QED BY <1>9, <2>1, <3>4, <4>2, <4>5 DEF Seen
    <3> QED BY <1>8, <3>1, <3>2, <3>3, <3>4
  <2>9. Missed(q)'
    BY <1>1, <2>1, <2>2, <2>8 DEF Sound, Flow, Missed
  <2> QED BY <1>1, <1>10, <2>1, <2>2, <2>3, <2>4, <2>5, <2>6, <2>7, <2>8, <2>9 DEF Sound
<1> QED BY <1>12, <1>14, <1>15, <1>16 DEF IInv

LEMMA IInvStep == IInv /\ [Next]_vars => IInv'
<1> SUFFICES ASSUME IInv, [Next]_vars PROVE IInv'
  OBVIOUS
<1>1. TypeOK'
  BY TypeStep DEF IInv
<1>2. ASSUME NEW r \in Requests, AcceptCreate(r) \/ LoadAndAuthorize(r) PROVE IInv'
  BY <1>1, <1>2, LoadKeeps
<1>3. ASSUME NEW r \in Requests, Reject(r) PROVE IInv'
  <2>1. ~Writes(r)
    BY <1>3, IntentTyped DEF IInv, Sound, Flow, Reject, NoOp
  <2> QED BY <1>1, <1>3, <2>1, FinishKeeps DEF Reject
<1>4. ASSUME NEW r \in Requests, Classify(r) PROVE IInv'
  BY <1>1, <1>4, FinishKeeps DEF Classify, Target
<1>5. ASSUME NEW r \in Requests, Abort(r) PROVE IInv'
  BY <1>1, <1>5, FinishKeeps DEF Abort
<1>6. CASE UNCHANGED vars
  BY <1>6 DEF vars, IInv, TypeOK, NoResurrection, SlugsUnique, Sound, Flow, Locked, Checked,
              Pending, SlugHeld, Inserting, Seen, Missed, Creates, Writes, Target
<1> QED
  BY <1>1, <1>2, <1>3, <1>4, <1>5, <1>6, BeginKeeps, LockKeeps, CheckKeeps, InsertKeeps, UpdateKeeps,
     DeleteKeeps, CommitKeeps DEF Next, Arrive, Step, AllServed

LEMMA Invariance == Spec => []IInv
<1>1. Init => IInv BY IInvInit
<1>2. IInv /\ [Next]_vars => IInv' BY IInvStep
<1> QED BY <1>1, <1>2, PTL DEF Spec

-----------------------------------------------------------------------------
(* Theorems *)

(* A tombstoned id never has a row again, for any number of creates, deletes
   and replays racing for it (lockDocumentID, requireNotTombstoned). *)
THEOREM NoResurrectionHolds == Spec => []NoResurrection
<1>1. IInv => NoResurrection BY DEF IInv
<1> QED BY <1>1, Invariance, PTL

(* Live documents never share a slug. *)
THEOREM SlugsUniqueHolds == Spec => []SlugsUnique
<1>1. IInv => SlugsUnique BY DEF IInv
<1> QED BY <1>1, Invariance, PTL

(* The generation token: equal updated_at means the same version, whatever the
   clocks of the transactions read (dp1_feed_set_updated_at). *)
THEOREM TokenNamesVersionHolds == Spec => []TokenNamesVersion
<1>1. IInv => TokenNamesVersion
  BY DEF IInv, TokenNamesVersion, Sound, Seen, Writes, Target
<1> QED BY <1>1, Invariance, PTL

(* A 404 answered to an authorized write is final. *)
THEOREM NotFoundIsFinalHolds == Spec => []NotFoundIsFinal
<1>1. IInv => NotFoundIsFinal
  BY DEF IInv, NotFoundIsFinal, Sound, Writes, Target
<1> QED BY <1>1, Invariance, PTL

(* What a step does to the committed rows: only a commit changes them, and at
   the id of its own request only. *)
LEMMA RowsChangeByCommit ==
    ASSUME TypeOK, [Next]_vars, NEW i \in Ids, rows'[i] # rows[i]
    PROVE  \E r \in Requests : Commit(r) /\ Target(r) = i
<1>1. \A r \in Requests : Commit(r) => Target(r) = i
  BY DEF Commit, Apply, TypeOK, Target
<1>2. \A r \in Requests : ~AcceptCreate(r) /\ ~LoadAndAuthorize(r) /\ ~Reject(r)
  BY DEF AcceptCreate, LoadAndAuthorize, Reject
<1>3. \A r \in Requests : ~Begin(r) /\ ~LockDocument(r) /\ ~RequireNotTombstoned(r)
  BY DEF Begin, LockDocument, RequireNotTombstoned
<1>4. \A r \in Requests : ~Insert(r) /\ ~Update(r) /\ ~DeleteRow(r) /\ ~Classify(r) /\ ~Abort(r)
  BY DEF Insert, Update, DeleteRow, Classify, Abort
<1> QED BY <1>1, <1>2, <1>3, <1>4 DEF Next, Arrive, Step, AllServed, vars

(* A committed document changes only by a request authorized on that very
   version: no lost update, no write redirected through a reused slug. *)
THEOREM OnlyAuthorizedWritesHolds == Spec => OnlyAuthorizedWrites
<1>1. ASSUME IInv, [Next]_vars, NEW i \in Ids, rows[i] # NoRow, rows'[i] # rows[i]
      PROVE  \E r \in Requests :
                /\ pc[r] = "commit" /\ pc'[r] = "done"
                /\ intent[r] \in WriteIntent /\ intent[r].id = i /\ intent[r].seen = rows[i]
  <2>1. PICK r \in Requests : Commit(r) /\ Target(r) = i
    BY <1>1, RowsChangeByCommit DEF IInv
  <2>2. pc[r] = "commit" /\ pc'[r] = "done"
    BY <1>1, <2>1 DEF Commit, Finish, Goto, IInv, TypeOK
  <2>3. Writes(r) /\ intent[r].seen = rows[i]
    BY <1>1, <2>1, <2>2 DEF IInv, Sound, Flow, Pending
  <2> QED BY <2>1, <2>2, <2>3 DEF Writes, Target
<1>2. IInv /\ [Next]_vars =>
        [\A i \in Ids : rows[i] # NoRow /\ rows'[i] # rows[i] =>
           \E r \in Requests :
              /\ pc[r] = "commit" /\ pc'[r] = "done"
              /\ intent[r] \in WriteIntent /\ intent[r].id = i /\ intent[r].seen = rows[i]]_vars
  BY <1>1
<1> QED BY <1>2, Invariance, PTL DEF Spec, OnlyAuthorizedWrites

-----------------------------------------------------------------------------
(* DocumentStore implements DocumentLifecycle *)

LEMMA ShownValues ==
    ASSUME IInv, NEW i \in Ids
    PROVE  /\ Life!IsLive(i) <=> rows[i] # NoRow
           /\ rows[i] # NoRow => ShownDocs[i] = rows[i]
           /\ ShownDocs[i] = NoRow <=> rows[i] = NoRow /\ i \notin tombs
           /\ ShownDocs[i] = Deleted <=> i \in tombs
  BY StoreAssumption DEF IInv, TypeOK, NoResurrection, ShownDocs, Life!IsLive, Life!Version, Row

LEMMA SlugTakenValue ==
    ASSUME IInv, NEW s \in Slugs
    PROVE  Life!SlugTaken(s) <=> \E i \in Ids : rows[i] # NoRow /\ rows[i].slug = s
  BY ShownValues DEF Life!SlugTaken

LEMMA FinishAnswers ==
    ASSUME TypeOK, NEW r \in Requests, NEW what, Finish(r, what), Sound(r), pc[r] # "done"
    PROVE  Life!Answer(r, what)
  BY DEF Finish, Sound, Flow, Life!Answer

(* Every step is a step of the abstract table or changes nothing it shows. *)
LEMMA LifecycleStep == IInv /\ [Next]_vars => [Life!Next]_(Life!vars)
<1> SUFFICES ASSUME IInv, [Next]_vars PROVE [Life!Next]_(Life!vars)
  OBVIOUS
<1>1. TypeOK /\ (\A r \in Requests : Sound(r)) /\ NoResurrection
  BY DEF IInv
<1>2. UNCHANGED <<rows, tombs>> => UNCHANGED ShownDocs
  BY DEF ShownDocs
<1>3. ASSUME NEW r \in Requests, AcceptCreate(r) PROVE Life!Accept(r)
  BY <1>1, <1>2, <1>3 DEF AcceptCreate, Life!Accept, Sound, Flow, NoOp, Life!Nothing,
                          CreateIntent, Life!CreateIntent
<1>4. ASSUME NEW r \in Requests, LoadAndAuthorize(r) PROVE Life!Accept(r)
  <2>1. PICK i \in Ids, op \in {"replace", "delete"} :
           rows[i] # NoRow /\ intent' = [intent EXCEPT ![r] = [op |-> op, id |-> i, seen |-> rows[i]]]
    BY <1>4 DEF LoadAndAuthorize
  <2>2. Life!IsLive(i) /\ ShownDocs[i] = rows[i]
    BY <2>1, ShownValues
  <2>3. intent[r] = Life!Nothing /\ reply[r] = "none" /\ UNCHANGED <<ShownDocs, reply>>
    BY <1>1, <1>2, <1>4 DEF LoadAndAuthorize, Sound, Flow, NoOp, Life!Nothing
  <2> QED BY <2>1, <2>2, <2>3 DEF Life!Accept
<1>5. ASSUME NEW r \in Requests, Reject(r) PROVE Life!Fail(r)
  <2>1. intent[r] = Life!Nothing /\ UNCHANGED <<ShownDocs, intent>> /\ pc[r] # "done"
    BY <1>1, <1>2, <1>5 DEF Reject, Sound, Flow, NoOp, Life!Nothing
  <2> QED BY <1>1, <1>5, <2>1, FinishAnswers DEF Reject, Life!Fail
<1>6. ASSUME NEW r \in Requests, Abort(r) PROVE Life!Fail(r)
  <2>1. Life!Answer(r, "error") /\ reply'[r] = "error" /\ UNCHANGED <<ShownDocs, intent>>
    BY <1>1, <1>2, <1>6, FinishAnswers DEF Abort, Finish, TypeOK
  <2> QED BY <2>1 DEF Life!Fail
<1>7. ASSUME NEW r \in Requests, RequireNotTombstoned(r), intent[r].id \in tombs PROVE Life!Create(r)
  <2>1. intent[r].op = "create" /\ intent[r].id \in Ids
    BY <1>1, <1>7, IntentTyped DEF RequireNotTombstoned, Sound, Flow
  <2>2. Life!Answer(r, "deleted") /\ UNCHANGED <<ShownDocs, intent>>
    BY <1>1, <1>2, <1>7, FinishAnswers DEF RequireNotTombstoned
  <2> QED BY <1>7, <2>1, <2>2, ShownValues DEF Life!Create
<1>8. ASSUME NEW r \in Requests, Insert(r), pc'[r] # "commit" PROVE Life!Create(r)
  <2>1. intent[r].op = "create" /\ intent[r].id \in Ids /\ intent[r].slug \in Slugs
    BY <1>1, <1>8, IntentTyped DEF Insert
  <2>2. Finish(r, "exists") /\ UNCHANGED <<ShownDocs, intent>>
    BY <1>1, <1>2, <1>8 DEF Insert, Goto, TypeOK
  <2>3. PICK j \in Ids : (j = intent[r].id \/ HoldsSlug(j, intent[r].slug)) /\ rows[j] # NoRow
                         /\ dirty[j] = Nobody
    BY <1>1, <1>8 DEF Insert, Goto, TypeOK
  <2>4. j = intent[r].id \/ rows[j].slug = intent[r].slug
    BY <2>3 DEF HoldsSlug
  <2>5. Life!IsLive(intent[r].id) \/ Life!SlugTaken(intent[r].slug)
    BY <2>1, <2>3, <2>4, ShownValues, SlugTakenValue
  <2>6. Life!Answer(r, "exists")
    BY <1>1, <1>8, <2>2, FinishAnswers DEF Insert
  <2> QED BY <2>1, <2>2, <2>5, <2>6 DEF Life!Create
<1>9. ASSUME NEW r \in Requests, Classify(r) PROVE Life!Replace(r) \/ Life!Delete(r)
  <2> DEFINE i == intent[r].id
             what == IF rows[i] # NoRow THEN "conflict" ELSE "notfound"
  <2>1. Writes(r) /\ i \in Ids /\ intent[r].op \in {"replace", "delete"} /\ intent[r].seen \in Row
    BY <1>1, <1>9, IntentTyped DEF Classify, Sound, Flow, Target
  <2>2. Life!Answer(r, what) /\ UNCHANGED <<ShownDocs, intent>>
    BY <1>1, <1>2, <1>9, FinishAnswers DEF Classify
  <2>3. rows[i] = NoRow => ShownDocs[i] = Deleted
    BY <1>1, <2>1, ShownValues DEF Sound, Seen, Target
  <2>4. ShownDocs[i] # intent[r].seen
    BY <1>1, <1>9, <2>1, <2>3, ShownValues, StoreAssumption DEF Sound, Missed, Classify, Target
  <2>5. Life!Miss(r)
    BY <2>1, <2>2, <2>3, <2>4, ShownValues DEF Life!Miss
  <2> QED BY <2>1, <2>2, <2>5 DEF Life!Replace, Life!Delete
<1>10. ASSUME NEW r \in Requests, Commit(r) PROVE Life!Create(r) \/ Life!Replace(r) \/ Life!Delete(r)
  <2> DEFINE i == Target(r)
  <2>1. pc[r] = "commit" /\ UNCHANGED intent /\ (Creates(r) \/ Writes(r)) /\ i \in Ids
    BY <1>1, <1>10, IntentTyped DEF Commit, Sound, Flow, Target
  <2>2. Life!Acknowledge(r)
    BY <1>1, <1>10, <2>1, FinishAnswers DEF Commit, Life!Acknowledge
  <2>3. NoResurrection'
    BY <1>10, IInvStep DEF IInv
  <2>4. CASE Creates(r)
    <3>1. intent[r].op = "create" /\ rows' = [rows EXCEPT ![i] = new[r]] /\ tombs' = tombs
      BY <1>1, <1>10, <2>4, IntentTyped DEF Commit, Apply, Target
    <3>2. rows[i] = NoRow /\ i \notin tombs /\ new[r] \in [slug : {intent[r].slug}, gen : Nat, doc : {r}]
      BY <1>1, <2>1, <2>4 DEF Sound, Pending, Checked, Row
    <3>3. ShownDocs' = [ShownDocs EXCEPT ![i] = new[r]]
      BY <1>1, <2>1, <3>1, <3>2 DEF ShownDocs, TypeOK
    <3>4. Life!Store(r, i, intent[r].slug)
      BY <2>1, <3>2, <3>3 DEF Life!Store, ShownDocs
    <3>5. ShownDocs[i] = NoRow /\ ~Life!SlugTaken(intent[r].slug)
      BY <1>1, <2>1, <2>4, <3>2, ShownValues, SlugTakenValue, IntentTyped DEF Sound, SlugHeld, Inserting
    <3> QED BY <2>1, <2>2, <3>1, <3>4, <3>5 DEF Life!Create, Target
  <2>5. CASE intent[r].op = "replace"
    <3>1. rows' = [rows EXCEPT ![i] = new[r]] /\ tombs' = tombs
      BY <1>10, <2>5 DEF Commit, Apply, Target
    <3>2. /\ rows[i] = intent[r].seen /\ rows[i] # NoRow /\ new[r].gen > rows[i].gen
          /\ new[r] \in [slug : {rows[i].slug}, gen : Nat, doc : {r}]
      BY <1>1, <2>1, <2>5, IntentTyped, StoreAssumption DEF Sound, Pending, Row
    <3>3. ShownDocs[i] = rows[i] /\ i \notin tombs
      BY <1>1, <2>1, <3>2, ShownValues DEF NoResurrection
    <3>4. ShownDocs' = [ShownDocs EXCEPT ![i] = new[r]]
      BY <1>1, <2>1, <3>1, <3>3 DEF ShownDocs, TypeOK
    <3>5. Life!Store(r, i, ShownDocs[i].slug) /\ ShownDocs'[i].gen > ShownDocs[i].gen
      BY <2>1, <3>2, <3>3, <3>4 DEF Life!Store, ShownDocs
    <3> QED BY <2>1, <2>2, <2>5, <3>2, <3>3, <3>5 DEF Life!Replace, Target
  <2>6. CASE intent[r].op = "delete"
    <3>1. rows' = [rows EXCEPT ![i] = NoRow] /\ tombs' = tombs \cup {i}
      BY <1>10, <2>6 DEF Commit, Apply, Target
    <3>2. rows[i] = intent[r].seen /\ rows[i] # NoRow
      BY <1>1, <2>1, <2>6, IntentTyped, StoreAssumption DEF Sound, Pending
    <3>3. ShownDocs[i] = rows[i]
      BY <2>1, <3>2, ShownValues
    <3>4. ShownDocs' = [ShownDocs EXCEPT ![i] = Deleted]
      BY <1>1, <2>1, <3>1 DEF ShownDocs, TypeOK
    <3> QED BY <2>1, <2>2, <2>6, <3>2, <3>3, <3>4 DEF Life!Delete, Target
  <2> QED BY <1>1, <2>1, <2>4, <2>5, <2>6, IntentTyped
<1>11. ASSUME NEW r \in Requests, Begin(r) \/ LockDocument(r) \/ Update(r) \/ DeleteRow(r)
       PROVE UNCHANGED Life!vars
  BY <1>2, <1>11 DEF Begin, LockDocument, Update, DeleteRow, Life!vars
<1>12. ASSUME NEW r \in Requests, Insert(r), pc'[r] = "commit" PROVE UNCHANGED Life!vars
  BY <1>1, <1>2, <1>12 DEF Insert, Finish, Goto, TypeOK, Life!vars
<1>13. ASSUME NEW r \in Requests, RequireNotTombstoned(r), intent[r].id \notin tombs PROVE UNCHANGED Life!vars
  BY <1>2, <1>13 DEF RequireNotTombstoned, Life!vars
<1>14. CASE UNCHANGED vars
  BY <1>2, <1>14 DEF vars, Life!vars
<1> QED
  BY <1>3, <1>4, <1>5, <1>6, <1>7, <1>8, <1>9, <1>10, <1>11, <1>12, <1>13, <1>14
     DEF Next, Arrive, Step, AllServed, Life!Next

(* Clients cannot tell the transactional table from the atomic one. *)
THEOREM Refinement == Spec => ImplementsLifecycle
<1>1. Init => Life!Init
  BY DEF Init, Life!Init, ShownDocs, NoOp, Life!Nothing
<1>2. IInv /\ [Next]_vars => [Life!Next]_(Life!vars)
  BY LifecycleStep
<1> QED BY <1>1, <1>2, Invariance, PTL DEF Spec, Life!Spec, ImplementsLifecycle

-----------------------------------------------------------------------------
(* Waiting *)

(* Whoever holds an advisory lock has taken it, and whoever has written a row
   has nothing left to do but to commit. *)
Owned ==
    \A i \in Ids :
       /\ docLock[i] # Nobody => pc[docLock[i]] \in {"check", "write", "classify", "commit"}
       /\ dirty[i] # Nobody => pc[dirty[i]] = "commit"

(* The end of a transaction gives up all it held. *)
LEMMA FinishOwned ==
    ASSUME TypeOK, Owned, NEW r \in Requests, NEW what, Finish(r, what)
    PROVE  Owned'
<1> SUFFICES ASSUME NEW i \in Ids
             PROVE  /\ docLock'[i] # Nobody => pc'[docLock'[i]] \in {"check", "write", "classify", "commit"}
                    /\ dirty'[i] # Nobody => pc'[dirty'[i]] = "commit"
  BY DEF Owned
<1>1. docLock'[i] # Nobody => docLock[i] # r /\ docLock'[i] = docLock[i]
  BY DEF Finish
<1>2. dirty'[i] # Nobody => dirty[i] # r /\ dirty'[i] = dirty[i]
  BY DEF Finish
<1>3. \A q \in Requests : q # r => pc'[q] = pc[q]
  BY DEF Finish, Goto, TypeOK
<1> QED
  BY <1>1, <1>2, <1>3 DEF Owned, TypeOK

LEMMA OwnedKept == TypeOK /\ Owned /\ [Next]_vars => Owned'
<1> SUFFICES ASSUME TypeOK, Owned, [Next]_vars PROVE Owned'
  OBVIOUS
<1> USE StoreAssumption
<1>1. ASSUME NEW r \in Requests, AcceptCreate(r) \/ LoadAndAuthorize(r) \/ Begin(r) PROVE Owned'
  BY <1>1 DEF AcceptCreate, LoadAndAuthorize, Begin, Goto, Owned, TypeOK
<1>2. ASSUME NEW r \in Requests, Reject(r) \/ Classify(r) \/ Commit(r) \/ Abort(r) PROVE Owned'
  BY <1>2, FinishOwned DEF Reject, Classify, Commit, Abort
<1>3. ASSUME NEW r \in Requests, LockDocument(r) PROVE Owned'
  BY <1>3 DEF LockDocument, Goto, Owned, TypeOK
<1>4. ASSUME NEW r \in Requests, RequireNotTombstoned(r) PROVE Owned'
  <2>1. CASE intent[r].id \in tombs
    BY <1>4, <2>1, FinishOwned DEF RequireNotTombstoned
  <2>2. CASE intent[r].id \notin tombs
    BY <1>4, <2>2 DEF RequireNotTombstoned, Goto, Owned, TypeOK
  <2> QED
    BY <2>1, <2>2
<1>5. ASSUME NEW r \in Requests, Insert(r) PROVE Owned'
  <2>1. CASE Finish(r, "exists")
    BY <2>1, FinishOwned
  <2>2. CASE dirty' = [dirty EXCEPT ![intent[r].id] = r] /\ Goto(r, "commit") /\ UNCHANGED docLock
    BY <1>5, <2>2 DEF Insert, Goto, Owned, TypeOK
  <2> QED
    BY <1>5, <2>1, <2>2 DEF Insert
<1>6. ASSUME NEW r \in Requests, Update(r) \/ DeleteRow(r) PROVE Owned'
  <2>1. pc[r] = "write" /\ docLock' = docLock
    BY <1>6 DEF Update, DeleteRow
  <2>2. \/ dirty' = [dirty EXCEPT ![intent[r].id] = r] /\ Goto(r, "commit")
        \/ dirty' = dirty /\ Goto(r, "classify")
    BY <1>6 DEF Update, DeleteRow
  <2> QED
    BY <2>1, <2>2 DEF Goto, Owned, TypeOK
<1>7. CASE UNCHANGED vars
  BY <1>7 DEF vars, Owned
<1> QED
  BY <1>1, <1>2, <1>3, <1>4, <1>5, <1>6, <1>7 DEF Next, Arrive, Step, AllServed

(* The transactions of a table never wait for each other in a circle, whatever
   ids, rows and slugs they meet at (lockDocumentID, the row locks of the
   conditional writes and the unique index of slugs). *)
THEOREM NoDeadlockHolds == Spec => []NoDeadlock
<1>1. Init => Owned
  BY DEF Init, Owned
<1>2. IInv /\ Owned => NoDeadlock
  <2> SUFFICES ASSUME IInv, Owned, NEW S \in SUBSET Requests, S # {},
                      \A r \in S : \E q \in S : Blocks(q, r)
               PROVE  FALSE
    BY DEF NoDeadlock
  <2>1. ASSUME NEW r \in S PROVE pc[r] \in {"lock", "write"} /\ intent[r].id \in Ids
    <3>1. pc[r] \in {"lock", "write"}
      BY DEF Blocks
    <3>2. intent[r] \in {NoOp} \cup CreateIntent \cup WriteIntent /\ (Creates(r) \/ Writes(r))
      BY <3>1 DEF IInv, TypeOK, Sound, Flow
    <3> QED
      BY <3>1, <3>2, IntentShape DEF Creates, Writes
  <2>2. \A q \in S : q # Nobody /\ pc[q] # "commit"
    BY <2>1, StoreAssumption
  <2>3. ASSUME NEW r \in S PROVE pc[r] = "lock"
    <3>1. PICK q \in S : Blocks(q, r)
      OBVIOUS
    <3>2. pc[r] = "write" => \E j \in Ids : dirty[j] = q
      BY <2>1, <3>1 DEF Blocks
    <3>3. \A j \in Ids : dirty[j] # q
      BY <2>2 DEF Owned
    <3> QED
      BY <2>1, <3>2, <3>3
  <2>4. PICK r \in S : TRUE
    OBVIOUS
  <2>5. PICK q \in S : docLock[intent[r].id] = q
    BY <2>3 DEF Blocks
  <2>6. pc[q] \in {"check", "write", "classify", "commit"}
    BY <2>1, <2>2, <2>5 DEF Owned
  <2> QED
    BY <2>3, <2>6
<1>3. IInv => TypeOK
  BY DEF IInv
<1> QED
  BY <1>1, <1>2, <1>3, OwnedKept, Invariance, PTL DEF Spec
==============================================================================
