-------------------------- MODULE DocumentLifecycle --------------------------
(***************************************************************************)
(* What a document table of the feed promises its clients, with no locks,  *)
(* transactions or statements in sight: every request reads the table      *)
(* atomically, then writes it atomically, and is told what happened.       *)
(*                                                                         *)
(* An id goes absent -> live -> retired and never back.  A replace or a    *)
(* delete takes effect only on the very version its authorization was      *)
(* decided on.  A write whose reply is lost may or may not have happened.  *)
(* DocumentStore implements this specification.                            *)
(***************************************************************************)
EXTENDS Naturals

CONSTANTS Requests,  \* client requests, each served once
          Ids,       \* document ids, assigned by clients
          Slugs,     \* document slugs, assigned by clients
          Absent,    \* the value of an id never published
          Retired    \* the value of an id whose document was deleted

Ops == {"create", "replace", "delete"}

(* The stored version of a document: its slug, its generation token and the
   request whose signed bytes it holds. *)
Version == [slug : Slugs, gen : Nat, doc : Requests]

Replies == {"ok", "exists", "deleted", "conflict", "notfound", "refused", "error"}

VARIABLES docs,   \* docs[i]: Absent, Retired or the live version of id i
          intent, \* intent[r]: what request r asks for and the version it was authorized on
          reply   \* reply[r]: the answer to r, or "none"

vars == <<docs, intent, reply>>

Nothing == [op |-> "none"]
CreateIntent == [op : {"create"}, id : Ids, slug : Slugs]
WriteIntent == [op : {"replace", "delete"}, id : Ids, seen : Version]
Intent == {Nothing} \cup CreateIntent \cup WriteIntent

Init ==
    /\ docs = [i \in Ids |-> Absent]
    /\ intent = [r \in Requests |-> Nothing]
    /\ reply = [r \in Requests |-> "none"]

IsLive(i) == docs[i] \in Version
SlugTaken(s) == \E i \in Ids : IsLive(i) /\ docs[i].slug = s

(* A request is accepted: a create names its id and slug, a replace or a
   delete is authorized against the version that is live now. *)
Accept(r) ==
    /\ intent[r] = Nothing /\ reply[r] = "none"
    /\ \/ \E c \in CreateIntent : intent' = [intent EXCEPT ![r] = c]
       \/ \E i \in Ids, op \in {"replace", "delete"} :
            /\ IsLive(i)
            /\ intent' = [intent EXCEPT ![r] = [op |-> op, id |-> i, seen |-> docs[i]]]
    /\ UNCHANGED <<docs, reply>>

Answer(r, what) == reply[r] = "none" /\ reply' = [reply EXCEPT ![r] = what]

(* A request fails before it writes: not authorized, no such document, or an
   internal error.  Nothing is stored. *)
Fail(r) ==
    /\ Answer(r, "refused") \/ Answer(r, "notfound") \/ Answer(r, "error")
    /\ intent[r] = Nothing \/ reply'[r] = "error"
    /\ UNCHANGED <<docs, intent>>

(* The reply to a write that took effect: "ok", or "error" when the outcome of
   the commit was lost. *)
Acknowledge(r) == Answer(r, "ok") \/ Answer(r, "error")

(* Id i, and nothing else, comes to hold a version of r's document under slug s. *)
Store(r, i, s) ==
    /\ docs' = [docs EXCEPT ![i] = docs'[i]]
    /\ docs'[i] \in [slug : {s}, gen : Nat, doc : {r}]

Create(r) ==
    /\ intent[r].op = "create"
    /\ LET i == intent[r].id IN
       \/ /\ docs[i] = Absent /\ ~SlugTaken(intent[r].slug)
          /\ Store(r, i, intent[r].slug)
          /\ Acknowledge(r)
       \/ /\ docs[i] = Retired
          /\ Answer(r, "deleted") /\ UNCHANGED docs
       \/ /\ IsLive(i) \/ SlugTaken(intent[r].slug)
          /\ Answer(r, "exists") /\ UNCHANGED docs
    /\ UNCHANGED intent

(* A conditional write that finds another version, or none, than the one it
   was authorized on: 409 while the document lives, 404 once it is retired. *)
Miss(r) ==
    LET i == intent[r].id IN
    /\ docs[i] # intent[r].seen
    /\ \/ IsLive(i) /\ Answer(r, "conflict")
       \/ docs[i] = Retired /\ Answer(r, "notfound")
    /\ UNCHANGED docs

Replace(r) ==
    /\ intent[r].op = "replace"
    /\ LET i == intent[r].id IN
       \/ /\ docs[i] = intent[r].seen
          /\ Store(r, i, docs[i].slug) /\ docs'[i].gen > docs[i].gen
          /\ Acknowledge(r)
       \/ Miss(r)
    /\ UNCHANGED intent

Delete(r) ==
    /\ intent[r].op = "delete"
    /\ LET i == intent[r].id IN
       \/ /\ docs[i] = intent[r].seen
          /\ docs' = [docs EXCEPT ![i] = Retired]
          /\ Acknowledge(r)
       \/ Miss(r)
    /\ UNCHANGED intent

Next == \E r \in Requests : Accept(r) \/ Fail(r) \/ Create(r) \/ Replace(r) \/ Delete(r)

Spec == Init /\ [][Next]_vars

==============================================================================
