------------------------------ MODULE LogPipe ------------------------------
(***************************************************************************)
(* What the remote log sender promises those that log, flush and close,    *)
(* with no queue, no worker and no counters in sight: a pipe that may turn *)
(* a record away and may fail to deliver it, but never reorders or repeats *)
(* one and never says that what failed was sent.  StreamSender implements  *)
(* this specification.                                                     *)
(***************************************************************************)
EXTENDS Naturals, Sequences

CONSTANTS Records,  \* log calls, each made once
          Flushes,  \* calls of flush, each made once
          Closes,   \* calls of close, each made once
          BatchSize \* records of one delivery

VARIABLES status,   \* status[p]: what became of record p
          accepted, \* the records let in, in order
          closed,   \* nothing more is let in
          done,     \* nothing more is attempted
          before,   \* before[f]: what had been let in when f was called
          flushed,  \* flushed[f]: what the flush call f returned, "pending" until it did
          shut      \* shut[c]: the same for the close call c

vars == <<status, accepted, closed, done, before, flushed, shut>>

Init ==
    /\ status = [p \in Records |-> "new"]
    /\ accepted = <<>>
    /\ closed = FALSE /\ done = FALSE
    /\ before = [f \in Flushes |-> {}]
    /\ flushed = [f \in Flushes |-> "idle"]
    /\ shut = [c \in Closes |-> "idle"]

Attempted(p) == status[p] \in {"sent", "failed"}
NothingFailed == \A p \in Records : status[p] # "failed"

Accept(p) ==
    /\ status[p] = "new" /\ ~closed
    /\ status' = [status EXCEPT ![p] = "accepted"]
    /\ accepted' = Append(accepted, p)
    /\ UNCHANGED <<closed, done, before, flushed, shut>>

TurnAway(p) ==
    /\ status[p] = "new"
    /\ status' = [status EXCEPT ![p] = "dropped"]
    /\ UNCHANGED <<accepted, closed, done, before, flushed, shut>>

(* One delivery: the next few of the records let in, all with the same outcome. *)
Post ==
    /\ ~done
    /\ \E m, n \in 0 .. Len(accepted), outcome \in {"sent", "failed"} :
         /\ m < n /\ n <= m + BatchSize
         /\ \A i \in 1 .. Len(accepted) : Attempted(accepted[i]) <=> i <= m
         /\ status' = [p \in Records |->
              IF \E i \in m + 1 .. n : accepted[i] = p THEN outcome ELSE status[p]]
    /\ UNCHANGED <<accepted, closed, done, before, flushed, shut>>

(* All that was let in has been attempted, and nothing more will be let in. *)
Finish ==
    /\ closed /\ ~done
    /\ \A i \in 1 .. Len(accepted) : Attempted(accepted[i])
    /\ done' = TRUE
    /\ UNCHANGED <<status, accepted, closed, before, flushed, shut>>

CallFlush(f) ==
    /\ flushed[f] = "idle"
    /\ flushed' = [flushed EXCEPT ![f] = "pending"]
    /\ before' = [before EXCEPT ![f] = {accepted[i] : i \in 1 .. Len(accepted)}]
    /\ UNCHANGED <<status, accepted, closed, done, shut>>

(* It succeeds when all that was let in before it was sent, and fails only when
   some record did; its caller may give up. *)
FlushReturns(f) ==
    /\ flushed[f] = "pending"
    /\ \E what \in {"ok", "error", "timeout"} :
         /\ flushed' = [flushed EXCEPT ![f] = what]
         /\ what = "ok" => \A p \in before[f] : status[p] = "sent"
         /\ what = "error" => ~NothingFailed
    /\ UNCHANGED <<status, accepted, closed, done, before, shut>>

CallClose(c) ==
    /\ shut[c] = "idle"
    /\ shut' = [shut EXCEPT ![c] = "pending"]
    /\ closed' = TRUE
    /\ UNCHANGED <<status, accepted, done, before, flushed>>

(* It succeeds when nothing ever failed, and not before the pipe is done. *)
CloseReturns(c) ==
    /\ shut[c] = "pending"
    /\ \E what \in {"ok", "error", "timeout"} :
         /\ shut' = [shut EXCEPT ![c] = what]
         /\ what \in {"ok", "error"} => done /\ (what = "ok" <=> NothingFailed)
    /\ UNCHANGED <<status, accepted, closed, done, before, flushed>>

Next ==
    \/ Post \/ Finish
    \/ \E p \in Records : Accept(p) \/ TurnAway(p)
    \/ \E f \in Flushes : CallFlush(f) \/ FlushReturns(f)
    \/ \E c \in Closes : CallClose(c) \/ CloseReturns(c)

Spec == Init /\ [][Next]_vars
=============================================================================
