------------------------ MODULE StreamSender_proofs ------------------------
(***************************************************************************)
(* Proofs about StreamSender for every set of records and of calls and     *)
(* every limit.  What was accepted is laid out along the sender: the       *)
(* records attempted, then the batch, the record in hand and the queue     *)
(* (Layout), each once (Once).  A flush that is being served has found the *)
(* queue empty, so what was accepted before it is attempted or in the      *)
(* batch (ServedSeen); and no error is ever forgotten (Errors).  The same  *)
(* invariant makes every step one of LogPipe, or none of it.  A close is   *)
(* never lost (CloseAsked), and its drain has a number of steps left that  *)
(* only goes down.                                                         *)
(***************************************************************************)
EXTENDS StreamSender, SequenceTheorems, FiniteSetTheorems, FunctionTheorems, NaturalsInduction, TLAPS

RecordsTyped ==
    /\ status \in [Records -> {"new", "accepted", "dropped", "sent", "failed"}]
    /\ queue \in Seq(Records)
    /\ batch \in Seq(Records)
    /\ accepted \in Seq(Records)
    /\ inHand \in Records \cup {Nobody}

CountsTyped ==
    /\ size \in [Records -> Sizes]
    /\ pendingBytes \in Int
    /\ mu \in Records \cup {Nobody}
    /\ Len(queue) <= QueueSize

FlushesTyped ==
    /\ flusher \in [Flushes -> {"idle", "sending", "waiting", "answered ok", "answered error"} \cup Returned]
    /\ before \in [Flushes -> SUBSET Records]
    /\ serving \in Flushes \cup {Nobody}

ClosesTyped ==
    /\ closer \in [Closes -> {"idle", "waiting"} \cup Returned]
    /\ closed \in BOOLEAN /\ asked \in BOOLEAN /\ notice \in BOOLEAN

WorkerTyped ==
    /\ worker \in {"select", "mark", "append", "deliver", "drain", "final", "finish", "gone"}
    /\ mode \in {"one", "flush", "close"}
    /\ closeErr \in BOOLEAN /\ done \in BOOLEAN /\ lastErr \in BOOLEAN

HeldLen == IF inHand = Nobody THEN 0 ELSE 1

(* How many of the records accepted have been attempted. *)
Tried == Len(accepted) - Len(batch) - HeldLen - Len(queue)

IsAccepted(p) == \E i \in 1 .. Len(accepted) : accepted[i] = p

InBatch(p) == \E i \in 1 .. Len(batch) : batch[i] = p

Layout ==
    /\ Tried >= 0
    /\ \A i \in 1 .. Len(batch) : batch[i] = accepted[Tried + i]
    /\ inHand # Nobody => inHand = accepted[Tried + Len(batch) + 1]
    /\ \A i \in 1 .. Len(queue) : queue[i] = accepted[Tried + Len(batch) + HeldLen + i]

TriedFirst == \A i \in 1 .. Len(accepted) : Attempted(accepted[i]) <=> i <= Tried

(* Each accepted record is there once, and it is one whose call was admitted. *)
Once == \A i, j \in 1 .. Len(accepted) : accepted[i] = accepted[j] => i = j

Admissions == \A p \in Records : status[p] \in {"accepted", "sent", "failed"} <=> IsAccepted(p)

(* Where the worker is, and what it then has. *)
HandFlow ==
    /\ worker \in {"select", "drain", "final", "finish", "gone"} => inHand = Nobody
    /\ worker \in {"mark", "append"} => inHand # Nobody

BatchFlow ==
    /\ worker \in {"deliver", "final"} => batch # <<>>
    /\ worker \in {"finish", "gone"} => batch = <<>>

ModeFlow ==
    /\ worker = "select" => mode = "one"
    /\ worker \in {"drain", "final", "finish"} => mode \in {"flush", "close"}
    /\ worker = "gone" => mode = "close"

CloseFlow ==
    /\ asked => closed
    /\ mode = "close" => closed
    /\ mode = "close" /\ worker \in {"final", "finish", "gone"} => queue = <<>>

DoneFlow ==
    /\ done <=> worker = "gone"
    /\ done => (closeErr <=> lastErr)

Errors == lastErr <=> \E p \in Records : status[p] = "failed"

(* What was accepted before a flush, and the flush that is served. *)
FlushedKnown == \A f \in Flushes : \A p \in before[f] : IsAccepted(p)

ServedOnce ==
    /\ mode = "flush" => serving # Nobody
    /\ \A f \in Flushes : serving = f => flusher[f] \notin {"idle", "sending"}

ServedSeen ==
    mode = "flush" /\ worker \in {"final", "finish"} =>
        \A p \in before[serving] : Attempted(p) \/ InBatch(p)

AnsweredSent ==
    \A f \in Flushes : flusher[f] \in {"answered ok", "ok"} => \A p \in before[f] : status[p] = "sent"

-----------------------------------------------------------------------------
(* Types *)

LEMMA SizeFacts == Sizes \subseteq Nat /\ QueueSize \in Nat \ {0}
BY SenderAssumption

LEMMA NobodyFacts == Nobody \notin Records /\ Nobody \notin Flushes
BY SenderAssumption

LEMMA InitTyped == Init => RecordsTyped /\ CountsTyped /\ FlushesTyped /\ ClosesTyped /\ WorkerTyped
<1> SUFFICES ASSUME Init PROVE RecordsTyped /\ CountsTyped /\ FlushesTyped /\ ClosesTyped /\ WorkerTyped
  OBVIOUS
<1>1. RecordsTyped
  BY DEF Init, RecordsTyped
<1>2. CountsTyped
  <2>1. Len(queue) = 0
    BY DEF Init
  <2> QED
    BY <2>1, SizeFacts DEF Init, CountsTyped
<1>3. FlushesTyped
  BY DEF Init, FlushesTyped
<1>4. ClosesTyped
  BY DEF Init, ClosesTyped
<1>5. WorkerTyped
  BY DEF Init, WorkerTyped
<1> QED
  BY <1>1, <1>2, <1>3, <1>4, <1>5

(* The steps that move a record; any other leaves the records where they are. *)
RecordsStill == UNCHANGED <<status, queue, batch, accepted, inHand>>

LEMMA RecordSteps ==
    ASSUME [Next]_vars
    PROVE  \/ \E p \in Records : Send(p) \/ Drop(p)
           \/ TakeRecord \/ AppendRecord \/ Deliver \/ Drain
           \/ RecordsStill
<1> USE DEF RecordsStill, producing, calls, working, others
<1>1. ASSUME NEW p \in Records, Count(p) PROVE RecordsStill
  BY <1>1 DEF Count
<1>2. ASSUME NEW f \in Flushes, CallFlush(f) PROVE RecordsStill
  BY <1>2 DEF CallFlush
<1>3. ASSUME NEW f \in Flushes, FlushAfterDone(f) PROVE RecordsStill
  BY <1>3 DEF FlushAfterDone
<1>4. ASSUME NEW f \in Flushes, FlushAnswered(f) PROVE RecordsStill
  BY <1>4 DEF FlushAnswered
<1>5. ASSUME NEW f \in Flushes, FlushTimeout(f) PROVE RecordsStill
  BY <1>5 DEF FlushTimeout
<1>6. ASSUME NEW c \in Closes, CallClose(c) PROVE RecordsStill
  BY <1>6 DEF CallClose
<1>7. ASSUME NEW c \in Closes, CloseReturns(c) PROVE RecordsStill
  BY <1>7 DEF CloseReturns
<1>8. ASSUME NEW f \in Flushes, TakeFlush(f) PROVE RecordsStill
  BY <1>8 DEF TakeFlush
<1>9. Tick => RecordsStill
  BY DEF Tick
<1>10. TakeNotice => RecordsStill
  BY DEF TakeNotice
<1>11. TakeClose => RecordsStill
  BY DEF TakeClose
<1>12. MarkDequeued => RecordsStill
  BY DEF MarkDequeued
<1>13. FinishFlush => RecordsStill
  BY DEF FinishFlush
<1>14. FinishClose => RecordsStill
  BY DEF FinishClose
<1>15. UNCHANGED vars => RecordsStill
  BY DEF vars
<1> QED
  BY <1>1, <1>2, <1>3, <1>4, <1>5, <1>6, <1>7, <1>8, <1>9, <1>10, <1>11, <1>12, <1>13, <1>14, <1>15
  DEF Next, Producer, Worker

LEMMA RecordsTypedKept ==
    ASSUME RecordsTyped, HandFlow, [Next]_vars
    PROVE  RecordsTyped'
<1> USE DEF RecordsTyped, producing, calls, working, others
<1>1. ASSUME NEW p \in Records, Send(p) PROVE RecordsTyped'
  BY <1>1 DEF Send
<1>2. ASSUME NEW p \in Records, Drop(p) PROVE RecordsTyped'
  BY <1>2 DEF Drop
<1>3. CASE TakeRecord
  <2>1. Head(queue) \in Records /\ Tail(queue) \in Seq(Records)
    BY <1>3 DEF TakeRecord
  <2> QED
    BY <1>3, <2>1 DEF TakeRecord
<1>4. CASE AppendRecord
  <2>1. inHand \in Records
    BY <1>4 DEF AppendRecord, HandFlow
  <2>2. Append(batch, inHand) \in Seq(Records)
    BY <2>1
  <2>3. batch' \in Seq(Records) /\ inHand' \in Records \cup {Nobody}
    BY <1>4, <2>2 DEF AppendRecord
  <2> QED
    BY <1>4, <2>3 DEF AppendRecord
<1>5. CASE Deliver
  <2>1. status' \in [Records -> {"new", "accepted", "dropped", "sent", "failed"}]
    BY <1>5 DEF Deliver
  <2> QED
    BY <1>5, <2>1 DEF Deliver
<1>6. CASE Drain
  <2>1. CASE queue # <<>>
    <3>1. Head(queue) \in Records /\ Tail(queue) \in Seq(Records)
      BY <2>1
    <3> QED
      BY <1>6, <2>1, <3>1 DEF Drain
  <2>2. CASE queue = <<>>
    BY <1>6, <2>2 DEF Drain
  <2> QED
    BY <2>1, <2>2
<1>7. CASE RecordsStill
  BY <1>7 DEF RecordsStill
<1> QED
  BY <1>1, <1>2, <1>3, <1>4, <1>5, <1>6, <1>7, RecordSteps
(* The steps that move a count, or the queue. *)
CountsStill == UNCHANGED <<size, pendingBytes, mu, queue>>

LEMMA CountSteps ==
    ASSUME [Next]_vars
    PROVE  \/ \E p \in Records : Send(p) \/ Count(p)
           \/ TakeRecord \/ MarkDequeued \/ Drain
           \/ CountsStill
<1> USE DEF CountsStill, producing, calls, working, others
<1>1. ASSUME NEW p \in Records, Drop(p) PROVE CountsStill
  BY <1>1 DEF Drop
<1>2. ASSUME NEW f \in Flushes, CallFlush(f) PROVE CountsStill
  BY <1>2 DEF CallFlush
<1>3. ASSUME NEW f \in Flushes, FlushAfterDone(f) PROVE CountsStill
  BY <1>3 DEF FlushAfterDone
<1>4. ASSUME NEW f \in Flushes, FlushAnswered(f) PROVE CountsStill
  BY <1>4 DEF FlushAnswered
<1>5. ASSUME NEW f \in Flushes, FlushTimeout(f) PROVE CountsStill
  BY <1>5 DEF FlushTimeout
<1>6. ASSUME NEW c \in Closes, CallClose(c) PROVE CountsStill
  BY <1>6 DEF CallClose
<1>7. ASSUME NEW c \in Closes, CloseReturns(c) PROVE CountsStill
  BY <1>7 DEF CloseReturns
<1>8. ASSUME NEW f \in Flushes, TakeFlush(f) PROVE CountsStill
  BY <1>8 DEF TakeFlush
<1>9. Tick => CountsStill
  BY DEF Tick
<1>10. TakeNotice => CountsStill
  BY DEF TakeNotice
<1>11. TakeClose => CountsStill
  BY DEF TakeClose
<1>12. AppendRecord => CountsStill
  BY DEF AppendRecord
<1>13. Deliver => CountsStill
  BY DEF Deliver
<1>14. FinishFlush => CountsStill
  BY DEF FinishFlush
<1>15. FinishClose => CountsStill
  BY DEF FinishClose
<1>16. UNCHANGED vars => CountsStill
  BY DEF vars
<1> QED
  BY <1>1, <1>2, <1>3, <1>4, <1>5, <1>6, <1>7, <1>8, <1>9, <1>10, <1>11, <1>12, <1>13, <1>14, <1>15, <1>16
  DEF Next, Producer, Worker

(* The steps of flush calls. *)
FlushesStill == UNCHANGED <<flusher, before, serving>>

LEMMA FlushSteps ==
    ASSUME [Next]_vars
    PROVE  \/ \E f \in Flushes : CallFlush(f) \/ FlushAfterDone(f) \/ FlushAnswered(f) \/ FlushTimeout(f) \/ TakeFlush(f)
           \/ FinishFlush
           \/ FlushesStill
<1> USE DEF FlushesStill, producing, calls, working, others
<1>1. ASSUME NEW p \in Records, Send(p) PROVE FlushesStill
  BY <1>1 DEF Send
<1>2. ASSUME NEW p \in Records, Count(p) PROVE FlushesStill
  BY <1>2 DEF Count
<1>3. ASSUME NEW p \in Records, Drop(p) PROVE FlushesStill
  BY <1>3 DEF Drop
<1>4. ASSUME NEW c \in Closes, CallClose(c) PROVE FlushesStill
  BY <1>4 DEF CallClose
<1>5. ASSUME NEW c \in Closes, CloseReturns(c) PROVE FlushesStill
  BY <1>5 DEF CloseReturns
<1>6. TakeRecord => FlushesStill
  BY DEF TakeRecord
<1>7. Tick => FlushesStill
  BY DEF Tick
<1>8. TakeNotice => FlushesStill
  BY DEF TakeNotice
<1>9. TakeClose => FlushesStill
  BY DEF TakeClose
<1>10. MarkDequeued => FlushesStill
  BY DEF MarkDequeued
<1>11. AppendRecord => FlushesStill
  BY DEF AppendRecord
<1>12. Deliver => FlushesStill
  BY DEF Deliver
<1>13. Drain => FlushesStill
  BY DEF Drain
<1>14. FinishClose => FlushesStill
  BY DEF FinishClose
<1>15. UNCHANGED vars => FlushesStill
  BY DEF vars
<1> QED
  BY <1>1, <1>2, <1>3, <1>4, <1>5, <1>6, <1>7, <1>8, <1>9, <1>10, <1>11, <1>12, <1>13, <1>14, <1>15
  DEF Next, Producer, Worker

(* The steps of close calls, and the drop notices. *)
ClosesStill == UNCHANGED <<closer, closed, asked, notice>>

LEMMA CloseSteps ==
    ASSUME [Next]_vars
    PROVE  \/ \E p \in Records : Drop(p)
           \/ \E c \in Closes : CallClose(c) \/ CloseReturns(c)
           \/ TakeNotice \/ TakeClose
           \/ ClosesStill
<1> USE DEF ClosesStill, producing, calls, working, others
<1>1. ASSUME NEW p \in Records, Send(p) PROVE ClosesStill
  BY <1>1 DEF Send
<1>2. ASSUME NEW p \in Records, Count(p) PROVE ClosesStill
  BY <1>2 DEF Count
<1>3. ASSUME NEW f \in Flushes, CallFlush(f) PROVE ClosesStill
  BY <1>3 DEF CallFlush
<1>4. ASSUME NEW f \in Flushes, FlushAfterDone(f) PROVE ClosesStill
  BY <1>4 DEF FlushAfterDone
<1>5. ASSUME NEW f \in Flushes, FlushAnswered(f) PROVE ClosesStill
  BY <1>5 DEF FlushAnswered
<1>6. ASSUME NEW f \in Flushes, FlushTimeout(f) PROVE ClosesStill
  BY <1>6 DEF FlushTimeout
<1>7. ASSUME NEW f \in Flushes, TakeFlush(f) PROVE ClosesStill
  BY <1>7 DEF TakeFlush
<1>8. TakeRecord => ClosesStill
  BY DEF TakeRecord
<1>9. Tick => ClosesStill
  BY DEF Tick
<1>10. MarkDequeued => ClosesStill
  BY DEF MarkDequeued
<1>11. AppendRecord => ClosesStill
  BY DEF AppendRecord
<1>12. Deliver => ClosesStill
  BY DEF Deliver
<1>13. Drain => ClosesStill
  BY DEF Drain
<1>14. FinishFlush => ClosesStill
  BY DEF FinishFlush
<1>15. FinishClose => ClosesStill
  BY DEF FinishClose
<1>16. UNCHANGED vars => ClosesStill
  BY DEF vars
<1> QED
  BY <1>1, <1>2, <1>3, <1>4, <1>5, <1>6, <1>7, <1>8, <1>9, <1>10, <1>11, <1>12, <1>13, <1>14, <1>15, <1>16
  DEF Next, Producer, Worker

(* The steps of the worker; a notice it takes moves nothing else. *)
WorkerStill == UNCHANGED <<worker, mode, closeErr, done, lastErr>>

LEMMA WorkerSteps ==
    ASSUME [Next]_vars
    PROVE  \/ \E f \in Flushes : TakeFlush(f)
           \/ TakeRecord \/ Tick \/ TakeClose \/ MarkDequeued \/ AppendRecord \/ Deliver \/ Drain \/ FinishFlush \/ FinishClose
           \/ WorkerStill
<1> USE DEF WorkerStill, producing, calls, working, others
<1>1. ASSUME NEW p \in Records, Send(p) PROVE WorkerStill
  BY <1>1 DEF Send
<1>2. ASSUME NEW p \in Records, Count(p) PROVE WorkerStill
  BY <1>2 DEF Count
<1>3. ASSUME NEW p \in Records, Drop(p) PROVE WorkerStill
  BY <1>3 DEF Drop
<1>4. ASSUME NEW f \in Flushes, CallFlush(f) PROVE WorkerStill
  BY <1>4 DEF CallFlush
<1>5. ASSUME NEW f \in Flushes, FlushAfterDone(f) PROVE WorkerStill
  BY <1>5 DEF FlushAfterDone
<1>6. ASSUME NEW f \in Flushes, FlushAnswered(f) PROVE WorkerStill
  BY <1>6 DEF FlushAnswered
<1>7. ASSUME NEW f \in Flushes, FlushTimeout(f) PROVE WorkerStill
  BY <1>7 DEF FlushTimeout
<1>8. ASSUME NEW c \in Closes, CallClose(c) PROVE WorkerStill
  BY <1>8 DEF CallClose
<1>9. ASSUME NEW c \in Closes, CloseReturns(c) PROVE WorkerStill
  BY <1>9 DEF CloseReturns
<1>10. TakeNotice => WorkerStill
  BY DEF TakeNotice
<1>11. UNCHANGED vars => WorkerStill
  BY DEF vars
<1> QED
  BY <1>1, <1>2, <1>3, <1>4, <1>5, <1>6, <1>7, <1>8, <1>9, <1>10, <1>11
  DEF Next, Producer, Worker

LEMMA CountsTypedKept ==
    ASSUME RecordsTyped, CountsTyped, HandFlow, [Next]_vars
    PROVE  CountsTyped'
<1> USE SizeFacts DEF CountsTyped, producing, calls, working, others
<1>1. ASSUME NEW p \in Records, Send(p) PROVE CountsTyped'
  <2>1. Len(queue') = Len(queue) + 1 /\ Len(queue) < QueueSize /\ Len(queue) \in Nat
    BY <1>1 DEF Send, Admitted, RecordsTyped
  <2> QED
    BY <1>1, <2>1 DEF Send
<1>2. ASSUME NEW p \in Records, Count(p) PROVE CountsTyped'
  <2>1. pendingBytes' \in Int
    BY <1>2 DEF Count
  <2> QED
    BY <1>2, <2>1 DEF Count
<1>3. CASE TakeRecord
  <2>1. Len(queue') <= QueueSize
    BY <1>3 DEF TakeRecord, RecordsTyped
  <2> QED
    BY <1>3, <2>1 DEF TakeRecord
<1>4. CASE MarkDequeued
  <2>1. inHand \in Records
    BY <1>4 DEF MarkDequeued, HandFlow, RecordsTyped
  <2>2. pendingBytes' \in Int
    BY <1>4, <2>1 DEF MarkDequeued
  <2> QED
    BY <1>4, <2>2 DEF MarkDequeued
<1>5. CASE Drain
  <2>1. Len(queue') <= QueueSize
    BY <1>5 DEF Drain, RecordsTyped
  <2> QED
    BY <1>5, <2>1 DEF Drain
<1>6. CASE CountsStill
  BY <1>6 DEF CountsStill
<1> QED
  BY <1>1, <1>2, <1>3, <1>4, <1>5, <1>6, CountSteps

LEMMA FlushesTypedKept ==
    ASSUME RecordsTyped, FlushesTyped, [Next]_vars
    PROVE  FlushesTyped'
<1> USE DEF FlushesTyped, Returned, producing, calls, working, others
<1>1. ASSUME NEW f \in Flushes, CallFlush(f) PROVE FlushesTyped'
  <2>1. ToSet(accepted) \in SUBSET Records
    <3>1. \A i \in DOMAIN accepted : accepted[i] \in Records
      BY ElementOfSeq, LenProperties DEF RecordsTyped
    <3> QED
      BY <3>1 DEF ToSet
  <2> QED
    BY <1>1, <2>1 DEF CallFlush
<1>2. ASSUME NEW f \in Flushes, FlushAfterDone(f) PROVE FlushesTyped'
  BY <1>2 DEF FlushAfterDone
<1>3. ASSUME NEW f \in Flushes, FlushAnswered(f) PROVE FlushesTyped'
  BY <1>3 DEF FlushAnswered
<1>4. ASSUME NEW f \in Flushes, FlushTimeout(f) PROVE FlushesTyped'
  BY <1>4 DEF FlushTimeout
<1>5. ASSUME NEW f \in Flushes, TakeFlush(f) PROVE FlushesTyped'
  BY <1>5 DEF TakeFlush
<1>6. CASE FinishFlush
  BY <1>6 DEF FinishFlush
<1>7. CASE FlushesStill
  BY <1>7 DEF FlushesStill
<1> QED
  BY <1>1, <1>2, <1>3, <1>4, <1>5, <1>6, <1>7, FlushSteps

LEMMA ClosesTypedKept ==
    ASSUME ClosesTyped, [Next]_vars
    PROVE  ClosesTyped'
<1> USE DEF ClosesTyped, Returned, producing, calls, working, others
<1>1. ASSUME NEW p \in Records, Drop(p) PROVE ClosesTyped'
  BY <1>1 DEF Drop
<1>2. ASSUME NEW c \in Closes, CallClose(c) PROVE ClosesTyped'
  BY <1>2 DEF CallClose
<1>3. ASSUME NEW c \in Closes, CloseReturns(c) PROVE ClosesTyped'
  BY <1>3 DEF CloseReturns
<1>4. CASE TakeNotice
  BY <1>4 DEF TakeNotice
<1>5. CASE TakeClose
  BY <1>5 DEF TakeClose
<1>6. CASE ClosesStill
  BY <1>6 DEF ClosesStill
<1> QED
  BY <1>1, <1>2, <1>3, <1>4, <1>5, <1>6, CloseSteps

LEMMA WorkerTypedKept ==
    ASSUME WorkerTyped, [Next]_vars
    PROVE  WorkerTyped'
<1> USE DEF WorkerTyped, producing, calls, working, others
<1>1. ASSUME NEW f \in Flushes, TakeFlush(f) PROVE WorkerTyped'
  BY <1>1 DEF TakeFlush
<1>2. CASE TakeRecord
  BY <1>2 DEF TakeRecord
<1>3. CASE Tick
  BY <1>3 DEF Tick
<1>4. CASE TakeClose
  BY <1>4 DEF TakeClose
<1>5. CASE MarkDequeued
  BY <1>5 DEF MarkDequeued
<1>6. CASE AppendRecord
  <2>1. worker' \in {"deliver", "select", "drain"}
    BY <1>6 DEF AppendRecord, Resumed
  <2> QED
    BY <1>6, <2>1 DEF AppendRecord
<1>7. CASE Deliver
  <2>1. worker' \in {"finish", "append", "select", "drain"}
    BY <1>7 DEF Deliver, AfterDelivery, Resumed
  <2>2. lastErr' \in BOOLEAN
    BY <1>7 DEF Deliver
  <2> QED
    BY <1>7, <2>1, <2>2 DEF Deliver
<1>8. CASE Drain
  <2>1. worker' \in {"mark", "final", "finish"}
    BY <1>8 DEF Drain
  <2> QED
    BY <1>8, <2>1 DEF Drain
<1>9. CASE FinishFlush
  BY <1>9 DEF FinishFlush
<1>10. CASE FinishClose
  BY <1>10 DEF FinishClose
<1>11. CASE WorkerStill
  BY <1>11 DEF WorkerStill
<1> QED
  BY <1>1, <1>2, <1>3, <1>4, <1>5, <1>6, <1>7, <1>8, <1>9, <1>10, <1>11, WorkerSteps
-----------------------------------------------------------------------------
(* The worker *)

LEMMA InitFlow == Init => HandFlow /\ BatchFlow /\ ModeFlow /\ CloseFlow /\ DoneFlow
<1> SUFFICES ASSUME Init PROVE HandFlow /\ BatchFlow /\ ModeFlow /\ CloseFlow /\ DoneFlow
  OBVIOUS
<1> USE DEF Init
<1>1. HandFlow
  BY DEF HandFlow
<1>2. BatchFlow
  BY DEF BatchFlow
<1>3. ModeFlow
  BY DEF ModeFlow
<1>4. CloseFlow
  BY DEF CloseFlow
<1>5. DoneFlow
  BY DEF DoneFlow
<1> QED
  BY <1>1, <1>2, <1>3, <1>4, <1>5

(* Who moves the hand and the batch is at a worker's step. *)
LEMMA HandStep ==
    ASSUME [Next]_vars
    PROVE  WorkerStill => UNCHANGED <<batch, inHand>>
<1> USE DEF WorkerStill
<1>1. ASSUME NEW p \in Records, Send(p) \/ Drop(p) PROVE UNCHANGED <<batch, inHand>>
  BY <1>1 DEF Send, Drop, working
<1>2. TakeRecord => worker' # worker
  BY DEF TakeRecord
<1>3. AppendRecord => worker' # worker
  BY DEF AppendRecord, Resumed
<1>4. Deliver => worker' # worker
  BY DEF Deliver, AfterDelivery, Resumed
<1>5. Drain => worker' # worker
  BY DEF Drain
<1>6. RecordsStill => UNCHANGED <<batch, inHand>>
  BY DEF RecordsStill
<1> QED
  BY <1>1, <1>2, <1>3, <1>4, <1>5, <1>6, RecordSteps

LEMMA HandFlowKept ==
    ASSUME RecordsTyped, WorkerTyped, HandFlow, ModeFlow, [Next]_vars
    PROVE  HandFlow'
<1> USE DEF HandFlow
<1>1. ASSUME NEW f \in Flushes, TakeFlush(f) PROVE HandFlow'
  BY <1>1 DEF TakeFlush
<1>2. CASE TakeRecord
  <2>1. Head(queue) \in Records
    BY <1>2 DEF TakeRecord, RecordsTyped
  <2> QED
    BY <1>2, <2>1, NobodyFacts DEF TakeRecord
<1>3. CASE Tick
  BY <1>3 DEF Tick
<1>4. CASE TakeClose
  BY <1>4 DEF TakeClose
<1>5. CASE MarkDequeued
  BY <1>5 DEF MarkDequeued
<1>6. CASE AppendRecord
  BY <1>6 DEF AppendRecord, Resumed
<1>7. CASE Deliver
  BY <1>7 DEF Deliver, AfterDelivery, Resumed
<1>8. CASE Drain
  <2>1. queue # <<>> => Head(queue) \in Records
    BY DEF RecordsTyped
  <2> QED
    BY <1>8, <2>1, NobodyFacts DEF Drain
<1>9. CASE FinishFlush
  BY <1>9 DEF FinishFlush
<1>10. CASE FinishClose
  BY <1>10 DEF FinishClose
<1>11. CASE WorkerStill
  BY <1>11, HandStep DEF WorkerStill
<1> QED
  BY <1>1, <1>2, <1>3, <1>4, <1>5, <1>6, <1>7, <1>8, <1>9, <1>10, <1>11, WorkerSteps

LEMMA BatchFlowKept ==
    ASSUME RecordsTyped, BatchFlow, HandFlow, [Next]_vars
    PROVE  BatchFlow'
<1> USE DEF BatchFlow
<1>1. ASSUME NEW f \in Flushes, TakeFlush(f) PROVE BatchFlow'
  BY <1>1 DEF TakeFlush
<1>2. CASE TakeRecord
  BY <1>2 DEF TakeRecord
<1>3. CASE Tick
  BY <1>3 DEF Tick
<1>4. CASE TakeClose
  BY <1>4 DEF TakeClose
<1>5. CASE MarkDequeued
  BY <1>5 DEF MarkDequeued
<1>6. CASE AppendRecord
  <2>1. inHand \in Records
    BY <1>6 DEF AppendRecord, HandFlow, RecordsTyped
  <2>2. Append(batch, inHand) # <<>>
    BY <2>1 DEF RecordsTyped
  <2> QED
    BY <1>6, <2>2 DEF AppendRecord, Overflows, Resumed
<1>7. CASE Deliver
  BY <1>7 DEF Deliver, AfterDelivery, Resumed
<1>8. CASE Drain
  BY <1>8 DEF Drain
<1>9. CASE FinishFlush
  BY <1>9 DEF FinishFlush
<1>10. CASE FinishClose
  BY <1>10 DEF FinishClose
<1>11. CASE WorkerStill
  BY <1>11, HandStep DEF WorkerStill
<1> QED
  BY <1>1, <1>2, <1>3, <1>4, <1>5, <1>6, <1>7, <1>8, <1>9, <1>10, <1>11, WorkerSteps

LEMMA ModeFlowKept ==
    ASSUME WorkerTyped, ModeFlow, [Next]_vars
    PROVE  ModeFlow'
<1> USE DEF ModeFlow, WorkerTyped
<1>1. ASSUME NEW f \in Flushes, TakeFlush(f) PROVE ModeFlow'
  BY <1>1 DEF TakeFlush
<1>2. CASE TakeRecord
  BY <1>2 DEF TakeRecord
<1>3. CASE Tick
  BY <1>3 DEF Tick
<1>4. CASE TakeClose
  BY <1>4 DEF TakeClose
<1>5. CASE MarkDequeued
  BY <1>5 DEF MarkDequeued
<1>6. CASE AppendRecord
  BY <1>6 DEF AppendRecord, Resumed
<1>7. CASE Deliver
  BY <1>7 DEF Deliver, AfterDelivery, Resumed
<1>8. CASE Drain
  BY <1>8 DEF Drain
<1>9. CASE FinishFlush
  BY <1>9 DEF FinishFlush
<1>10. CASE FinishClose
  BY <1>10 DEF FinishClose
<1>11. CASE WorkerStill
  BY <1>11 DEF WorkerStill
<1> QED
  BY <1>1, <1>2, <1>3, <1>4, <1>5, <1>6, <1>7, <1>8, <1>9, <1>10, <1>11, WorkerSteps

LEMMA DoneFlowKept ==
    ASSUME WorkerTyped, DoneFlow, [Next]_vars
    PROVE  DoneFlow'
<1> USE DEF DoneFlow, WorkerTyped, working
<1>1. ASSUME NEW f \in Flushes, TakeFlush(f) PROVE DoneFlow'
  BY <1>1 DEF TakeFlush
<1>2. CASE TakeRecord
  BY <1>2 DEF TakeRecord
<1>3. CASE Tick
  BY <1>3 DEF Tick
<1>4. CASE TakeClose
  BY <1>4 DEF TakeClose
<1>5. CASE MarkDequeued
  BY <1>5 DEF MarkDequeued
<1>6. CASE AppendRecord
  BY <1>6 DEF AppendRecord, Resumed
<1>7. CASE Deliver
  BY <1>7 DEF Deliver, AfterDelivery, Resumed
<1>8. CASE Drain
  BY <1>8 DEF Drain
<1>9. CASE FinishFlush
  BY <1>9 DEF FinishFlush
<1>10. CASE FinishClose
  BY <1>10 DEF FinishClose
<1>11. CASE WorkerStill
  BY <1>11 DEF WorkerStill
<1> QED
  BY <1>1, <1>2, <1>3, <1>4, <1>5, <1>6, <1>7, <1>8, <1>9, <1>10, <1>11, WorkerSteps
(* Nothing is admitted once close was called, so an empty queue stays empty. *)
LEMMA CloseFlowKept ==
    ASSUME RecordsTyped, ClosesTyped, WorkerTyped, HandFlow, ModeFlow, CloseFlow, [Next]_vars
    PROVE  CloseFlow'
<1> USE DEF CloseFlow, ClosesTyped, calls, working, others
<1>1. ASSUME NEW p \in Records, Send(p) PROVE CloseFlow'
  BY <1>1 DEF Send, Admitted
<1>2. ASSUME NEW p \in Records, Count(p) \/ Drop(p) PROVE CloseFlow'
  BY <1>2 DEF Count, Drop
<1>3. ASSUME NEW f \in Flushes, CallFlush(f) PROVE CloseFlow'
  BY <1>3 DEF CallFlush
<1>4. ASSUME NEW f \in Flushes, FlushAfterDone(f) PROVE CloseFlow'
  BY <1>4 DEF FlushAfterDone
<1>5. ASSUME NEW f \in Flushes, FlushAnswered(f) \/ FlushTimeout(f) PROVE CloseFlow'
  <2>1. CASE FlushAnswered(f)
    BY <2>1 DEF FlushAnswered
  <2>2. CASE FlushTimeout(f)
    BY <2>2 DEF FlushTimeout
  <2> QED
    BY <1>5, <2>1, <2>2
<1>6. ASSUME NEW c \in Closes, CallClose(c) PROVE CloseFlow'
  BY <1>6 DEF CallClose
<1>7. ASSUME NEW c \in Closes, CloseReturns(c) PROVE CloseFlow'
  BY <1>7 DEF CloseReturns
<1>8. ASSUME NEW f \in Flushes, TakeFlush(f) PROVE CloseFlow'
  BY <1>8 DEF TakeFlush
<1>9. CASE TakeRecord
  BY <1>9 DEF TakeRecord
<1>10. CASE Tick \/ TakeNotice
  BY <1>10 DEF Tick, TakeNotice
<1>11. CASE TakeClose
  BY <1>11 DEF TakeClose
<1>12. CASE MarkDequeued
  BY <1>12 DEF MarkDequeued
<1>13. CASE AppendRecord
  BY <1>13 DEF AppendRecord, Resumed
<1>14. CASE Deliver
  BY <1>14 DEF Deliver, AfterDelivery, Resumed
<1>15. CASE Drain
  BY <1>15 DEF Drain
<1>16. CASE FinishFlush
  BY <1>16 DEF FinishFlush
<1>17. CASE FinishClose
  BY <1>17 DEF FinishClose
<1>18. CASE UNCHANGED vars
  BY <1>18 DEF vars
<1> QED
  BY <1>1, <1>2, <1>3, <1>4, <1>5, <1>6, <1>7, <1>8, <1>9, <1>10, <1>11, <1>12, <1>13, <1>14, <1>15, <1>16, <1>17, <1>18
  DEF Next, Producer, Worker

-----------------------------------------------------------------------------
(* The records accepted, along the sender *)

(* Lengths are numbers; a record is nobody's absence. *)
LEMMA Lengths ==
    ASSUME RecordsTyped
    PROVE  /\ Len(accepted) \in Nat /\ Len(batch) \in Nat /\ Len(queue) \in Nat
           /\ HeldLen \in {0, 1} /\ Tried \in Int
           /\ \A i \in 1 .. Len(accepted) : accepted[i] \in Records
           /\ \A i \in 1 .. Len(batch) : batch[i] \in Records
           /\ \A i \in 1 .. Len(queue) : queue[i] \in Records
<1>1. Len(accepted) \in Nat /\ Len(batch) \in Nat /\ Len(queue) \in Nat
  BY DEF RecordsTyped
<1>2. HeldLen \in {0, 1}
  BY DEF HeldLen
<1>3. Tried \in Int
  BY <1>1, <1>2 DEF Tried
<1> QED
  BY <1>1, <1>2, <1>3, ElementOfSeq DEF RecordsTyped

LEMMA InitLayout == Init => Layout /\ TriedFirst /\ Once /\ Admissions
<1> SUFFICES ASSUME Init PROVE Layout /\ TriedFirst /\ Once /\ Admissions
  OBVIOUS
<1>1. /\ Len(accepted) = 0 /\ Len(batch) = 0 /\ Len(queue) = 0 /\ inHand = Nobody
      /\ status = [p \in Records |-> "new"]
  BY DEF Init
<1>2. Layout
  BY <1>1 DEF Layout, Tried, HeldLen
<1>3. TriedFirst /\ Once
  BY <1>1 DEF TriedFirst, Once
<1>4. Admissions
  BY <1>1 DEF Admissions, IsAccepted
<1> QED
  BY <1>2, <1>3, <1>4

(* A record whose call is still to be made is not among those accepted, *)
LEMMA NewNotAccepted ==
    ASSUME RecordsTyped, Admissions, NEW p \in Records, status[p] = "new"
    PROVE  ~IsAccepted(p)
BY DEF Admissions

(* and one of the batch has not been attempted. *)
LEMMA BatchNotTried ==
    ASSUME RecordsTyped, Layout, TriedFirst, NEW i \in 1 .. Len(batch)
    PROVE  /\ Tried + i \in 1 .. Len(accepted)
           /\ batch[i] = accepted[Tried + i]
           /\ ~Attempted(batch[i])
<1>1. Tried \in Nat /\ Tried + i \in 1 .. Len(accepted)
  BY Lengths DEF Layout, Tried
<1>2. batch[i] = accepted[Tried + i]
  BY DEF Layout
<1>3. ~(Tried + i <= Tried)
  BY <1>1
<1> QED
  BY <1>1, <1>2, <1>3 DEF TriedFirst

(* The worker takes the head of the queue in hand. *)
LEMMA HeadTaken ==
    ASSUME RecordsTyped, Layout, inHand = Nobody, queue # <<>>,
           inHand' = Head(queue), queue' = Tail(queue), UNCHANGED <<batch, accepted>>
    PROVE  Layout'
<1>1. /\ Len(queue) \in Nat /\ Len(queue) >= 1 /\ Len(queue') = Len(queue) - 1
      /\ Head(queue) = queue[1] /\ queue[1] \in Records
      /\ \A i \in 1 .. Len(queue') : queue'[i] = queue[i + 1]
  BY DEF RecordsTyped
<1>2. inHand' # Nobody
  BY <1>1, NobodyFacts
<1>3. HeldLen = 0 /\ HeldLen' = 1
  BY <1>2 DEF HeldLen
<1>4. Tried' = Tried
  BY <1>1, <1>3, Lengths DEF Tried
<1>5. \A i \in 1 .. Len(batch') : batch'[i] = accepted'[Tried' + i]
  BY <1>4 DEF Layout
<1>6. inHand' = accepted'[Tried' + Len(batch') + 1]
  BY <1>1, <1>3, <1>4, Lengths DEF Layout
<1>7. ASSUME NEW i \in 1 .. Len(queue')
      PROVE  queue'[i] = accepted'[Tried' + Len(batch') + HeldLen' + i]
  <2>1. i + 1 \in 1 .. Len(queue) /\ queue'[i] = queue[i + 1]
    BY <1>1
  <2>2. queue[i + 1] = accepted[Tried + Len(batch) + HeldLen + (i + 1)]
    BY <2>1 DEF Layout
  <2>3. Tried + Len(batch) + HeldLen + (i + 1) = Tried + Len(batch) + 1 + i
    BY <1>3, Lengths
  <2> QED
    BY <1>3, <1>4, <2>1, <2>2, <2>3
<1> QED
  BY <1>4, <1>5, <1>6, <1>7 DEF Layout

LEMMA LayoutKept ==
    ASSUME RecordsTyped, HandFlow, Layout, [Next]_vars
    PROVE  Layout'
<1> USE DEF others
<1>1. ASSUME NEW p \in Records, Send(p) PROVE Layout'
  <2>1. /\ Len(accepted') = Len(accepted) + 1
        /\ \A i \in 1 .. Len(accepted) : accepted'[i] = accepted[i]
        /\ accepted'[Len(accepted) + 1] = p
    BY <1>1, AppendProperties DEF Send, RecordsTyped
  <2>2. /\ Len(queue') = Len(queue) + 1
        /\ \A i \in 1 .. Len(queue) : queue'[i] = queue[i]
        /\ queue'[Len(queue) + 1] = p
    BY <1>1, AppendProperties DEF Send, RecordsTyped
  <2>3. batch' = batch /\ inHand' = inHand
    BY <1>1 DEF Send, working
  <2>4. HeldLen' = HeldLen /\ Tried' = Tried
    BY <2>1, <2>2, <2>3, Lengths DEF Tried, HeldLen
  <2>5. ASSUME NEW i \in 1 .. Len(batch') PROVE batch'[i] = accepted'[Tried' + i]
    <3>1. Tried + i \in 1 .. Len(accepted)
      BY <2>3, Lengths DEF Tried, Layout
    <3> QED
      BY <2>1, <2>3, <2>4, <3>1 DEF Layout
  <2>6. inHand' # Nobody => inHand' = accepted'[Tried' + Len(batch') + 1]
    <3>1. inHand # Nobody => Tried + Len(batch) + 1 \in 1 .. Len(accepted)
      BY Lengths DEF Tried, Layout, HeldLen
    <3> QED
      BY <2>1, <2>3, <2>4, <3>1 DEF Layout
  <2>7. ASSUME NEW i \in 1 .. Len(queue')
        PROVE  queue'[i] = accepted'[Tried' + Len(batch') + HeldLen' + i]
    <3>1. CASE i <= Len(queue)
      <4>1. i \in 1 .. Len(queue) /\ Tried + Len(batch) + HeldLen + i \in 1 .. Len(accepted)
        BY <3>1, Lengths DEF Tried, Layout
      <4> QED
        BY <2>1, <2>2, <2>3, <2>4, <4>1 DEF Layout
    <3>2. CASE i > Len(queue)
      <4>1. i = Len(queue) + 1
        BY <2>2, <3>2, Lengths
      <4>2. Tried + Len(batch) + HeldLen + i = Len(accepted) + 1
        <5>1. Len(accepted) \in Int /\ Len(batch) \in Int /\ Len(queue) \in Int /\ HeldLen \in Int
          BY Lengths
        <5> QED
          BY <4>1, <5>1 DEF Tried
      <4> QED
        BY <2>1, <2>2, <2>3, <2>4, <4>1, <4>2
    <3> QED
      BY <2>2, <3>1, <3>2, Lengths
  <2> QED
    BY <2>4, <2>5, <2>6, <2>7 DEF Layout
<1>2. ASSUME NEW p \in Records, Drop(p) PROVE Layout'
  BY <1>2 DEF Drop, working, producing, Layout, Tried, HeldLen
<1>3. CASE TakeRecord
  BY <1>3, HeadTaken DEF TakeRecord, HandFlow
<1>4. CASE AppendRecord
  <2>1. CASE Overflows
    BY <1>4, <2>1 DEF AppendRecord, Layout, Tried, HeldLen
  <2>2. CASE ~Overflows
    <3>1. inHand \in Records /\ inHand # Nobody /\ HeldLen = 1
      BY <1>4 DEF AppendRecord, HandFlow, RecordsTyped, HeldLen
    <3>2. /\ inHand' = Nobody /\ HeldLen' = 0 /\ batch' = Append(batch, inHand)
          /\ queue' = queue /\ accepted' = accepted
      BY <1>4, <2>2 DEF AppendRecord, HeldLen
    <3>3. /\ Len(batch') = Len(batch) + 1
          /\ \A i \in 1 .. Len(batch) : batch'[i] = batch[i]
          /\ batch'[Len(batch) + 1] = inHand
      BY <3>1, <3>2, AppendProperties DEF RecordsTyped
    <3>4. Tried' = Tried
      BY <3>1, <3>2, <3>3, Lengths DEF Tried
    <3>5. ASSUME NEW i \in 1 .. Len(batch') PROVE batch'[i] = accepted'[Tried' + i]
      <4>1. CASE i <= Len(batch)
        <5>1. i \in 1 .. Len(batch)
          BY <4>1, Lengths
        <5> QED
          BY <3>2, <3>3, <3>4, <5>1 DEF Layout
      <4>2. CASE i > Len(batch)
        <5>1. i = Len(batch) + 1
          BY <3>3, <4>2, Lengths
        <5>2. Tried + i = Tried + Len(batch) + 1
          BY <5>1, Lengths
        <5> QED
          BY <3>1, <3>2, <3>3, <3>4, <5>1, <5>2 DEF Layout
      <4> QED
        BY <3>3, <4>1, <4>2, Lengths
    <3>6. ASSUME NEW i \in 1 .. Len(queue')
          PROVE  queue'[i] = accepted'[Tried' + Len(batch') + HeldLen' + i]
      <4>1. Tried + Len(batch) + HeldLen + i = Tried' + Len(batch') + HeldLen' + i
        BY <3>1, <3>2, <3>3, <3>4, Lengths
      <4> QED
        BY <3>2, <4>1 DEF Layout
    <3> QED
      BY <3>2, <3>4, <3>5, <3>6 DEF Layout
  <2> QED
    BY <2>1, <2>2
<1>5. CASE Deliver
  BY <1>5, Lengths DEF Deliver, Layout, Tried, HeldLen
<1>6. CASE Drain
  <2>1. inHand = Nobody
    BY <1>6 DEF Drain, HandFlow
  <2>2. CASE queue # <<>>
    BY <1>6, <2>1, <2>2, HeadTaken DEF Drain
  <2>3. CASE queue = <<>>
    BY <1>6, <2>3 DEF Drain, Layout, Tried, HeldLen
  <2> QED
    BY <2>2, <2>3
<1>7. CASE RecordsStill
  BY <1>7 DEF RecordsStill, Layout, Tried, HeldLen
<1> QED
  BY <1>1, <1>2, <1>3, <1>4, <1>5, <1>6, <1>7, RecordSteps
LEMMA OnceKept ==
    ASSUME RecordsTyped, Once, Admissions, [Next]_vars
    PROVE  Once'
<1>1. ASSUME NEW p \in Records, Send(p) PROVE Once'
  <2>1. /\ Len(accepted) \in Nat /\ Len(accepted') = Len(accepted) + 1
        /\ \A i \in 1 .. Len(accepted) : accepted'[i] = accepted[i]
        /\ accepted'[Len(accepted) + 1] = p
    BY <1>1, AppendProperties, Lengths DEF Send, RecordsTyped
  <2>2. ~IsAccepted(p)
    BY <1>1, NewNotAccepted DEF Send
  <2>3. \A i \in 1 .. Len(accepted) : accepted[i] # p
    BY <2>2 DEF IsAccepted
  <2>4. ASSUME NEW i \in 1 .. Len(accepted'), NEW j \in 1 .. Len(accepted'), accepted'[i] = accepted'[j]
        PROVE  i = j
    <3>1. \A k \in 1 .. Len(accepted') : k \in 1 .. Len(accepted) \/ k = Len(accepted) + 1
      BY <2>1
    <3>2. CASE i \in 1 .. Len(accepted) /\ j \in 1 .. Len(accepted)
      BY <2>1, <2>4, <3>2 DEF Once
    <3>3. CASE i \in 1 .. Len(accepted) /\ j = Len(accepted) + 1
      BY <2>1, <2>3, <2>4, <3>3
    <3>4. CASE i = Len(accepted) + 1 /\ j \in 1 .. Len(accepted)
      BY <2>1, <2>3, <2>4, <3>4
    <3> QED
      BY <3>1, <3>2, <3>3, <3>4
  <2> QED
    BY <2>4 DEF Once
<1>2. accepted' = accepted => Once'
  BY DEF Once
<1> QED
  BY <1>1, <1>2, RecordSteps
  DEF Drop, TakeRecord, AppendRecord, Deliver, Drain, RecordsStill, producing, others

(* What a step does to an accepted record: it stays accepted, its outcome is
   final, and only a delivery of its batch gives it one. *)
StatusMove(p) ==
    /\ IsAccepted(p) => IsAccepted(p)'
    /\ Attempted(p) => status'[p] = status[p]
    /\ IsAccepted(p) /\ ~InBatch(p) => status'[p] = status[p]
    /\ IsAccepted(p) /\ ~Deliver => status'[p] = status[p]

LEMMA StatusMoves ==
    ASSUME RecordsTyped, Layout, TriedFirst, Admissions, [Next]_vars, NEW p \in Records
    PROVE  StatusMove(p)
<1>1. InBatch(p) => ~Attempted(p)
  BY BatchNotTried DEF InBatch
<1>2. status[p] = "new" => ~IsAccepted(p)
  BY NewNotAccepted
<1>3. ASSUME NEW q \in Records, Send(q) PROVE StatusMove(p)
  <2>1. status[q] = "new" /\ status' = [status EXCEPT ![q] = "accepted"]
    BY <1>3 DEF Send
  <2>2. Attempted(p) \/ IsAccepted(p) => status'[p] = status[p]
    BY <1>2, <2>1 DEF RecordsTyped, Attempted
  <2>3. /\ Len(accepted') = Len(accepted) + 1
        /\ \A i \in 1 .. Len(accepted) : accepted'[i] = accepted[i]
    BY <1>3, AppendProperties DEF Send, RecordsTyped
  <2>4. \A i \in 1 .. Len(accepted) : i \in 1 .. Len(accepted')
    BY <2>3, Lengths
  <2>5. IsAccepted(p) => IsAccepted(p)'
    BY <2>3, <2>4 DEF IsAccepted
  <2> QED
    BY <2>2, <2>5 DEF StatusMove
<1>4. ASSUME NEW q \in Records, Drop(q) PROVE StatusMove(p)
  <2>1. status[q] = "new" /\ status' = [status EXCEPT ![q] = "dropped"] /\ accepted' = accepted
    BY <1>4 DEF Drop, producing
  <2>2. Attempted(p) \/ IsAccepted(p) => status'[p] = status[p]
    BY <1>2, <2>1 DEF RecordsTyped, Attempted
  <2> QED
    BY <2>1, <2>2 DEF StatusMove, IsAccepted
<1>5. CASE Deliver
  <2>1. accepted' = accepted
    BY <1>5 DEF Deliver, others
  <2>2. p \in ToSet(batch) <=> InBatch(p)
    BY LenProperties DEF ToSet, InBatch, RecordsTyped
  <2>3. ~InBatch(p) => status'[p] = status[p]
    BY <1>5, <2>2 DEF Deliver
  <2> QED
    BY <1>1, <1>5, <2>1, <2>3 DEF StatusMove, IsAccepted
<1>6. status' = status /\ accepted' = accepted => StatusMove(p)
  BY DEF StatusMove, IsAccepted
<1> QED
  BY <1>3, <1>4, <1>5, <1>6, RecordSteps DEF TakeRecord, AppendRecord, Drain, RecordsStill, others

(* A delivery gives every record of the batch one outcome, the same. *)
LEMMA Delivered ==
    ASSUME RecordsTyped, WorkerTyped, Deliver
    PROVE  \/ /\ \A p \in Records : InBatch(p) => status'[p] = "sent"
              /\ lastErr' = lastErr
           \/ /\ \A p \in Records : InBatch(p) => status'[p] = "failed"
              /\ lastErr' = TRUE
<1>1. \A p \in Records : InBatch(p) => p \in ToSet(batch)
  BY LenProperties DEF ToSet, InBatch, RecordsTyped
<1>2. PICK sent \in BOOLEAN :
        /\ status' = [p \in Records |-> IF p \in ToSet(batch)
                                          THEN (IF sent THEN "sent" ELSE "failed") ELSE status[p]]
        /\ lastErr' = (lastErr \/ ~sent)
  BY DEF Deliver
<1>3. CASE sent
  <2>1. lastErr' = lastErr
    BY <1>2, <1>3 DEF WorkerTyped
  <2> QED
    BY <1>1, <1>2, <1>3, <2>1
<1>4. CASE ~sent
  BY <1>1, <1>2, <1>4
<1> QED
  BY <1>3, <1>4
LEMMA AdmissionsKept ==
    ASSUME RecordsTyped, Layout, TriedFirst, Admissions, [Next]_vars
    PROVE  Admissions'
<1> SUFFICES ASSUME NEW p \in Records
             PROVE  status'[p] \in {"accepted", "sent", "failed"} <=> IsAccepted(p)'
  BY DEF Admissions
<1>1. ASSUME NEW q \in Records, Send(q) PROVE status'[p] \in {"accepted", "sent", "failed"} <=> IsAccepted(p)'
  <2>1. status' = [status EXCEPT ![q] = "accepted"]
    BY <1>1 DEF Send
  <2>2. /\ Len(accepted) \in Nat /\ Len(accepted') = Len(accepted) + 1
        /\ \A i \in 1 .. Len(accepted) : accepted'[i] = accepted[i]
        /\ accepted'[Len(accepted) + 1] = q
    BY <1>1, AppendProperties, Lengths DEF Send, RecordsTyped
  <2>3. Len(accepted) + 1 \in 1 .. Len(accepted')
    BY <2>2
  <2>4. IsAccepted(q)'
    BY <2>2, <2>3 DEF IsAccepted
  <2>5. \A i \in 1 .. Len(accepted') : i \in 1 .. Len(accepted) \/ i = Len(accepted) + 1
    BY <2>2
  <2>6. p # q /\ IsAccepted(p)' => IsAccepted(p)
    BY <2>2, <2>5 DEF IsAccepted
  <2>7. IsAccepted(p) => IsAccepted(p)'
    BY StatusMoves DEF StatusMove
  <2>8. CASE p = q
    BY <2>1, <2>4, <2>8 DEF RecordsTyped
  <2>9. CASE p # q
    <3>1. status'[p] = status[p]
      BY <2>1, <2>9 DEF RecordsTyped
    <3> QED
      BY <2>6, <2>7, <2>9, <3>1 DEF Admissions
  <2> QED
    BY <2>8, <2>9
<1>2. ASSUME NEW q \in Records, Drop(q) PROVE status'[p] \in {"accepted", "sent", "failed"} <=> IsAccepted(p)'
  <2>1. status[q] = "new" /\ status' = [status EXCEPT ![q] = "dropped"] /\ accepted' = accepted
    BY <1>2 DEF Drop, producing
  <2>2. IsAccepted(p)' <=> IsAccepted(p)
    BY <2>1 DEF IsAccepted
  <2>3. CASE p = q
    BY <2>1, <2>2, <2>3, NewNotAccepted DEF RecordsTyped
  <2>4. CASE p # q
    BY <2>1, <2>2, <2>4 DEF RecordsTyped, Admissions
  <2> QED
    BY <2>3, <2>4
<1>3. CASE Deliver
  <2>1. IsAccepted(p)' <=> IsAccepted(p)
    BY <1>3 DEF Deliver, others, IsAccepted
  <2>2. CASE InBatch(p)
    <3>1. IsAccepted(p)
      BY <2>2, BatchNotTried DEF InBatch, IsAccepted
    <3>2. p \in ToSet(batch)
      BY <2>2, LenProperties DEF ToSet, InBatch, RecordsTyped
    <3>3. status'[p] \in {"sent", "failed"}
      BY <1>3, <3>2 DEF Deliver
    <3> QED
      BY <2>1, <3>1, <3>3
  <2>3. CASE ~InBatch(p)
    <3>1. p \notin ToSet(batch)
      BY <2>3, LenProperties DEF ToSet, InBatch, RecordsTyped
    <3>2. status'[p] = status[p]
      BY <1>3, <3>1 DEF Deliver
    <3> QED
      BY <2>1, <3>2 DEF Admissions
  <2> QED
    BY <2>2, <2>3
<1>4. status' = status /\ accepted' = accepted
      => (status'[p] \in {"accepted", "sent", "failed"} <=> IsAccepted(p)')
  BY DEF Admissions, IsAccepted
<1> QED
  BY <1>1, <1>2, <1>3, <1>4, RecordSteps DEF TakeRecord, AppendRecord, Drain, RecordsStill, others

(* Nothing but a delivery changes how many have been attempted. *)
LEMMA TriedStill ==
    ASSUME RecordsTyped, HandFlow, Layout, [Next]_vars, ~Deliver
    PROVE  /\ Tried' = Tried
           /\ Len(accepted) <= Len(accepted')
           /\ \A i \in 1 .. Len(accepted) : accepted'[i] = accepted[i]
           /\ \A i \in 1 .. Len(accepted') : i \in 1 .. Len(accepted) \/ (i > Tried /\ ~Attempted(accepted[i])')
<1>1. ASSUME NEW p \in Records, Send(p)
      PROVE  /\ Tried' = Tried
             /\ Len(accepted) <= Len(accepted')
             /\ \A i \in 1 .. Len(accepted) : accepted'[i] = accepted[i]
             /\ \A i \in 1 .. Len(accepted') : i \in 1 .. Len(accepted) \/ (i > Tried /\ ~Attempted(accepted[i])')
  <2>1. /\ Len(accepted) \in Nat /\ Len(accepted') = Len(accepted) + 1
        /\ \A i \in 1 .. Len(accepted) : accepted'[i] = accepted[i]
        /\ accepted'[Len(accepted) + 1] = p
    BY <1>1, AppendProperties, Lengths DEF Send, RecordsTyped
  <2>2. Len(queue') = Len(queue) + 1
    BY <1>1, AppendProperties DEF Send, RecordsTyped
  <2>3. batch' = batch /\ HeldLen' = HeldLen
    BY <1>1 DEF Send, working, HeldLen
  <2>4. Tried' = Tried /\ Tried <= Len(accepted)
    BY <2>1, <2>2, <2>3, Lengths DEF Tried
  <2>5. ~Attempted(p)'
    BY <1>1 DEF Send, Attempted, RecordsTyped
  <2>6. ASSUME NEW i \in 1 .. Len(accepted'), i \notin 1 .. Len(accepted)
        PROVE  i > Tried /\ accepted'[i] = p
    <3>1. i = Len(accepted) + 1
      BY <2>1, <2>6
    <3>2. Tried \in Int
      BY Lengths
    <3> QED
      BY <2>1, <2>4, <3>1, <3>2
  <2>7. \A i \in 1 .. Len(accepted') : i \in 1 .. Len(accepted) \/ (i > Tried /\ ~Attempted(accepted[i])')
    BY <2>5, <2>6 DEF Attempted
  <2> QED
    BY <2>1, <2>4, <2>7
<1>2. ASSUME accepted' = accepted, Tried' = Tried
      PROVE  /\ Tried' = Tried
             /\ Len(accepted) <= Len(accepted')
             /\ \A i \in 1 .. Len(accepted) : accepted'[i] = accepted[i]
             /\ \A i \in 1 .. Len(accepted') : i \in 1 .. Len(accepted) \/ (i > Tried /\ ~Attempted(accepted[i])')
  BY <1>2, Lengths
<1>3. ASSUME NEW p \in Records, Drop(p) PROVE accepted' = accepted /\ Tried' = Tried
  BY <1>3 DEF Drop, producing, working, Tried, HeldLen
<1>4. ASSUME inHand = Nobody, queue # <<>>, inHand' = Head(queue), queue' = Tail(queue), batch' = batch,
             accepted' = accepted
      PROVE  Tried' = Tried
  <2>1. Len(queue') = Len(queue) - 1 /\ Head(queue) \in Records
    BY <1>4 DEF RecordsTyped
  <2>2. HeldLen = 0 /\ HeldLen' = 1
    BY <1>4, <2>1, NobodyFacts DEF HeldLen
  <2> QED
    BY <1>4, <2>1, <2>2, Lengths DEF Tried
<1>5. TakeRecord => accepted' = accepted /\ Tried' = Tried
  BY <1>4 DEF TakeRecord, others, HandFlow
<1>6. ASSUME AppendRecord PROVE accepted' = accepted /\ Tried' = Tried
  <2>1. CASE Overflows
    BY <1>6, <2>1 DEF AppendRecord, others, Tried, HeldLen
  <2>2. CASE ~Overflows
    <3>1. inHand \in Records /\ HeldLen = 1 /\ HeldLen' = 0
      BY <1>6, <2>2 DEF AppendRecord, HandFlow, RecordsTyped, HeldLen
    <3>2. Len(batch') = Len(batch) + 1
      BY <1>6, <2>2, <3>1, AppendProperties DEF AppendRecord, RecordsTyped
    <3> QED
      BY <1>6, <3>1, <3>2, Lengths DEF AppendRecord, others, Tried
  <2> QED
    BY <2>1, <2>2
<1>7. ASSUME Drain PROVE accepted' = accepted /\ Tried' = Tried
  <2>1. CASE queue # <<>>
    BY <1>4, <1>7, <2>1 DEF Drain, others, HandFlow
  <2>2. CASE queue = <<>>
    BY <1>7, <2>2 DEF Drain, others, Tried, HeldLen
  <2> QED
    BY <2>1, <2>2
<1>8. RecordsStill => accepted' = accepted /\ Tried' = Tried
  BY DEF RecordsStill, Tried, HeldLen
<1> QED
  BY <1>1, <1>2, <1>3, <1>5, <1>6, <1>7, <1>8, RecordSteps
LEMMA TriedFirstKept ==
    ASSUME RecordsTyped, HandFlow, Layout, TriedFirst, Once, Admissions, [Next]_vars
    PROVE  TriedFirst'
<1>1. ASSUME NEW i \in 1 .. Len(accepted) PROVE accepted[i] \in Records /\ IsAccepted(accepted[i])
  BY Lengths DEF IsAccepted
<1>2. CASE ~Deliver
  <2>1. ASSUME NEW i \in 1 .. Len(accepted') PROVE Attempted(accepted[i])' <=> i <= Tried'
    <3>1. CASE i \in 1 .. Len(accepted)
      <4>1. accepted'[i] = accepted[i] /\ Tried' = Tried
        BY <1>2, <3>1, TriedStill
      <4>2. status'[accepted[i]] = status[accepted[i]]
        BY <1>1, <1>2, <3>1, StatusMoves DEF StatusMove
      <4> QED
        BY <3>1, <4>1, <4>2 DEF TriedFirst, Attempted
    <3>2. CASE i \notin 1 .. Len(accepted)
      <4>1. i > Tried /\ ~Attempted(accepted[i])' /\ Tried' = Tried
        BY <1>2, <3>2, TriedStill
      <4> QED
        BY <4>1, Lengths
    <3> QED
      BY <3>1, <3>2
  <2> QED
    BY <2>1 DEF TriedFirst
<1>3. CASE Deliver
  <2>1. accepted' = accepted /\ queue' = queue /\ inHand' = inHand /\ batch' = <<>>
    BY <1>3 DEF Deliver, others
  <2>2. Tried' = Tried + Len(batch)
    <3>1. Len(accepted) \in Int /\ Len(batch) \in Int /\ Len(queue) \in Int /\ HeldLen \in Int
      BY Lengths
    <3>2. HeldLen' = HeldLen /\ Len(batch') = 0
      BY <2>1 DEF HeldLen
    <3> QED
      BY <2>1, <3>1, <3>2 DEF Tried
  <2>3. ASSUME NEW i \in 1 .. Len(accepted) PROVE Attempted(accepted[i])' <=> i <= Tried'
    <3>1. CASE i <= Tried
      <4>1. Attempted(accepted[i])
        BY <3>1 DEF TriedFirst
      <4>2. Attempted(accepted[i])'
        BY <1>1, <2>1, <4>1, StatusMoves DEF StatusMove, Attempted
      <4> QED
        BY <2>2, <3>1, <4>2, Lengths
    <3>2. CASE i > Tried /\ i <= Tried + Len(batch)
      <4>1. i - Tried \in 1 .. Len(batch) /\ Tried + (i - Tried) = i
        BY <3>2, Lengths
      <4>2. batch[i - Tried] = accepted[i]
        BY <4>1 DEF Layout
      <4>3. accepted[i] \in ToSet(batch) /\ accepted[i] \in Records
        BY <1>1, <4>1, <4>2, LenProperties DEF ToSet, RecordsTyped
      <4>4. Attempted(accepted[i])'
        BY <1>3, <2>1, <4>3 DEF Deliver, Attempted
      <4> QED
        BY <2>2, <3>2, <4>4
    <3>3. CASE i > Tried + Len(batch)
      <4>1. ASSUME InBatch(accepted[i]) PROVE FALSE
        <5>1. PICK j \in 1 .. Len(batch) : batch[j] = accepted[i]
          BY <4>1 DEF InBatch
        <5>2. Tried + j \in 1 .. Len(accepted) /\ accepted[Tried + j] = accepted[i]
          BY <5>1, BatchNotTried
        <5>3. Tried + j = i
          BY <5>2 DEF Once
        <5> QED
          BY <3>3, <5>3, Lengths
      <4>2. status'[accepted[i]] = status[accepted[i]]
        BY <1>1, <4>1, StatusMoves DEF StatusMove
      <4>3. ~Attempted(accepted[i])
        BY <3>3, Lengths DEF TriedFirst
      <4> QED
        BY <2>1, <2>2, <3>3, <4>2, <4>3, Lengths DEF Attempted
    <3> QED
      BY <3>1, <3>2, <3>3, Lengths
  <2> QED
    BY <2>1, <2>3 DEF TriedFirst
<1> QED
  BY <1>2, <1>3

-----------------------------------------------------------------------------
(* Errors and answers *)

LEMMA ErrorsKept ==
    ASSUME RecordsTyped, WorkerTyped, BatchFlow, Layout, TriedFirst, Admissions, Errors, [Next]_vars
    PROVE  Errors'
<1>1. CASE Deliver
  <2>1. batch # <<>>
    BY <1>1 DEF Deliver, BatchFlow
  <2>2. 1 \in 1 .. Len(batch) /\ batch[1] \in Records /\ InBatch(batch[1])
    BY <2>1, Lengths, EmptySeq DEF RecordsTyped, InBatch
  <2>3. ASSUME NEW p \in Records, ~InBatch(p) PROVE status'[p] = status[p]
    <3>1. p \notin ToSet(batch)
      BY <2>3, LenProperties DEF ToSet, InBatch, RecordsTyped
    <3> QED
      BY <1>1, <3>1 DEF Deliver
  <2>4. ASSUME NEW p \in Records, InBatch(p) PROVE status[p] # "failed"
    BY <2>4, BatchNotTried DEF InBatch, Attempted
  <2>5. CASE (\A p \in Records : InBatch(p) => status'[p] = "sent") /\ lastErr' = lastErr
    <3>1. \A p \in Records : status'[p] = "failed" <=> status[p] = "failed"
      BY <2>3, <2>4, <2>5
    <3> QED
      BY <2>5, <3>1 DEF Errors
  <2>6. CASE (\A p \in Records : InBatch(p) => status'[p] = "failed") /\ lastErr' = TRUE
    BY <2>2, <2>6 DEF Errors
  <2> QED
    BY <1>1, <2>5, <2>6, Delivered
<1>2. CASE ~Deliver
  <2>1. lastErr' = lastErr
    BY <1>2, WorkerSteps
    DEF TakeFlush, TakeRecord, Tick, TakeClose, MarkDequeued, AppendRecord, Drain, FinishFlush, FinishClose, WorkerStill
  <2>2. \A p \in Records : status'[p] = "failed" <=> status[p] = "failed"
    BY <1>2, RecordSteps DEF Send, Drop, TakeRecord, AppendRecord, Drain, RecordsStill, RecordsTyped
  <2> QED
    BY <2>1, <2>2 DEF Errors
<1> QED
  BY <1>1, <1>2
(* Once the sender is done there is nothing left to attempt. *)
LEMMA DoneAll ==
    ASSUME RecordsTyped, HandFlow, BatchFlow, ModeFlow, CloseFlow, DoneFlow, Layout, TriedFirst, done
    PROVE  \A p \in Records : IsAccepted(p) => Attempted(p)
<1>1. worker = "gone"
  BY DEF DoneFlow
<1>2. inHand = Nobody /\ batch = <<>> /\ queue = <<>>
  BY <1>1 DEF HandFlow, BatchFlow, ModeFlow, CloseFlow
<1>3. Tried = Len(accepted)
  <2>1. Len(batch) = 0 /\ Len(queue) = 0 /\ HeldLen = 0 /\ Len(accepted) \in Int
    BY <1>2, Lengths DEF HeldLen
  <2> QED
    BY <2>1 DEF Tried
<1> QED
  BY <1>3, Lengths DEF IsAccepted, TriedFirst

LEMMA InitFlush == Init => Errors /\ FlushedKnown /\ ServedOnce /\ ServedSeen /\ AnsweredSent
<1> SUFFICES ASSUME Init PROVE Errors /\ FlushedKnown /\ ServedOnce /\ ServedSeen /\ AnsweredSent
  OBVIOUS
<1> USE NobodyFacts DEF Init
<1>1. Errors
  BY DEF Errors
<1>2. FlushedKnown
  BY DEF FlushedKnown
<1>3. ServedOnce
  BY DEF ServedOnce
<1>4. ServedSeen
  BY DEF ServedSeen
<1>5. AnsweredSent
  BY DEF AnsweredSent
<1> QED
  BY <1>1, <1>2, <1>3, <1>4, <1>5

LEMMA FlushedKnownKept ==
    ASSUME RecordsTyped, FlushesTyped, Layout, TriedFirst, Admissions, FlushedKnown, [Next]_vars
    PROVE  FlushedKnown'
<1>1. \A p \in Records : IsAccepted(p) => IsAccepted(p)'
  BY StatusMoves DEF StatusMove
<1>2. ASSUME NEW f \in Flushes, CallFlush(f) PROVE FlushedKnown'
  <2>1. before' = [before EXCEPT ![f] = ToSet(accepted)]
    BY <1>2 DEF CallFlush
  <2>2. \A p \in ToSet(accepted) : p \in Records /\ IsAccepted(p)
    BY Lengths, LenProperties DEF ToSet, IsAccepted, RecordsTyped
  <2> QED
    BY <1>1, <2>1, <2>2 DEF FlushedKnown, FlushesTyped
<1>3. before' = before => FlushedKnown'
  BY <1>1 DEF FlushedKnown, FlushesTyped
<1> QED
  BY <1>2, <1>3, FlushSteps
  DEF FlushAfterDone, FlushAnswered, FlushTimeout, TakeFlush, FinishFlush, FlushesStill

LEMMA ServedOnceKept ==
    ASSUME FlushesTyped, WorkerTyped, ServedOnce, [Next]_vars
    PROVE  ServedOnce'
<1> USE NobodyFacts DEF FlushesTyped
<1>1. mode' = "flush" => serving' # Nobody
  <2>1. ASSUME NEW f \in Flushes, TakeFlush(f) PROVE serving' # Nobody
    BY <2>1 DEF TakeFlush
  <2>2. FinishFlush => mode' = "one"
    BY DEF FinishFlush
  <2>3. TakeRecord \/ Tick => mode' = "one"
    BY DEF TakeRecord, Tick
  <2>4. TakeClose => mode' = "close"
    BY DEF TakeClose
  <2>5. MarkDequeued \/ AppendRecord \/ Deliver \/ Drain \/ FinishClose => mode' = mode /\ serving' = serving
    BY DEF MarkDequeued, AppendRecord, Deliver, Drain, FinishClose
  <2>6. WorkerStill => mode' = mode /\ (serving' = serving \/ FinishFlush \/ \E f \in Flushes : TakeFlush(f))
    <3>1. FlushesStill => serving' = serving
      BY DEF FlushesStill
    <3>2. \A f \in Flushes : CallFlush(f) \/ FlushAfterDone(f) \/ FlushAnswered(f) \/ FlushTimeout(f) => serving' = serving
      BY DEF CallFlush, FlushAfterDone, FlushAnswered, FlushTimeout, working
    <3> QED
      BY <3>1, <3>2, FlushSteps DEF WorkerStill
  <2> QED
    BY <2>1, <2>2, <2>3, <2>4, <2>5, <2>6, WorkerSteps DEF ServedOnce
<1>2. ASSUME NEW f \in Flushes, serving' = f PROVE flusher'[f] \notin {"idle", "sending"}
  <2>1. ASSUME NEW g \in Flushes, CallFlush(g) PROVE flusher'[f] \notin {"idle", "sending"}
    BY <1>2, <2>1 DEF CallFlush, working, ServedOnce
  <2>2. ASSUME NEW g \in Flushes, FlushAfterDone(g) PROVE flusher'[f] \notin {"idle", "sending"}
    BY <1>2, <2>2 DEF FlushAfterDone, working, ServedOnce
  <2>3. ASSUME NEW g \in Flushes, FlushAnswered(g) PROVE flusher'[f] \notin {"idle", "sending"}
    BY <1>2, <2>3 DEF FlushAnswered, working, ServedOnce
  <2>4. ASSUME NEW g \in Flushes, FlushTimeout(g) PROVE flusher'[f] \notin {"idle", "sending"}
    BY <1>2, <2>4 DEF FlushTimeout, working, ServedOnce
  <2>5. ASSUME NEW g \in Flushes, TakeFlush(g) PROVE flusher'[f] \notin {"idle", "sending"}
    BY <1>2, <2>5 DEF TakeFlush
  <2>6. FinishFlush => serving' = Nobody
    BY DEF FinishFlush
  <2>7. FlushesStill => flusher'[f] \notin {"idle", "sending"}
    BY <1>2 DEF FlushesStill, ServedOnce
  <2> QED
    BY <1>2, <2>1, <2>2, <2>3, <2>4, <2>5, <2>6, <2>7, FlushSteps
<1> QED
  BY <1>1, <1>2 DEF ServedOnce
LEMMA ServedSeenKept ==
    ASSUME RecordsTyped, FlushesTyped, WorkerTyped, HandFlow, Layout, TriedFirst, Admissions,
           FlushedKnown, ServedOnce, ServedSeen, [Next]_vars
    PROVE  ServedSeen'
<1> SUFFICES ASSUME mode' = "flush", worker' \in {"final", "finish"}, NEW p \in before'[serving']
             PROVE  Attempted(p)' \/ InBatch(p)'
  BY DEF ServedSeen
<1>1. \A q \in Records : Attempted(q) => Attempted(q)'
  BY StatusMoves DEF StatusMove, Attempted
<1>2. mode = "flush" => /\ serving \in Flushes
                        /\ \A q \in before[serving] : q \in Records /\ IsAccepted(q)
  BY DEF ServedOnce, FlushesTyped, FlushedKnown
<1>3. CASE Deliver
  <2>1. /\ worker = "final" /\ mode = "flush" /\ p \in before[serving]
    BY <1>3 DEF Deliver, AfterDelivery, Resumed, others
  <2>2. Attempted(p) \/ InBatch(p)
    BY <2>1 DEF ServedSeen
  <2>3. InBatch(p) => Attempted(p)'
    BY <1>2, <1>3, <2>1, Delivered DEF Attempted
  <2> QED
    BY <1>1, <1>2, <2>1, <2>2, <2>3
<1>4. CASE Drain
  <2>1. /\ worker = "drain" /\ queue = <<>> /\ mode = "flush" /\ p \in before[serving] /\ batch' = batch
    BY <1>4 DEF Drain, others
  <2>2. PICK i \in 1 .. Len(accepted) : accepted[i] = p
    BY <1>2, <2>1 DEF IsAccepted
  <2>3. CASE i <= Tried
    BY <1>1, <1>2, <2>1, <2>2, <2>3 DEF TriedFirst
  <2>4. CASE i > Tried
    <3>1. Len(queue) = 0 /\ HeldLen = 0
      BY <2>1 DEF HandFlow, HeldLen
    <3>2. Tried = Len(accepted) - Len(batch)
      BY <3>1, Lengths DEF Tried
    <3>3. i - Tried \in 1 .. Len(batch) /\ Tried + (i - Tried) = i
      BY <2>4, <3>2, Lengths
    <3>4. batch[i - Tried] = p
      BY <2>2, <3>3 DEF Layout
    <3>5. batch'[i - Tried] = p /\ i - Tried \in 1 .. Len(batch')
      BY <2>1, <3>3, <3>4
    <3> QED
      BY <3>5 DEF InBatch
  <2> QED
    BY <2>3, <2>4, Lengths
<1>5. CASE WorkerStill
  <2>1. mode = "flush" /\ worker \in {"final", "finish"} /\ worker' = worker
    BY <1>5 DEF WorkerStill
  <2>2. serving' = serving /\ before'[serving] = before[serving]
    <3>1. ASSUME NEW g \in Flushes, CallFlush(g)
          PROVE  serving' = serving /\ before'[serving] = before[serving]
      <4>1. serving # g
        BY <3>1 DEF CallFlush, ServedOnce
      <4> QED
        BY <1>2, <2>1, <3>1, <4>1 DEF CallFlush, working, FlushesTyped
    <3>2. \A g \in Flushes : FlushAfterDone(g) \/ FlushAnswered(g) \/ FlushTimeout(g)
                              => serving' = serving /\ before' = before
      BY DEF FlushAfterDone, FlushAnswered, FlushTimeout, working
    <3>3. \A g \in Flushes : ~TakeFlush(g)
      BY <2>1 DEF TakeFlush
    <3>4. ~FinishFlush
      BY <2>1 DEF FinishFlush
    <3>5. FlushesStill => serving' = serving /\ before' = before
      BY DEF FlushesStill
    <3> QED
      BY <3>1, <3>2, <3>3, <3>4, <3>5, FlushSteps
  <2>3. p \in before[serving] /\ batch' = batch
    BY <1>5, <2>2, HandStep
  <2>4. Attempted(p) \/ InBatch(p)
    BY <2>1, <2>3 DEF ServedSeen
  <2>5. InBatch(p) => InBatch(p)'
    BY <2>3 DEF InBatch
  <2> QED
    BY <1>1, <1>2, <2>1, <2>3, <2>4, <2>5
<1>6. \A f \in Flushes : ~TakeFlush(f)
  BY DEF TakeFlush
<1>7. ~TakeRecord /\ ~Tick /\ ~TakeClose /\ ~MarkDequeued
  BY DEF TakeRecord, Tick, TakeClose, MarkDequeued
<1>8. ~AppendRecord /\ ~FinishFlush /\ ~FinishClose
  BY DEF AppendRecord, Resumed, FinishFlush, FinishClose
<1> QED
  BY <1>3, <1>4, <1>5, <1>6, <1>7, <1>8, WorkerSteps

(* An attempt that no error is left of was a success. *)
LEMMA NoErrorSent ==
    ASSUME Errors, ~lastErr, NEW p \in Records, Attempted(p)
    PROVE  status[p] = "sent"
BY DEF Errors, Attempted

LEMMA EmptyBatch ==
    ASSUME batch = <<>>, NEW p
    PROVE  ~InBatch(p)
BY DEF InBatch

LEMMA AnsweredSentKept ==
    ASSUME RecordsTyped, FlushesTyped, WorkerTyped, HandFlow, BatchFlow, ModeFlow, CloseFlow, DoneFlow,
           Layout, TriedFirst, Admissions, Errors, FlushedKnown, ServedOnce, ServedSeen, AnsweredSent,
           [Next]_vars
    PROVE  AnsweredSent'
<1> SUFFICES ASSUME NEW f \in Flushes, flusher'[f] \in {"answered ok", "ok"}, NEW p \in before'[f]
             PROVE  status'[p] = "sent"
  BY DEF AnsweredSent
<1>1. \A q \in Records : status[q] = "sent" => status'[q] = "sent"
  BY StatusMoves DEF StatusMove, Attempted
<1>2. \A q \in before[f] : q \in Records /\ IsAccepted(q)
  BY DEF FlushedKnown, FlushesTyped
<1>3. ASSUME flusher[f] \in {"answered ok", "ok"}, p \in before[f] PROVE status'[p] = "sent"
  BY <1>1, <1>2, <1>3 DEF AnsweredSent
<1>4. ASSUME NEW g \in Flushes, CallFlush(g) PROVE status'[p] = "sent"
  <2>1. f # g
    BY <1>4 DEF CallFlush, FlushesTyped
  <2>2. flusher'[f] = flusher[f] /\ before'[f] = before[f]
    BY <1>4, <2>1 DEF CallFlush, FlushesTyped
  <2> QED
    BY <1>3, <2>2
<1>5. ASSUME NEW g \in Flushes, FlushAfterDone(g) PROVE status'[p] = "sent"
  <2>1. done /\ before' = before /\ p \in before[f]
    BY <1>5 DEF FlushAfterDone
  <2>2. CASE f = g
    <3>1. ~closeErr
      BY <1>5, <2>2 DEF FlushAfterDone, FlushesTyped
    <3>2. ~lastErr
      BY <2>1, <3>1 DEF DoneFlow
    <3>3. Attempted(p)
      BY <1>2, <2>1, DoneAll
    <3> QED
      BY <1>1, <1>2, <2>1, <3>2, <3>3, NoErrorSent
  <2>3. CASE f # g
    BY <1>3, <1>5, <2>1, <2>3 DEF FlushAfterDone, FlushesTyped
  <2> QED
    BY <2>2, <2>3
<1>6. ASSUME NEW g \in Flushes, FlushAnswered(g) PROVE status'[p] = "sent"
  <2>1. flusher[f] \in {"answered ok", "ok"} /\ p \in before[f]
    BY <1>6 DEF FlushAnswered, FlushesTyped
  <2> QED
    BY <1>3, <2>1
<1>7. ASSUME NEW g \in Flushes, FlushTimeout(g) PROVE status'[p] = "sent"
  <2>1. flusher[f] \in {"answered ok", "ok"} /\ p \in before[f]
    BY <1>7 DEF FlushTimeout, FlushesTyped
  <2> QED
    BY <1>3, <2>1
<1>8. ASSUME NEW g \in Flushes, TakeFlush(g) PROVE status'[p] = "sent"
  <2>1. flusher[f] \in {"answered ok", "ok"} /\ p \in before[f]
    BY <1>8 DEF TakeFlush, FlushesTyped
  <2> QED
    BY <1>3, <2>1
<1>9. CASE FinishFlush
  <2>1. worker = "finish" /\ mode = "flush" /\ before' = before /\ p \in before[f]
    BY <1>9 DEF FinishFlush
  <2>2. CASE f = serving /\ flusher[f] = "waiting"
    <3>1. ~lastErr
      BY <1>9, <2>2 DEF FinishFlush, FlushesTyped
    <3>2. batch = <<>>
      BY <2>1 DEF BatchFlow
    <3>3. ~InBatch(p)
      BY <3>2, EmptyBatch
    <3>4. Attempted(p)
      BY <2>1, <2>2, <3>3 DEF ServedSeen
    <3> QED
      BY <1>1, <1>2, <2>1, <3>1, <3>4, NoErrorSent
  <2>3. CASE f # serving \/ flusher[f] # "waiting"
    <3>1. flusher'[f] = flusher[f]
      BY <1>9, <2>3 DEF FinishFlush, FlushesTyped
    <3> QED
      BY <1>3, <2>1, <3>1
  <2> QED
    BY <2>2, <2>3
<1>10. CASE FlushesStill
  BY <1>3, <1>10 DEF FlushesStill
<1> QED
  BY <1>4, <1>5, <1>6, <1>7, <1>8, <1>9, <1>10, FlushSteps

-----------------------------------------------------------------------------
(* Sums.  A sum of naturals is the number of units it is made of, which turns
   what is needed of the folds of the community modules into facts about finite
   sets: the fold is some function that satisfies its recursion (SomeSum), and
   every such function counts the units (OneSum). *)

LEMMA Least ==
    ASSUME NEW S \in SUBSET Nat, S # {}
    PROVE  \E m \in S : \A n \in S : m <= n
<1>1. PICK m \in S : \A n \in S : ~(<<n, m>> \in OpToRel(<, Nat))
  BY NatLessThanWellFounded, WFMin
<1>2. ASSUME NEW n \in S PROVE m <= n
  <2>1. n \in Nat /\ m \in Nat
    OBVIOUS
  <2>2. ASSUME n < m PROVE <<n, m>> \in OpToRel(<, Nat)
    BY <2>1, <2>2 DEF OpToRel
  <2>3. ~(n < m)
    BY <1>1, <2>2
  <2> QED
    BY <2>1, <2>3
<1> QED
  BY <1>2

(* The units of the weights w of the members of s. *)
Units(w, s) == UNION {{x} \X (1 .. w[x]) : x \in s}

LEMMA Unit ==
    ASSUME NEW w, NEW s, NEW e
    PROVE  e \in Units(w, s) <=> \E x \in s : \E k \in 1 .. w[x] : e = <<x, k>>
<1>1. ASSUME e \in Units(w, s) PROVE \E x \in s : \E k \in 1 .. w[x] : e = <<x, k>>
  <2>1. PICK x \in s : e \in {x} \X (1 .. w[x])
    BY <1>1 DEF Units
  <2> QED
    BY <2>1
<1>2. ASSUME NEW x \in s, NEW k \in 1 .. w[x], e = <<x, k>> PROVE e \in Units(w, s)
  <2>1. e \in {x} \X (1 .. w[x])
    BY <1>2
  <2> QED
    BY <2>1 DEF Units
<1> QED
  BY <1>1, <1>2

LEMMA UnitsFinite ==
    ASSUME NEW s, IsFiniteSet(s), NEW w \in [s -> Nat], NEW T \in SUBSET s
    PROVE  IsFiniteSet(Units(w, T))
<1> DEFINE S == {{x} \X (1 .. w[x]) : x \in T}
           f == [x \in T |-> {x} \X (1 .. w[x])]
<1>1. f \in Surjection(T, S)
  BY DEF Surjection
<1>2. IsFiniteSet(T)
  BY FS_Subset
<1> HIDE DEF f, S
<1>5. IsFiniteSet(S)
  BY <1>1, <1>2, FS_Surjection
<1> USE DEF S
<1>3. ASSUME NEW x \in T PROVE IsFiniteSet({x} \X (1 .. w[x]))
  <2>1. IsFiniteSet({x}) /\ w[x] \in Nat
    BY FS_Singleton
  <2>2. IsFiniteSet(1 .. w[x])
    BY <2>1, FS_Interval
  <2> QED
    BY <2>1, <2>2, FS_Product
<1>4. \A U \in S : IsFiniteSet(U)
  BY <1>3
<1> QED
  BY <1>4, <1>5, FS_UNION DEF Units

LEMMA UnitsLess ==
    ASSUME NEW D, IsFiniteSet(D), NEW w \in [D -> Nat], NEW s \in SUBSET D, NEW x \in s
    PROVE  Cardinality(Units(w, s)) = w[x] + Cardinality(Units(w, s \ {x}))
<1> DEFINE A == {x} \X (1 .. w[x])
           B == Units(w, s \ {x})
<1>1. Units(w, s) = A \cup B
  BY DEF Units
<1>2. A \cap B = {}
  BY DEF Units
<1>3. IsFiniteSet(B)
  BY UnitsFinite
<1>4. IsFiniteSet(A) /\ Cardinality(A) = w[x]
  <2>1. IsFiniteSet({x}) /\ Cardinality({x}) = 1
    BY FS_Singleton
  <2>2. w[x] \in Nat
    OBVIOUS
  <2>3. IsFiniteSet(1 .. w[x]) /\ Cardinality(1 .. w[x]) = w[x]
    BY <2>2, FS_Interval
  <2> HIDE DEF A
  <2>4. IsFiniteSet(A) /\ Cardinality(A) = 1 * w[x]
    BY <2>1, <2>3, FS_Product DEF A
  <2> QED
    BY <2>2, <2>4
<1>5. Cardinality(A \cap B) = 0
  BY <1>2, FS_EmptySet
<1>6. Cardinality(B) \in Nat
  BY <1>3, FS_CardinalityType
<1>7. Cardinality(A \cup B) = Cardinality(A) + Cardinality(B) - Cardinality(A \cap B)
  BY <1>3, <1>4, FS_Union
<1>8. w[x] \in Nat
  OBVIOUS
<1> HIDE DEF A, B
<1>9. Cardinality(A \cup B) = w[x] + Cardinality(B)
  BY <1>4, <1>5, <1>6, <1>7, <1>8
<1> QED
  BY <1>1, <1>9 DEF B

(* g sums up the weights w of every subset of D, as MapThenFoldSet does. *)
SumsUp(w, D, g) ==
    g = [s \in SUBSET D |-> IF s = {} THEN 0
                            ELSE w[CHOOSE x \in s : TRUE] + g[s \ {CHOOSE x \in s : TRUE}]]

LEMMA SomeSum ==
    ASSUME NEW D, IsFiniteSet(D), NEW w \in [D -> Nat]
    PROVE  \E g : SumsUp(w, D, g)
<1> DEFINE g == [s \in SUBSET D |-> Cardinality(Units(w, s))]
<1>1. ASSUME NEW s \in SUBSET D, s = {} PROVE g[s] = 0
  BY <1>1, FS_EmptySet DEF Units
<1>2. ASSUME NEW s \in SUBSET D, s # {}
      PROVE g[s] = w[CHOOSE x \in s : TRUE] + g[s \ {CHOOSE x \in s : TRUE}]
  <2>1. (CHOOSE x \in s : TRUE) \in s
    BY <1>2
  <2>2. PICK y : y = CHOOSE x \in s : TRUE
    OBVIOUS
  <2>3. y \in s /\ s \ {y} \in SUBSET D
    BY <2>1, <2>2
  <2>4. Cardinality(Units(w, s)) = w[y] + Cardinality(Units(w, s \ {y}))
    BY <2>3, UnitsLess
  <2>5. g[s] = w[y] + g[s \ {y}]
    BY <2>3, <2>4
  <2> QED
    BY <2>2, <2>5
<1>3. g = [s \in SUBSET D |-> g[s]]
  OBVIOUS
<1> HIDE DEF g
<1>4. g = [s \in SUBSET D |-> IF s = {} THEN 0
                              ELSE w[CHOOSE x \in s : TRUE] + g[s \ {CHOOSE x \in s : TRUE}]]
  BY <1>1, <1>2, <1>3
<1> QED
  BY <1>4 DEF SumsUp

LEMMA OneSum ==
    ASSUME NEW D, IsFiniteSet(D), NEW w \in [D -> Nat], NEW g, SumsUp(w, D, g)
    PROVE  \A s \in SUBSET D : g[s] = Cardinality(Units(w, s))
<1> SUFFICES ASSUME NEW bad \in SUBSET D, g[bad] # Cardinality(Units(w, bad)) PROVE FALSE
  OBVIOUS
<1> DEFINE sizes == {n \in Nat : \E s \in SUBSET D : n = Cardinality(s) /\ g[s] # Cardinality(Units(w, s))}
<1>1. \A s \in SUBSET D : IsFiniteSet(s) /\ Cardinality(s) \in Nat
  BY FS_Subset, FS_CardinalityType
<1>2. sizes # {}
  BY <1>1
<1>3. PICK m \in sizes : \A n \in sizes : m <= n
  BY <1>2, Least
<1>4. PICK s \in SUBSET D : m = Cardinality(s) /\ g[s] # Cardinality(Units(w, s))
  OBVIOUS
<1>5. s # {}
  <2>1. g[{}] = 0
    BY DEF SumsUp
  <2>2. Cardinality(Units(w, {})) = 0
    BY FS_EmptySet DEF Units
  <2> QED
    BY <1>4, <2>1, <2>2
<1>6. PICK x \in s : g[s] = w[x] + g[s \ {x}]
  <2>1. (CHOOSE x \in s : TRUE) \in s
    BY <1>5
  <2> QED
    BY <1>5, <2>1 DEF SumsUp
<1>7. Cardinality(s \ {x}) = m - 1 /\ m \in Nat /\ m - 1 \in Nat
  <2>1. Cardinality(s) # 0
    BY <1>1, <1>5, FS_EmptySet
  <2>2. Cardinality(s \ {x}) = Cardinality(s) - 1
    BY <1>1, FS_RemoveElement
  <2>3. Cardinality(s) \in Nat
    BY <1>1
  <2> QED
    BY <1>4, <2>1, <2>2, <2>3
<1>8. g[s \ {x}] = Cardinality(Units(w, s \ {x}))
  <2>1. m - 1 \notin sizes
    BY <1>3, <1>7
  <2> QED
    BY <1>7, <2>1
<1> QED
  BY <1>4, <1>6, <1>8, UnitsLess

(* What a sequence of records adds up to. *)
Weight(f, S) == Cardinality(Units([i \in 1 .. Len(S) |-> f[S[i]]], 1 .. Len(S)))

LEMMA TotalCounted ==
    ASSUME NEW S \in Seq(Records), size \in [Records -> Nat]
    PROVE  TotalSize(S) = Weight(size, S)
<1> DEFINE w == [i \in 1 .. Len(S) |-> size[S[i]]]
           D == 1 .. Len(S)
<1>1. IsFiniteSet(D) /\ D = DOMAIN S /\ D \in SUBSET D
   BY LenProperties, FS_Interval
<1>2. w \in [D -> Nat]
  BY LenProperties
<1>3. PICK h : SumsUp(w, D, h)
  BY <1>1, <1>2, SomeSum
<1>4. TotalSize(S) = (CHOOSE g : g = [s \in SUBSET D |-> IF s = {} THEN 0 ELSE size[S[CHOOSE x \in s : TRUE]] + g[s \ {CHOOSE x \in s : TRUE}]])[D]
  BY <1>1 DEF TotalSize, FoldSeq, FoldFunction, FoldFunctionOnSet, MapThenFoldSet
<1>5. \A g : SumsUp(w, D, g) <=> g = [s \in SUBSET D |-> IF s = {} THEN 0 ELSE size[S[CHOOSE x \in s : TRUE]] + g[s \ {CHOOSE x \in s : TRUE}]]
  <2>1. ASSUME NEW s \in SUBSET D, s # {} PROVE w[CHOOSE x \in s : TRUE] = size[S[CHOOSE x \in s : TRUE]]
    <3>1. (CHOOSE x \in s : TRUE) \in s
       BY <2>1
    <3> QED
      BY <3>1
  <2> SUFFICES ASSUME NEW g
               PROVE  SumsUp(w, D, g) <=> g = [s \in SUBSET D |-> IF s = {} THEN 0 ELSE size[S[CHOOSE x \in s : TRUE]] + g[s \ {CHOOSE x \in s : TRUE}]]
    OBVIOUS
  <2> DEFINE one(s) == IF s = {} THEN 0 ELSE w[CHOOSE x \in s : TRUE] + g[s \ {CHOOSE x \in s : TRUE}]
             other(s) == IF s = {} THEN 0 ELSE size[S[CHOOSE x \in s : TRUE]] + g[s \ {CHOOSE x \in s : TRUE}]
  <2> HIDE DEF w, D
  <2>2. ASSUME NEW s \in SUBSET D PROVE one(s) = other(s)
    <3>1. CASE s = {}
      BY <3>1
    <3>2. CASE s # {}
      BY <2>1, <3>2
    <3> QED
      BY <3>1, <3>2
  <2> HIDE DEF one, other
  <2>3. [s \in SUBSET D |-> one(s)] = [s \in SUBSET D |-> other(s)]
    BY <2>2
  <2> QED
    BY <2>3, Zenon DEF SumsUp, one, other
<1> DEFINE Q(g) == g = [s \in SUBSET D |-> IF s = {} THEN 0 ELSE size[S[CHOOSE x \in s : TRUE]] + g[s \ {CHOOSE x \in s : TRUE}]]
<1>6. PICK g : SumsUp(w, D, g) /\ TotalSize(S) = g[D]
  <2>1. TotalSize(S) = (CHOOSE g : Q(g))[D]
    BY <1>4
  <2>2. Q(h)
    BY <1>3, <1>5
  <2> HIDE DEF Q
  <2>3. Q(CHOOSE g : Q(g))
    BY <2>2
  <2> USE DEF Q
  <2>4. SumsUp(w, D, CHOOSE g : Q(g))
    BY <2>3, <1>5
  <2> QED
    BY <2>1, <2>4
<1> HIDE DEF w, D
<1>7. \A s \in SUBSET D : g[s] = Cardinality(Units(w, s))
  BY <1>1, <1>2, <1>6, OneSum
<1>8. TotalSize(S) = Cardinality(Units(w, D))
  BY <1>1, <1>6, <1>7
<1> QED
  BY <1>8 DEF w, D, Weight

LEMMA Weights ==
    ASSUME NEW f \in [Records -> Nat], NEW S \in Seq(Records)
    PROVE  /\ Len(S) \in Nat /\ \A i \in 1 .. Len(S) : S[i] \in Records
           /\ [i \in 1 .. Len(S) |-> f[S[i]]] \in [1 .. Len(S) -> Nat]
           /\ IsFiniteSet(1 .. Len(S))
           /\ Weight(f, S) \in Nat
<1>1. Len(S) \in Nat /\ \A i \in 1 .. Len(S) : S[i] \in Records
  BY LenProperties
<1>2. [i \in 1 .. Len(S) |-> f[S[i]]] \in [1 .. Len(S) -> Nat]
  BY <1>1
<1>3. IsFiniteSet(1 .. Len(S))
  BY <1>1, FS_Interval
<1>4. IsFiniteSet(Units([i \in 1 .. Len(S) |-> f[S[i]]], 1 .. Len(S)))
  BY <1>2, <1>3, UnitsFinite
<1>5. Weight(f, S) \in Nat
  BY <1>4, FS_CardinalityType DEF Weight
<1> QED
  BY <1>1, <1>2, <1>3, <1>5

LEMMA WeightEmpty ==
    ASSUME NEW f
    PROVE  Weight(f, <<>>) = 0
<1>1. 1 .. Len(<<>>) = {}
  OBVIOUS
<1> QED
  BY <1>1, FS_EmptySet DEF Weight, Units

LEMMA WeightAppend ==
    ASSUME NEW f \in [Records -> Nat], NEW S \in Seq(Records), NEW p \in Records
    PROVE  Weight(f, Append(S, p)) = Weight(f, S) + f[p]
<1> DEFINE T == Append(S, p)
           n == Len(S)
           w == [i \in 1 .. n |-> f[S[i]]]
           v == [i \in 1 .. n + 1 |-> f[T[i]]]
<1>1. T \in Seq(Records) /\ Len(T) = n + 1 /\ n \in Nat
  BY LenProperties, AppendProperties
<1>2. T[n + 1] = p /\ \A i \in 1 .. n : T[i] = S[i]
  BY AppendProperties, LenProperties
<1>3. v \in [1 .. n + 1 -> Nat] /\ IsFiniteSet(1 .. n + 1)
  BY <1>1, Weights
<1>4. v[n + 1] = f[p] /\ \A i \in 1 .. n : v[i] = w[i]
  BY <1>1, <1>2
<1>5. (1 .. n + 1) \ {n + 1} = 1 .. n /\ n + 1 \in 1 .. n + 1
  BY <1>1
<1> HIDE DEF v, w, n
<1>6. Cardinality(Units(v, 1 .. n + 1)) = v[n + 1] + Cardinality(Units(v, (1 .. n + 1) \ {n + 1}))
  BY <1>3, <1>5, UnitsLess
<1>7. Units(v, 1 .. n) = Units(w, 1 .. n)
  BY <1>4 DEF Units
<1>8. Weight(f, T) = f[p] + Weight(f, S)
  <2>1. Weight(f, T) = Cardinality(Units(v, 1 .. n + 1))
    BY <1>1 DEF Weight, v
  <2>2. Weight(f, S) = Cardinality(Units(w, 1 .. n))
    BY DEF Weight, w, n
  <2> QED
    BY <1>4, <1>5, <1>6, <1>7, <2>1, <2>2
<1>9. Weight(f, S) \in Nat /\ f[p] \in Nat
  BY Weights
<1> QED
  BY <1>8, <1>9

(* The units of a tail are those of the sequence, one place on. *)
LEMMA WeightTail ==
    ASSUME NEW f \in [Records -> Nat], NEW S \in Seq(Records), S # <<>>
    PROVE  Weight(f, S) = f[Head(S)] + Weight(f, Tail(S))
<1> DEFINE T == Tail(S)
           n == Len(T)
           w == [i \in 1 .. n |-> f[T[i]]]
           v == [i \in 1 .. n + 1 |-> f[S[i]]]
           b == [e \in Units(w, 1 .. n) |-> <<e[1] + 1, e[2]>>]
<1>1. T \in Seq(Records) /\ Len(S) = n + 1 /\ n \in Nat
  BY LenProperties, HeadTailProperties
<1>2. Head(S) = S[1] /\ \A i \in 1 .. n : T[i] = S[i + 1]
  BY HeadTailProperties, LenProperties
<1>3. v \in [1 .. n + 1 -> Nat] /\ w \in [1 .. n -> Nat] /\ IsFiniteSet(1 .. n + 1) /\ IsFiniteSet(1 .. n)
  BY <1>1, Weights
<1>4. v[1] = f[Head(S)] /\ \A i \in 1 .. n : w[i] = v[i + 1]
  BY <1>1, <1>2
<1>5. (1 .. n + 1) \ {1} = 2 .. n + 1 /\ 1 \in 1 .. n + 1
  BY <1>1
<1>6. b \in Bijection(Units(w, 1 .. n), Units(v, 2 .. n + 1))
  <2>1. \A e : e \in Units(w, 1 .. n) <=> \E i \in 1 .. n : \E k \in 1 .. w[i] : e = <<i, k>>
    <3> DEFINE D == 1 .. n
    <3> HIDE DEF w, D
    <3>1. \A e : e \in Units(w, D) <=> \E i \in D : \E k \in 1 .. w[i] : e = <<i, k>>
      BY Unit
    <3> QED
      BY <3>1 DEF D
  <2>2. \A e : e \in Units(v, 2 .. n + 1) <=> \E i \in 2 .. n + 1 : \E k \in 1 .. v[i] : e = <<i, k>>
    <3> DEFINE D == 2 .. n + 1
    <3> HIDE DEF v, D
    <3>1. \A e : e \in Units(v, D) <=> \E i \in D : \E k \in 1 .. v[i] : e = <<i, k>>
      BY Unit
    <3> QED
      BY <3>1 DEF D
  <2> HIDE DEF v, w, n
  <2>3. ASSUME NEW e \in Units(w, 1 .. n) PROVE b[e] \in Units(v, 2 .. n + 1)
    <3>0. PICK i \in 1 .. n : \E k \in 1 .. w[i] : e = <<i, k>>
      BY <2>1
    <3>1. PICK k \in 1 .. w[i] : e = <<i, k>>
      BY <3>0
    <3>2. b[e] = <<i + 1, k>> /\ k \in 1 .. v[i + 1] /\ i + 1 \in 2 .. n + 1
      BY <1>1, <1>4, <3>1
    <3> QED
      BY <2>2, <3>2
  <2>4. ASSUME NEW d \in Units(w, 1 .. n), NEW e \in Units(w, 1 .. n), b[d] = b[e] PROVE d = e
    <3>1. PICK i \in 1 .. n : \E k \in 1 .. w[i] : d = <<i, k>>
      BY <2>1
    <3>2. PICK j \in 1 .. n : \E k \in 1 .. w[j] : e = <<j, k>>
      BY <2>1
    <3>4. PICK k : d = <<i, k>>
      BY <3>1
    <3>5. PICK l : e = <<j, l>>
      BY <3>2
    <3>3. i + 1 = j + 1 /\ k = l
      BY <2>4, <3>4, <3>5
    <3> QED
      BY <1>1, <3>4, <3>5, <3>3
  <2>5. ASSUME NEW e \in Units(v, 2 .. n + 1) PROVE \E d \in Units(w, 1 .. n) : b[d] = e
    <3>0. PICK i \in 2 .. n + 1 : \E k \in 1 .. v[i] : e = <<i, k>>
      BY <2>2
    <3>1. PICK k \in 1 .. v[i] : e = <<i, k>>
      BY <3>0
    <3>2. i - 1 \in 1 .. n /\ (i - 1) + 1 = i
      BY <1>1, <3>1
    <3>3. k \in 1 .. w[i - 1]
      BY <1>4, <3>1, <3>2
    <3>4. <<i - 1, k>> \in Units(w, 1 .. n)
      BY <2>1, <3>2, <3>3
    <3>5. b[<<i - 1, k>>] = e
      BY <3>1, <3>2, <3>4
    <3> QED
      BY <3>4, <3>5
  <2>6. b \in [Units(w, 1 .. n) -> Units(v, 2 .. n + 1)]
    BY <2>3
  <2> HIDE DEF b
  <2> QED
    BY <2>4, <2>5, <2>6, Fun_IsBij
<1> HIDE DEF v, w, n, b
<1>7. Cardinality(Units(v, 2 .. n + 1)) = Cardinality(Units(w, 1 .. n))
  <2>1. IsFiniteSet(Units(w, 1 .. n))
    BY <1>3, UnitsFinite
  <2> QED
    BY <1>6, <2>1, FS_Bijection DEF ExistsBijection
<1>8. Cardinality(Units(v, 1 .. n + 1)) = v[1] + Cardinality(Units(v, (1 .. n + 1) \ {1}))
  <2> DEFINE D == 1 .. n + 1
  <2>1. IsFiniteSet(D) /\ v \in [D -> Nat] /\ D \in SUBSET D /\ 1 \in D
    BY <1>3, <1>5
  <2> HIDE DEF D
  <2>2. Cardinality(Units(v, D)) = v[1] + Cardinality(Units(v, D \ {1}))
    BY <2>1, UnitsLess
  <2> QED
    BY <2>2 DEF D
<1>9. Weight(f, S) = Cardinality(Units(v, 1 .. n + 1))
  BY <1>1 DEF Weight, v
<1>10. Weight(f, T) = Cardinality(Units(w, 1 .. n))
  BY DEF Weight, w, n
<1> QED
  BY <1>4, <1>5, <1>7, <1>8, <1>9, <1>10

(* A sequence weighs at least what its last member does. *)
LEMMA WeightLast ==
    ASSUME NEW f \in [Records -> Nat], NEW S \in Seq(Records), S # <<>>
    PROVE  f[S[Len(S)]] <= Weight(f, S)
<1> DEFINE n == Len(S)
           v == [i \in 1 .. n |-> f[S[i]]]
<1>1. n \in Nat /\ n >= 1 /\ n \in 1 .. n
  BY LenProperties, EmptySeq
<1>2. v \in [1 .. n -> Nat] /\ IsFiniteSet(1 .. n) /\ v[n] = f[S[n]] /\ v[n] \in Nat
  BY <1>1, Weights
<1> HIDE DEF v, n
<1>3. Cardinality(Units(v, 1 .. n)) = v[n] + Cardinality(Units(v, (1 .. n) \ {n}))
  <2> DEFINE D == 1 .. n
  <2>1. IsFiniteSet(D) /\ v \in [D -> Nat] /\ D \in SUBSET D /\ n \in D
    BY <1>1, <1>2
  <2> HIDE DEF D
  <2>2. Cardinality(Units(v, D)) = v[n] + Cardinality(Units(v, D \ {n}))
    BY <2>1, UnitsLess
  <2> QED
    BY <2>2 DEF D
<1>4. Cardinality(Units(v, (1 .. n) \ {n})) \in Nat
  <2>1. (1 .. n) \ {n} \in SUBSET (1 .. n)
    OBVIOUS
  <2> QED
    BY <1>2, <2>1, UnitsFinite, FS_CardinalityType
<1>5. Weight(f, S) = Cardinality(Units(v, 1 .. n))
  BY DEF Weight, v, n
<1> QED
  BY <1>2, <1>3, <1>4, <1>5 DEF n

-----------------------------------------------------------------------------
(* The limits *)

(* What the producer holding mu has sent and not counted, and what the worker has
   taken and not uncounted. *)
Uncounted == IF mu = Nobody THEN 0 ELSE size[mu]

Unmarked == IF worker = "mark" THEN size[inHand] ELSE 0

Balance ==
    /\ pendingBytes + Uncounted = Weight(size, queue) + Unmarked
    /\ Weight(size, queue) + Unmarked <= MaxQueueBytes

(* A record whose producer has not counted it is the last on the channel, or
   waits in the worker's hand for mu: it cannot be uncounted first. *)
CountWaits ==
    mu # Nobody => \/ queue # <<>> /\ queue[Len(queue)] = mu
                   \/ worker = "mark" /\ inHand = mu

(* Only what fits a batch by itself is accepted. *)
Fits == \A i \in 1 .. Len(accepted) : size[accepted[i]] + 2 <= MaxBatchBytes

Measured == batchBytes = 2 + Weight(size, batch) + Len(batch)

BatchLimits ==
    /\ Len(batch) <= BatchSize
    /\ worker \notin {"deliver", "final"} => Len(batch) < BatchSize
    /\ batch # <<>> => batchBytes - 1 <= MaxBatchBytes

Limits == Balance /\ CountWaits /\ Fits /\ Measured /\ BatchLimits

LEMMA LimitFacts ==
    /\ BatchSize \in Nat \ {0} /\ MaxBatchBytes \in Nat \ {0} /\ MaxQueueBytes \in Nat \ {0}
BY SenderAssumption

LEMMA SizeTyped ==
    ASSUME CountsTyped
    PROVE  size \in [Records -> Nat] /\ pendingBytes \in Int
BY SizeFacts DEF CountsTyped

LEMMA InitLimits == Init => Limits
<1> SUFFICES ASSUME Init PROVE Limits
  OBVIOUS
<1>1. /\ queue = <<>> /\ batch = <<>> /\ accepted = <<>>
      /\ pendingBytes = 0 /\ mu = Nobody /\ worker = "select" /\ batchBytes = 2
  BY DEF Init
<1>2. Weight(size, queue) = 0 /\ Weight(size, batch) = 0
  BY <1>1, WeightEmpty
<1>3. Len(batch) = 0 /\ Len(accepted) = 0
  BY <1>1
<1>4. Uncounted = 0 /\ Unmarked = 0
  BY <1>1 DEF Uncounted, Unmarked
<1>5. Balance
  BY <1>1, <1>2, <1>4, LimitFacts DEF Balance
<1>6. CountWaits /\ Fits /\ Measured
  BY <1>1, <1>2, <1>3 DEF CountWaits, Fits, Measured
<1>7. BatchLimits
  BY <1>1, <1>3, LimitFacts DEF BatchLimits
<1> QED
  BY <1>5, <1>6, <1>7 DEF Limits

LEMMA Quiet ==
    ASSUME UNCHANGED <<size, pendingBytes, mu, queue>>, worker # "mark", worker' # "mark", Balance, CountWaits
    PROVE  Balance' /\ CountWaits'
<1>1. Unmarked' = Unmarked /\ Uncounted' = Uncounted
  BY DEF Unmarked, Uncounted
<1>2. Weight(size, queue)' = Weight(size, queue)
  OBVIOUS
<1>3. Balance'
  BY <1>1, <1>2 DEF Balance
<1>4. CountWaits'
  BY DEF CountWaits
<1> QED
  BY <1>3, <1>4

LEMMA BalanceKept ==
    ASSUME RecordsTyped, CountsTyped, WorkerTyped, HandFlow, Balance, CountWaits, [Next]_vars
    PROVE  Balance' /\ CountWaits'
<1>0. size \in [Records -> Nat] /\ pendingBytes \in Int /\ MaxQueueBytes \in Nat
  BY SizeTyped, LimitFacts
<1>1. queue \in Seq(Records) /\ Weight(size, queue) \in Nat
  BY <1>0, Weights DEF RecordsTyped
<1>2. mu # Nobody => mu \in Records
  BY DEF CountsTyped
<1>3. CASE \/ \E f \in Flushes : TakeFlush(f)
           \/ Tick \/ TakeClose \/ AppendRecord \/ Deliver \/ FinishFlush \/ FinishClose
  <2>1. ASSUME NEW f \in Flushes, TakeFlush(f)
        PROVE  UNCHANGED <<size, pendingBytes, mu, queue>> /\ worker # "mark" /\ worker' # "mark"
    BY <2>1 DEF TakeFlush
  <2>2. Tick \/ TakeClose => UNCHANGED <<size, pendingBytes, mu, queue>> /\ worker # "mark" /\ worker' # "mark"
    BY DEF Tick, TakeClose, others
  <2>3. AppendRecord => UNCHANGED <<size, pendingBytes, mu, queue>> /\ worker # "mark" /\ worker' # "mark"
    BY DEF AppendRecord, Resumed, others
  <2>4. Deliver => UNCHANGED <<size, pendingBytes, mu, queue>> /\ worker # "mark" /\ worker' # "mark"
    BY DEF Deliver, AfterDelivery, Resumed, others
  <2>5. FinishFlush \/ FinishClose => UNCHANGED <<size, pendingBytes, mu, queue>> /\ worker # "mark" /\ worker' # "mark"
    BY DEF FinishFlush, FinishClose, others
  <2> QED
    BY <1>3, <2>1, <2>2, <2>3, <2>4, <2>5, Quiet
<1>4. CASE TakeRecord \/ (Drain /\ queue # <<>>)
  <2>1. /\ queue # <<>> /\ worker # "mark" /\ worker' = "mark"
        /\ inHand' = Head(queue) /\ queue' = Tail(queue)
        /\ UNCHANGED <<size, pendingBytes, mu>>
    BY <1>4 DEF TakeRecord, Drain, others
  <2>2. Weight(size, queue) = size[Head(queue)] + Weight(size, Tail(queue))
    BY <1>0, <1>1, <2>1, WeightTail
  <2>3. Unmarked = 0 /\ Unmarked' = size[Head(queue)] /\ Uncounted' = Uncounted
    BY <2>1 DEF Unmarked, Uncounted
  <2>4. Weight(size, queue)' = Weight(size, Tail(queue))
    BY <2>1
  <2>5. Head(queue) \in Records /\ Tail(queue) \in Seq(Records)
    BY <1>1, <2>1
  <2>6. size[Head(queue)] \in Nat /\ Weight(size, Tail(queue)) \in Nat
    BY <1>0, <2>5, Weights
  <2>7. Balance'
    BY <2>1, <2>2, <2>3, <2>4, <2>6 DEF Balance
  <2>8. CountWaits'
    <3>1. CASE Len(queue) = 1
      <4>1. Head(queue) = queue[Len(queue)]
        BY <1>1, <2>1, <3>1
      <4> QED
        BY <2>1, <4>1 DEF CountWaits
    <3>2. CASE Len(queue) # 1
      <4>1. Len(queue) \in Nat /\ Len(queue) > 1
        <5>1. PICK n : n = Len(queue)
          OBVIOUS
        <5>2. n \in Nat /\ n # 0
          BY <1>1, <2>1, <5>1, EmptySeq
        <5>3. n # 1
          BY <3>2, <5>1
        <5>4. n > 1
          BY <5>2, <5>3
        <5> QED
          BY <5>1, <5>2, <5>4
      <4>2. Len(Tail(queue)) = Len(queue) - 1 /\ \A i \in 1 .. Len(queue) - 1 : Tail(queue)[i] = queue[i + 1]
        BY <1>1, <2>1, HeadTailProperties
      <4>3. Tail(queue) # <<>> /\ Tail(queue)[Len(Tail(queue))] = queue[Len(queue)]
        <5>1. Len(queue) - 1 \in 1 .. Len(queue) - 1 /\ (Len(queue) - 1) + 1 = Len(queue)
          BY <4>1
        <5>2. Tail(queue)[Len(queue) - 1] = queue[Len(queue)]
          BY <4>2, <5>1
        <5>3. PICK n : n = Len(Tail(queue))
          OBVIOUS
        <5>5. n # 0
          <6>1. PICK m : m = Len(queue)
            OBVIOUS
          <6>2. m \in Nat /\ m > 1
            BY <4>1, <6>1
          <6>3. n = m - 1
            BY <4>2, <5>3, <6>1
          <6> QED
            BY <6>2, <6>3
        <5>6. Len(<<>>) = 0
          BY EmptySeq
        <5>4. Tail(queue) # <<>>
          BY <5>3, <5>5, <5>6
        <5> QED
          BY <4>2, <5>2, <5>4
      <4> QED
        BY <2>1, <4>3 DEF CountWaits
    <3> QED
      BY <3>1, <3>2
  <2> QED
    BY <2>7, <2>8
<1>5. CASE Drain /\ queue = <<>>
  <2>1. UNCHANGED <<size, pendingBytes, mu, queue>> /\ worker # "mark" /\ worker' # "mark"
    BY <1>5 DEF Drain, others
  <2> QED
    BY <2>1, Quiet
<1>6. CASE MarkDequeued
  <2>1. /\ worker = "mark" /\ worker' = "append" /\ mu = Nobody /\ mu' = Nobody
        /\ pendingBytes' = pendingBytes - size[inHand] /\ queue' = queue /\ size' = size
    BY <1>6 DEF MarkDequeued, others
  <2>2. inHand \in Records
    BY <2>1 DEF HandFlow, RecordsTyped
  <2>3. size[inHand] \in Nat
    BY <1>0, <2>2
  <2>4. Unmarked = size[inHand] /\ Unmarked' = 0 /\ Uncounted = 0 /\ Uncounted' = 0
    BY <2>1 DEF Unmarked, Uncounted
  <2>5. Weight(size, queue)' = Weight(size, queue)
    BY <2>1
  <2>6. Balance'
    BY <1>0, <1>1, <2>1, <2>3, <2>4, <2>5 DEF Balance
  <2>7. CountWaits'
    BY <2>1 DEF CountWaits
  <2> QED
    BY <2>6, <2>7
<1>7. CASE WorkerStill
  <2>1. worker' = worker /\ inHand' = inHand
    BY <1>7, HandStep DEF WorkerStill
  <2>2. size' = size => Unmarked' = Unmarked
    BY <2>1 DEF Unmarked
  <2>3. Unmarked \in Nat
    <3>1. worker = "mark" => inHand \in Records
      BY DEF HandFlow, RecordsTyped
    <3> QED
      BY <1>0, <3>1 DEF Unmarked
  <2>4. ASSUME NEW p \in Records, Send(p) PROVE Balance' /\ CountWaits'
    <3>1. /\ mu = Nobody /\ mu' = p /\ queue' = Append(queue, p) /\ UNCHANGED <<size, pendingBytes>>
          /\ pendingBytes + size[p] <= MaxQueueBytes
      BY <2>4 DEF Send, Admitted
    <3>2. Uncounted = 0 /\ Uncounted' = size[p]
      BY <3>1, NobodyFacts DEF Uncounted
    <3>3. Weight(size, queue)' = Weight(size, queue) + size[p] /\ size[p] \in Nat
      BY <1>0, <1>1, <3>1, WeightAppend
    <3>4. Balance'
      BY <1>0, <1>1, <2>2, <2>3, <3>1, <3>2, <3>3 DEF Balance
    <3>5. Append(queue, p) # <<>> /\ Append(queue, p)[Len(Append(queue, p))] = p
      BY <1>1, AppendProperties
    <3>6. CountWaits'
      BY <3>1, <3>5 DEF CountWaits
    <3> QED
      BY <3>4, <3>6
  <2>5. ASSUME NEW p \in Records, Count(p) PROVE Balance' /\ CountWaits'
    <3>1. /\ mu = p /\ mu' = Nobody /\ queue' = queue /\ size' = size
          /\ pendingBytes' = pendingBytes + size[p]
      BY <2>5 DEF Count, producing
    <3>2. Uncounted = size[p] /\ Uncounted' = 0 /\ size[p] \in Nat
      BY <1>0, <3>1, NobodyFacts DEF Uncounted
    <3>3. Weight(size, queue)' = Weight(size, queue)
      BY <3>1
    <3>4. Balance'
      BY <1>0, <1>1, <2>2, <2>3, <3>1, <3>2, <3>3 DEF Balance
    <3>5. CountWaits'
      BY <3>1 DEF CountWaits
    <3> QED
      BY <3>4, <3>5
  <2>6. CASE CountsStill
    <3>1. UNCHANGED <<size, pendingBytes, mu, queue>>
      BY <2>6 DEF CountsStill
    <3>2. Uncounted' = Uncounted /\ Weight(size, queue)' = Weight(size, queue)
      BY <3>1 DEF Uncounted
    <3>3. Balance'
      BY <2>2, <3>1, <3>2 DEF Balance
    <3>4. CountWaits'
      BY <2>1, <3>1 DEF CountWaits
    <3> QED
      BY <3>3, <3>4
  <2>7. ~TakeRecord /\ ~MarkDequeued /\ ~Drain
    BY <2>1 DEF TakeRecord, MarkDequeued, Drain
  <2> QED
    BY <2>4, <2>5, <2>6, <2>7, CountSteps
<1> QED
  BY <1>3, <1>4, <1>5, <1>6, <1>7, WorkerSteps

LEMMA FitsKept ==
    ASSUME RecordsTyped, Fits, [Next]_vars
    PROVE  Fits' /\ size' = size
<1>1. size' = size
  <2>1. \A p \in Records : Send(p) \/ Count(p) => size' = size
    BY DEF Send, Count, producing
  <2>2. TakeRecord \/ MarkDequeued \/ Drain => size' = size
    BY DEF TakeRecord, MarkDequeued, Drain, others
  <2> QED
    BY <2>1, <2>2, CountSteps DEF CountsStill
<1>2. ASSUME NEW p \in Records, Send(p) PROVE Fits'
  <2>1. accepted' = Append(accepted, p) /\ size[p] + 2 <= MaxBatchBytes
    BY <1>2 DEF Send, Admitted
  <2>2. /\ Len(accepted') = Len(accepted) + 1 /\ accepted'[Len(accepted) + 1] = p /\ Len(accepted) \in Nat
        /\ \A i \in 1 .. Len(accepted) : accepted'[i] = accepted[i]
    BY <2>1, AppendProperties, LenProperties DEF RecordsTyped
  <2> QED
    BY <1>1, <2>1, <2>2 DEF Fits
<1>3. accepted' = accepted => Fits'
  BY <1>1 DEF Fits
<1>4. \A p \in Records : Drop(p) => accepted' = accepted
  BY DEF Drop, producing
<1>5. TakeRecord \/ AppendRecord \/ Deliver \/ Drain => accepted' = accepted
  BY DEF TakeRecord, AppendRecord, Deliver, Drain, others
<1> QED
  BY <1>1, <1>2, <1>3, <1>4, <1>5, RecordSteps DEF RecordsStill

LEMMA HandFits ==
    ASSUME RecordsTyped, Layout, Fits, inHand # Nobody
    PROVE  size[inHand] + 2 <= MaxBatchBytes
<1>1. HeldLen = 1
  BY DEF HeldLen
<1>2. Tried + Len(batch) + 1 \in 1 .. Len(accepted)
  BY <1>1, Lengths DEF Layout, Tried
<1> QED
  BY <1>2 DEF Layout, Fits

LEMMA BatchBytesStill ==
    ASSUME [Next]_vars
    PROVE  AppendRecord \/ Deliver \/ UNCHANGED <<batch, batchBytes>>
<1> USE DEF producing, calls, working, others
<1>1. ASSUME NEW p \in Records, Send(p) \/ Count(p) \/ Drop(p) PROVE UNCHANGED <<batch, batchBytes>>
  BY <1>1 DEF Send, Count, Drop
<1>2. ASSUME NEW f \in Flushes, CallFlush(f) \/ FlushAfterDone(f) PROVE UNCHANGED <<batch, batchBytes>>
  BY <1>2 DEF CallFlush, FlushAfterDone
<1>3. ASSUME NEW f \in Flushes, FlushAnswered(f) \/ FlushTimeout(f) PROVE UNCHANGED <<batch, batchBytes>>
  BY <1>3 DEF FlushAnswered, FlushTimeout
<1>4. ASSUME NEW c \in Closes, CallClose(c) \/ CloseReturns(c) PROVE UNCHANGED <<batch, batchBytes>>
  BY <1>4 DEF CallClose, CloseReturns
<1>5. ASSUME NEW f \in Flushes, TakeFlush(f) PROVE UNCHANGED <<batch, batchBytes>>
  BY <1>5 DEF TakeFlush
<1>6. TakeRecord \/ Tick \/ TakeNotice \/ TakeClose => UNCHANGED <<batch, batchBytes>>
  BY DEF TakeRecord, Tick, TakeNotice, TakeClose
<1>7. MarkDequeued \/ Drain => UNCHANGED <<batch, batchBytes>>
  BY DEF MarkDequeued, Drain
<1>8. FinishFlush \/ FinishClose => UNCHANGED <<batch, batchBytes>>
  BY DEF FinishFlush, FinishClose
<1>9. UNCHANGED vars => UNCHANGED <<batch, batchBytes>>
  BY DEF vars
<1> QED
  BY <1>1, <1>2, <1>3, <1>4, <1>5, <1>6, <1>7, <1>8, <1>9 DEF Next, Producer, Worker

LEMMA MeasuredKept ==
    ASSUME RecordsTyped, CountsTyped, HandFlow, Fits, Measured, [Next]_vars
    PROVE  Measured'
<1>1. size \in [Records -> Nat] /\ batch \in Seq(Records) /\ size' = size
  BY SizeTyped, FitsKept DEF RecordsTyped
<1>2. Weight(size, batch) \in Nat /\ Len(batch) \in Nat
  BY <1>1, Weights
<1>3. CASE UNCHANGED <<batch, batchBytes>>
  BY <1>1, <1>3 DEF Measured
<1>4. CASE Deliver
  <2>1. batch' = <<>> /\ batchBytes' = 2
    BY <1>4 DEF Deliver
  <2>2. Weight(size, batch)' = 0 /\ Len(batch') = 0
    BY <1>1, <2>1, WeightEmpty
  <2> QED
    BY <2>1, <2>2 DEF Measured
<1>5. CASE AppendRecord
  <2>1. CASE Overflows
    BY <1>3, <1>5, <2>1 DEF AppendRecord
  <2>2. CASE ~Overflows
    <3>1. batch' = Append(batch, inHand) /\ batchBytes' = batchBytes + size[inHand] + 1 /\ inHand \in Records
      BY <1>5, <2>2 DEF AppendRecord, HandFlow, RecordsTyped
    <3>2. Weight(size, batch)' = Weight(size, batch) + size[inHand] /\ size[inHand] \in Nat
      BY <1>1, <3>1, WeightAppend
    <3>3. Len(batch') = Len(batch) + 1
      BY <1>1, <3>1, AppendProperties
    <3>4. batchBytes' = 2 + Weight(size, batch)' + Len(batch')
      <4>1. PICK w, b : w = Weight(size, batch) /\ b = batchBytes
        OBVIOUS
      <4>2. w \in Nat /\ b = 2 + w + Len(batch)
        BY <1>2, <4>1 DEF Measured
      <4>3. b + size[inHand] + 1 = 2 + (w + size[inHand]) + (Len(batch) + 1)
        BY <1>2, <3>2, <4>2
      <4> QED
        BY <3>1, <3>2, <3>3, <4>1, <4>3
    <3> QED
      BY <3>4 DEF Measured
  <2> QED
    BY <2>1, <2>2
<1> QED
  BY <1>3, <1>4, <1>5, BatchBytesStill

LEMMA BatchLimitsKept ==
    ASSUME RecordsTyped, CountsTyped, WorkerTyped, HandFlow, ModeFlow, Layout, Fits, Measured, BatchLimits, [Next]_vars
    PROVE  BatchLimits'
<1>1. size \in [Records -> Nat] /\ batch \in Seq(Records)
  BY SizeTyped DEF RecordsTyped
<1>2. Weight(size, batch) \in Nat /\ Len(batch) \in Nat /\ batchBytes \in Nat
  BY <1>1, Weights DEF Measured
<1>3. BatchSize \in Nat /\ BatchSize > 0 /\ MaxBatchBytes \in Nat
  BY LimitFacts
<1>4. CASE Deliver
  <2>1. batch' = <<>> /\ Len(batch') = 0
    BY <1>4 DEF Deliver
  <2> QED
    BY <1>3, <2>1 DEF BatchLimits
<1>5. CASE AppendRecord
  <2>1. inHand # Nobody /\ inHand \in Records
    BY <1>5 DEF AppendRecord, HandFlow, RecordsTyped
  <2>2. CASE Overflows
    BY <1>5, <2>2 DEF AppendRecord, BatchLimits
  <2>3. CASE ~Overflows
    <3>1. /\ batch' = Append(batch, inHand) /\ batchBytes' = batchBytes + size[inHand] + 1
          /\ worker' = IF Len(batch') >= BatchSize THEN "deliver" ELSE Resumed
      BY <1>5, <2>3 DEF AppendRecord
    <3>2. Len(batch') = Len(batch) + 1 /\ size[inHand] \in Nat
      BY <1>1, <2>1, <3>1, AppendProperties
    <3>3. Len(batch) < BatchSize
      BY <1>5 DEF AppendRecord, BatchLimits
    <3>4. worker' # "deliver" => Len(batch') < BatchSize
      BY <1>2, <1>3, <3>1, <3>2
    <3>5. batchBytes' - 1 <= MaxBatchBytes
      <4>1. CASE batch = <<>>
        <5>1. batchBytes = 2
          BY <4>1, WeightEmpty DEF Measured
        <5>2. size[inHand] + 2 <= MaxBatchBytes
          BY <2>1, HandFits
        <5> QED
          BY <1>3, <3>1, <3>2, <5>1, <5>2
      <4>2. CASE batch # <<>>
        <5>1. ~(batchBytes + size[inHand] + 1 > MaxBatchBytes)
          BY <2>3, <4>2 DEF Overflows
        <5> QED
          BY <1>2, <1>3, <3>1, <3>2, <5>1
      <4> QED
        BY <4>1, <4>2
    <3> QED
      BY <1>2, <1>3, <3>2, <3>3, <3>4, <3>5 DEF BatchLimits
  <2> QED
    BY <2>2, <2>3
<1>6. CASE UNCHANGED <<batch, batchBytes>> /\ ~AppendRecord /\ ~Deliver
  <2>1. worker \in {"deliver", "final"} => worker' = worker
    <3>1. WorkerStill => worker' = worker
      BY DEF WorkerStill
    <3>2. \A f \in Flushes : TakeFlush(f) => worker = "select"
      BY DEF TakeFlush
    <3>3. TakeRecord \/ Tick \/ TakeClose => worker = "select"
      BY DEF TakeRecord, Tick, TakeClose
    <3>4. MarkDequeued \/ Drain \/ FinishFlush \/ FinishClose => worker \notin {"deliver", "final"}
      BY DEF MarkDequeued, Drain, FinishFlush, FinishClose
    <3> QED
      BY <1>6, <3>1, <3>2, <3>3, <3>4, WorkerSteps
  <2> QED
    BY <1>6, <2>1 DEF BatchLimits
<1> QED
  BY <1>4, <1>5, <1>6, BatchBytesStill

LEMMA LimitsKeptByAll ==
    ASSUME RecordsTyped, CountsTyped, WorkerTyped, HandFlow, ModeFlow, Layout, Limits, [Next]_vars
    PROVE  Limits'
BY BalanceKept, FitsKept, MeasuredKept, BatchLimitsKept DEF Limits

-----------------------------------------------------------------------------
(* The inductive invariant, and the theorems *)

Typed == RecordsTyped /\ CountsTyped /\ FlushesTyped /\ ClosesTyped /\ WorkerTyped

Flow == HandFlow /\ BatchFlow /\ ModeFlow /\ CloseFlow /\ DoneFlow

Order == Layout /\ TriedFirst /\ Once /\ Admissions

Answers == Errors /\ FlushedKnown /\ ServedOnce /\ ServedSeen /\ AnsweredSent

IInv == Typed /\ Flow /\ Order /\ Answers /\ Limits

LEMMA Inductive == Spec => []IInv
<1>1. Init => IInv
  BY InitTyped, InitFlow, InitLayout, InitFlush, InitLimits DEF IInv, Typed, Flow, Order, Answers
<1>2. ASSUME IInv, [Next]_vars PROVE IInv'
  <2> USE <1>2 DEF IInv
  <2>1. Typed'
    BY RecordsTypedKept, CountsTypedKept, FlushesTypedKept, ClosesTypedKept, WorkerTypedKept DEF Typed, Flow
  <2>2. Flow'
    BY HandFlowKept, BatchFlowKept, ModeFlowKept, CloseFlowKept, DoneFlowKept DEF Typed, Flow
  <2>3. Order'
    BY LayoutKept, TriedFirstKept, OnceKept, AdmissionsKept DEF Typed, Flow, Order
  <2>4. Answers'
    BY ErrorsKept, FlushedKnownKept, ServedOnceKept, ServedSeenKept, AnsweredSentKept
    DEF Typed, Flow, Order, Answers
  <2>5. Limits'
    BY LimitsKeptByAll DEF Typed, Flow, Order
  <2> QED
    BY <2>1, <2>2, <2>3, <2>4, <2>5
<1> QED
  BY <1>1, <1>2, PTL DEF Spec

(* Type correctness of the sender, for all records, calls and limits: the
   channel never holds more than QueueSize. *)
THEOREM TypeCorrect == Spec => []TypeOK
<1>1. IInv => TypeOK
  <2> SUFFICES ASSUME IInv PROVE TypeOK
    OBVIOUS
  <2>1. RecordsTyped /\ CountsTyped /\ FlushesTyped /\ ClosesTyped /\ WorkerTyped
    BY DEF IInv, Typed
  <2>2. {closed, closeErr, done, asked, notice, lastErr} \subseteq BOOLEAN
    BY <2>1 DEF ClosesTyped, WorkerTyped
  <2> QED
    BY <2>1, <2>2 DEF TypeOK, RecordsTyped, CountsTyped, FlushesTyped, ClosesTyped, WorkerTyped
<1> QED
  BY <1>1, Inductive, PTL

(* No record is lost, sent twice or reordered between enqueue and its delivery. *)
THEOREM EachRecordOnceInOrderHolds == Spec => []EachRecordOnceInOrder
<1>1. IInv => EachRecordOnceInOrder
  <2> SUFFICES ASSUME IInv PROVE EachRecordOnceInOrder
    OBVIOUS
  <2> DEFINE rest == batch \o Held \o queue
             bh == batch \o Held
             n == Len(accepted) - Len(rest)
             last == SubSeq(accepted, n + 1, Len(accepted))
  <2>1. RecordsTyped /\ Layout /\ TriedFirst
    BY DEF IInv, Typed, Order
  <2>2. Held \in Seq(Records) /\ Len(Held) = HeldLen /\ (inHand # Nobody => Held[1] = inHand)
    BY <2>1 DEF Held, HeldLen, RecordsTyped
  <2>3. /\ bh \in Seq(Records) /\ Len(bh) = Len(batch) + HeldLen
        /\ \A i \in 1 .. Len(bh) : bh[i] = IF i <= Len(batch) THEN batch[i] ELSE Held[i - Len(batch)]
    BY <2>1, <2>2, ConcatProperties DEF RecordsTyped
  <2>4. /\ rest \in Seq(Records) /\ Len(rest) = Len(bh) + Len(queue)
        /\ \A i \in 1 .. Len(rest) : rest[i] = IF i <= Len(bh) THEN bh[i] ELSE queue[i - Len(bh)]
    BY <2>1, <2>3, ConcatProperties DEF RecordsTyped
  <2>5. n = Tried /\ n \in Nat
    BY <2>1, <2>3, <2>4, Lengths DEF Tried, Layout
  <2>6. \A i \in DOMAIN accepted : Attempted(accepted[i]) <=> i <= n
    BY <2>1, <2>5, LenProperties DEF TriedFirst, RecordsTyped
  <2>7. /\ last \in Seq(Records) /\ Len(last) = Len(rest)
        /\ \A i \in 1 .. Len(rest) : last[i] = accepted[n + i]
    <3>1. Len(rest) \in Nat /\ n + Len(rest) = Len(accepted) /\ Len(accepted) \in Nat
      <4>1. Len(rest) \in Nat /\ Len(accepted) \in Nat
        BY <2>1, <2>4, LenProperties, Lengths
      <4> HIDE DEF rest
      <4> QED
        BY <4>1
    <3> QED
      BY <2>1, <2>5, <3>1, SubSeqProperties DEF RecordsTyped
  <2>8. ASSUME NEW i \in 1 .. Len(rest) PROVE rest[i] = accepted[n + i]
    <3>1. CASE i <= Len(batch)
      <4>1. i \in 1 .. Len(batch) /\ i <= Len(bh) /\ i \in 1 .. Len(bh)
        BY <2>1, <2>3, <3>1, Lengths
      <4> QED
        BY <2>1, <2>3, <2>4, <2>5, <3>1, <4>1 DEF Layout
    <3>2. CASE i > Len(batch) /\ i <= Len(bh)
      <4>1. i = Len(batch) + 1 /\ inHand # Nobody /\ i \in 1 .. Len(bh) /\ i - Len(batch) = 1
        BY <2>1, <2>3, <3>2, Lengths DEF HeldLen
      <4>2. rest[i] = Held[1]
        BY <2>1, <2>3, <2>4, <3>2, <4>1, Lengths
      <4>3. inHand = accepted[Tried + Len(batch) + 1] /\ Tried + Len(batch) + 1 = n + i
        BY <2>1, <2>5, <4>1, Lengths DEF Layout
      <4> QED
        BY <2>2, <4>1, <4>2, <4>3
    <3>3. CASE i > Len(bh)
      <4>1. i - Len(bh) \in 1 .. Len(queue) /\ n + i = Tried + Len(batch) + HeldLen + (i - Len(bh))
        <5>1. /\ Len(bh) = Len(batch) + HeldLen /\ Len(rest) = Len(bh) + Len(queue) /\ n = Tried
              /\ Len(batch) \in Nat /\ HeldLen \in Nat /\ Len(queue) \in Nat /\ Tried \in Int
          BY <2>1, <2>3, <2>4, <2>5, Lengths
        <5> HIDE DEF rest, bh, n
        <5> QED
          BY <3>3, <5>1
      <4>2. rest[i] = queue[i - Len(bh)]
        BY <2>1, <2>3, <2>4, <3>3, Lengths
      <4> QED
        BY <2>1, <4>1, <4>2 DEF Layout
    <3> QED
      BY <2>1, <2>3, <3>1, <3>2, <3>3, Lengths
  <2>9. last = rest
    BY <2>4, <2>7, <2>8, SeqEqual
  <2> QED
    BY <2>5, <2>6, <2>9 DEF EachRecordOnceInOrder
<1> QED
  BY <1>1, Inductive, PTL

(* Shutdown drains what was accepted, and its error is that of any record. *)
THEOREM DoneMeansDrainedHolds == Spec => []DoneMeansDrained
<1>1. IInv => DoneMeansDrained
  <2> SUFFICES ASSUME IInv, done PROVE /\ \A p \in ToSet(accepted) : Attempted(p)
                                       /\ closeErr <=> \E p \in Records : status[p] = "failed"
    BY DEF DoneMeansDrained
  <2>1. /\ RecordsTyped /\ HandFlow /\ BatchFlow /\ ModeFlow /\ CloseFlow /\ DoneFlow
        /\ Layout /\ TriedFirst /\ Errors
    BY DEF IInv, Typed, Flow, Order, Answers
  <2>2. \A p \in ToSet(accepted) : p \in Records /\ IsAccepted(p)
    BY <2>1, Lengths, LenProperties DEF ToSet, IsAccepted, RecordsTyped
  <2>3. \A p \in ToSet(accepted) : Attempted(p)
    BY <2>1, <2>2, DoneAll
  <2>4. closeErr <=> \E p \in Records : status[p] = "failed"
    BY <2>1 DEF DoneFlow, Errors
  <2> QED
    BY <2>3, <2>4
<1> QED
  BY <1>1, Inductive, PTL

(* A flush that returns no error has seen delivered all that was accepted before
   it began. *)
THEOREM FlushedMeansSentHolds == Spec => []FlushedMeansSent
<1>1. IInv => FlushedMeansSent
  BY DEF IInv, Answers, AnsweredSent, FlushedMeansSent
<1> QED
  BY <1>1, Inductive, PTL

(* The limits are kept to the byte: pendingBytes never drifts and never goes
   negative, the queue stays within its bytes, and a batch that is sent within
   its records and its bytes, whatever the sizes and the interleaving. *)
THEOREM LimitsKeptHolds == Spec => []LimitsKept
<1>1. IInv => LimitsKept
  <2> SUFFICES ASSUME IInv PROVE LimitsKept
    OBVIOUS
  <2>1. /\ RecordsTyped /\ CountsTyped /\ WorkerTyped /\ HandFlow /\ BatchFlow
        /\ Balance /\ CountWaits /\ Measured /\ BatchLimits
    BY DEF IInv, Typed, Flow, Limits
  <2>2. /\ size \in [Records -> Nat] /\ pendingBytes \in Int
        /\ queue \in Seq(Records) /\ batch \in Seq(Records)
    BY <2>1, SizeTyped DEF RecordsTyped
  <2>3. TotalSize(queue) = Weight(size, queue) /\ TotalSize(batch) = Weight(size, batch)
    BY <2>2, TotalCounted
  <2>4. Weight(size, queue) \in Nat /\ Weight(size, batch) \in Nat /\ Len(batch) \in Nat
    BY <2>2, Weights
  <2>5. worker = "mark" => inHand \in Records
    BY <2>1 DEF HandFlow, RecordsTyped
  <2>6. Unmarked \in Nat /\ MaxQueueBytes \in Nat /\ MaxBatchBytes \in Nat
    BY <2>2, <2>5, LimitFacts DEF Unmarked
  <2>7. Uncounted <= Weight(size, queue) + Unmarked /\ Uncounted \in Nat
    <3>1. CASE mu = Nobody
      BY <2>4, <2>6, <3>1 DEF Uncounted
    <3>2. CASE mu # Nobody
      <4>1. Uncounted = size[mu] /\ mu \in Records /\ size[mu] \in Nat
        BY <2>1, <2>2, <3>2 DEF Uncounted, CountsTyped
      <4>2. CASE queue # <<>> /\ queue[Len(queue)] = mu
        <5>1. size[mu] <= Weight(size, queue)
          BY <2>2, <4>2, WeightLast
        <5> QED
          BY <2>4, <2>6, <4>1, <5>1
      <4>3. CASE worker = "mark" /\ inHand = mu
        <5>1. Unmarked = size[mu]
          BY <4>3 DEF Unmarked
        <5> QED
          BY <2>4, <4>1, <5>1
      <4> QED
        BY <2>1, <3>2, <4>2, <4>3 DEF CountWaits
    <3> QED
      BY <3>1, <3>2
  <2>8. /\ pendingBytes + Uncounted = TotalSize(queue) + Unmarked /\ pendingBytes >= 0
        /\ TotalSize(queue) <= MaxQueueBytes
    BY <2>1, <2>2, <2>3, <2>4, <2>6, <2>7 DEF Balance
  <2>9. ASSUME worker \in {"deliver", "final"}
        PROVE  Len(batch) \in 1 .. BatchSize /\ TotalSize(batch) + 2 + Len(batch) - 1 <= MaxBatchBytes
    <3>1. batch # <<>> /\ Len(batch) <= BatchSize /\ batchBytes - 1 <= MaxBatchBytes
      BY <2>1, <2>9 DEF BatchFlow, BatchLimits
    <3>2. Len(batch) \in Nat \ {0} /\ BatchSize \in Nat
      BY <2>2, <3>1, EmptySeq, LimitFacts
    <3> QED
      BY <2>1, <2>3, <2>4, <3>1, <3>2 DEF Measured
  <2> QED
    BY <2>8, <2>9 DEF LimitsKept, Uncounted, Unmarked
<1> QED
  BY <1>1, Inductive, PTL

-----------------------------------------------------------------------------
(* StreamSender implements LogPipe *)

(* A call is told of an error only when some record failed. *)
ErrorsTold == \A f \in Flushes : flusher[f] \in {"answered error", "error"} => \E p \in Records : status[p] = "failed"

LEMMA FailedStays ==
    ASSUME IInv, [Next]_vars, NEW p \in Records, status[p] = "failed"
    PROVE  status'[p] = "failed"
BY StatusMoves DEF IInv, Typed, Order, StatusMove, Attempted

LEMMA ErrorsToldKept ==
    ASSUME IInv, ErrorsTold, [Next]_vars
    PROVE  ErrorsTold'
<1> USE DEF IInv, Typed, Flow, Answers
<1>1. ASSUME NEW f \in Flushes, flusher'[f] \in {"answered error", "error"},
             flusher[f] \in {"answered error", "error"} \/ lastErr
      PROVE  \E p \in Records : status'[p] = "failed"
  <2>1. \E p \in Records : status[p] = "failed"
    BY <1>1 DEF ErrorsTold, Errors
  <2> QED
    BY <2>1, FailedStays
<1>2. ASSUME NEW f \in Flushes, flusher'[f] \in {"answered error", "error"}, flusher'[f] # flusher[f]
      PROVE  flusher[f] \in {"answered error", "error"} \/ lastErr
  <2> USE DEF FlushesTyped
  <2>1. ASSUME NEW g \in Flushes, CallFlush(g) PROVE FALSE
    BY <1>2, <2>1 DEF CallFlush
  <2>2. ASSUME NEW g \in Flushes, FlushTimeout(g) PROVE FALSE
    BY <1>2, <2>2 DEF FlushTimeout
  <2>3. ASSUME NEW g \in Flushes, TakeFlush(g) PROVE FALSE
    BY <1>2, <2>3 DEF TakeFlush
  <2>4. ASSUME NEW g \in Flushes, FlushAnswered(g) PROVE flusher[f] \in {"answered error", "error"}
    BY <1>2, <2>4 DEF FlushAnswered
  <2>5. ASSUME NEW g \in Flushes, FlushAfterDone(g) PROVE lastErr
    BY <1>2, <2>5 DEF FlushAfterDone, DoneFlow
  <2>6. ASSUME FinishFlush PROVE lastErr
    <3>1. flusher' = [flusher EXCEPT ![serving] =
            IF flusher[serving] = "waiting" THEN (IF lastErr THEN "answered error" ELSE "answered ok") ELSE flusher[serving]]
      BY <2>6 DEF FinishFlush
    <3> QED
      BY <1>2, <3>1
  <2> QED
    BY <1>2, <2>1, <2>2, <2>3, <2>4, <2>5, <2>6, FlushSteps DEF FlushesStill
<1>3. ASSUME NEW f \in Flushes, flusher'[f] \in {"answered error", "error"}
      PROVE  \E p \in Records : status'[p] = "failed"
  BY <1>1, <1>2, <1>3
<1> QED
  BY <1>3 DEF ErrorsTold

FlushesTold == [f \in Flushes |-> Told(flusher[f])]
ClosesTold == [c \in Closes |-> Told(closer[c])]

(* What of the pipe a step of the sender leaves alone. *)
PipeStill == UNCHANGED <<status, accepted, closed, done, before, FlushesTold, ClosesTold>>

LEMMA PipeStutters ==
    ASSUME PipeStill
    PROVE  UNCHANGED Pipe!vars
BY DEF PipeStill, FlushesTold, ClosesTold, Pipe!vars

(* An admitted record is let in, *)
LEMMA SendAccepts ==
    ASSUME NEW p \in Records, Send(p)
    PROVE  Pipe!Accept(p)
<1>1. status[p] = "new" /\ ~closed /\ status' = [status EXCEPT ![p] = "accepted"] /\ accepted' = Append(accepted, p)
  BY DEF Send, Admitted
<1>2. UNCHANGED <<closed, done, before, flusher, closer>>
  BY DEF Send, calls, working
<1> QED
  BY <1>1, <1>2 DEF Pipe!Accept

(* and one that is not is turned away. *)
LEMMA DropTurnsAway ==
    ASSUME NEW p \in Records, Drop(p)
    PROVE  Pipe!TurnAway(p)
BY DEF Drop, producing, calls, working, Pipe!TurnAway

(* The batch is the next of the records let in: those that are laid out behind the
   ones attempted. *)
LEMMA DeliverPosts ==
    ASSUME IInv, Deliver
    PROVE  Pipe!Post
<1> USE DEF IInv, Typed, Flow, Order
<1> DEFINE m == Tried
           n == Tried + Len(batch)
<1>1. batch # <<>> /\ Len(batch) \in 1 .. BatchSize
  <2>1. batch # <<>> /\ Len(batch) <= BatchSize
    BY DEF Deliver, BatchFlow, Limits, BatchLimits
  <2> QED
    BY <2>1, EmptySeq, LimitFacts DEF RecordsTyped
<1>2. m \in 0 .. Len(accepted) /\ n \in 0 .. Len(accepted) /\ m < n /\ n <= m + BatchSize
  <2>1. /\ Len(accepted) \in Nat /\ Len(batch) \in Nat /\ HeldLen \in Nat /\ Len(queue) \in Nat /\ Tried \in Int
        /\ Tried >= 0 /\ Tried = Len(accepted) - Len(batch) - HeldLen - Len(queue)
    BY Lengths DEF Layout, Tried
  <2>2. BatchSize \in Nat
    BY LimitFacts
  <2> QED
    BY <1>1, <2>1, <2>2
<1>3. \A i \in 1 .. Len(accepted) : Pipe!Attempted(accepted[i]) <=> i <= m
  BY DEF TriedFirst, Attempted, Pipe!Attempted
<1>4. ASSUME NEW p \in Records PROVE p \in ToSet(batch) <=> \E i \in m + 1 .. n : accepted[i] = p
  <2>1. p \in ToSet(batch) <=> \E i \in 1 .. Len(batch) : batch[i] = p
    BY LenProperties DEF ToSet, RecordsTyped
  <2>2. \A i \in 1 .. Len(batch) : batch[i] = accepted[m + i]
    BY DEF Layout
  <2>3. Len(batch) \in Nat /\ m \in Nat
    BY <1>2, Lengths
  <2>4. ASSUME NEW i \in 1 .. Len(batch) PROVE m + i \in m + 1 .. n
    BY <2>3
  <2>5. ASSUME NEW i \in m + 1 .. n PROVE i - m \in 1 .. Len(batch) /\ m + (i - m) = i
    BY <2>3
  <2> HIDE DEF m, n
  <2> QED
    BY <2>1, <2>2, <2>4, <2>5
<1>5. PICK sent \in BOOLEAN :
        status' = [p \in Records |-> IF p \in ToSet(batch) THEN (IF sent THEN "sent" ELSE "failed") ELSE status[p]]
  BY DEF Deliver
<1> DEFINE outcome == IF sent THEN "sent" ELSE "failed"
<1>6. status' = [p \in Records |-> IF \E i \in m + 1 .. n : accepted[i] = p THEN outcome ELSE status[p]]
  BY <1>4, <1>5
<1>7. outcome \in {"sent", "failed"}
  OBVIOUS
<1>8. ~done
  BY DEF Deliver, DoneFlow
<1>9. UNCHANGED <<accepted, closed, done, before, flusher, closer>>
  BY DEF Deliver, others
<1> HIDE DEF m, n, outcome
<1> QED
  BY <1>2, <1>3, <1>6, <1>7, <1>8, <1>9 DEF Pipe!Post

(* The worker ends with nothing in the queue, in hand or in the batch. *)
LEMMA FinishCloseFinishes ==
    ASSUME IInv, FinishClose
    PROVE  Pipe!Finish
<1> USE DEF IInv, Typed, Flow, Order
<1>1. UNCHANGED <<status, accepted, closed, before, flusher, closer, inHand, batch, queue>> /\ done'
  BY DEF FinishClose, others
<1>2. closed /\ ~done /\ done' = TRUE
  BY DEF FinishClose, CloseFlow, DoneFlow
<1>3. Tried = Len(accepted)
  <2>1. inHand = Nobody /\ batch = <<>> /\ queue = <<>>
    BY DEF FinishClose, HandFlow, BatchFlow, CloseFlow
  <2>2. Len(batch) = 0 /\ Len(queue) = 0 /\ HeldLen = 0 /\ Len(accepted) \in Int
    BY <2>1, Lengths DEF HeldLen
  <2> QED
    BY <2>2 DEF Tried
<1>4. \A i \in 1 .. Len(accepted) : Pipe!Attempted(accepted[i])
  BY <1>3, Lengths DEF TriedFirst, Attempted, Pipe!Attempted
<1> QED
  BY <1>1, <1>2, <1>4 DEF Pipe!Finish

LEMMA FlushCalled ==
    ASSUME IInv, NEW f \in Flushes, CallFlush(f)
    PROVE  Pipe!CallFlush(f)
<1> USE DEF IInv, Typed
<1>1. flusher[f] = "idle" /\ flusher' = [flusher EXCEPT ![f] = "sending"]
      /\ before' = [before EXCEPT ![f] = ToSet(accepted)]
      /\ UNCHANGED <<status, accepted, closed, done, closer>>
  BY DEF CallFlush, producing, working
<1>2. ToSet(accepted) = {accepted[i] : i \in 1 .. Len(accepted)}
  BY LenProperties DEF ToSet, RecordsTyped
<1>3. FlushesTold[f] = "idle" /\ FlushesTold' = [FlushesTold EXCEPT ![f] = "pending"]
  BY <1>1 DEF FlushesTold, Told, Returned, FlushesTyped
<1> QED
  BY <1>1, <1>2, <1>3 DEF Pipe!CallFlush, FlushesTold

(* The answer of a flush, from the worker, from the end of the sender or from its
   own deadline. *)
LEMMA FlushAnswers ==
    ASSUME IInv, IInv', ErrorsTold, ErrorsTold', NEW f \in Flushes,
           FlushAfterDone(f) \/ FlushAnswered(f) \/ FlushTimeout(f)
    PROVE  Pipe!FlushReturns(f)
<1> USE DEF IInv, Typed, Answers
<1>1. /\ flusher[f] \in {"sending", "waiting", "answered ok", "answered error"}
      /\ UNCHANGED <<status, accepted, closed, done, before, closer>>
  BY DEF FlushAfterDone, FlushAnswered, FlushTimeout, producing, working
<1>2. PICK what \in {"ok", "error", "timeout"} : flusher' = [flusher EXCEPT ![f] = what]
  BY DEF FlushAfterDone, FlushAnswered, FlushTimeout
<1>3. flusher'[f] = what
  BY <1>2 DEF FlushesTyped
<1>4. what = "ok" => \A p \in before[f] : status[p] = "sent"
  BY <1>1, <1>3 DEF AnsweredSent
<1>5. what = "error" => ~Pipe!NothingFailed
  BY <1>1, <1>3 DEF ErrorsTold, Pipe!NothingFailed
<1>6. FlushesTold[f] = "pending" /\ FlushesTold' = [FlushesTold EXCEPT ![f] = what]
  BY <1>1, <1>2 DEF FlushesTold, Told, Returned, FlushesTyped
<1> QED
  BY <1>1, <1>4, <1>5, <1>6 DEF Pipe!FlushReturns, FlushesTold

LEMMA CloseCalled ==
    ASSUME IInv, NEW c \in Closes, CallClose(c)
    PROVE  Pipe!CallClose(c)
<1> USE DEF IInv, Typed
<1>1. closer[c] = "idle" /\ closer' = [closer EXCEPT ![c] = "waiting"] /\ closed' = TRUE
      /\ UNCHANGED <<status, accepted, done, before, flusher>>
  BY DEF CallClose, producing, working
<1>2. ClosesTold[c] = "idle" /\ ClosesTold' = [ClosesTold EXCEPT ![c] = "pending"]
  BY <1>1 DEF ClosesTold, Told, Returned, ClosesTyped
<1> QED
  BY <1>1, <1>2 DEF Pipe!CallClose, ClosesTold

LEMMA CloseAnswered ==
    ASSUME IInv, NEW c \in Closes, CloseReturns(c)
    PROVE  Pipe!CloseReturns(c)
<1> USE DEF IInv, Typed, Flow, Answers
<1>1. closer[c] = "waiting" /\ UNCHANGED <<status, accepted, closed, done, before, flusher>>
  BY DEF CloseReturns, producing, working
<1>2. done => (closeErr <=> ~Pipe!NothingFailed)
  BY DEF DoneFlow, Errors, Pipe!NothingFailed
<1>3. PICK what \in {"ok", "error", "timeout"} :
        /\ closer' = [closer EXCEPT ![c] = what]
        /\ what \in {"ok", "error"} => done /\ (what = "ok" <=> ~closeErr)
  <2>1. CASE closer' = [closer EXCEPT ![c] = "timeout"]
    BY <2>1
  <2>2. CASE done /\ closer' = [closer EXCEPT ![c] = IF closeErr THEN "error" ELSE "ok"]
    BY <2>2 DEF WorkerTyped
  <2> QED
    BY <2>1, <2>2 DEF CloseReturns
<1>4. ClosesTold[c] = "pending" /\ ClosesTold' = [ClosesTold EXCEPT ![c] = what]
  BY <1>1, <1>3 DEF ClosesTold, Told, Returned, ClosesTyped
<1>5. what \in {"ok", "error"} => done /\ (what = "ok" <=> Pipe!NothingFailed)
  BY <1>2, <1>3
<1> QED
  BY <1>1, <1>4, <1>5 DEF Pipe!CloseReturns, ClosesTold

(* The steps inside the sender are none of the pipe's. *)
LEMMA InsideSteps ==
    ASSUME IInv, \/ \E p \in Records : Count(p)
                 \/ TakeRecord \/ Tick \/ TakeNotice \/ TakeClose \/ MarkDequeued \/ AppendRecord
                 \/ Drain \/ FinishFlush \/ \E f \in Flushes : TakeFlush(f)
    PROVE  PipeStill
<1> USE DEF IInv, Typed
<1>1. ASSUME flusher' = flusher, UNCHANGED <<status, accepted, closed, done, before, closer>> PROVE PipeStill
  BY <1>1 DEF PipeStill, FlushesTold, ClosesTold
<1>2. ASSUME NEW p \in Records, Count(p) PROVE PipeStill
  BY <1>1, <1>2 DEF Count, producing, calls, working
<1>3. CASE TakeRecord
  BY <1>1, <1>3 DEF TakeRecord, others
<1>4. CASE Tick
  BY <1>1, <1>4 DEF Tick, others
<1>5. CASE TakeNotice
  BY <1>1, <1>5 DEF TakeNotice, others, working
<1>6. CASE TakeClose
  BY <1>1, <1>6 DEF TakeClose, others
<1>7. CASE MarkDequeued
  BY <1>1, <1>7 DEF MarkDequeued, others
<1>8. CASE AppendRecord
  BY <1>1, <1>8 DEF AppendRecord, others
<1>9. CASE Drain
  BY <1>1, <1>9 DEF Drain, others
<1>10. ASSUME \A f \in Flushes : Told(flusher'[f]) = Told(flusher[f]),
              UNCHANGED <<status, accepted, closed, done, before, closer>>
       PROVE  PipeStill
  <2>1. FlushesTold' = FlushesTold
    BY <1>10 DEF FlushesTold, Told
  <2> QED
    BY <1>10, <2>1 DEF PipeStill, ClosesTold
<1>11. ASSUME NEW f \in Flushes, TakeFlush(f) PROVE PipeStill
  <2>1. flusher[f] = "sending" /\ flusher' = [flusher EXCEPT ![f] = "waiting"]
        /\ UNCHANGED <<status, accepted, closed, done, before, closer>>
    BY <1>11 DEF TakeFlush
  <2> QED
    BY <1>10, <2>1 DEF FlushesTyped, Told, Returned
<1>12. CASE FinishFlush
  <2>1. UNCHANGED <<status, accepted, closed, done, before, closer>>
    BY <1>12 DEF FinishFlush
  <2>2. ASSUME NEW f \in Flushes
        PROVE  \/ flusher'[f] = flusher[f]
               \/ flusher[f] = "waiting" /\ flusher'[f] \in {"answered ok", "answered error"}
    BY <1>12 DEF FinishFlush, FlushesTyped
  <2> QED
    BY <1>10, <2>1, <2>2 DEF Told, Returned
<1> QED
  BY <1>2, <1>3, <1>4, <1>5, <1>6, <1>7, <1>8, <1>9, <1>11, <1>12

LEMMA PipeStep ==
    ASSUME IInv, IInv', ErrorsTold, ErrorsTold', [Next]_vars
    PROVE  Pipe!Next \/ UNCHANGED Pipe!vars
<1>1. CASE UNCHANGED vars
  <2>1. PipeStill
    BY <1>1 DEF vars, PipeStill, FlushesTold, ClosesTold
  <2> QED
    BY <2>1, PipeStutters
<1>2. ASSUME NEW p \in Records, Send(p) PROVE Pipe!Next
  BY <1>2, SendAccepts DEF Pipe!Next
<1>3. ASSUME NEW p \in Records, Drop(p) PROVE Pipe!Next
  BY <1>3, DropTurnsAway DEF Pipe!Next
<1>4. CASE Deliver
  BY <1>4, DeliverPosts DEF Pipe!Next
<1>5. CASE FinishClose
  BY <1>5, FinishCloseFinishes DEF Pipe!Next
<1>6. ASSUME NEW f \in Flushes, CallFlush(f) \/ FlushAfterDone(f) \/ FlushAnswered(f) \/ FlushTimeout(f)
      PROVE  Pipe!Next
  BY <1>6, FlushCalled, FlushAnswers DEF Pipe!Next
<1>7. ASSUME NEW c \in Closes, CallClose(c) \/ CloseReturns(c) PROVE Pipe!Next
  BY <1>7, CloseCalled, CloseAnswered DEF Pipe!Next
<1>8. PipeStill => UNCHANGED Pipe!vars
  BY PipeStutters
<1> QED
  BY <1>1, <1>2, <1>3, <1>4, <1>5, <1>6, <1>7, <1>8, InsideSteps DEF Next, Producer, Worker

LEMMA PipeStarts == Init => Pipe!Init
BY DEF Init, Pipe!Init, Told

(* The queue, the batches, the counters and the worker are an implementation of the
   pipe: what a flush or a close tells its caller is true, whatever the
   interleaving, and a record is let in before the close, sent or failed once and
   in order, or turned away. *)
THEOREM Refinement == Spec => ImplementsPipe
<1>1. Init => ErrorsTold
  BY DEF Init, ErrorsTold
<1>2. IInv /\ ErrorsTold /\ [Next]_vars => ErrorsTold'
  BY ErrorsToldKept
<1>3. IInv /\ IInv' /\ ErrorsTold /\ ErrorsTold' /\ [Next]_vars => [Pipe!Next]_(Pipe!vars)
  BY PipeStep
<1>4. Spec => []IInv
  BY Inductive, PTL
<1>5. Spec => []ErrorsTold
  BY <1>1, <1>2, <1>4, PTL DEF Spec
<1> QED
  BY <1>3, <1>4, <1>5, PipeStarts, PTL DEF Spec, ImplementsPipe, Pipe!Spec

-----------------------------------------------------------------------------
(* What a close waits for *)

(* The one close request is on its channel or is being served. *)
CloseAsked == closed => asked \/ mode = "close"

LEMMA CloseAskedKept ==
    ASSUME Typed, Flow, CloseAsked, [Next]_vars
    PROVE  CloseAsked'
<1> USE DEF CloseAsked, producing, calls, working, others
<1>1. ModeFlow
  BY DEF Flow
<1>2. ASSUME NEW p \in Records, Producer(p) PROVE CloseAsked'
  BY <1>2 DEF Producer, Send, Count, Drop
<1>3. ASSUME NEW f \in Flushes, CallFlush(f) \/ FlushAfterDone(f) \/ FlushAnswered(f) \/ FlushTimeout(f)
      PROVE  CloseAsked'
  <2>1. UNCHANGED <<closed, asked, mode>>
    BY <1>3, Zenon DEF CallFlush, FlushAfterDone, FlushAnswered, FlushTimeout
  <2> QED
    BY <2>1
<1>4. ASSUME NEW c \in Closes, CallClose(c) \/ CloseReturns(c) PROVE CloseAsked'
  BY <1>4 DEF CallClose, CloseReturns, Typed, ClosesTyped
<1>5. CASE TakeRecord \/ Tick \/ TakeNotice \/ TakeClose \/ (\E f \in Flushes : TakeFlush(f))
  BY <1>1, <1>5 DEF TakeRecord, Tick, TakeNotice, TakeClose, TakeFlush, ModeFlow
<1>6. CASE MarkDequeued \/ AppendRecord \/ Deliver \/ Drain
  <2>1. UNCHANGED <<closed, asked, mode>>
    BY <1>6, Zenon DEF MarkDequeued, AppendRecord, Deliver, Drain
  <2> QED
    BY <2>1
<1>7. CASE FinishFlush
  <2>1. mode = "flush" /\ UNCHANGED <<closed, asked>>
    BY <1>7, Zenon DEF FinishFlush
  <2> QED
    BY <2>1
<1>8. CASE FinishClose
  BY <1>8 DEF FinishClose
<1>9. CASE UNCHANGED vars
  BY <1>9 DEF vars
<1> QED
  BY <1>2, <1>3, <1>4, <1>5, <1>6, <1>7, <1>8, <1>9 DEF Next, Worker

(* A close is never lost, and the worker waits for nobody but a producer between
   its send and its count, for any number of calls (close, run). *)
THEOREM CloseGoesOnHolds == Spec => []CloseGoesOn
<1>1. Init => CloseAsked
  BY DEF Init, CloseAsked
<1>2. IInv /\ CloseAsked /\ [Next]_vars => CloseAsked'
  BY CloseAskedKept DEF IInv
<1>3. IInv /\ CloseAsked => CloseGoesOn
  <2> SUFFICES ASSUME IInv, CloseAsked, closed, ~done, mu = Nobody PROVE WorkerCanGoOn
    BY DEF CloseGoesOn
  <2>1. WorkerTyped /\ ModeFlow /\ DoneFlow
    BY DEF IInv, Typed, Flow
  <2>2. worker # "gone"
    BY <2>1 DEF DoneFlow
  <2>3. worker = "select" => asked
    BY <2>1 DEF CloseAsked, ModeFlow
  <2> QED
    BY <2>1, <2>2, <2>3 DEF WorkerTyped, WorkerCanGoOn
<1> QED
  BY <1>1, <1>2, <1>3, Inductive, PTL DEF Spec

(* Where the worker is, as a number of steps. *)
Rank ==
    CASE worker = "mark" -> 8
      [] worker = "append" -> IF batch = <<>> THEN 5 ELSE 7
      [] worker = "deliver" -> IF inHand = Nobody THEN 4 ELSE 6
      [] worker = "drain" -> 3
      [] worker = "final" -> 2
      [] worker = "finish" -> 1
      [] OTHER -> 0

LEMMA Ranks ==
    /\ Rank \in 0 .. 8
    /\ worker = "mark" => Rank = 8
    /\ worker = "append" => Rank = IF batch = <<>> THEN 5 ELSE 7
    /\ worker = "deliver" => Rank = IF inHand = Nobody THEN 4 ELSE 6
    /\ worker = "drain" => Rank = 3
    /\ worker = "final" => Rank = 2
    /\ worker = "finish" => Rank = 1
    /\ worker = "gone" => Rank = 0
BY DEF Rank

LEMMA RanksNext ==
    /\ Rank' \in 0 .. 8
    /\ worker' = "mark" => Rank' = 8
    /\ worker' = "append" => Rank' = IF batch' = <<>> THEN 5 ELSE 7
    /\ worker' = "deliver" => Rank' = IF inHand' = Nobody THEN 4 ELSE 6
    /\ worker' = "drain" => Rank' = 3
    /\ worker' = "final" => Rank' = 2
    /\ worker' = "finish" => Rank' = 1
    /\ worker' = "gone" => Rank' = 0
BY DEF Rank

LEMMA StepsCounted ==
    /\ StepsLeft = 8 * Len(queue) + Rank
    /\ StepsLeft' = 8 * Len(queue') + Rank'
BY DEF StepsLeft, Rank

LEMMA DrainStep ==
    ASSUME IInv, mode = "close", Worker
    PROVE  mode' = "close" /\ StepsLeft' < StepsLeft
<1>1. queue \in Seq(Records) /\ Len(queue) \in Nat /\ inHand \in Records \cup {Nobody}
  BY LenProperties DEF IInv, Typed, RecordsTyped
<1>2. worker # "select" /\ HandFlow /\ BatchFlow
  BY DEF IInv, Flow, ModeFlow
<1> HIDE DEF IInv
<1>3. ~TakeRecord /\ ~Tick /\ ~TakeNotice /\ ~TakeClose /\ ~FinishFlush /\ \A f \in Flushes : ~TakeFlush(f)
  BY <1>2 DEF TakeRecord, Tick, TakeNotice, TakeClose, TakeFlush, FinishFlush
<1>4. SUFFICES /\ mode' = "close"
               /\ \/ queue' = queue /\ Rank' < Rank
                  \/ Len(queue') = Len(queue) - 1 /\ Rank = 3 /\ Rank' = 8
  BY <1>1, Ranks, RanksNext, StepsCounted
<1>5. CASE MarkDequeued
  BY <1>5, Ranks, RanksNext DEF MarkDequeued
<1>6. CASE AppendRecord
  <2>1. worker = "append" /\ mode' = mode /\ queue' = queue
    BY <1>6 DEF AppendRecord
  <2>2. CASE Overflows
    <3>1. worker' = "deliver" /\ inHand' = inHand /\ batch # <<>>
      BY <1>6, <2>2 DEF AppendRecord, Overflows
    <3>2. inHand # Nobody
      BY <1>2, <2>1 DEF HandFlow
    <3> QED
      BY <2>1, <3>1, <3>2, Ranks, RanksNext
  <2>3. CASE ~Overflows
    <3>1. inHand' = Nobody /\ worker' \in {"deliver", "drain"}
      BY <1>6, <2>3 DEF AppendRecord, Resumed
    <3> QED
      BY <2>1, <3>1, Ranks, RanksNext
  <2> QED
    BY <2>2, <2>3
<1>7. CASE Deliver
  <2>1. /\ worker \in {"deliver", "final"} /\ mode' = mode /\ queue' = queue
        /\ batch' = <<>> /\ worker' = AfterDelivery
    BY <1>7 DEF Deliver
  <2>2. CASE worker = "final"
    BY <2>1, <2>2, Ranks, RanksNext DEF AfterDelivery
  <2>3. CASE worker = "deliver" /\ inHand # Nobody
    BY <2>1, <2>3, Ranks, RanksNext DEF AfterDelivery
  <2>4. CASE worker = "deliver" /\ inHand = Nobody
    BY <2>1, <2>4, Ranks, RanksNext DEF AfterDelivery, Resumed
  <2> QED
    BY <2>1, <2>2, <2>3, <2>4
<1>8. CASE Drain
  <2>1. worker = "drain" /\ mode' = mode
    BY <1>8 DEF Drain
  <2>2. CASE queue # <<>>
    <3>1. queue' = Tail(queue) /\ worker' = "mark"
      BY <1>8, <2>2 DEF Drain
    <3>2. Len(queue') = Len(queue) - 1
      BY <1>1, <2>2, <3>1, HeadTailProperties
    <3> QED
      BY <2>1, <3>1, <3>2, Ranks, RanksNext
  <2>3. CASE queue = <<>>
    <3>1. queue' = queue /\ worker' \in {"final", "finish"}
      BY <1>8, <2>3 DEF Drain
    <3> QED
      BY <2>1, <3>1, Ranks, RanksNext
  <2> QED
    BY <2>2, <2>3
<1>9. CASE FinishClose
  BY <1>9, Ranks, RanksNext DEF FinishClose, others
<1> QED
  BY <1>3, <1>5, <1>6, <1>7, <1>8, <1>9 DEF Worker

(* What the others do adds nothing: no record is let in once close was called. *)
LEMMA DrainStill ==
    ASSUME IInv, mode = "close", [Next]_vars, ~Worker
    PROVE  mode' = "close" /\ StepsLeft' = StepsLeft
<1>1. closed
  BY DEF IInv, Flow, CloseFlow
<1> HIDE DEF IInv
<1>2. SUFFICES UNCHANGED <<mode, queue, worker, batch, inHand>>
  BY DEF StepsLeft
<1>3. \A p \in Records : ~Send(p)
  BY <1>1 DEF Send, Admitted
<1> USE DEF producing, calls, working, others
<1>4. ASSUME NEW p \in Records, Producer(p) PROVE UNCHANGED <<mode, queue, worker, batch, inHand>>
  BY <1>3, <1>4 DEF Producer, Count, Drop
<1>5. ASSUME NEW f \in Flushes, CallFlush(f) \/ FlushAfterDone(f) \/ FlushAnswered(f) \/ FlushTimeout(f)
      PROVE  UNCHANGED <<mode, queue, worker, batch, inHand>>
  BY <1>5, Zenon DEF CallFlush, FlushAfterDone, FlushAnswered, FlushTimeout
<1>6. ASSUME NEW c \in Closes, CallClose(c) \/ CloseReturns(c)
      PROVE  UNCHANGED <<mode, queue, worker, batch, inHand>>
  BY <1>6 DEF CallClose, CloseReturns
<1>7. CASE UNCHANGED vars
  BY <1>7 DEF vars
<1> QED
  BY <1>4, <1>5, <1>6, <1>7 DEF Next

(* Once the worker has taken the close, at most 8 * QueueSize + 3 of its steps
   remain, for any records and limits (drainRecords, run). *)
THEOREM DrainEndsHolds == Spec => DrainEnds
<1>1. ASSUME IInv, [Next]_vars, mode = "close"
      PROVE  mode' = "close" /\ StepsLeft' <= StepsLeft /\ (Worker => StepsLeft' < StepsLeft)
  <2>1. Len(queue) \in Nat
    BY <1>1, LenProperties DEF IInv, Typed, RecordsTyped
  <2>2. StepsLeft \in Nat
    BY <2>1, Ranks, StepsCounted
  <2>3. CASE Worker
    <3>1. mode' = "close" /\ StepsLeft' < StepsLeft
      BY <1>1, <2>3, DrainStep
    <3>2. StepsLeft' \in Int
      <4>1. (queue \in Seq(Records))'
        BY <1>1, RecordsTypedKept DEF IInv, Typed, Flow, RecordsTyped
      <4>2. Len(queue') \in Nat
        BY <4>1, LenProperties
      <4> QED
        BY <4>2, RanksNext, StepsCounted
    <3> QED
      BY <2>2, <3>1, <3>2
  <2>4. CASE ~Worker
    BY <1>1, <2>2, <2>4, DrainStill
  <2> QED
    BY <2>3, <2>4
<1> QED
  BY <1>1, Inductive, PTL DEF Spec, DrainEnds
=============================================================================
