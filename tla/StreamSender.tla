---------------------------- MODULE StreamSender ----------------------------
(***************************************************************************)
(* The remote log sender of internal/logger/cloudflare.go: producers put   *)
(* records on a bounded queue and never wait for the network; one worker   *)
(* goroutine batches and delivers them; Sync and terminal log entries ask  *)
(* it to flush; shutdown stops admission and drains what was accepted.     *)
(*                                                                         *)
(* A record is named by the log call that made it.  Its size is what is    *)
(* counted against the byte limits; a batch of n records takes 2 bytes of  *)
(* brackets and one more per record.                                       *)
(***************************************************************************)
EXTENDS Integers, SequencesExt

CONSTANTS Records,       \* log calls, each made once
          Flushes,       \* calls of flush, each made once
          Closes,        \* calls of close, each made once
          Sizes,         \* record sizes
          BatchSize, QueueSize, MaxBatchBytes, MaxQueueBytes,
          Nobody         \* no record, no flush call, no holder of mu

ASSUME SenderAssumption ==
    /\ Sizes \subseteq Nat
    /\ {BatchSize, QueueSize, MaxBatchBytes, MaxQueueBytes} \subseteq Nat \ {0}
    /\ Nobody \notin Records \cup Flushes

VARIABLES size,     \* size[p]: the encoded size of record p
          status,   \* status[p]: what became of record p
          queue,    \* the channel records
          pendingBytes, closed, closeErr, done,  \* fields of streamSender
          mu,       \* the producer between its channel send and its byte count
          asked,    \* the channel closeRequests holds a request
          notice,   \* the channel dropNotices holds a notice
          flusher,  \* flusher[f]: where the flush call f is, or what it returned
          closer,   \* closer[c]: where the close call c is, or what it returned
          worker,   \* where the worker is
          mode,     \* why it is draining: "one" record, a "flush", the "close"
          serving,  \* the flush call it is serving
          inHand,   \* the record taken from the queue and not yet batched
          batch, batchBytes, lastErr,
          accepted, \* history: the records accepted, in order
          before    \* history: what had been accepted when flush call f began

vars == <<size, status, queue, pendingBytes, closed, closeErr, done, mu, asked, notice, flusher,
          closer, worker, mode, serving, inHand, batch, batchBytes, lastErr, accepted, before>>

producing == <<size, accepted>>
calls == <<closed, asked, flusher, closer, before>>
working == <<worker, mode, serving, inHand, batch, batchBytes, lastErr, closeErr, done>>

Returned == {"ok", "error", "timeout"}

Init ==
    /\ size \in [Records -> Sizes]
    /\ status = [p \in Records |-> "new"]
    /\ queue = <<>> /\ accepted = <<>> /\ pendingBytes = 0 /\ mu = Nobody
    /\ closed = FALSE /\ asked = FALSE /\ notice = FALSE
    /\ done = FALSE /\ closeErr = FALSE /\ lastErr = FALSE
    /\ flusher = [f \in Flushes |-> "idle"]
    /\ closer = [c \in Closes |-> "idle"]
    /\ before = [f \in Flushes |-> {}]
    /\ worker = "select" /\ mode = "one" /\ serving = Nobody /\ inHand = Nobody
    /\ batch = <<>> /\ batchBytes = 2

-----------------------------------------------------------------------------
(* Producers: enqueue, under mu *)

(* Mutant: closed is read before the lock is taken, so it may be out of date. *)
AdmittedUnlocked(p) ==
    /\ size[p] + 2 <= MaxBatchBytes
    /\ pendingBytes + size[p] <= MaxQueueBytes
    /\ Len(queue) < QueueSize

(* Mutant: the channel is unbounded. *)
AdmittedUnbounded(p) ==
    /\ ~closed
    /\ size[p] + 2 <= MaxBatchBytes
    /\ pendingBytes + size[p] <= MaxQueueBytes

(* The four early returns of enqueue. *)
Admitted(p) ==
    /\ ~closed
    /\ size[p] + 2 <= MaxBatchBytes
    /\ pendingBytes + size[p] <= MaxQueueBytes
    /\ Len(queue) < QueueSize

(* The record is on the channel, where the worker may take it at once; mu is
   still held. *)
Send(p) ==
    /\ status[p] = "new" /\ mu = Nobody
    /\ Admitted(p)
    /\ queue' = Append(queue, p)
    /\ accepted' = Append(accepted, p)
    /\ status' = [status EXCEPT ![p] = "accepted"]
    /\ mu' = p
    /\ UNCHANGED <<size, pendingBytes, notice, calls, working>>

(* pendingBytes += len(record), and mu is released. *)
Count(p) ==
    /\ mu = p
    /\ pendingBytes' = pendingBytes + size[p]
    /\ mu' = Nobody
    /\ UNCHANGED <<status, queue, notice, producing, calls, working>>

(* The remote copy is dropped and one notice at most is left for the worker. *)
Drop(p) ==
    /\ status[p] = "new" /\ mu = Nobody
    /\ ~Admitted(p)
    /\ status' = [status EXCEPT ![p] = "dropped"]
    /\ notice' = TRUE
    /\ UNCHANGED <<queue, pendingBytes, mu, producing, calls, working>>

-----------------------------------------------------------------------------
(* Callers of flush and close *)

CallFlush(f) ==
    /\ flusher[f] = "idle"
    /\ flusher' = [flusher EXCEPT ![f] = "sending"]
    /\ before' = [before EXCEPT ![f] = ToSet(accepted)]
    /\ UNCHANGED <<status, queue, pendingBytes, mu, notice, closed, asked, closer, producing, working>>

(* The worker is gone: the answer is closeErr. *)
FlushAfterDone(f) ==
    /\ flusher[f] \in {"sending", "waiting", "answered ok", "answered error"} /\ done
    /\ flusher' = [flusher EXCEPT ![f] = IF closeErr THEN "error" ELSE "ok"]
    /\ UNCHANGED <<status, queue, pendingBytes, mu, notice, closed, asked, closer, before, producing, working>>

FlushAnswered(f) ==
    /\ flusher[f] \in {"answered ok", "answered error"}
    /\ flusher' = [flusher EXCEPT ![f] = IF flusher[f] = "answered ok" THEN "ok" ELSE "error"]
    /\ UNCHANGED <<status, queue, pendingBytes, mu, notice, closed, asked, closer, before, producing, working>>

(* The context of a call ends first; the worker is not told. *)
FlushTimeout(f) ==
    /\ flusher[f] \in {"sending", "waiting", "answered ok", "answered error"}
    /\ flusher' = [flusher EXCEPT ![f] = "timeout"]
    /\ UNCHANGED <<status, queue, pendingBytes, mu, notice, closed, asked, closer, before, producing, working>>

(* Admission stops and the first call leaves the one close request. *)
CallClose(c) ==
    /\ closer[c] = "idle" /\ mu = Nobody
    /\ closed' = TRUE
    /\ asked' = (asked \/ ~closed)
    /\ closer' = [closer EXCEPT ![c] = "waiting"]
    /\ UNCHANGED <<status, queue, pendingBytes, mu, notice, flusher, before, producing, working>>

CloseReturns(c) ==
    /\ closer[c] = "waiting"
    /\ \/ done /\ closer' = [closer EXCEPT ![c] = IF closeErr THEN "error" ELSE "ok"]
       \/ closer' = [closer EXCEPT ![c] = "timeout"]
    /\ UNCHANGED <<status, queue, pendingBytes, mu, notice, closed, asked, flusher, before, producing, working>>

-----------------------------------------------------------------------------
(* The worker goroutine: the select of run *)

others == <<size, accepted, flusher, closer, before, closed>>

TakeRecord ==
    /\ worker = "select" /\ queue # <<>>
    /\ inHand' = Head(queue) /\ queue' = Tail(queue)
    /\ worker' = "mark" /\ mode' = "one"
    /\ UNCHANGED <<status, pendingBytes, mu, asked, notice, serving, batch, batchBytes, lastErr,
                   closeErr, done, others>>

TakeFlush(f) ==
    /\ worker = "select" /\ flusher[f] = "sending"
    /\ flusher' = [flusher EXCEPT ![f] = "waiting"]
    /\ worker' = "drain" /\ mode' = "flush" /\ serving' = f
    /\ UNCHANGED <<status, queue, pendingBytes, mu, asked, notice, inHand, batch, batchBytes, lastErr,
                   closeErr, done, size, accepted, closer, before, closed>>

(* The flush interval ends with a batch to send. *)
Tick ==
    /\ worker = "select" /\ batch # <<>>
    /\ worker' = "deliver" /\ mode' = "one"
    /\ UNCHANGED <<status, queue, pendingBytes, mu, asked, notice, serving, inHand, batch, batchBytes,
                   lastErr, closeErr, done, others>>

TakeNotice ==
    /\ worker = "select" /\ notice
    /\ notice' = FALSE
    /\ UNCHANGED <<status, queue, pendingBytes, mu, asked, working, others>>

TakeClose ==
    /\ worker = "select" /\ asked
    /\ asked' = FALSE
    /\ worker' = "drain" /\ mode' = "close"
    /\ UNCHANGED <<status, queue, pendingBytes, mu, notice, serving, inHand, batch, batchBytes,
                   lastErr, closeErr, done, others>>

-----------------------------------------------------------------------------
(* The worker goroutine: batching and delivery *)

(* Back to the select, or on with the drain, after a record or a batch. *)
Resumed == IF mode = "one" THEN "select" ELSE "drain"

(* Mutant: drained records are not taken off pendingBytes. *)
MarkOutsideDrain ==
    /\ worker = "mark" /\ mu = Nobody
    /\ pendingBytes' = IF mode = "one" THEN pendingBytes - size[inHand] ELSE pendingBytes
    /\ worker' = "append"
    /\ UNCHANGED <<status, queue, mu, asked, notice, mode, serving, inHand, batch, batchBytes, lastErr,
                   closeErr, done, others>>

(* markDequeued waits for mu: the record in hand is counted before it is
   uncounted. *)
MarkDequeued ==
    /\ worker = "mark" /\ mu = Nobody
    /\ pendingBytes' = pendingBytes - size[inHand]
    /\ worker' = "append"
    /\ UNCHANGED <<status, queue, mu, asked, notice, mode, serving, inHand, batch, batchBytes, lastErr,
                   closeErr, done, others>>

Overflows == batch # <<>> /\ batchBytes + size[inHand] + 1 > MaxBatchBytes

(* A record that would overflow the batch waits in hand for its delivery. *)
AppendRecord ==
    /\ worker = "append"
    /\ IF Overflows
         THEN /\ worker' = "deliver"
              /\ UNCHANGED <<inHand, batch, batchBytes>>
         ELSE /\ batch' = Append(batch, inHand)
              /\ batchBytes' = batchBytes + size[inHand] + 1
              /\ inHand' = Nobody
              /\ worker' = IF Len(batch') >= BatchSize THEN "deliver" ELSE Resumed
    /\ UNCHANGED <<status, queue, pendingBytes, mu, asked, notice, mode, serving, lastErr,
                   closeErr, done, others>>

AfterDelivery ==
    CASE worker = "final" -> "finish"
      [] worker = "deliver" /\ inHand # Nobody -> "append"
      [] worker = "deliver" /\ inHand = Nobody -> Resumed

(* Mutant: a batch that could not be delivered stays for the next delivery. *)
DeliverOrKeep ==
    /\ worker \in {"deliver", "final"}
    /\ \E sent \in BOOLEAN :
         /\ status' = [p \in Records |-> IF p \in ToSet(batch)
                                           THEN (IF sent THEN "sent" ELSE "failed") ELSE status[p]]
         /\ lastErr' = (lastErr \/ ~sent)
         /\ batch' = (IF sent THEN <<>> ELSE batch)
         /\ batchBytes' = (IF sent THEN 2 ELSE batchBytes)
    /\ worker' = AfterDelivery
    /\ UNCHANGED <<queue, pendingBytes, mu, asked, notice, mode, serving, inHand, closeErr, done, others>>

(* Mutant: a delivery that succeeds clears the error of an earlier one. *)
DeliverForgiving ==
    /\ worker \in {"deliver", "final"}
    /\ \E sent \in BOOLEAN :
         /\ status' = [p \in Records |-> IF p \in ToSet(batch)
                                           THEN (IF sent THEN "sent" ELSE "failed") ELSE status[p]]
         /\ lastErr' = ~sent
    /\ batch' = <<>> /\ batchBytes' = 2
    /\ worker' = AfterDelivery
    /\ UNCHANGED <<queue, pendingBytes, mu, asked, notice, mode, serving, inHand, closeErr, done, others>>

(* One POST of the batch, which is given up whatever the outcome; a cancelled
   context, a transport error and a status other than 2xx all fail it. *)
Deliver ==
    /\ worker \in {"deliver", "final"}
    /\ \E sent \in BOOLEAN :
         /\ status' = [p \in Records |-> IF p \in ToSet(batch)
                                           THEN (IF sent THEN "sent" ELSE "failed") ELSE status[p]]
         /\ lastErr' = (lastErr \/ ~sent)
    /\ batch' = <<>> /\ batchBytes' = 2
    /\ worker' = AfterDelivery
    /\ UNCHANGED <<queue, pendingBytes, mu, asked, notice, mode, serving, inHand, closeErr, done, others>>

(* drainRecords until the queue is empty, and the last batch. *)
Drain ==
    /\ worker = "drain"
    /\ IF queue # <<>>
         THEN inHand' = Head(queue) /\ queue' = Tail(queue) /\ worker' = "mark"
         ELSE /\ worker' = IF batch # <<>> THEN "final" ELSE "finish"
              /\ UNCHANGED <<inHand, queue>>
    /\ UNCHANGED <<status, pendingBytes, mu, asked, notice, mode, serving, batch, batchBytes, lastErr,
                   closeErr, done, others>>

(* Mutant: the flush result is sent on an unbuffered channel. *)
AnswerTaken(f) == flusher[f] = "waiting"

(* The result channel is buffered: nobody need be waiting any more. *)
AnswerBuffered(f) == TRUE

(* The flush is answered with the error of this or of any earlier delivery. *)
FinishFlush ==
    /\ worker = "finish" /\ mode = "flush" /\ AnswerBuffered(serving)
    /\ flusher' = [flusher EXCEPT ![serving] =
         IF @ = "waiting" THEN (IF lastErr THEN "answered error" ELSE "answered ok") ELSE @]
    /\ worker' = "select" /\ mode' = "one" /\ serving' = Nobody
    /\ UNCHANGED <<status, queue, pendingBytes, mu, asked, notice, inHand, batch, batchBytes, lastErr,
                   closeErr, done, size, accepted, closer, before, closed>>

FinishClose ==
    /\ worker = "finish" /\ mode = "close" /\ mu = Nobody
    /\ closeErr' = lastErr /\ done' = TRUE
    /\ worker' = "gone"
    /\ UNCHANGED <<status, queue, pendingBytes, mu, asked, notice, mode, serving, inHand, batch,
                   batchBytes, lastErr, others>>

Worker ==
    \/ TakeRecord \/ Tick \/ TakeNotice \/ TakeClose
    \/ MarkDequeued \/ AppendRecord \/ Deliver \/ Drain \/ FinishFlush \/ FinishClose
    \/ \E f \in Flushes : TakeFlush(f)

Producer(p) == Send(p) \/ Count(p) \/ Drop(p)

Next ==
    \/ Worker
    \/ \E p \in Records : Producer(p)
    \/ \E f \in Flushes : CallFlush(f) \/ FlushAfterDone(f) \/ FlushAnswered(f) \/ FlushTimeout(f)
    \/ \E c \in Closes : CallClose(c) \/ CloseReturns(c)

Spec == Init /\ [][Next]_vars

(* The worker runs, a delivery is bounded by the client's timeout, and no
   producer stops between its send and its count. *)
FairSpec == Spec /\ WF_vars(Worker) /\ \A p \in Records : WF_vars(Count(p))

-----------------------------------------------------------------------------
(* Properties *)

TotalSize(S) == FoldSeq(LAMBDA p, n : size[p] + n, 0, S)

Held == IF inHand = Nobody THEN <<>> ELSE <<inHand>>

(* Type correctness of the sender. *)
TypeOK ==
    /\ size \in [Records -> Sizes]
    /\ status \in [Records -> {"new", "accepted", "dropped", "sent", "failed"}]
    /\ queue \in Seq(Records) /\ Len(queue) <= QueueSize
    /\ batch \in Seq(Records) /\ accepted \in Seq(Records)
    /\ pendingBytes \in Int
    /\ {closed, closeErr, done, asked, notice, lastErr} \subseteq BOOLEAN
    /\ mu \in Records \cup {Nobody} /\ inHand \in Records \cup {Nobody}
    /\ serving \in Flushes \cup {Nobody}
    /\ flusher \in [Flushes -> {"idle", "sending", "waiting", "answered ok", "answered error"} \cup Returned]
    /\ closer \in [Closes -> {"idle", "waiting"} \cup Returned]
    /\ worker \in {"select", "mark", "append", "deliver", "drain", "final", "finish", "gone"}
    /\ mode \in {"one", "flush", "close"}
    /\ before \in [Flushes -> SUBSET Records]

(* The limits are kept to the byte.  pendingBytes is what the channel holds, plus
   the record the worker has not uncounted, less the record its producer has not
   counted: it never goes negative, never drifts, and the queue stays within its
   byte limit although the send and the count are two steps the worker can fall
   between.  A batch that is sent holds BatchSize records and its body, the JSON
   array with its commas, MaxBatchBytes at most, also when it is a single record
   of the largest size admitted. *)
LimitsKept ==
    LET uncounted == IF mu = Nobody THEN 0 ELSE size[mu]
        unmarked == IF worker = "mark" THEN size[inHand] ELSE 0
    IN /\ pendingBytes + uncounted = TotalSize(queue) + unmarked
       /\ pendingBytes >= 0
       /\ TotalSize(queue) <= MaxQueueBytes
       /\ worker \in {"deliver", "final"} =>
            /\ Len(batch) \in 1 .. BatchSize
            /\ TotalSize(batch) + 2 + Len(batch) - 1 <= MaxBatchBytes

Attempted(p) == status[p] \in {"sent", "failed"}

(* No record is lost, sent twice or reordered on its way: at any moment the last
   of those accepted are the batch, the record in hand and the queue, and those
   before them, and no others, have been attempted. *)
EachRecordOnceInOrder ==
    LET rest == batch \o Held \o queue
        n == Len(accepted) - Len(rest)
    IN /\ n >= 0 /\ SubSeq(accepted, n + 1, Len(accepted)) = rest
       /\ \A i \in DOMAIN accepted : Attempted(accepted[i]) <=> i <= n

(* When the sender is done every record it ever accepted was attempted ("Shutdown
   stops admission, drains entries already accepted", run and close), and the
   error of close is that of any of them. *)
DoneMeansDrained ==
    done => /\ \A p \in ToSet(accepted) : Attempted(p)
            /\ closeErr <=> \E p \in Records : status[p] = "failed"

(* A flush that returns no error has seen every record accepted before it began
   delivered: Fatal and Panic entries rely on it, the process dies next. *)
FlushedMeansSent ==
    \A f \in Flushes : flusher[f] = "ok" => \A p \in before[f] : status[p] = "sent"

(* The sender as the program sees it: what is let in is sent or has failed, in
   order and once, flush and close tell the truth about it, and nothing is let in
   after a close began.  A call is pending until it has returned. *)
Told(answer) == IF answer \in {"idle"} \cup Returned THEN answer ELSE "pending"

Pipe == INSTANCE LogPipe WITH flushed <- [f \in Flushes |-> Told(flusher[f])],
                              shut <- [c \in Closes |-> Told(closer[c])]
ImplementsPipe == Pipe!Spec

(* The worker has a step to take that waits for nobody. *)
WorkerCanGoOn ==
    \/ worker \in {"append", "deliver", "drain", "final"}
    \/ worker = "select" /\ (queue # <<>> \/ batch # <<>> \/ notice \/ asked
                              \/ \E f \in Flushes : flusher[f] = "sending")
    \/ worker = "mark" /\ mu = Nobody
    \/ worker = "finish" /\ (mode = "close" => mu = Nobody)

(* A close request is never lost, to a flush that is served, to a delivery or to a
   second close: until the sender is done the worker has a step to take, or waits
   for a producer that has only its count before it. *)
CloseGoesOn == closed /\ ~done => WorkerCanGoOn \/ mu # Nobody

(* No fewer than the steps the worker has left of a drain. *)
StepsLeft ==
    8 * Len(queue) + CASE worker = "mark" -> 8
                       [] worker = "append" -> IF batch = <<>> THEN 5 ELSE 7
                       [] worker = "deliver" -> IF inHand = Nobody THEN 4 ELSE 6
                       [] worker = "drain" -> 3
                       [] worker = "final" -> 2
                       [] worker = "finish" -> 1
                       [] OTHER -> 0

(* The drain for a close ends: every step of the worker brings it nearer, no
   overflow, failed delivery or record still in hand sets it back, and nothing
   that others do meanwhile adds to it. *)
DrainEnds ==
    [][mode = "close" => /\ mode' = "close"
                         /\ StepsLeft' <= StepsLeft
                         /\ Worker => StepsLeft' < StepsLeft]_vars

(* Once close is called the sender finishes: no flush call that nobody waits for
   any more, no producer and no failed delivery holds the worker up. *)
CloseCompletes == closed ~> done
=============================================================================
