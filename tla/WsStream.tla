------------------------------ MODULE WsStream ------------------------------
(***************************************************************************)
(* The streaming half of the worker (src/ws_vision.py): one                *)
(* _VisionStreamSession per WebSocket, its latest-frame mailbox, its       *)
(* inference task, the process-wide _INFER_LOCK, the worker threads behind *)
(* asyncio.to_thread, the registry _SESSIONS with the retired totals, and  *)
(* the graceful shutdown of the server.                                    *)
(*                                                                         *)
(* Everything but the worker threads and the model loader runs on one      *)
(* asyncio event loop, so a piece of a handler between two awaits is one   *)
(* action.  POST /detect runs its inference on the event loop itself: no   *)
(* other handler moves until it returns (loopBusy).                        *)
(***************************************************************************)
EXTENDS Naturals, SequencesExt

CONSTANTS
  Sessions,     \* the WebSocket connections; each has one session object
  NoSession,    \* _INFER_LOCK is free
  MaxFrames,    \* bound: valid frames one client sends
  MaxBad        \* bound: a client sends bad frames while its errors are fewer

ASSUME NoSessionAssumption == NoSession \notin Sessions
ASSUME BoundsAssumption == MaxFrames \in Nat /\ MaxBad \in Nat

VARIABLES
  \* one value per session
  conn,         \* where run() is
  gone,         \* the peer's socket is gone: the next send raises
  closed,       \* self.closed
  slot,         \* self.slot._frame: the pending frame, 0 when there is none
  infer,        \* where infer_loop() is
  hand,         \* the frame infer_loop() has taken and not finished, else 0
  cancel,       \* task.cancel() was called and is not delivered yet
  thread,       \* the thread running this session's run_inference
  received, processed, dropped, errors,   \* the counters of the session
  \* the process
  lock,         \* holder of _INFER_LOCK
  waiters,      \* FIFO queue of the tasks waiting for _INFER_LOCK
  registry,     \* _SESSIONS
  totals,       \* _GLOBAL["totals"]
  ready,        \* _model_ready(): the worker's status is "ready"
  accepting,    \* worker_runtime.accepting()
  loopBusy,     \* /detect is running an inference on the event loop
  \* history, read by no action
  failed,       \* frames whose inference raised
  lost,         \* frames given up by a cancelled inference task
  answered      \* the newest frame a "vision" message was sent for

clientVars  == <<conn, gone, closed>>
frameVars   == <<slot, hand>>
taskVars    == <<infer, cancel, thread>>
countVars   == <<received, processed, dropped, errors>>
lockVars    == <<lock, waiters>>
processVars == <<registry, totals, ready, accepting, loopBusy>>
historyVars == <<failed, lost, answered>>

vars == <<conn, gone, closed, slot, infer, hand, cancel, thread, received,
          processed, dropped, errors, lock, waiters, registry, totals, ready,
          accepting, loopBusy, failed, lost, answered>>

(***************************************************************************)
(* Types.                                                                  *)
(***************************************************************************)
\* "new": not connected yet; "rejected": closed with code 1008; "accepted":
\* accepted, "connected" being sent; "open": receiving; "closing": gathering
\* the cancelled tasks; "retired": the totals are merged, run() has returned.
Phase == {"new", "rejected", "accepted", "open", "closing", "retired"}

\* "none": not created; "get": in slot.get(); "lock": queued on _INFER_LOCK;
\* "thread": awaiting to_thread under the lock; "sending": in the safe_send of
\* the result; "done": returned or cancelled.
InferState == {"none", "get", "lock", "thread", "sending", "done"}

\* "ok" and "raised": the thread has finished and the task has not resumed yet.
ThreadState == {"idle", "running", "ok", "raised"}

Frames == 0..MaxFrames

ClientTypes ==
  /\ conn \in [Sessions -> Phase]
  /\ gone \in [Sessions -> BOOLEAN]
  /\ closed \in [Sessions -> BOOLEAN]

TaskTypes ==
  /\ infer \in [Sessions -> InferState]
  /\ cancel \in [Sessions -> BOOLEAN]
  /\ thread \in [Sessions -> ThreadState]

FrameTypes ==
  /\ slot \in [Sessions -> Frames]
  /\ hand \in [Sessions -> Frames]
  /\ received \in [Sessions -> Frames]
  /\ answered \in [Sessions -> Frames]

CountTypes ==
  /\ processed \in [Sessions -> Nat]
  /\ dropped \in [Sessions -> Nat]
  /\ errors \in [Sessions -> Nat]
  /\ failed \in [Sessions -> Nat]
  /\ lost \in [Sessions -> Nat]

ProcessTypes ==
  /\ lock \in Sessions \cup {NoSession}
  /\ waiters \in Seq(Sessions)
  /\ registry \in SUBSET Sessions
  /\ totals \in [received : Nat, processed : Nat, dropped : Nat]
  /\ ready \in BOOLEAN
  /\ accepting \in BOOLEAN
  /\ loopBusy \in BOOLEAN

TypeOK ==
  /\ ClientTypes
  /\ TaskTypes
  /\ FrameTypes
  /\ CountTypes
  /\ ProcessTypes

(***************************************************************************)
(* Initial state: no client yet.  The model may be loaded already.         *)
(***************************************************************************)
Init ==
  /\ conn = [s \in Sessions |-> "new"]
  /\ gone = [s \in Sessions |-> FALSE]
  /\ closed = [s \in Sessions |-> FALSE]
  /\ slot = [s \in Sessions |-> 0]
  /\ infer = [s \in Sessions |-> "none"]
  /\ hand = [s \in Sessions |-> 0]
  /\ cancel = [s \in Sessions |-> FALSE]
  /\ thread = [s \in Sessions |-> "idle"]
  /\ received = [s \in Sessions |-> 0]
  /\ processed = [s \in Sessions |-> 0]
  /\ dropped = [s \in Sessions |-> 0]
  /\ errors = [s \in Sessions |-> 0]
  /\ lock = NoSession
  /\ waiters = << >>
  /\ registry = {}
  /\ totals = [received |-> 0, processed |-> 0, dropped |-> 0]
  /\ ready \in BOOLEAN
  /\ accepting = TRUE
  /\ loopBusy = FALSE
  /\ failed = [s \in Sessions |-> 0]
  /\ lost = [s \in Sessions |-> 0]
  /\ answered = [s \in Sessions |-> 0]

(***************************************************************************)
(* Connecting: run() up to the creation of the background tasks.           *)
(***************************************************************************)
\* The shared secret is wrong: close(1008), nothing is started.
Reject(s) ==
  /\ ~loopBusy
  /\ conn[s] = "new"
  /\ conn' = [conn EXCEPT ![s] = "rejected"]
  /\ UNCHANGED <<gone, closed, frameVars, taskVars, countVars, lockVars,
                 processVars, historyVars>>

\* accept() has succeeded and the "connected" message is on its way; the
\* session is not in _SESSIONS yet.
Accept(s) ==
  /\ ~loopBusy
  /\ conn[s] = "new"
  /\ conn' = [conn EXCEPT ![s] = "accepted"]
  /\ UNCHANGED <<gone, closed, frameVars, taskVars, countVars, lockVars,
                 processVars, historyVars>>

\* The state of the infer loop when it comes back to "while not closed".
LoopHead(isClosed) == IF isClosed THEN "done" ELSE "get"

\* safe_send(): a send to a vanished peer raises and closes the session.
ClosedBySend(s) == [closed EXCEPT ![s] = @ \/ gone[s]]

\* safe_send("connected") is over: register the session, create the tasks.
Start(s) ==
  /\ ~loopBusy
  /\ conn[s] = "accepted"
  /\ conn' = [conn EXCEPT ![s] = "open"]
  /\ closed' = ClosedBySend(s)
  /\ registry' = registry \cup {s}
  /\ infer' = [infer EXCEPT ![s] = LoopHead(closed'[s])]
  /\ UNCHANGED <<gone, frameVars, cancel, thread, countVars, lockVars, totals,
                 ready, accepting, loopBusy, historyVars>>

(***************************************************************************)
(* Receiving: recv_loop() and _handle_raw().                               *)
(***************************************************************************)
\* _LatestFrameSlot.put(): the newest frame replaces the pending one, which
\* is lost.
PutKeepsOld(pending, frame) == IF pending # 0 THEN pending ELSE frame
Put(pending, frame)         == frame

PutForgetsDrop(pending) == FALSE
PutDrops(pending)       == pending # 0

LeaveRecvOpen(s, ended) ==
  IF ended
    THEN /\ conn' = [conn EXCEPT ![s] = "closing"]
         /\ cancel' = [cancel EXCEPT ![s] = infer[s] # "done"]
         /\ UNCHANGED closed
    ELSE UNCHANGED <<conn, closed, cancel>>

\* recv_loop() has ended: its finally and run()'s set closed and cancel the
\* background tasks before the first await.  Without "ended" the loop goes on.
LeaveRecv(s, ended) ==
  IF ended
    THEN /\ conn' = [conn EXCEPT ![s] = "closing"]
         /\ closed' = [closed EXCEPT ![s] = TRUE]
         /\ cancel' = [cancel EXCEPT ![s] = infer[s] # "done"]
    ELSE UNCHANGED <<conn, closed, cancel>>

\* A valid frame while the worker accepts frames.  The loop tests closed only
\* after the message is handled, so a session that was closed under it still
\* takes one message.
ReceiveFrame(s) ==
  /\ ~loopBusy
  /\ conn[s] = "open"
  /\ accepting
  /\ received[s] < MaxFrames
  /\ received' = [received EXCEPT ![s] = @ + 1]
  /\ slot' = [slot EXCEPT ![s] = Put(@, received'[s])]
  /\ dropped' = [dropped EXCEPT ![s] = IF PutDrops(slot[s]) THEN @ + 1 ELSE @]
  /\ LeaveRecv(s, closed[s])
  /\ UNCHANGED <<gone, infer, hand, thread, processed, errors, lockVars,
                 processVars, historyVars>>

\* A frame validate_frame() refuses; while shutting down it is not validated.
ReceiveBadFrame(s) ==
  /\ ~loopBusy
  /\ conn[s] = "open"
  /\ accepting
  /\ errors[s] < MaxBad
  /\ errors' = [errors EXCEPT ![s] = @ + 1]
  /\ LeaveRecv(s, closed[s])
  /\ UNCHANGED <<gone, frameVars, infer, thread, received, processed, dropped,
                 lockVars, processVars, historyVars>>

\* Anything else: bad JSON, a ping, an unknown type, or a frame that arrives
\* once the worker is shutting down.  At most an answer is sent.
ReceiveOther(s) ==
  /\ ~loopBusy
  /\ conn[s] = "open"
  /\ LeaveRecv(s, closed[s])
  /\ UNCHANGED <<gone, frameVars, infer, thread, countVars, lockVars,
                 processVars, historyVars>>

\* receive_text() raises: the peer has disconnected or sent no text.
ReceiveEnds(s) ==
  /\ ~loopBusy
  /\ conn[s] = "open"
  /\ LeaveRecv(s, TRUE)
  /\ UNCHANGED <<gone, frameVars, infer, thread, countVars, lockVars,
                 processVars, historyVars>>

\* metrics_loop() and ready_watcher() send too; with the peer gone the first
\* send that fails closes the session while recv_loop() still waits.
BackgroundSendFails(s) ==
  /\ ~loopBusy
  /\ conn[s] = "open"
  /\ gone[s]
  /\ ~closed[s]
  /\ closed' = ClosedBySend(s)
  /\ UNCHANGED <<conn, gone, frameVars, taskVars, countVars, lockVars,
                 processVars, historyVars>>

(***************************************************************************)
(* Inference: infer_loop() and _process_frame().                           *)
(***************************************************************************)
AcquireAtOnce(s) ==
  /\ lock' = s
  /\ infer' = [infer EXCEPT ![s] = "thread"]
  /\ thread' = [thread EXCEPT ![s] = "running"]
  /\ UNCHANGED waiters

\* asyncio.Lock: a task gets the lock at once only if it is free and nobody
\* waits; otherwise it queues.  Getting the lock starts the worker thread.
AcquireOrQueue(s) ==
  IF lock = NoSession /\ waiters = << >>
    THEN /\ lock' = s
         /\ infer' = [infer EXCEPT ![s] = "thread"]
         /\ thread' = [thread EXCEPT ![s] = "running"]
         /\ UNCHANGED waiters
    ELSE /\ waiters' = Append(waiters, s)
         /\ infer' = [infer EXCEPT ![s] = "lock"]
         /\ UNCHANGED <<lock, thread>>

\* slot.get() hands out the pending frame and empties the slot.  A task whose
\* cancellation arrives when wait_for() has its result keeps the result and
\* the cancellation is lost (CPython before 3.12).
TakeFrame(s) ==
  /\ ~loopBusy
  /\ infer[s] = "get"
  /\ slot[s] # 0
  /\ ready
  /\ hand' = [hand EXCEPT ![s] = slot[s]]
  /\ slot' = [slot EXCEPT ![s] = 0]
  /\ cancel' = [cancel EXCEPT ![s] = FALSE]
  /\ AcquireOrQueue(s)
  /\ UNCHANGED <<clientVars, countVars, processVars, historyVars>>

\* The model is not ready: the frame is discarded, not queued.
DiscardFrame(s) ==
  /\ ~loopBusy
  /\ infer[s] = "get"
  /\ slot[s] # 0
  /\ ~ready
  /\ slot' = [slot EXCEPT ![s] = 0]
  /\ dropped' = [dropped EXCEPT ![s] = @ + 1]
  /\ infer' = [infer EXCEPT ![s] = LoopHead(closed[s])]
  /\ cancel' = [cancel EXCEPT ![s] = FALSE]
  /\ UNCHANGED <<clientVars, hand, thread, received, processed, errors,
                 lockVars, processVars, historyVars>>

\* slot.get() times out; only then does a waiting task see a closed session.
GetTimeout(s) ==
  /\ ~loopBusy
  /\ infer[s] = "get"
  /\ ~cancel[s]
  /\ closed[s]
  /\ infer' = [infer EXCEPT ![s] = "done"]
  /\ UNCHANGED <<clientVars, frameVars, cancel, thread, countVars, lockVars,
                 processVars, historyVars>>

\* The first waiter wakes up with the lock free: it holds the lock and starts
\* its worker thread.
Acquire(s) ==
  /\ ~loopBusy
  /\ infer[s] = "lock"
  /\ ~cancel[s]
  /\ lock = NoSession
  /\ Head(waiters) = s
  /\ lock' = s
  /\ waiters' = Tail(waiters)
  /\ infer' = [infer EXCEPT ![s] = "thread"]
  /\ thread' = [thread EXCEPT ![s] = "running"]
  /\ UNCHANGED <<clientVars, frameVars, cancel, countVars, processVars,
                 historyVars>>

\* run_inference returns or raises in its thread.  Nobody reads the result of
\* a thread whose task was cancelled.
ThreadFinish(s) ==
  /\ thread[s] = "running"
  /\ \E outcome \in {"ok", "raised"} :
       thread' = [thread EXCEPT ![s] = IF infer[s] = "thread" THEN outcome
                                       ELSE "idle"]
  /\ UNCHANGED <<clientVars, frameVars, infer, cancel, countVars, lockVars,
                 processVars, historyVars>>

\* safe_send() writes nothing for a closed session, and nothing reaches a peer
\* that is gone.
DeliversAnyway(s) == ~gone[s]
Delivers(s)       == ~closed[s] /\ ~gone[s]

\* The task resumes with a result: the lock is released, the frame counted and,
\* with no await in between, safe_send(vision) starts: it discards the result
\* of a closed session and otherwise writes the message, which a live peer gets.
InferenceOk(s) ==
  /\ ~loopBusy
  /\ infer[s] = "thread"
  /\ ~cancel[s]
  /\ thread[s] = "ok"
  /\ lock' = NoSession
  /\ thread' = [thread EXCEPT ![s] = "idle"]
  /\ processed' = [processed EXCEPT ![s] = @ + 1]
  /\ infer' = [infer EXCEPT ![s] = IF closed[s] THEN "done" ELSE "sending"]
  /\ hand' = [hand EXCEPT ![s] = IF closed[s] THEN 0 ELSE @]
  /\ answered' = [answered EXCEPT ![s] = IF Delivers(s) THEN hand[s] ELSE @]
  /\ UNCHANGED <<clientVars, slot, cancel, received, dropped, errors,
                 waiters, processVars, failed, lost>>

\* The inference raised: the frame counts as an error and the loop goes on.
InferenceRaised(s) ==
  /\ ~loopBusy
  /\ infer[s] = "thread"
  /\ ~cancel[s]
  /\ thread[s] = "raised"
  /\ lock' = NoSession
  /\ thread' = [thread EXCEPT ![s] = "idle"]
  /\ errors' = [errors EXCEPT ![s] = @ + 1]
  /\ failed' = [failed EXCEPT ![s] = @ + 1]
  /\ hand' = [hand EXCEPT ![s] = 0]
  /\ closed' = ClosedBySend(s)
  /\ infer' = [infer EXCEPT ![s] = LoopHead(closed'[s])]
  /\ UNCHANGED <<conn, gone, slot, cancel, received, processed, dropped,
                 waiters, processVars, lost, answered>>

\* The send of the result returns, or fails because the peer is gone.
SendVision(s) ==
  /\ ~loopBusy
  /\ infer[s] = "sending"
  /\ ~cancel[s]
  /\ closed' = ClosedBySend(s)
  /\ hand' = [hand EXCEPT ![s] = 0]
  /\ infer' = [infer EXCEPT ![s] = LoopHead(closed'[s])]
  /\ UNCHANGED <<conn, gone, slot, cancel, thread, countVars, lockVars,
                 processVars, historyVars>>

(***************************************************************************)
(* Teardown: run()'s finally.                                              *)
(***************************************************************************)
WithdrawNothing(queue, s) == queue

\* asyncio.Lock.acquire() removes its own waiter when it is cancelled.
Withdraw(queue, s) ==
  RemoveAt(queue, CHOOSE i \in 1..Len(queue) : queue[i] = s)

CancelKeepsLock(s) ==
  /\ ~loopBusy
  /\ cancel[s]
  /\ cancel' = [cancel EXCEPT ![s] = FALSE]
  /\ infer' = [infer EXCEPT ![s] = "done"]
  /\ hand' = [hand EXCEPT ![s] = 0]
  /\ lost' = [lost EXCEPT ![s] = IF infer[s] \in {"lock", "thread"}
                                   THEN @ + 1 ELSE @]
  /\ UNCHANGED lock
  /\ waiters' = IF infer[s] = "lock" THEN Withdraw(waiters, s) ELSE waiters
  /\ thread' = [thread EXCEPT ![s] = IF @ = "running" THEN @ ELSE "idle"]
  /\ UNCHANGED <<clientVars, slot, countVars, processVars, failed, answered>>

\* CancelledError reaches the inference task wherever it awaits.  "async with"
\* gives the lock back at once; the worker thread cannot be cancelled.
DeliverCancel(s) ==
  /\ ~loopBusy
  /\ cancel[s]
  /\ cancel' = [cancel EXCEPT ![s] = FALSE]
  /\ infer' = [infer EXCEPT ![s] = "done"]
  /\ hand' = [hand EXCEPT ![s] = 0]
  /\ lost' = [lost EXCEPT ![s] = IF infer[s] \in {"lock", "thread"}
                                   THEN @ + 1 ELSE @]
  /\ lock' = IF infer[s] = "thread" THEN NoSession ELSE lock
  /\ waiters' = IF infer[s] = "lock" THEN Withdraw(waiters, s) ELSE waiters
  /\ thread' = [thread EXCEPT ![s] = IF @ = "running" THEN @ ELSE "idle"]
  /\ UNCHANGED <<clientVars, slot, countVars, processVars, failed, answered>>

\* The totals of a session and its removal from the registry.
Merge(s) ==
  /\ totals' = [received  |-> totals.received + received[s],
                processed |-> totals.processed + processed[s],
                dropped   |-> totals.dropped + dropped[s]]
  /\ registry' = registry \ {s}

RetireNoGather(s) ==
  /\ ~loopBusy
  /\ conn[s] = "closing"
  /\ conn' = [conn EXCEPT ![s] = "retired"]
  /\ Merge(s)
  /\ UNCHANGED <<gone, closed, frameVars, taskVars, countVars, lockVars, ready,
                 accepting, loopBusy, historyVars>>

\* gather() is over: merge the counters into the totals, leave the registry.
Retire(s) ==
  /\ ~loopBusy
  /\ conn[s] = "closing"
  /\ infer[s] = "done"
  /\ conn' = [conn EXCEPT ![s] = "retired"]
  /\ Merge(s)
  /\ UNCHANGED <<gone, closed, frameVars, taskVars, countVars, lockVars, ready,
                 accepting, loopBusy, historyVars>>

(***************************************************************************)
(* The rest of the process.                                                *)
(***************************************************************************)
\* The end of lifespan(): refuse new frames and close every registered
\* session, between two awaits.
Shutdown ==
  /\ ~loopBusy
  /\ accepting
  /\ accepting' = FALSE
  /\ closed' = [s \in Sessions |-> closed[s] \/ s \in registry]
  /\ UNCHANGED <<conn, gone, frameVars, taskVars, countVars, lockVars,
                 registry, totals, ready, loopBusy, historyVars>>

\* /detect passes its readiness check and runs its inference synchronously.
DetectBegin ==
  /\ ~loopBusy
  /\ accepting
  /\ ready
  /\ loopBusy' = TRUE
  /\ UNCHANGED <<clientVars, frameVars, taskVars, countVars, lockVars,
                 registry, totals, ready, accepting, historyVars>>

DetectEnd ==
  /\ loopBusy
  /\ loopBusy' = FALSE
  /\ UNCHANGED <<clientVars, frameVars, taskVars, countVars, lockVars,
                 registry, totals, ready, accepting, historyVars>>

\* The loader thread sets the worker's status (module ModelWarmup).
ModelStatusChange ==
  /\ ready' = ~ready
  /\ UNCHANGED <<clientVars, frameVars, taskVars, countVars, lockVars,
                 registry, totals, accepting, loopBusy, historyVars>>

\* The peer drops the connection; the server learns of it by a send or receive.
PeerGone(s) ==
  /\ conn[s] \in {"accepted", "open"}
  /\ ~gone[s]
  /\ gone' = [gone EXCEPT ![s] = TRUE]
  /\ UNCHANGED <<conn, closed, frameVars, taskVars, countVars, lockVars,
                 processVars, historyVars>>

-----------------------------------------------------------------------------
\* What the event loop does of itself for session s: every step that waits for
\* no client.
LoopStep(s) ==
  \/ Start(s)
  \/ TakeFrame(s)
  \/ DiscardFrame(s)
  \/ GetTimeout(s)
  \/ Acquire(s)
  \/ InferenceOk(s)
  \/ InferenceRaised(s)
  \/ SendVision(s)
  \/ DeliverCancel(s)
  \/ Retire(s)

ClientStep(s) ==
  \/ Reject(s)
  \/ Accept(s)
  \/ ReceiveFrame(s)
  \/ ReceiveBadFrame(s)
  \/ ReceiveOther(s)
  \/ ReceiveEnds(s)
  \/ BackgroundSendFails(s)
  \/ PeerGone(s)

Next ==
  \/ \E s \in Sessions : LoopStep(s) \/ ClientStep(s) \/ ThreadFinish(s)
  \/ Shutdown
  \/ DetectBegin
  \/ DetectEnd
  \/ ModelStatusChange

Spec == Init /\ [][Next]_vars

(***************************************************************************)
(* Fairness.  asyncio runs its ready callbacks in FIFO order, so a step    *)
(* that is ready again and again between two /detect requests is run:      *)
(* strong fairness of each session's own steps.  An inference returns      *)
(* (weak fairness of the threads and of /detect).  Clients, the shutdown   *)
(* and the model loader owe nothing.                                       *)
(***************************************************************************)
Fairness ==
  /\ \A s \in Sessions : SF_vars(LoopStep(s))
  /\ \A s \in Sessions : WF_vars(ThreadFinish(s))
  /\ WF_vars(DetectEnd)

FairSpec == Spec /\ Fairness

(***************************************************************************)
(* Safety.                                                                 *)
(***************************************************************************)
\* The frame a session has taken, as a count.
InHand(s)  == IF hand[s] # 0 /\ infer[s] # "sending" THEN 1 ELSE 0
Pending(s) == IF slot[s] # 0 THEN 1 ELSE 0

\* Every valid frame is accounted for exactly once: it was processed, dropped,
\* failed, given up at teardown, or it is still pending or in hand.  The
\* counters of the session (ws_vision.py:240-243) move in four different
\* coroutines, across awaits and cancellations.
FrameAccounting ==
  \A s \in Sessions :
    received[s] = processed[s] + dropped[s] + failed[s] + lost[s]
                    + Pending(s) + InHand(s)

\* _INFER_LOCK is held exactly by the session whose task awaits its worker
\* thread, and its queue holds exactly the tasks that wait for it, once each:
\* a task that leaves by cancellation leaves neither a held lock nor a waiter
\* behind, which would stop inference for every other client.
LockDiscipline ==
  /\ \A s \in Sessions : lock = s <=> infer[s] = "thread"
  /\ \A s \in Sessions : s \in ToSet(waiters) <=> infer[s] = "lock"
  /\ IsInjective(waiters)

\* A worker thread runs only for the holder of the lock, or as the leftover of
\* a session that is torn down: the inferences of the clients that are still
\* connected never overlap.
LiveInferenceExclusive ==
  \A s \in Sessions :
    thread[s] # "idle" =>
      \/ lock = s
      \/ conn[s] \in {"closing", "retired"} /\ infer[s] = "done"

\* Latest-frame-wins: the pending frame is the newest one received, and it is
\* newer than the frame in hand, which is newer than every answered one.
NewestFramePending ==
  \A s \in Sessions :
    /\ slot[s] # 0 => slot[s] = received[s] /\ hand[s] < slot[s]
    /\ InHand(s) = 1 => answered[s] < hand[s]
    /\ hand[s] <= received[s]

\* /debug/stream adds up: the registry holds the sessions between their
\* "connected" message and their teardown, no other, and nobody in it is
\* already merged into the totals.
RegistryExact == registry = {s \in Sessions : conn[s] \in {"open", "closing"}}

\* GET /debug/stream: the totals are the counters of the retired sessions, each
\* merged once (_retire), none lost and none moving after it was merged.  A sum
\* over sessions is the size of the set that has counter[s] elements for each s.
Retired == {s \in Sessions : conn[s] = "retired"}
Tally(counter, S) == UNION {{s} \X (1..counter[s]) : s \in S}
TotalsExact ==
  totals = [received  |-> Cardinality(Tally(received, Retired)),
            processed |-> Cardinality(Tally(processed, Retired)),
            dropped   |-> Cardinality(Tally(dropped, Retired))]

\* A session is gone from the server only when its inference task has ended:
\* nothing of it holds or awaits the lock any more.
RetiredIsQuiet ==
  \A s \in Sessions :
    conn[s] \in {"new", "rejected", "accepted", "retired"} =>
      /\ infer[s] \in {"none", "done"}
      /\ lock # s
      /\ hand[s] = 0

(***************************************************************************)
(* What the safety properties rest on (module WsStreamProofs).             *)
(***************************************************************************)
\* The inference task exists from Start to Retire, and is cancelled only by
\* the teardown of its own session, once, while it has not ended.
Lifecycle ==
  \A s \in Sessions :
    /\ conn[s] \in {"new", "rejected", "accepted"} => infer[s] = "none"
    /\ conn[s] = "retired" => infer[s] = "done"
    /\ cancel[s] => conn[s] = "closing" /\ infer[s] # "done"

\* The task has a frame exactly between slot.get() and the end of the send.
HandFull ==
  \A s \in Sessions : hand[s] # 0 <=> infer[s] \in {"lock", "thread", "sending"}

\* A pending frame is newer than anything answered.
AnsweredBehind ==
  \A s \in Sessions :
    /\ answered[s] <= received[s]
    /\ slot[s] # 0 => answered[s] < slot[s]

\* A teardown begins by closing the session, and nothing opens it again.
EndingIsClosed ==
  \A s \in Sessions : conn[s] \in {"closing", "retired"} => closed[s]

Invariant ==
  /\ TypeOK
  /\ Lifecycle
  /\ EndingIsClosed
  /\ LockDiscipline
  /\ HandFull
  /\ FrameAccounting
  /\ LiveInferenceExclusive
  /\ NewestFramePending
  /\ AnsweredBehind
  /\ RegistryExact

(***************************************************************************)
(* Each session implements the abstract stream.                            *)
(***************************************************************************)
StreamPhase(s) ==
  IF conn[s] \in {"rejected", "closing", "retired"} THEN "over"
  ELSE IF closed[s] THEN "draining" ELSE "streaming"

Stream(s) == INSTANCE FrameStream
               WITH phase <- StreamPhase(s), offered <- received[s],
                    answered <- answered[s]

\* What a client of /ws/vision sees: results for strictly newer frames, none
\* after the session closed (safe_send), at most one frame taken after that.
EverySessionStreams ==
  /\ \A s \in Sessions : Stream(s)!StreamInit
  /\ [][\A s \in Sessions : [Stream(s)!StreamNext]_(Stream(s)!streamVars)]_vars

(***************************************************************************)
(* Liveness, under FairSpec.                                               *)
(***************************************************************************)
\* run()'s finally always comes to its end: cancelling and gathering the tasks
\* waits neither for the lock nor, unless the cancellation was lost, for the
\* worker thread.
TeardownCompletes ==
  \A s \in Sessions : conn[s] = "closing" ~> conn[s] = "retired"

\* No frame is stuck: a frame the inference loop has taken is finished, failed
\* or given up, however many other sessions compete for the lock.
TakenFrameSettles ==
  \A s \in Sessions : hand[s] # 0 ~> hand[s] = 0

(***************************************************************************)
(* What the documentation says and the code does not do.                   *)
(***************************************************************************)
\* ws_vision.py:40-42: "Inference runs in a worker thread (asyncio.to_thread)
\* and is serialized process-wide by _INFER_LOCK so concurrent connections
\* never thrash the GPU."
InferenceSerialized ==
  \A s, t \in Sessions :
    thread[s] = "running" /\ thread[t] = "running" => s = t
=============================================================================
