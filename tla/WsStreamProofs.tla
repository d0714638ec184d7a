--------------------------- MODULE WsStreamProofs ---------------------------
(***************************************************************************)
(* Proofs about WsStream, for any set of connections and any bounds.       *)
(***************************************************************************)
EXTENDS WsStream, SequenceTheorems, FiniteSetTheorems, TLAPS

(***************************************************************************)
(* The queue of _INFER_LOCK.                                               *)
(***************************************************************************)
\* RemoveAt drops one element and closes the gap.
LEMMA RemoveAtProperties ==
  ASSUME NEW S, NEW q \in Seq(S), NEW i \in 1..Len(q)
  PROVE  /\ RemoveAt(q, i) \in Seq(S)
         /\ Len(RemoveAt(q, i)) = Len(q) - 1
         /\ \A j \in 1..(Len(q) - 1) :
              RemoveAt(q, i)[j] = IF j < i THEN q[j] ELSE q[j + 1]
<1> DEFINE a == SubSeq(q, 1, i - 1)
           b == SubSeq(q, i + 1, Len(q))
<1>1. /\ a \in Seq(S) /\ Len(a) = i - 1
      /\ \A j \in 1..(i - 1) : a[j] = q[j]
  BY SubSeqProperties
<1>2. /\ b \in Seq(S) /\ Len(b) = Len(q) - i
      /\ \A j \in 1..(Len(q) - i) : b[j] = q[i + j]
  BY SubSeqProperties
<1>3. RemoveAt(q, i) = a \o b
  BY DEF RemoveAt
<1> HIDE DEF a, b
<1>4. /\ a \o b \in Seq(S)
      /\ Len(a \o b) = Len(a) + Len(b)
      /\ \A j \in 1..(Len(a) + Len(b)) :
           (a \o b)[j] = IF j <= Len(a) THEN a[j] ELSE b[j - Len(a)]
  BY <1>1, <1>2, ConcatProperties
<1> QED
  BY <1>1, <1>2, <1>3, <1>4

\* Withdrawing a waiter leaves the others, in order.
LEMMA WithdrawProperties ==
  ASSUME NEW q \in Seq(Sessions), NEW s \in ToSet(q)
  PROVE  /\ Withdraw(q, s) \in Seq(Sessions)
         /\ IsInjective(q) => /\ IsInjective(Withdraw(q, s))
                              /\ ToSet(Withdraw(q, s)) = ToSet(q) \ {s}
<1> DEFINE k == CHOOSE i \in 1..Len(q) : q[i] = s
           r == RemoveAt(q, k)
<1>1. k \in 1..Len(q) /\ q[k] = s
  BY DEF ToSet
<1> HIDE DEF k
<1>2. /\ r \in Seq(Sessions)
      /\ Len(r) = Len(q) - 1
      /\ \A j \in 1..(Len(q) - 1) : r[j] = IF j < k THEN q[j] ELSE q[j + 1]
  BY <1>1, RemoveAtProperties
<1>3. Withdraw(q, s) = r
  BY DEF Withdraw, k
<1> HIDE DEF r
<1>4. ASSUME IsInjective(q)
      PROVE  IsInjective(r) /\ ToSet(r) = ToSet(q) \ {s}
  <2>1. IsInjective(r)
    <3>1. DOMAIN r = 1..(Len(q) - 1) /\ DOMAIN q = 1..Len(q)
      BY <1>2
    <3>2. ASSUME NEW i \in 1..(Len(q) - 1), NEW j \in 1..(Len(q) - 1), r[i] = r[j]
          PROVE  i = j
      <4>1. /\ i < k => r[i] = q[i]
            /\ i >= k => r[i] = q[i + 1]
            /\ j < k => r[j] = q[j]
            /\ j >= k => r[j] = q[j + 1]
        BY <1>1, <1>2
      <4>2. \A a, b \in 1..Len(q) : q[a] = q[b] => a = b
        BY <1>4, <3>1 DEF IsInjective
      <4>3. CASE i < k /\ j < k
        BY <1>1, <3>2, <4>1, <4>2, <4>3
      <4>4. CASE i < k /\ j >= k
        <5>1. q[i] = q[j + 1] /\ i \in 1..Len(q) /\ j + 1 \in 1..Len(q)
          BY <1>1, <3>2, <4>1, <4>4
        <5> QED
          BY <1>1, <4>2, <4>4, <5>1
      <4>5. CASE i >= k /\ j < k
        <5>1. q[i + 1] = q[j] /\ j \in 1..Len(q) /\ i + 1 \in 1..Len(q)
          BY <1>1, <3>2, <4>1, <4>5
        <5> QED
          BY <1>1, <4>2, <4>5, <5>1
      <4>6. CASE i >= k /\ j >= k
        <5>1. q[i + 1] = q[j + 1] /\ i + 1 \in 1..Len(q) /\ j + 1 \in 1..Len(q)
          BY <1>1, <3>2, <4>1, <4>6
        <5> QED
          BY <4>2, <5>1
      <4> QED
        BY <1>1, <4>3, <4>4, <4>5, <4>6
    <3>3. \A i, j \in DOMAIN r : r[i] = r[j] => i = j
      BY <3>1, <3>2
    <3> QED
      BY <3>3 DEF IsInjective
  <2>2. ASSUME NEW e \in ToSet(r)
        PROVE  e \in ToSet(q) \ {s}
    BY <1>1, <1>2, <1>4 DEF ToSet, IsInjective
  <2>3. ASSUME NEW e \in ToSet(q), e # s
        PROVE  e \in ToSet(r)
    <3>1. PICK i \in 1..Len(q) : q[i] = e
      BY DEF ToSet
    <3>2. CASE i < k
      <4>1. i \in 1..Len(r) /\ r[i] = e
        BY <1>1, <1>2, <3>1, <3>2
      <4> QED
        BY <1>2, <4>1 DEF ToSet
    <3>3. CASE i > k
      <4>1. i - 1 \in 1..Len(r) /\ r[i - 1] = e
        BY <1>1, <1>2, <3>1, <3>3
      <4> QED
        BY <1>2, <4>1 DEF ToSet
    <3> QED
      BY <1>1, <2>3, <3>1, <3>2, <3>3
  <2> QED
    BY <2>1, <2>2, <2>3
<1> QED
  BY <1>2, <1>3, <1>4

\* Appending a newcomer keeps the waiters distinct.
LEMMA AppendWaiter ==
  ASSUME NEW q \in Seq(Sessions), NEW s \in Sessions
  PROVE  /\ Append(q, s) \in Seq(Sessions)
         /\ ToSet(Append(q, s)) = ToSet(q) \cup {s}
         /\ IsInjective(q) /\ s \notin ToSet(q) => IsInjective(Append(q, s))
<1>1. /\ Append(q, s) \in Seq(Sessions)
      /\ Len(Append(q, s)) = Len(q) + 1
      /\ \A i \in 1..Len(q) : Append(q, s)[i] = q[i]
      /\ Append(q, s)[Len(q) + 1] = s
  BY AppendProperties
<1>2. ToSet(Append(q, s)) = ToSet(q) \cup {s}
  BY <1>1 DEF ToSet
<1>3. IsInjective(q) /\ s \notin ToSet(q) => IsInjective(Append(q, s))
  BY <1>1 DEF ToSet, IsInjective
<1> QED
  BY <1>1, <1>2, <1>3

\* The first waiter leaves the queue; the others stay distinct.
LEMMA TailOfWaiters ==
  ASSUME NEW q \in Seq(Sessions), q # << >>
  PROVE  /\ Tail(q) \in Seq(Sessions)
         /\ Head(q) \in ToSet(q)
         /\ IsInjective(q) => /\ IsInjective(Tail(q))
                              /\ ToSet(Tail(q)) = ToSet(q) \ {Head(q)}
<1>1. /\ Tail(q) \in Seq(Sessions)
      /\ Len(Tail(q)) = Len(q) - 1
      /\ \A i \in 1..Len(Tail(q)) : Tail(q)[i] = q[i + 1]
  BY HeadTailProperties
<1>2. Head(q) = q[1] /\ Len(q) >= 1
  OBVIOUS
<1>3. Head(q) \in ToSet(q)
  BY <1>2 DEF ToSet
<1>4. ASSUME IsInjective(q)
      PROVE  IsInjective(Tail(q)) /\ ToSet(Tail(q)) = ToSet(q) \ {Head(q)}
  <2>1. IsInjective(Tail(q))
    BY <1>1, <1>4 DEF IsInjective
  <2>2. ASSUME NEW e \in ToSet(Tail(q))
        PROVE  e \in ToSet(q) \ {Head(q)}
    <3>1. PICK i \in 1..Len(Tail(q)) : Tail(q)[i] = e
      BY <1>1 DEF ToSet
    <3>2. i + 1 \in 1..Len(q) /\ q[i + 1] = e
      BY <1>1, <3>1
    <3>3. q[i + 1] # q[1]
      BY <1>2, <1>4, <3>2 DEF IsInjective
    <3> QED
      BY <1>2, <3>2, <3>3 DEF ToSet
  <2>3. ASSUME NEW e \in ToSet(q), e # Head(q)
        PROVE  e \in ToSet(Tail(q))
    <3>1. PICK i \in 1..Len(q) : q[i] = e
      BY DEF ToSet
    <3>2. i - 1 \in 1..Len(Tail(q)) /\ Tail(q)[i - 1] = e
      BY <1>1, <1>2, <2>3, <3>1
    <3>3. DOMAIN Tail(q) = 1..Len(Tail(q))
      BY <1>1
    <3> QED
      BY <3>2, <3>3 DEF ToSet
  <2> QED
    BY <2>1, <2>2, <2>3
<1> QED
  BY <1>1, <1>3, <1>4


(***************************************************************************)
(* Types.                                                                  *)
(***************************************************************************)
\* Every variable keeps its type in every step.  That the queue of _INFER_LOCK
\* does rests on its discipline: a task wakes up with the lock, or withdraws,
\* only when it is in the queue.
LEMMA TypeStep == TypeOK /\ LockDiscipline /\ [Next]_vars => TypeOK'
<1> SUFFICES ASSUME TypeOK, LockDiscipline, [Next]_vars
             PROVE  TypeOK'
  OBVIOUS
<1> USE DEF clientVars, frameVars, taskVars, countVars, lockVars, processVars,
            historyVars
<1>1. ASSUME NEW s \in Sessions, ClientStep(s)
      PROVE  TypeOK'
  <2> USE <1>1 DEF ClientStep, Reject, Accept, ReceiveFrame, ReceiveBadFrame,
            ReceiveOther, ReceiveEnds, BackgroundSendFails, PeerGone, LeaveRecv,
            ClosedBySend
  <2>1. ClientTypes'
    BY DEF TypeOK, ClientTypes, Phase
  <2>2. TaskTypes'
    BY DEF TypeOK, TaskTypes
  <2>3. FrameTypes'
    BY BoundsAssumption DEF TypeOK, FrameTypes, Frames, Put
  <2>4. CountTypes'
    <3>1. CASE ReceiveFrame(s)
      BY <3>1 DEF TypeOK, CountTypes
    <3>2. CASE ReceiveBadFrame(s)
      BY <3>2 DEF TypeOK, CountTypes
    <3>3. CASE ~ReceiveFrame(s) /\ ~ReceiveBadFrame(s)
      <4>1. UNCHANGED <<countVars, failed, lost>>
        BY <3>3
      <4> QED
        BY <4>1 DEF TypeOK, CountTypes
    <3> QED
      BY <3>1, <3>2, <3>3
  <2>5. ProcessTypes'
    BY DEF TypeOK, ProcessTypes
  <2> QED
    BY <2>1, <2>2, <2>3, <2>4, <2>5 DEF TypeOK
<1>2. ASSUME NEW s \in Sessions, LoopStep(s)
      PROVE  TypeOK'
  <2>1. ClientTypes'
    BY <1>2 DEF LoopStep, Start, TakeFrame, DiscardFrame, GetTimeout, Acquire,
                InferenceOk, InferenceRaised, SendVision, DeliverCancel, Retire,
                TypeOK, ClientTypes, Phase, ClosedBySend
  <2>2. TaskTypes'
    BY <1>2 DEF LoopStep, Start, TakeFrame, DiscardFrame, GetTimeout, Acquire,
                InferenceOk, InferenceRaised, SendVision, DeliverCancel, Retire,
                TypeOK, TaskTypes, InferState, ThreadState, LoopHead,
                AcquireOrQueue
  <2>3. FrameTypes'
    <3>1. CASE TakeFrame(s)
      BY <3>1, BoundsAssumption DEF TakeFrame, TypeOK, FrameTypes, Frames
    <3>2. CASE DiscardFrame(s)
      BY <3>2, BoundsAssumption DEF DiscardFrame, TypeOK, FrameTypes, Frames
    <3>3. CASE InferenceOk(s)
      BY <3>3, BoundsAssumption DEF InferenceOk, TypeOK, FrameTypes, Frames
    <3>4. CASE InferenceRaised(s) \/ SendVision(s) \/ DeliverCancel(s)
      <4>1. hand' = [hand EXCEPT ![s] = 0] /\ UNCHANGED <<slot, received, answered>>
        BY <3>4 DEF InferenceRaised, SendVision, DeliverCancel
      <4> QED
        BY <4>1, BoundsAssumption DEF TypeOK, FrameTypes, Frames
    <3>5. CASE Start(s) \/ GetTimeout(s) \/ Acquire(s) \/ Retire(s)
      <4>1. UNCHANGED <<frameVars, received, answered>>
        BY <3>5 DEF Start, GetTimeout, Acquire, Retire
      <4> QED
        BY <4>1 DEF TypeOK, FrameTypes
    <3> QED
      BY <1>2, <3>1, <3>2, <3>3, <3>4, <3>5 DEF LoopStep
  <2>4. CountTypes'
    <3>1. CASE DiscardFrame(s)
      BY <3>1 DEF DiscardFrame, TypeOK, CountTypes
    <3>2. CASE InferenceOk(s)
      BY <3>2 DEF InferenceOk, TypeOK, CountTypes
    <3>3. CASE InferenceRaised(s)
      BY <3>3 DEF InferenceRaised, TypeOK, CountTypes
    <3>4. CASE DeliverCancel(s)
      BY <3>4 DEF DeliverCancel, TypeOK, CountTypes
    <3>5. CASE Start(s) \/ TakeFrame(s) \/ GetTimeout(s) \/ Acquire(s)
                 \/ SendVision(s) \/ Retire(s)
      <4>1. UNCHANGED <<countVars, failed, lost>>
        BY <3>5 DEF Start, TakeFrame, GetTimeout, Acquire, SendVision, Retire
      <4> QED
        BY <4>1 DEF TypeOK, CountTypes
    <3> QED
      BY <1>2, <3>1, <3>2, <3>3, <3>4, <3>5 DEF LoopStep
  <2>5. waiters' \in Seq(Sessions)
    <3>1. CASE TakeFrame(s)
      <4>1. waiters' \in {waiters, Append(waiters, s)}
        BY <3>1 DEF TakeFrame, AcquireOrQueue
      <4> QED
        BY <4>1, AppendWaiter DEF TypeOK, ProcessTypes
    <3>2. CASE Acquire(s)
      <4>1. s \in ToSet(waiters) /\ waiters' = Tail(waiters)
        BY <3>2 DEF Acquire, LockDiscipline
      <4>2. waiters # << >>
        BY <4>1 DEF ToSet
      <4> QED
        BY <4>1, <4>2, TailOfWaiters DEF TypeOK, ProcessTypes
    <3>3. CASE DeliverCancel(s)
      <4>1. CASE infer[s] = "lock"
        <5>1. s \in ToSet(waiters) /\ waiters' = Withdraw(waiters, s)
          BY <3>3, <4>1 DEF DeliverCancel, LockDiscipline
        <5> QED
          BY <5>1, WithdrawProperties DEF TypeOK, ProcessTypes
      <4>2. CASE infer[s] # "lock"
        BY <3>3, <4>2 DEF DeliverCancel, TypeOK, ProcessTypes
      <4> QED
        BY <4>1, <4>2
    <3>4. CASE ~TakeFrame(s) /\ ~Acquire(s) /\ ~DeliverCancel(s)
      <4>1. UNCHANGED waiters
        BY <1>2, <3>4 DEF LoopStep, Start, DiscardFrame, GetTimeout, InferenceOk,
                          InferenceRaised, SendVision, Retire
      <4> QED
        BY <4>1 DEF TypeOK, ProcessTypes
    <3> QED
      BY <3>1, <3>2, <3>3, <3>4
  <2>6. totals' \in [received : Nat, processed : Nat, dropped : Nat]
    <3>1. CASE Retire(s)
      <4>1. received[s] \in Nat /\ processed[s] \in Nat /\ dropped[s] \in Nat
        BY BoundsAssumption DEF TypeOK, FrameTypes, CountTypes, Frames
      <4>2. totals.received \in Nat /\ totals.processed \in Nat
            /\ totals.dropped \in Nat
        BY DEF TypeOK, ProcessTypes
      <4>3. /\ totals.received + received[s] \in Nat
            /\ totals.processed + processed[s] \in Nat
            /\ totals.dropped + dropped[s] \in Nat
        BY <4>1, <4>2
      <4> QED
        BY <3>1, <4>3 DEF Retire, Merge
    <3>2. CASE ~Retire(s)
      <4>1. UNCHANGED totals
        BY <1>2, <3>2 DEF LoopStep, Start, TakeFrame, DiscardFrame, GetTimeout,
                          Acquire, InferenceOk, InferenceRaised, SendVision,
                          DeliverCancel
      <4> QED
        BY <4>1 DEF TypeOK, ProcessTypes
    <3> QED
      BY <3>1, <3>2
  <2>7. /\ lock' \in Sessions \cup {NoSession}
        /\ registry' \in SUBSET Sessions
        /\ ready' \in BOOLEAN /\ accepting' \in BOOLEAN /\ loopBusy' \in BOOLEAN
    BY <1>2 DEF LoopStep, Start, TakeFrame, DiscardFrame, GetTimeout, Acquire,
                InferenceOk, InferenceRaised, SendVision, DeliverCancel, Retire,
                TypeOK, ProcessTypes, AcquireOrQueue, Merge
  <2> QED
    BY <2>1, <2>2, <2>3, <2>4, <2>5, <2>6, <2>7 DEF TypeOK, ProcessTypes
<1>3. ASSUME NEW s \in Sessions, ThreadFinish(s)
      PROVE  TypeOK'
  BY <1>3 DEF ThreadFinish, TypeOK, ClientTypes, TaskTypes, FrameTypes,
              CountTypes, ProcessTypes, ThreadState
<1>4. CASE Shutdown \/ DetectBegin \/ DetectEnd \/ ModelStatusChange
  BY <1>4 DEF Shutdown, DetectBegin, DetectEnd, ModelStatusChange, TypeOK,
              ClientTypes, TaskTypes, FrameTypes, CountTypes, ProcessTypes
<1>5. CASE UNCHANGED vars
  BY <1>5 DEF vars, TypeOK, ClientTypes, TaskTypes, FrameTypes, CountTypes,
              ProcessTypes
<1> QED
  BY <1>1, <1>2, <1>3, <1>4, <1>5 DEF Next

(***************************************************************************)
(* The life of the inference task.                                         *)
(***************************************************************************)
\* A step of the loop, of a client or of the environment keeps Lifecycle.
LEMMA LifecycleStep == TypeOK /\ Lifecycle /\ [Next]_vars => Lifecycle'
<1> SUFFICES ASSUME TypeOK, Lifecycle, [Next]_vars
             PROVE  Lifecycle'
  OBVIOUS
<1> USE DEF TypeOK, ClientTypes, TaskTypes, Lifecycle
<1>1. ASSUME NEW s \in Sessions, ClientStep(s)
      PROVE  Lifecycle'
  <2>1. CASE Reject(s)
    BY <2>1 DEF Reject, taskVars
  <2>2. CASE Accept(s)
    BY <2>2 DEF Accept, taskVars
  <2>3. CASE BackgroundSendFails(s) \/ PeerGone(s)
    BY <2>3 DEF BackgroundSendFails, PeerGone, taskVars
  <2>4. CASE ReceiveFrame(s) \/ ReceiveBadFrame(s) \/ ReceiveOther(s)
               \/ ReceiveEnds(s)
    <3>1. /\ conn[s] = "open"
          /\ UNCHANGED infer
          /\ LeaveRecv(s, closed[s]) \/ LeaveRecv(s, TRUE)
      BY <2>4 DEF ReceiveFrame, ReceiveBadFrame, ReceiveOther, ReceiveEnds
    <3> QED
      BY <3>1 DEF LeaveRecv
  <2> QED
    BY <1>1, <2>1, <2>2, <2>3, <2>4 DEF ClientStep
<1>2. ASSUME NEW s \in Sessions, LoopStep(s)
      PROVE  Lifecycle'
  <2>1. CASE Start(s)
    BY <2>1 DEF Start, LoopHead
  <2>2. CASE TakeFrame(s) \/ DiscardFrame(s)
    <3>1. /\ infer[s] = "get"
          /\ cancel' = [cancel EXCEPT ![s] = FALSE]
          /\ UNCHANGED conn
          /\ \E state : infer' = [infer EXCEPT ![s] = state]
      BY <2>2 DEF TakeFrame, DiscardFrame, AcquireOrQueue, clientVars
    <3> QED
      BY <3>1
  <2>3. CASE DeliverCancel(s)
    BY <2>3 DEF DeliverCancel, clientVars
  <2>4. CASE Retire(s)
    BY <2>4 DEF Retire, taskVars
  <2>5. CASE GetTimeout(s) \/ Acquire(s) \/ InferenceOk(s) \/ InferenceRaised(s)
               \/ SendVision(s)
    <3>1. /\ infer[s] \in {"get", "lock", "thread", "sending"}
          /\ ~cancel[s]
          /\ UNCHANGED <<conn, cancel>>
          /\ \E state : infer' = [infer EXCEPT ![s] = state]
      BY <2>5 DEF GetTimeout, Acquire, InferenceOk, InferenceRaised, SendVision,
                  clientVars
    <3> QED
      BY <3>1
  <2> QED
    BY <1>2, <2>1, <2>2, <2>3, <2>4, <2>5 DEF LoopStep
<1>3. CASE (\E s \in Sessions : ThreadFinish(s)) \/ Shutdown \/ DetectBegin
             \/ DetectEnd \/ ModelStatusChange \/ UNCHANGED vars
  BY <1>3 DEF ThreadFinish, Shutdown, DetectBegin, DetectEnd, ModelStatusChange,
              vars, clientVars, taskVars
<1> QED
  BY <1>1, <1>2, <1>3 DEF Next

(***************************************************************************)
(* The lock.                                                               *)
(***************************************************************************)
\* Whatever a step does to the lock it does to the state of one task too.
LEMMA LockStep ==
  TypeOK /\ Lifecycle /\ LockDiscipline /\ [Next]_vars => LockDiscipline'
<1> SUFFICES ASSUME TypeOK, Lifecycle, LockDiscipline, [Next]_vars
             PROVE  LockDiscipline'
  OBVIOUS
<1>1. ASSUME UNCHANGED <<infer, lock, waiters>>
      PROVE  LockDiscipline'
  BY <1>1 DEF LockDiscipline
<1>2. ASSUME NEW s \in Sessions, LoopStep(s)
      PROVE  LockDiscipline'
  <2>1. CASE Start(s) \/ DiscardFrame(s) \/ GetTimeout(s) \/ SendVision(s)
    <3>1. /\ infer[s] \in {"none", "get", "sending"}
          /\ \E state \in {"get", "done"} : infer' = [infer EXCEPT ![s] = state]
          /\ UNCHANGED <<lock, waiters>>
      BY <2>1 DEF Start, DiscardFrame, GetTimeout, SendVision, LoopHead, lockVars,
                  Lifecycle
    <3> QED
      BY <3>1 DEF LockDiscipline, TypeOK, TaskTypes
  <2>2. CASE TakeFrame(s)
    <3>1. infer[s] = "get" /\ s \notin ToSet(waiters) /\ lock # s
      BY <2>2 DEF TakeFrame, LockDiscipline
    <3>2. CASE lock = NoSession /\ waiters = << >>
      <4>1. lock' = s /\ infer' = [infer EXCEPT ![s] = "thread"] /\ waiters' = waiters
        BY <2>2, <3>2 DEF TakeFrame, AcquireOrQueue
      <4> QED
        BY <3>1, <3>2, <4>1, NoSessionAssumption
           DEF LockDiscipline, TypeOK, TaskTypes
    <3>3. CASE ~(lock = NoSession /\ waiters = << >>)
      <4>1. /\ lock' = lock
            /\ infer' = [infer EXCEPT ![s] = "lock"]
            /\ waiters' = Append(waiters, s)
        BY <2>2, <3>3 DEF TakeFrame, AcquireOrQueue
      <4>2. ToSet(waiters') = ToSet(waiters) \cup {s} /\ IsInjective(waiters')
        BY <3>1, <4>1, AppendWaiter DEF TypeOK, ProcessTypes, LockDiscipline
      <4> QED
        BY <3>1, <4>1, <4>2 DEF LockDiscipline, TypeOK, TaskTypes
    <3> QED
      BY <3>2, <3>3
  <2>3. CASE Acquire(s)
    <3>1. /\ infer[s] = "lock" /\ lock = NoSession /\ Head(waiters) = s
          /\ lock' = s /\ waiters' = Tail(waiters)
          /\ infer' = [infer EXCEPT ![s] = "thread"]
      BY <2>3 DEF Acquire
    <3>2. waiters # << >>
      BY <3>1 DEF LockDiscipline, ToSet
    <3>3. ToSet(waiters') = ToSet(waiters) \ {s} /\ IsInjective(waiters')
      BY <3>1, <3>2, TailOfWaiters DEF TypeOK, ProcessTypes, LockDiscipline
    <3> QED
      BY <3>1, <3>3, NoSessionAssumption DEF LockDiscipline, TypeOK, TaskTypes
  <2>4. CASE InferenceOk(s) \/ InferenceRaised(s)
    <3>1. /\ infer[s] = "thread"
          /\ lock' = NoSession /\ waiters' = waiters
          /\ \E state \in {"done", "sending", "get"} :
               infer' = [infer EXCEPT ![s] = state]
      BY <2>4 DEF InferenceOk, InferenceRaised, LoopHead
    <3> QED
      BY <3>1, NoSessionAssumption DEF LockDiscipline, TypeOK, TaskTypes
  <2>5. CASE DeliverCancel(s)
    <3>1. infer' = [infer EXCEPT ![s] = "done"]
      BY <2>5 DEF DeliverCancel
    <3>2. CASE infer[s] = "lock"
      <4>1. s \in ToSet(waiters) /\ waiters' = Withdraw(waiters, s) /\ lock' = lock
        BY <2>5, <3>2 DEF DeliverCancel, LockDiscipline
      <4>2. ToSet(waiters') = ToSet(waiters) \ {s} /\ IsInjective(waiters')
        BY <4>1, WithdrawProperties DEF TypeOK, ProcessTypes, LockDiscipline
      <4> QED
        BY <3>1, <3>2, <4>1, <4>2 DEF LockDiscipline, TypeOK, TaskTypes
    <3>3. CASE infer[s] = "thread"
      <4>1. lock' = NoSession /\ waiters' = waiters
        BY <2>5, <3>3 DEF DeliverCancel
      <4> QED
        BY <3>1, <3>3, <4>1, NoSessionAssumption
           DEF LockDiscipline, TypeOK, TaskTypes
    <3>4. CASE infer[s] \notin {"lock", "thread"}
      <4>1. lock' = lock /\ waiters' = waiters
        BY <2>5, <3>4 DEF DeliverCancel
      <4> QED
        BY <3>1, <3>4, <4>1 DEF LockDiscipline, TypeOK, TaskTypes
    <3> QED
      BY <3>2, <3>3, <3>4
  <2>6. CASE Retire(s)
    BY <1>1, <2>6 DEF Retire, taskVars, lockVars
  <2> QED
    BY <1>2, <2>1, <2>2, <2>3, <2>4, <2>5, <2>6 DEF LoopStep
<1>3. ASSUME NEW s \in Sessions, ClientStep(s)
      PROVE  LockDiscipline'
  BY <1>1, <1>3 DEF ClientStep, Reject, Accept, ReceiveFrame, ReceiveBadFrame,
                    ReceiveOther, ReceiveEnds, BackgroundSendFails, PeerGone,
                    taskVars, lockVars
<1>4. CASE (\E s \in Sessions : ThreadFinish(s)) \/ Shutdown \/ DetectBegin
             \/ DetectEnd \/ ModelStatusChange \/ UNCHANGED vars
  BY <1>1, <1>4 DEF ThreadFinish, Shutdown, DetectBegin, DetectEnd,
                    ModelStatusChange, vars, taskVars, lockVars
<1> QED
  BY <1>2, <1>3, <1>4 DEF Next

(***************************************************************************)
(* The frames.                                                             *)
(***************************************************************************)
\* Taking a frame fills the hand, ending with it empties the hand.
LEMMA HandStep == TypeOK /\ Lifecycle /\ HandFull /\ [Next]_vars => HandFull'
<1> SUFFICES ASSUME TypeOK, Lifecycle, HandFull, [Next]_vars
             PROVE  HandFull'
  OBVIOUS
<1>1. ASSUME UNCHANGED <<infer, hand>>
      PROVE  HandFull'
  BY <1>1 DEF HandFull
<1>2. ASSUME NEW s \in Sessions, LoopStep(s)
      PROVE  HandFull'
  <2> USE DEF HandFull, TypeOK, TaskTypes, FrameTypes, Frames
  <2>1. CASE Start(s) \/ DiscardFrame(s) \/ GetTimeout(s)
    <3>1. /\ infer[s] \in {"none", "get"}
          /\ \E state \in {"get", "done"} : infer' = [infer EXCEPT ![s] = state]
          /\ UNCHANGED hand
      BY <2>1 DEF Start, DiscardFrame, GetTimeout, LoopHead, frameVars, Lifecycle
    <3> QED
      BY <3>1
  <2>2. CASE TakeFrame(s)
    <3>1. /\ slot[s] # 0
          /\ hand' = [hand EXCEPT ![s] = slot[s]]
          /\ \E state \in {"lock", "thread"} : infer' = [infer EXCEPT ![s] = state]
      BY <2>2 DEF TakeFrame, AcquireOrQueue
    <3> QED
      BY <3>1, BoundsAssumption
  <2>3. CASE Acquire(s)
    BY <2>3 DEF Acquire, frameVars
  <2>4. CASE InferenceOk(s)
    BY <2>4, BoundsAssumption DEF InferenceOk
  <2>5. CASE InferenceRaised(s) \/ SendVision(s) \/ DeliverCancel(s)
    <3>1. /\ hand' = [hand EXCEPT ![s] = 0]
          /\ \E state \in {"get", "done"} : infer' = [infer EXCEPT ![s] = state]
      BY <2>5 DEF InferenceRaised, SendVision, DeliverCancel, LoopHead
    <3> QED
      BY <3>1, BoundsAssumption
  <2>6. CASE Retire(s)
    BY <2>6 DEF Retire, frameVars, taskVars
  <2> QED
    BY <1>2, <2>1, <2>2, <2>3, <2>4, <2>5, <2>6 DEF LoopStep
<1>3. ASSUME NEW s \in Sessions, ClientStep(s)
      PROVE  HandFull'
  BY <1>1, <1>3 DEF ClientStep, Reject, Accept, ReceiveFrame, ReceiveBadFrame,
                    ReceiveOther, ReceiveEnds, BackgroundSendFails, PeerGone,
                    taskVars, frameVars
<1>4. CASE (\E s \in Sessions : ThreadFinish(s)) \/ Shutdown \/ DetectBegin
             \/ DetectEnd \/ ModelStatusChange \/ UNCHANGED vars
  BY <1>1, <1>4 DEF ThreadFinish, Shutdown, DetectBegin, DetectEnd,
                    ModelStatusChange, vars, taskVars, frameVars
<1> QED
  BY <1>2, <1>3, <1>4 DEF Next

\* Each step moves a frame from one account to another, or adds a new one.
LEMMA AccountingStep ==
  TypeOK /\ Lifecycle /\ HandFull /\ FrameAccounting /\ [Next]_vars
    => FrameAccounting'
<1> SUFFICES ASSUME TypeOK, Lifecycle, HandFull, FrameAccounting, [Next]_vars
             PROVE  FrameAccounting'
  OBVIOUS
<1> USE DEF TypeOK, TaskTypes, FrameTypes, CountTypes, Frames
<1>1. ASSUME UNCHANGED <<received, processed, dropped, failed, lost, slot, hand,
                         infer>>
      PROVE  FrameAccounting'
  BY <1>1 DEF FrameAccounting, Pending, InHand
<1>2. ASSUME NEW s \in Sessions, LoopStep(s)
      PROVE  FrameAccounting'
  <2> SUFFICES ASSUME NEW t \in Sessions
               PROVE  (received[t] = processed[t] + dropped[t] + failed[t]
                         + lost[t] + Pending(t) + InHand(t))'
    BY DEF FrameAccounting
  <2>a. received[t] = processed[t] + dropped[t] + failed[t] + lost[t]
                        + Pending(t) + InHand(t)
    BY DEF FrameAccounting
  <2>b. hand[t] # 0 <=> infer[t] \in {"lock", "thread", "sending"}
    BY DEF HandFull
  <2>1. CASE Start(s) \/ GetTimeout(s) \/ Acquire(s) \/ Retire(s)
    <3>1. /\ UNCHANGED <<received, processed, dropped, failed, lost, slot, hand>>
          /\ \/ infer'[t] # "sending" /\ infer[t] # "sending"
             \/ infer'[t] = infer[t]
      BY <2>1 DEF Start, GetTimeout, Acquire, Retire, LoopHead, frameVars,
                  taskVars, countVars, historyVars, Lifecycle
    <3> QED
      BY <2>a, <3>1 DEF Pending, InHand
  <2>2. CASE TakeFrame(s)
    <3>1. /\ UNCHANGED <<received, processed, dropped, failed, lost>>
          /\ hand' = [hand EXCEPT ![s] = slot[s]]
          /\ slot' = [slot EXCEPT ![s] = 0]
          /\ \E state \in {"lock", "thread"} : infer' = [infer EXCEPT ![s] = state]
          /\ slot[s] # 0 /\ infer[s] = "get"
      BY <2>2 DEF TakeFrame, AcquireOrQueue, countVars, historyVars
    <3> QED
      BY <2>a, <2>b, <3>1, BoundsAssumption DEF Pending, InHand
  <2>3. CASE DiscardFrame(s)
    <3>1. /\ UNCHANGED <<received, processed, failed, lost, hand>>
          /\ dropped' = [dropped EXCEPT ![s] = @ + 1]
          /\ slot' = [slot EXCEPT ![s] = 0]
          /\ \E state \in {"get", "done"} : infer' = [infer EXCEPT ![s] = state]
          /\ slot[s] # 0 /\ infer[s] = "get"
      BY <2>3 DEF DiscardFrame, LoopHead, historyVars
    <3> QED
      BY <2>a, <2>b, <3>1, BoundsAssumption DEF Pending, InHand
  <2>4. CASE InferenceOk(s)
    <3>1. /\ UNCHANGED <<received, dropped, failed, lost, slot>>
          /\ processed' = [processed EXCEPT ![s] = @ + 1]
          /\ infer[s] = "thread"
          /\ \/ /\ infer' = [infer EXCEPT ![s] = "done"]
                /\ hand' = [hand EXCEPT ![s] = 0]
             \/ /\ infer' = [infer EXCEPT ![s] = "sending"]
                /\ UNCHANGED hand
      BY <2>4 DEF InferenceOk
    <3> QED
      BY <2>a, <2>b, <3>1, BoundsAssumption DEF Pending, InHand
  <2>5. CASE InferenceRaised(s)
    <3>1. /\ UNCHANGED <<received, processed, dropped, lost, slot>>
          /\ failed' = [failed EXCEPT ![s] = @ + 1]
          /\ hand' = [hand EXCEPT ![s] = 0]
          /\ infer[s] = "thread"
          /\ \E state \in {"get", "done"} : infer' = [infer EXCEPT ![s] = state]
      BY <2>5 DEF InferenceRaised, LoopHead
    <3> QED
      BY <2>a, <2>b, <3>1, BoundsAssumption DEF Pending, InHand
  <2>6. CASE SendVision(s)
    <3>1. /\ UNCHANGED <<received, processed, dropped, failed, lost, slot>>
          /\ hand' = [hand EXCEPT ![s] = 0]
          /\ infer[s] = "sending"
          /\ \E state \in {"get", "done"} : infer' = [infer EXCEPT ![s] = state]
      BY <2>6 DEF SendVision, LoopHead, countVars, historyVars
    <3> QED
      BY <2>a, <2>b, <3>1, BoundsAssumption DEF Pending, InHand
  <2>7. CASE DeliverCancel(s)
    <3>1. /\ UNCHANGED <<received, processed, dropped, failed, slot>>
          /\ lost' = [lost EXCEPT ![s] = IF infer[s] \in {"lock", "thread"}
                                           THEN @ + 1 ELSE @]
          /\ hand' = [hand EXCEPT ![s] = 0]
          /\ infer' = [infer EXCEPT ![s] = "done"]
      BY <2>7 DEF DeliverCancel, countVars
    <3> QED
      BY <2>a, <2>b, <3>1, BoundsAssumption DEF Pending, InHand
  <2> QED
    BY <1>2, <2>1, <2>2, <2>3, <2>4, <2>5, <2>6, <2>7 DEF LoopStep
<1>3. ASSUME NEW s \in Sessions, ClientStep(s)
      PROVE  FrameAccounting'
  <2>1. CASE ReceiveFrame(s)
    <3>1. /\ UNCHANGED <<processed, failed, lost, hand, infer>>
          /\ received' = [received EXCEPT ![s] = @ + 1]
          /\ slot' = [slot EXCEPT ![s] = received[s] + 1]
          /\ dropped' = [dropped EXCEPT ![s] = IF slot[s] # 0 THEN @ + 1 ELSE @]
      BY <2>1 DEF ReceiveFrame, Put, PutDrops, historyVars
    <3> QED
      BY <3>1, BoundsAssumption DEF FrameAccounting, Pending, InHand
  <2>2. CASE ~ReceiveFrame(s)
    BY <1>1, <1>3, <2>2
       DEF ClientStep, Reject, Accept, ReceiveBadFrame, ReceiveOther, ReceiveEnds,
           BackgroundSendFails, PeerGone, taskVars, frameVars, countVars,
           historyVars
  <2> QED
    BY <2>1, <2>2
<1>4. CASE (\E s \in Sessions : ThreadFinish(s)) \/ Shutdown \/ DetectBegin
             \/ DetectEnd \/ ModelStatusChange \/ UNCHANGED vars
  BY <1>1, <1>4 DEF ThreadFinish, Shutdown, DetectBegin, DetectEnd,
                    ModelStatusChange, vars, taskVars, frameVars, countVars,
                    historyVars
<1> QED
  BY <1>2, <1>3, <1>4 DEF Next

\* Frames are taken, and answered, in the order in which they came.
LEMMA NewestStep ==
  TypeOK /\ Lifecycle /\ HandFull /\ NewestFramePending /\ AnsweredBehind
      /\ [Next]_vars
    => NewestFramePending' /\ AnsweredBehind'
<1> SUFFICES ASSUME TypeOK, Lifecycle, HandFull, NewestFramePending,
                    AnsweredBehind, [Next]_vars
             PROVE  NewestFramePending' /\ AnsweredBehind'
  OBVIOUS
<1> DEFINE Order(t) ==
      /\ slot[t] # 0 => slot[t] = received[t] /\ hand[t] < slot[t]
      /\ InHand(t) = 1 => answered[t] < hand[t]
      /\ hand[t] <= received[t]
      /\ answered[t] <= received[t]
      /\ slot[t] # 0 => answered[t] < slot[t]
<1>a. ASSUME \A t \in Sessions : Order(t)'
      PROVE  NewestFramePending' /\ AnsweredBehind'
  BY <1>a DEF NewestFramePending, AnsweredBehind, InHand
<1>b. \A t \in Sessions : Order(t)
  BY DEF NewestFramePending, AnsweredBehind
<1> USE DEF TypeOK, TaskTypes, FrameTypes, Frames
<1>1. ASSUME UNCHANGED <<received, slot, hand, infer, answered>>
      PROVE  \A t \in Sessions : Order(t)'
  BY <1>1, <1>b DEF InHand
<1>2. ASSUME NEW s \in Sessions, LoopStep(s)
      PROVE  \A t \in Sessions : Order(t)'
  <2> SUFFICES ASSUME NEW t \in Sessions
               PROVE  Order(t)'
    OBVIOUS
  <2>b. Order(t) /\ (hand[t] # 0 <=> infer[t] \in {"lock", "thread", "sending"})
    BY <1>b DEF HandFull
  <2>1. CASE Start(s) \/ GetTimeout(s) \/ Acquire(s) \/ Retire(s)
    <3>1. /\ UNCHANGED <<received, slot, hand, answered>>
          /\ \/ infer'[t] # "sending" /\ infer[t] # "sending"
             \/ infer'[t] = infer[t]
      BY <2>1 DEF Start, GetTimeout, Acquire, Retire, LoopHead, frameVars,
                  taskVars, countVars, historyVars, Lifecycle
    <3> QED
      BY <2>b, <3>1 DEF InHand
  <2>2. CASE TakeFrame(s)
    <3>1. /\ UNCHANGED <<received, answered>>
          /\ hand' = [hand EXCEPT ![s] = slot[s]]
          /\ slot' = [slot EXCEPT ![s] = 0]
          /\ \E state \in {"lock", "thread"} : infer' = [infer EXCEPT ![s] = state]
          /\ slot[s] # 0
      BY <2>2 DEF TakeFrame, AcquireOrQueue, countVars, historyVars
    <3> QED
      BY <2>b, <3>1, BoundsAssumption DEF InHand
  <2>3. CASE DiscardFrame(s)
    <3>1. /\ UNCHANGED <<received, answered, hand>>
          /\ slot' = [slot EXCEPT ![s] = 0]
          /\ \E state \in {"get", "done"} : infer' = [infer EXCEPT ![s] = state]
          /\ infer[s] = "get"
      BY <2>3 DEF DiscardFrame, LoopHead, historyVars
    <3> QED
      BY <2>b, <3>1, BoundsAssumption DEF InHand
  <2>4. CASE InferenceOk(s)
    <3>1. /\ UNCHANGED <<received, slot>>
          /\ infer[s] = "thread"
          /\ \/ /\ infer' = [infer EXCEPT ![s] = "done"]
                /\ hand' = [hand EXCEPT ![s] = 0]
                /\ UNCHANGED answered
             \/ /\ infer' = [infer EXCEPT ![s] = "sending"]
                /\ UNCHANGED hand
                /\ answered' \in {answered, [answered EXCEPT ![s] = hand[s]]}
      <4>1. CASE closed[s]
        BY <2>4, <4>1 DEF InferenceOk, Delivers
      <4>2. CASE ~closed[s]
        BY <2>4, <4>2 DEF InferenceOk, Delivers
      <4> QED
        BY <4>1, <4>2
    <3> QED
      BY <2>b, <3>1, BoundsAssumption DEF InHand
  <2>5. CASE InferenceRaised(s) \/ SendVision(s) \/ DeliverCancel(s)
    <3>1. /\ UNCHANGED <<received, slot, answered>>
          /\ hand' = [hand EXCEPT ![s] = 0]
          /\ \E state : infer' = [infer EXCEPT ![s] = state]
      BY <2>5 DEF InferenceRaised, SendVision, DeliverCancel, countVars,
                  historyVars
    <3> QED
      BY <2>b, <3>1, BoundsAssumption DEF InHand
  <2> QED
    BY <1>2, <2>1, <2>2, <2>3, <2>4, <2>5 DEF LoopStep
<1>3. ASSUME NEW s \in Sessions, ClientStep(s)
      PROVE  \A t \in Sessions : Order(t)'
  <2>1. CASE ReceiveFrame(s)
    <3>1. /\ UNCHANGED <<hand, infer, answered>>
          /\ received' = [received EXCEPT ![s] = @ + 1]
          /\ slot' = [slot EXCEPT ![s] = received[s] + 1]
      BY <2>1 DEF ReceiveFrame, Put, PutDrops, historyVars
    <3> QED
      BY <1>b, <3>1, BoundsAssumption DEF InHand
  <2>2. CASE ~ReceiveFrame(s)
    BY <1>1, <1>3, <2>2
       DEF ClientStep, Reject, Accept, ReceiveBadFrame, ReceiveOther, ReceiveEnds,
           BackgroundSendFails, PeerGone, taskVars, frameVars, countVars,
           historyVars
  <2> QED
    BY <2>1, <2>2
<1>4. ASSUME \/ \E s \in Sessions : ThreadFinish(s)
             \/ Shutdown \/ DetectBegin \/ DetectEnd \/ ModelStatusChange
             \/ UNCHANGED vars
      PROVE  \A t \in Sessions : Order(t)'
  BY <1>1, <1>4 DEF ThreadFinish, Shutdown, DetectBegin, DetectEnd,
                    ModelStatusChange, vars, taskVars, frameVars, countVars,
                    historyVars
<1> HIDE DEF Order
<1> QED
  BY <1>a, <1>2, <1>3, <1>4 DEF Next

(***************************************************************************)
(* Threads and registry.                                                   *)
(***************************************************************************)
\* A thread loses its session's lock only when that session is torn down.
LEMMA ExclusiveStep ==
  TypeOK /\ Lifecycle /\ LockDiscipline /\ LockDiscipline'
      /\ LiveInferenceExclusive /\ [Next]_vars
    => LiveInferenceExclusive'
<1> SUFFICES ASSUME TypeOK, Lifecycle, LockDiscipline, LockDiscipline',
                    LiveInferenceExclusive, [Next]_vars
             PROVE  LiveInferenceExclusive'
  OBVIOUS
<1> DEFINE Exclusive(t) ==
      thread[t] # "idle" =>
        \/ infer[t] = "thread"
        \/ conn[t] \in {"closing", "retired"} /\ infer[t] = "done"
<1>a. ASSUME \A t \in Sessions : Exclusive(t)'
      PROVE  LiveInferenceExclusive'
  BY <1>a DEF LiveInferenceExclusive, LockDiscipline
<1>b. \A t \in Sessions : Exclusive(t)
  BY DEF LiveInferenceExclusive, LockDiscipline
<1> USE DEF TypeOK, TaskTypes, ClientTypes
<1>1. ASSUME UNCHANGED <<conn, infer, thread>>
      PROVE  \A t \in Sessions : Exclusive(t)'
  BY <1>1, <1>b
<1>2. ASSUME NEW s \in Sessions, LoopStep(s)
      PROVE  \A t \in Sessions : Exclusive(t)'
  <2>1. CASE Start(s)
    BY <2>1, <1>b DEF Start, LoopHead, Lifecycle
  <2>2. CASE TakeFrame(s)
    <3>1. infer[s] = "get" /\ UNCHANGED conn
      BY <2>2 DEF TakeFrame, clientVars
    <3>2. thread[s] = "idle"
      BY <1>b, <3>1
    <3>3. \/ /\ infer' = [infer EXCEPT ![s] = "thread"]
             /\ thread' = [thread EXCEPT ![s] = "running"]
          \/ infer' = [infer EXCEPT ![s] = "lock"] /\ UNCHANGED thread
      BY <2>2 DEF TakeFrame, AcquireOrQueue
    <3> QED
      BY <1>b, <3>1, <3>2, <3>3
  <2>3. CASE DiscardFrame(s) \/ GetTimeout(s) \/ SendVision(s)
    <3>1. /\ infer[s] \in {"get", "sending"}
          /\ UNCHANGED <<conn, thread>>
          /\ \E state : infer' = [infer EXCEPT ![s] = state]
      BY <2>3 DEF DiscardFrame, GetTimeout, SendVision, clientVars
    <3> QED
      BY <1>b, <3>1
  <2>4. CASE Acquire(s)
    BY <2>4, <1>b DEF Acquire, clientVars
  <2>5. CASE InferenceOk(s) \/ InferenceRaised(s)
    <3>1. /\ thread' = [thread EXCEPT ![s] = "idle"]
          /\ UNCHANGED conn
          /\ \E state : infer' = [infer EXCEPT ![s] = state]
      BY <2>5 DEF InferenceOk, InferenceRaised, clientVars
    <3> QED
      BY <1>b, <3>1
  <2>6. CASE DeliverCancel(s)
    BY <2>6, <1>b DEF DeliverCancel, clientVars, Lifecycle
  <2>7. CASE Retire(s)
    BY <2>7, <1>b DEF Retire, taskVars
  <2> QED
    BY <1>2, <2>1, <2>2, <2>3, <2>4, <2>5, <2>6, <2>7 DEF LoopStep
<1>3. ASSUME NEW s \in Sessions, ClientStep(s)
      PROVE  \A t \in Sessions : Exclusive(t)'
  <2>1. /\ UNCHANGED <<infer, thread>>
        /\ \A t \in Sessions : infer[t] = "done" =>
             conn'[t] = conn[t] \/ conn'[t] = "closing"
    <3>1. CASE Reject(s) \/ Accept(s)
      BY <3>1 DEF Reject, Accept, taskVars, Lifecycle
    <3>2. CASE PeerGone(s) \/ BackgroundSendFails(s)
      BY <3>2 DEF PeerGone, BackgroundSendFails, taskVars
    <3>3. CASE ReceiveFrame(s) \/ ReceiveBadFrame(s) \/ ReceiveOther(s)
                 \/ ReceiveEnds(s)
      BY <3>3 DEF ReceiveFrame, ReceiveBadFrame, ReceiveOther, ReceiveEnds,
                  LeaveRecv
    <3> QED
      BY <1>3, <3>1, <3>2, <3>3 DEF ClientStep
  <2> QED
    BY <1>b, <2>1
<1>4. ASSUME NEW s \in Sessions, ThreadFinish(s)
      PROVE  \A t \in Sessions : Exclusive(t)'
  BY <1>4, <1>b DEF ThreadFinish, clientVars
<1>5. ASSUME \/ Shutdown \/ DetectBegin \/ DetectEnd \/ ModelStatusChange
             \/ UNCHANGED vars
      PROVE  \A t \in Sessions : Exclusive(t)'
  BY <1>1, <1>5 DEF Shutdown, DetectBegin, DetectEnd, ModelStatusChange, vars,
                    taskVars, clientVars
<1> HIDE DEF Exclusive
<1> QED
  BY <1>a, <1>2, <1>3, <1>4, <1>5 DEF Next

\* The registry follows the phase of the connections.
LEMMA RegistryStep == TypeOK /\ RegistryExact /\ [Next]_vars => RegistryExact'
<1> SUFFICES ASSUME TypeOK, RegistryExact, [Next]_vars
             PROVE  RegistryExact'
  OBVIOUS
<1> USE DEF TypeOK, ClientTypes, RegistryExact
<1>1. ASSUME UNCHANGED <<conn, registry>>
      PROVE  RegistryExact'
  BY <1>1
<1>2. ASSUME NEW s \in Sessions, LoopStep(s)
      PROVE  RegistryExact'
  <2>1. CASE Start(s)
    BY <2>1 DEF Start
  <2>2. CASE Retire(s)
    BY <2>2 DEF Retire, Merge
  <2>3. CASE ~Start(s) /\ ~Retire(s)
    BY <1>1, <1>2, <2>3
       DEF LoopStep, TakeFrame, DiscardFrame, GetTimeout, Acquire, InferenceOk,
           InferenceRaised, SendVision, DeliverCancel, clientVars, processVars
  <2> QED
    BY <2>1, <2>2, <2>3
<1>3. ASSUME NEW s \in Sessions, ClientStep(s)
      PROVE  RegistryExact'
  <2>1. /\ UNCHANGED registry
        /\ \/ UNCHANGED conn
           \/ /\ conn[s] = "new"
              /\ \E phase \in {"rejected", "accepted"} :
                   conn' = [conn EXCEPT ![s] = phase]
           \/ conn[s] = "open" /\ conn' = [conn EXCEPT ![s] = "closing"]
    BY <1>3 DEF ClientStep, Reject, Accept, ReceiveFrame, ReceiveBadFrame,
                ReceiveOther, ReceiveEnds, BackgroundSendFails, PeerGone,
                LeaveRecv, processVars
  <2> QED
    BY <2>1
<1>4. CASE (\E s \in Sessions : ThreadFinish(s)) \/ Shutdown \/ DetectBegin
             \/ DetectEnd \/ ModelStatusChange \/ UNCHANGED vars
  BY <1>1, <1>4 DEF ThreadFinish, Shutdown, DetectBegin, DetectEnd,
                    ModelStatusChange, vars, clientVars, processVars
<1> QED
  BY <1>2, <1>3, <1>4 DEF Next

(***************************************************************************)
(* The totals of the retired sessions.                                     *)
(***************************************************************************)
\* Every tally is finite, however many connections there are, so that its size
\* is a number.
TotalsFinite ==
  /\ IsFiniteSet(Tally(received, Retired))
  /\ IsFiniteSet(Tally(processed, Retired))
  /\ IsFiniteSet(Tally(dropped, Retired))

\* One more session adds its own counter to the tally.
LEMMA TallyGrows ==
  ASSUME NEW counter \in [Sessions -> Nat], NEW S \in SUBSET Sessions,
         NEW s \in Sessions, s \notin S, IsFiniteSet(Tally(counter, S))
  PROVE  /\ IsFiniteSet(Tally(counter, S \cup {s}))
         /\ Cardinality(Tally(counter, S \cup {s}))
              = Cardinality(Tally(counter, S)) + counter[s]
<1> DEFINE own == {s} \X (1..counter[s])
<1>1. IsFiniteSet({s}) /\ Cardinality({s}) = 1
  BY FS_Singleton
<1>2. IsFiniteSet(1..counter[s]) /\ Cardinality(1..counter[s]) = counter[s]
  BY FS_Interval
<1>3. IsFiniteSet(own) /\ Cardinality(own) = counter[s]
  BY <1>1, <1>2, FS_Product
<1>4. Tally(counter, S \cup {s}) = Tally(counter, S) \cup own
  BY DEF Tally
<1>5. Tally(counter, S) \cap own = {}
  BY DEF Tally
<1>6. Cardinality({}) = 0
  BY FS_EmptySet
<1>7. Cardinality(Tally(counter, S)) \in Nat
  BY FS_CardinalityType
<1> HIDE DEF own
<1>8. /\ IsFiniteSet(Tally(counter, S) \cup own)
      /\ Cardinality(Tally(counter, S) \cup own)
           = Cardinality(Tally(counter, S)) + Cardinality(own)
               - Cardinality(Tally(counter, S) \cap own)
  BY <1>3, FS_Union
<1>9. counter[s] \in Nat
  OBVIOUS
<1>10. Cardinality(Tally(counter, S) \cup own)
         = Cardinality(Tally(counter, S)) + counter[s]
  <2>1. Cardinality(Tally(counter, S) \cap own) = 0
    BY <1>5, <1>6
  <2> QED
    BY ONLY <1>3, <1>7, <1>8, <1>9, <2>1
<1> QED
  BY <1>4, <1>8, <1>10

\* A tally depends only on the counters of the sessions it is over.
LEMMA TallyUnchanged ==
  ASSUME NEW counter, NEW after, NEW S, \A s \in S : after[s] = counter[s]
  PROVE  Tally(after, S) = Tally(counter, S)
BY DEF Tally

\* Only Retire moves the totals; the counters it has merged stand still, because
\* a retired session has neither a receive loop nor an inference task.
LEMMA TotalsStep ==
  TypeOK /\ Lifecycle /\ TotalsFinite /\ TotalsExact /\ [Next]_vars
    => TotalsFinite' /\ TotalsExact'
<1> SUFFICES ASSUME TypeOK, Lifecycle, TotalsFinite, TotalsExact, [Next]_vars
             PROVE  TotalsFinite' /\ TotalsExact'
  OBVIOUS
<1>a. /\ conn \in [Sessions -> Phase]
      /\ received \in [Sessions -> Nat]
      /\ processed \in [Sessions -> Nat]
      /\ dropped \in [Sessions -> Nat]
  BY BoundsAssumption DEF TypeOK, ClientTypes, FrameTypes, CountTypes, Frames
<1>1. ASSUME UNCHANGED totals, Retired' = Retired,
             \A s \in Retired : /\ received'[s] = received[s]
                                /\ processed'[s] = processed[s]
                                /\ dropped'[s] = dropped[s]
      PROVE  TotalsFinite' /\ TotalsExact'
  <2>1. /\ Tally(received', Retired) = Tally(received, Retired)
        /\ Tally(processed', Retired) = Tally(processed, Retired)
        /\ Tally(dropped', Retired) = Tally(dropped, Retired)
    BY <1>1, TallyUnchanged
  <2> QED
    BY <1>1, <2>1 DEF TotalsFinite, TotalsExact, Tally
<1>2. ASSUME UNCHANGED <<totals, conn, received, processed, dropped>>
      PROVE  TotalsFinite' /\ TotalsExact'
  <2>1. Retired' = Retired
    BY <1>2 DEF Retired
  <2> QED
    BY <1>1, <1>2, <2>1
<1>3. ASSUME NEW s \in Sessions, Retire(s)
      PROVE  TotalsFinite' /\ TotalsExact'
  <2>1. /\ s \notin Retired
        /\ Retired \in SUBSET Sessions
        /\ Retired' = Retired \cup {s}
        /\ UNCHANGED <<received, processed, dropped>>
    BY <1>3, <1>a DEF Retire, Retired, countVars
  <2>2. /\ IsFiniteSet(Tally(received, Retired \cup {s}))
        /\ Cardinality(Tally(received, Retired \cup {s}))
             = Cardinality(Tally(received, Retired)) + received[s]
    BY <1>a, <2>1, TallyGrows DEF TotalsFinite
  <2>3. /\ IsFiniteSet(Tally(processed, Retired \cup {s}))
        /\ Cardinality(Tally(processed, Retired \cup {s}))
             = Cardinality(Tally(processed, Retired)) + processed[s]
    BY <1>a, <2>1, TallyGrows DEF TotalsFinite
  <2>4. /\ IsFiniteSet(Tally(dropped, Retired \cup {s}))
        /\ Cardinality(Tally(dropped, Retired \cup {s}))
             = Cardinality(Tally(dropped, Retired)) + dropped[s]
    BY <1>a, <2>1, TallyGrows DEF TotalsFinite
  <2>5. totals' = [received  |-> totals.received + received[s],
                   processed |-> totals.processed + processed[s],
                   dropped   |-> totals.dropped + dropped[s]]
    BY <1>3 DEF Retire, Merge
  <2>6. /\ Tally(received, Retired)' = Tally(received, Retired \cup {s})
        /\ Tally(processed, Retired)' = Tally(processed, Retired \cup {s})
        /\ Tally(dropped, Retired)' = Tally(dropped, Retired \cup {s})
    BY <2>1 DEF Tally
  <2> QED
    BY <2>2, <2>3, <2>4, <2>5, <2>6 DEF TotalsFinite, TotalsExact
<1>4. ASSUME NEW s \in Sessions, LoopStep(s), ~Retire(s)
      PROVE  TotalsFinite' /\ TotalsExact'
  <2>1. /\ UNCHANGED <<totals, received>>
        /\ \/ UNCHANGED conn
           \/ conn[s] = "accepted" /\ \E phase \in {"open", "closing"} :
                conn' = [conn EXCEPT ![s] = phase]
        /\ \/ UNCHANGED <<processed, dropped>>
           \/ /\ infer[s] # "done"
              /\ \/ processed' = [processed EXCEPT ![s] = @ + 1] /\ UNCHANGED dropped
                 \/ dropped' = [dropped EXCEPT ![s] = @ + 1] /\ UNCHANGED processed
    BY <1>4
       DEF LoopStep, Start, TakeFrame, DiscardFrame, GetTimeout, Acquire,
           InferenceOk, InferenceRaised, SendVision, DeliverCancel, clientVars,
           countVars, processVars
  <2>2. Retired' = Retired
    BY <1>a, <2>1 DEF Retired
  <2>3. \A t \in Retired : infer[t] = "done"
    BY DEF Lifecycle, Retired
  <2>4. \A t \in Retired : processed'[t] = processed[t] /\ dropped'[t] = dropped[t]
    BY <1>a, <2>1, <2>3 DEF Retired
  <2> QED
    BY <1>1, <2>1, <2>2, <2>4
<1>5. ASSUME NEW s \in Sessions, ClientStep(s)
      PROVE  TotalsFinite' /\ TotalsExact'
  <2>1. /\ UNCHANGED <<totals, processed>>
        /\ \/ UNCHANGED conn
           \/ conn[s] # "retired" /\ \E phase \in {"rejected", "accepted", "closing"} :
                conn' = [conn EXCEPT ![s] = phase]
        /\ \/ UNCHANGED <<received, dropped>>
           \/ /\ conn[s] = "open"
              /\ received' = [received EXCEPT ![s] = @ + 1]
              /\ \E n : dropped' = [dropped EXCEPT ![s] = n]
    <3>1. CASE ReceiveFrame(s)
      <4>1. dropped' = [dropped EXCEPT ![s] = IF slot[s] # 0 THEN @ + 1 ELSE @]
        BY <3>1 DEF ReceiveFrame, PutDrops
      <4>2. \E n : dropped' = [dropped EXCEPT ![s] = n]
        BY <4>1
      <4>3. UNCHANGED conn \/ conn' = [conn EXCEPT ![s] = "closing"]
        BY <3>1 DEF ReceiveFrame, LeaveRecv
      <4>4. /\ UNCHANGED <<totals, processed>>
            /\ conn[s] = "open"
            /\ received' = [received EXCEPT ![s] = @ + 1]
        BY <3>1 DEF ReceiveFrame, processVars
      <4> QED
        BY <4>2, <4>3, <4>4
    <3>2. CASE ~ReceiveFrame(s)
      BY <1>5, <3>2
         DEF ClientStep, Reject, Accept, ReceiveBadFrame, ReceiveOther,
             ReceiveEnds, BackgroundSendFails, PeerGone, LeaveRecv, clientVars,
             countVars, processVars
    <3> QED
      BY <3>1, <3>2
  <2>2. Retired' = Retired
    BY <1>a, <2>1 DEF Retired
  <2>3. \A t \in Retired : received'[t] = received[t] /\ dropped'[t] = dropped[t]
    BY <1>a, <2>1 DEF Retired
  <2> QED
    BY <1>1, <2>1, <2>2, <2>3
<1>6. CASE (\E s \in Sessions : ThreadFinish(s)) \/ Shutdown \/ DetectBegin
             \/ DetectEnd \/ ModelStatusChange \/ UNCHANGED vars
  BY <1>2, <1>6 DEF ThreadFinish, Shutdown, DetectBegin, DetectEnd,
                    ModelStatusChange, vars, clientVars, countVars, processVars
<1> QED
  BY <1>3, <1>4, <1>5, <1>6 DEF Next

\* No step opens a closed session, and a teardown starts with closing it.
LEMMA ClosedStep == TypeOK /\ EndingIsClosed /\ [Next]_vars => EndingIsClosed'
<1> SUFFICES ASSUME TypeOK, EndingIsClosed, [Next]_vars
             PROVE  EndingIsClosed'
  OBVIOUS
<1> USE DEF TypeOK, ClientTypes, EndingIsClosed
<1>1. ASSUME UNCHANGED <<conn, closed>>
      PROVE  EndingIsClosed'
  BY <1>1
<1>2. ASSUME NEW s \in Sessions, LoopStep(s)
      PROVE  EndingIsClosed'
  <2>1. CASE Start(s)
    BY <2>1 DEF Start, ClosedBySend
  <2>2. CASE InferenceRaised(s) \/ SendVision(s)
    <3>1. UNCHANGED conn /\ closed' = ClosedBySend(s)
      BY <2>2 DEF InferenceRaised, SendVision
    <3> QED
      BY <3>1 DEF ClosedBySend
  <2>3. CASE Retire(s)
    BY <2>3 DEF Retire
  <2>4. CASE \/ TakeFrame(s) \/ DiscardFrame(s) \/ GetTimeout(s) \/ Acquire(s)
             \/ InferenceOk(s) \/ DeliverCancel(s)
    BY <1>1, <2>4 DEF TakeFrame, DiscardFrame, GetTimeout, Acquire, InferenceOk,
                      DeliverCancel, clientVars
  <2> QED
    BY <1>2, <2>1, <2>2, <2>3, <2>4 DEF LoopStep
<1>3. ASSUME NEW s \in Sessions, ClientStep(s)
      PROVE  EndingIsClosed'
  <2>1. CASE Reject(s) \/ Accept(s)
    BY <2>1 DEF Reject, Accept
  <2>2. CASE \/ ReceiveFrame(s) \/ ReceiveBadFrame(s) \/ ReceiveOther(s)
             \/ ReceiveEnds(s)
    <3>1. LeaveRecv(s, closed[s]) \/ LeaveRecv(s, TRUE)
      BY <2>2 DEF ReceiveFrame, ReceiveBadFrame, ReceiveOther, ReceiveEnds
    <3> QED
      BY <3>1 DEF LeaveRecv
  <2>3. CASE BackgroundSendFails(s)
    BY <2>3 DEF BackgroundSendFails, ClosedBySend
  <2>4. CASE PeerGone(s)
    BY <1>1, <2>4 DEF PeerGone
  <2> QED
    BY <1>3, <2>1, <2>2, <2>3, <2>4 DEF ClientStep
<1>4. CASE Shutdown
  BY <1>4 DEF Shutdown
<1>5. CASE (\E s \in Sessions : ThreadFinish(s)) \/ DetectBegin \/ DetectEnd
             \/ ModelStatusChange \/ UNCHANGED vars
  BY <1>1, <1>5 DEF ThreadFinish, DetectBegin, DetectEnd, ModelStatusChange, vars,
                    clientVars
<1> QED
  BY <1>2, <1>3, <1>4, <1>5 DEF Next

(***************************************************************************)
(* Each session implements the abstract stream.                            *)
(***************************************************************************)
\* Nothing of the stream changes, or one message is taken, or the phase of the
\* session moves on.
LEMMA StreamStep ==
  ASSUME Invariant, [Next]_vars, NEW t \in Sessions
  PROVE  [Stream(t)!StreamNext]_(Stream(t)!streamVars)
<1> USE DEF Invariant, TypeOK, ClientTypes, FrameTypes, Frames
<1> USE DEF Stream!StreamNext, Stream!streamVars, Stream!Offer, Stream!Answer,
            Stream!Close, Stream!Finish
<1>1. ASSUME conn'[t] = conn[t], closed'[t] = closed[t],
             received'[t] = received[t], answered'[t] = answered[t]
      PROVE  [Stream(t)!StreamNext]_(Stream(t)!streamVars)
  BY <1>1 DEF StreamPhase
\* A session that is closed by a failed send, or by the shutdown.
<1>2. ASSUME conn[t] \in {"accepted", "open", "closing"},
             conn'[t] = conn[t] \/ (conn[t] = "accepted" /\ conn'[t] = "open"),
             closed'[t] \in {closed[t], TRUE},
             received'[t] = received[t], answered'[t] = answered[t]
      PROVE  [Stream(t)!StreamNext]_(Stream(t)!streamVars)
  BY <1>2 DEF StreamPhase, EndingIsClosed
<1>3. ASSUME NEW s \in Sessions, LoopStep(s)
      PROVE  [Stream(t)!StreamNext]_(Stream(t)!streamVars)
  <2>1. CASE Start(s)
    BY <1>1, <1>2, <2>1 DEF Start, ClosedBySend, countVars, historyVars
  <2>2. CASE InferenceOk(s)
    <3>1. CASE s # t \/ closed[s] \/ gone[s]
      BY <1>1, <2>2, <3>1 DEF InferenceOk, Delivers, clientVars
    <3>2. CASE s = t /\ ~closed[s] /\ ~gone[s]
      <4>1. /\ answered' = [answered EXCEPT ![s] = hand[s]]
            /\ UNCHANGED <<conn, closed, received>>
            /\ infer[s] = "thread"
        BY <2>2, <3>2 DEF InferenceOk, Delivers, clientVars
      <4>2. InHand(s) = 1
        BY <4>1 DEF InHand, HandFull
      <4>3. hand[s] \in (answered[s] + 1)..received[s]
        BY <4>2, BoundsAssumption DEF NewestFramePending
      <4>4. StreamPhase(s) = "streaming"
        BY <3>2, <4>1 DEF StreamPhase, EndingIsClosed, Lifecycle
      <4>5. StreamPhase(s)' = StreamPhase(s)
        BY <4>1 DEF StreamPhase
      <4> QED
        BY <3>2, <4>1, <4>3, <4>4, <4>5
    <3> QED
      BY <3>1, <3>2
  <2>3. CASE InferenceRaised(s) \/ SendVision(s)
    <3>1. /\ UNCHANGED <<conn, received, answered>>
          /\ closed' = ClosedBySend(s)
          /\ infer[s] \in {"thread", "sending"}
      BY <2>3 DEF InferenceRaised, SendVision, countVars, historyVars
    <3>2. conn[s] \in {"open", "closing"}
      BY <3>1 DEF Lifecycle, Phase
    <3> QED
      BY <1>1, <1>2, <3>1, <3>2 DEF ClosedBySend
  <2>4. CASE Retire(s)
    <3>1. /\ UNCHANGED <<closed, received, answered>>
          /\ conn[s] = "closing" /\ conn' = [conn EXCEPT ![s] = "retired"]
      BY <2>4 DEF Retire, countVars, historyVars
    <3>2. StreamPhase(t)' = StreamPhase(t)
      BY <3>1 DEF StreamPhase
    <3> QED
      BY <3>1, <3>2
  <2>5. CASE \/ TakeFrame(s) \/ DiscardFrame(s) \/ GetTimeout(s) \/ Acquire(s)
             \/ DeliverCancel(s)
    BY <1>1, <2>5 DEF TakeFrame, DiscardFrame, GetTimeout, Acquire, DeliverCancel,
                      clientVars, countVars, historyVars
  <2> QED
    BY <1>3, <2>1, <2>2, <2>3, <2>4, <2>5 DEF LoopStep
<1>4. ASSUME NEW s \in Sessions, ClientStep(s)
      PROVE  [Stream(t)!StreamNext]_(Stream(t)!streamVars)
  <2>1. CASE Reject(s) \/ Accept(s)
    <3>1. /\ UNCHANGED <<closed, received, answered>>
          /\ conn[s] = "new"
          /\ \E phase \in {"rejected", "accepted"} :
               conn' = [conn EXCEPT ![s] = phase]
      BY <2>1 DEF Reject, Accept, countVars, historyVars
    <3> QED
      BY <1>1, <3>1 DEF StreamPhase
  <2>2. CASE ReceiveFrame(s)
    <3>1. /\ conn[s] = "open"
          /\ received' = [received EXCEPT ![s] = @ + 1]
          /\ UNCHANGED answered
          /\ LeaveRecv(s, closed[s])
      BY <2>2 DEF ReceiveFrame, historyVars
    <3>2. CASE s # t
      BY <1>1, <3>1, <3>2 DEF LeaveRecv
    <3>3. CASE s = t
      BY <3>1, <3>3 DEF LeaveRecv, StreamPhase
    <3> QED
      BY <3>2, <3>3
  <2>3. CASE ReceiveBadFrame(s) \/ ReceiveOther(s) \/ ReceiveEnds(s)
    <3>1. /\ conn[s] = "open"
          /\ UNCHANGED <<received, answered>>
          /\ LeaveRecv(s, closed[s]) \/ LeaveRecv(s, TRUE)
      BY <2>3 DEF ReceiveBadFrame, ReceiveOther, ReceiveEnds, countVars, historyVars
    <3> QED
      BY <1>1, <3>1 DEF LeaveRecv, StreamPhase
  <2>4. CASE BackgroundSendFails(s)
    BY <1>1, <1>2, <2>4 DEF BackgroundSendFails, ClosedBySend, countVars,
                            historyVars
  <2>5. CASE PeerGone(s)
    BY <1>1, <2>5 DEF PeerGone, countVars, historyVars
  <2> QED
    BY <1>4, <2>1, <2>2, <2>3, <2>4, <2>5 DEF ClientStep
<1>5. CASE Shutdown
  <2>1. /\ closed' = [s \in Sessions |-> closed[s] \/ s \in registry]
        /\ UNCHANGED <<conn, received, answered>>
    BY <1>5 DEF Shutdown, countVars, historyVars
  <2> QED
    BY <1>1, <1>2, <2>1 DEF RegistryExact
<1>6. CASE (\E s \in Sessions : ThreadFinish(s)) \/ DetectBegin \/ DetectEnd
             \/ ModelStatusChange \/ UNCHANGED vars
  BY <1>1, <1>6 DEF ThreadFinish, DetectBegin, DetectEnd, ModelStatusChange, vars,
                    clientVars, countVars, historyVars
<1> QED
  BY <1>3, <1>4, <1>5, <1>6 DEF Next

(***************************************************************************)
(* The theorems.                                                           *)
(***************************************************************************)
LEMMA InitInvariant == Init => Invariant
<1> SUFFICES ASSUME Init
             PROVE  Invariant
  OBVIOUS
<1> USE DEF Init
<1>1. TypeOK
  <2>1. ClientTypes /\ TaskTypes
    BY DEF ClientTypes, TaskTypes, Phase, InferState, ThreadState
  <2>2. FrameTypes /\ CountTypes
    BY BoundsAssumption DEF FrameTypes, CountTypes, Frames
  <2>3. ProcessTypes
    <3>1. << >> \in Seq(Sessions)
      BY EmptySeq
    <3>2. [received |-> 0, processed |-> 0, dropped |-> 0]
            \in [received : Nat, processed : Nat, dropped : Nat]
      OBVIOUS
    <3> QED
      BY <3>1, <3>2 DEF ProcessTypes
  <2> QED
    BY <2>1, <2>2, <2>3 DEF TypeOK
<1>2. LockDiscipline
  BY NoSessionAssumption DEF LockDiscipline, ToSet, IsInjective
<1>3. Lifecycle /\ EndingIsClosed /\ HandFull /\ RegistryExact
  BY DEF Lifecycle, EndingIsClosed, HandFull, RegistryExact
<1>4. FrameAccounting /\ LiveInferenceExclusive
  BY DEF FrameAccounting, LiveInferenceExclusive, Pending, InHand
<1>5. NewestFramePending /\ AnsweredBehind
  BY DEF NewestFramePending, AnsweredBehind, InHand
<1> QED
  BY <1>1, <1>2, <1>3, <1>4, <1>5 DEF Invariant

\* The inductive invariant of the streaming half.
THEOREM InvariantHolds == Spec => []Invariant
<1>1. Invariant /\ [Next]_vars => Invariant'
  <2> SUFFICES ASSUME Invariant, [Next]_vars
               PROVE  Invariant'
    OBVIOUS
  <2>1. TypeOK' /\ Lifecycle' /\ LockDiscipline' /\ HandFull'
    BY TypeStep, LifecycleStep, LockStep, HandStep DEF Invariant
  <2>2. FrameAccounting' /\ NewestFramePending' /\ AnsweredBehind'
    BY AccountingStep, NewestStep DEF Invariant
  <2>3. LiveInferenceExclusive' /\ RegistryExact' /\ EndingIsClosed'
    BY <2>1, ExclusiveStep, RegistryStep, ClosedStep DEF Invariant
  <2> QED
    BY <2>1, <2>2, <2>3 DEF Invariant
<1> QED
  BY InitInvariant, <1>1, PTL DEF Spec

\* Every variable keeps its type, whatever the number of connections, of frames
\* and of steps.
THEOREM TypeCorrect == Spec => []TypeOK
<1>1. Invariant => TypeOK
  BY DEF Invariant
<1> QED
  BY InvariantHolds, <1>1, PTL

\* No frame is lost from the counters and none is counted twice
\* (ws_vision.py:240-243).
THEOREM AccountingCorrect == Spec => []FrameAccounting
<1>1. Invariant => FrameAccounting
  BY DEF Invariant
<1> QED
  BY InvariantHolds, <1>1, PTL

\* No cancellation, at whatever await it strikes, leaves _INFER_LOCK held or a
\* dead waiter in its queue (ws_vision.py:411-412, 532-541).
THEOREM LockCorrect == Spec => []LockDiscipline
<1>1. Invariant => LockDiscipline
  BY DEF Invariant
<1> QED
  BY InvariantHolds, <1>1, PTL

\* The inferences of the connected clients never overlap; only those of torn
\* down sessions may (ws_vision.py:411-412).
THEOREM ExclusionCorrect == Spec => []LiveInferenceExclusive
<1>1. Invariant => LiveInferenceExclusive
  BY DEF Invariant
<1> QED
  BY InvariantHolds, <1>1, PTL

\* Latest-frame-wins (ws_vision.py:118-152).
THEOREM NewestCorrect == Spec => []NewestFramePending
<1>1. Invariant => NewestFramePending
  BY DEF Invariant
<1> QED
  BY InvariantHolds, <1>1, PTL

\* /debug/stream reports exactly the sessions that are being served.
THEOREM RegistryCorrect == Spec => []RegistryExact
<1>1. Invariant => RegistryExact
  BY DEF Invariant
<1> QED
  BY InvariantHolds, <1>1, PTL

\* The totals of /debug/stream are the sums of the counters of the sessions that
\* are gone, however many came and went (ws_vision.py:547-555).
THEOREM TotalsCorrect == Spec => []TotalsExact
<1>1. Init => TotalsFinite /\ TotalsExact
  <2> SUFFICES ASSUME Init
               PROVE  TotalsFinite /\ TotalsExact
    OBVIOUS
  <2>1. Retired = {}
    BY DEF Init, Retired
  <2>2. \A counter : Tally(counter, {}) = {}
    BY DEF Tally
  <2> QED
    BY <2>1, <2>2, FS_EmptySet DEF Init, TotalsFinite, TotalsExact
<1>2. Invariant => TypeOK /\ Lifecycle
  BY DEF Invariant
<1> QED
  BY InvariantHolds, <1>1, <1>2, TotalsStep, PTL DEF Spec

\* A session that has left the server holds no lock, no waiter and no frame.
THEOREM RetirementCorrect == Spec => []RetiredIsQuiet
<1>1. Invariant => RetiredIsQuiet
  BY DEF Invariant, Lifecycle, HandFull, LockDiscipline, RetiredIsQuiet
<1> QED
  BY InvariantHolds, <1>1, PTL

\* Behind its mailbox, task, thread and lock every session is a FrameStream.
THEOREM StreamsImplemented == Spec => EverySessionStreams
<1>1. Init => \A s \in Sessions : Stream(s)!StreamInit
  BY DEF Init, Stream!StreamInit, StreamPhase
<1>2. Invariant /\ [Next]_vars
        => [\A s \in Sessions : [Stream(s)!StreamNext]_(Stream(s)!streamVars)]_vars
  BY StreamStep
<1> QED
  BY InvariantHolds, <1>1, <1>2, PTL DEF Spec, EverySessionStreams
=============================================================================
