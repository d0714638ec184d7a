------------------------- MODULE AsyncReasonerProofs -------------------------
(***************************************************************************)
(* Safety of AsyncReasoner for any sessions, pool and GPU slots.  That a   *)
(* session has one job needs that it is in one place (OnePlaceEach); that  *)
(* what is announced exists needs that the finally clause finds a fresh    *)
(* frame whenever the state announces one (AnnouncedIsPending), and that   *)
(* it always has room for it (CapKept).                                    *)
(***************************************************************************)
EXTENDS AsyncReasoner, FiniteSetTheorems, SequenceTheorems, TLAPS

(***************************************************************************)
(* The queue of the pool.                                                  *)
(***************************************************************************)
\* Appending adds one element at the end.
LEMMA AppendAdds ==
  ASSUME NEW S, NEW q \in Seq(S), NEW e \in S
  PROVE  /\ Append(q, e) \in Seq(S)
         /\ DOMAIN Append(q, e) = 1..(Len(q) + 1) /\ DOMAIN q = 1..Len(q)
         /\ \A i \in 1..Len(q) : Append(q, e)[i] = q[i]
         /\ Append(q, e)[Len(q) + 1] = e
         /\ ToSet(Append(q, e)) = ToSet(q) \cup {e}
<1>1. /\ Append(q, e) \in Seq(S) /\ Len(Append(q, e)) = Len(q) + 1
      /\ \A i \in 1..Len(q) : Append(q, e)[i] = q[i]
      /\ Append(q, e)[Len(q) + 1] = e
  BY AppendProperties
<1> DEFINE a == Append(q, e)
<1> HIDE DEF a
<1>2. DOMAIN a = 1..(Len(q) + 1) /\ DOMAIN q = 1..Len(q) /\ Len(q) \in Nat
  BY <1>1 DEF a
<1>3. ToSet(a) = ToSet(q) \cup {e}
  BY <1>1, <1>2 DEF ToSet, a
<1> QED
  BY <1>1, <1>2, <1>3 DEF a

\* What is evicted or taken from the front leaves a part of the elements.
LEMMA TailKeeps ==
  ASSUME NEW S, NEW q \in Seq(S), q # << >>
  PROVE  /\ Head(q) \in S /\ Head(q) = q[1] /\ 1 \in DOMAIN q
         /\ Tail(q) \in Seq(S) /\ Len(Tail(q)) = Len(q) - 1
         /\ DOMAIN q = 1..Len(q) /\ DOMAIN Tail(q) = 1..(Len(q) - 1)
         /\ \A i \in 1..(Len(q) - 1) : Tail(q)[i] = q[i + 1]
         /\ ToSet(Tail(q)) \subseteq ToSet(q)
<1>1. /\ Head(q) \in S /\ Tail(q) \in Seq(S) /\ Len(Tail(q)) = Len(q) - 1
      /\ \A i \in 1..Len(Tail(q)) : Tail(q)[i] = q[i + 1]
  BY HeadTailProperties
<1>2. Head(q) = q[1] /\ Len(q) \in Nat \ {0}
  OBVIOUS
<1> DEFINE t == Tail(q)
<1> HIDE DEF t
<1>3. DOMAIN t = 1..(Len(q) - 1) /\ DOMAIN q = 1..Len(q)
  BY <1>1, <1>2 DEF t
<1>4. ToSet(t) \subseteq ToSet(q)
  BY <1>1, <1>2, <1>3 DEF t, ToSet
<1> QED
  BY <1>1, <1>2, <1>3, <1>4 DEF t

\* Of a queue without repetitions the head is gone when it is taken.
LEMMA TailOfDistinct ==
  ASSUME NEW S, NEW q \in Seq(S), q # << >>,
         \A i, j \in DOMAIN q : q[i] = q[j] => i = j
  PROVE  /\ ToSet(Tail(q)) = ToSet(q) \ {Head(q)} /\ Head(q) \in ToSet(q)
         /\ \A i, j \in DOMAIN Tail(q) : Tail(q)[i] = Tail(q)[j] => i = j
<1> DEFINE t == Tail(q)
           h == Head(q)
<1>1. /\ h = q[1] /\ 1 \in DOMAIN q
      /\ DOMAIN q = 1..Len(q) /\ DOMAIN t = 1..(Len(q) - 1)
      /\ \A i \in 1..(Len(q) - 1) : t[i] = q[i + 1]
      /\ Len(q) \in Nat
  BY TailKeeps
<1> HIDE DEF t, h
<1>2. ASSUME NEW i \in DOMAIN t
      PROVE  i \in Nat /\ i + 1 \in DOMAIN q /\ t[i] = q[i + 1] /\ t[i] # h
  BY <1>1
<1>3. ASSUME NEW x \in ToSet(q), x # h PROVE x \in ToSet(t)
  <2>1. PICK i \in DOMAIN q : q[i] = x
    BY DEF ToSet
  <2>2. i - 1 \in DOMAIN t /\ t[i - 1] = x
    BY <1>1, <1>3, <2>1
  <2> QED
    BY <2>2 DEF ToSet
<1>4. ToSet(t) = ToSet(q) \ {h}
  <2>1. \A x \in ToSet(t) : x \in ToSet(q) /\ x # h
    BY <1>2 DEF ToSet
  <2> QED
    BY <1>3, <2>1
<1>5. ASSUME NEW i \in DOMAIN t, NEW j \in DOMAIN t, t[i] = t[j] PROVE i = j
  <2>1. i + 1 = j + 1 /\ i \in Nat /\ j \in Nat
    BY <1>2, <1>5
  <2> QED
    BY <2>1
<1>6. h \in ToSet(q)
  BY <1>1 DEF ToSet
<1> QED
  BY <1>4, <1>5, <1>6 DEF t, h

(***************************************************************************)
(* Initial states and types.                                               *)
(***************************************************************************)
\* The size of the pool is a number.
LEMMA MaxJobsIsNat == MaxJobs \in Nat \ {0}
<1>1. Cardinality(Workers) \in Nat /\ (Cardinality(Workers) = 0 <=> Workers = {})
  BY BoundsAssumption, FS_CardinalityType, FS_EmptySet
<1> QED
  BY <1>1, BoundsAssumption DEF MaxJobs

\* The initial states satisfy the invariant.
LEMMA InvariantInit == Init => Invariant
<1> SUFFICES ASSUME Init PROVE Invariant
  OBVIOUS
<1>1. TypeOK
  <2>1. queue \in Seq(Sessions)
    BY DEF Init
  <2>2. caller \in [pc : CallerPc, session : Sessions \cup {None}, force : BOOLEAN]
    BY DEF Init, NoCall, CallerPc
  <2>3. at \in [Workers -> WorkerPc] /\ state \in [Sessions -> ReasonerState]
    BY DEF Init, WorkerPc, ReasonerState
  <2> QED
    BY <2>1, <2>2, <2>3 DEF Init, TypeOK
<1>2. CallsAndWorkers
  BY DEF Init, CallsAndWorkers, NoCall
<1>3. ToSet(<< >>) = {} /\ DOMAIN queue = {}
  BY DEF ToSet, Init
<1>4. OnePlaceEach
  BY <1>3, NoneAssumption DEF Init, OnePlaceEach, Admitted, NoCall
<1>5. CapKept
  BY FS_EmptySet, MaxJobsIsNat DEF Init, CapKept
<1>6. SlotsExact
  <2>1. {w \in Workers : at[w] \in {"mark", "infer", "exit"}} = {}
    BY DEF Init
  <2>2. Cardinality({w \in Workers : at[w] \in {"mark", "infer", "exit"}}) = 0
    BY <2>1, FS_EmptySet
  <2> QED
    BY <2>2, BoundsAssumption DEF Init, SlotsExact
<1>7. AnnouncedIsPending /\ StateTruthful
  BY DEF Init, AnnouncedIsPending, StateTruthful
<1> QED
  BY <1>1, <1>2, <1>4, <1>5, <1>6, <1>7 DEF Invariant

\* A session is put into the queue, or out of flight.
LEMMA SubmitTypes ==
  ASSUME TypeOK, NEW s \in Sessions, SubmitOrDiscard(s)
  PROVE  queue' \in Seq(Sessions) /\ inflight' \in SUBSET Sessions
<1>1. Append(queue, s) \in Seq(Sessions)
  BY AppendAdds DEF TypeOK
<1> QED
  BY <1>1 DEF SubmitOrDiscard, TypeOK

\* Types.
LEMMA TypeStep ==
  ASSUME Invariant, [Next]_vars
  PROVE  TypeOK'
<1>types. TypeOK /\ CallsAndWorkers
  BY DEF Invariant
<1>busy. \A w \in Workers : at[w] # "idle" => job[w] \in Sessions
  BY <1>types DEF TypeOK, CallsAndWorkers
<1> USE DEF TypeOK
<1>1. ASSUME NEW s \in Sessions, FrameArrives(s) PROVE TypeOK'
  BY <1>1, <1>types DEF FrameArrives, CallerPc, poolVars
<1>nocall. NoCall \in [pc : CallerPc, session : Sessions \cup {None}, force : BOOLEAN]
  BY DEF NoCall, CallerPc
<1>2. ASSUME CheckFailure \/ Throttle PROVE TypeOK'
  <2>1. caller' = NoCall \/ caller' = [caller EXCEPT !.pc = "admit"]
    BY <1>2 DEF CheckFailure, Throttle
  <2>2. caller' \in [pc : CallerPc, session : Sessions \cup {None}, force : BOOLEAN]
    <3>1. [caller EXCEPT !.pc = "admit"]
            \in [pc : CallerPc, session : Sessions \cup {None}, force : BOOLEAN]
      BY <1>types DEF CallerPc
    <3> QED
      BY <1>nocall, <2>1, <3>1
  <2> QED
    BY <1>2, <1>types, <2>2 DEF CheckFailure, Throttle, poolVars
<1>3. ASSUME QueueLatest PROVE TypeOK'
  <2>1. pending' \in [Sessions -> {"no", "fresh", "stale"}] /\ state' \in [Sessions -> ReasonerState]
    BY <1>3, <1>types DEF QueueLatest, SetState, ReasonerState
  <2> QED
    BY <1>3, <1>types, <1>nocall, <2>1 DEF QueueLatest, poolVars
<1>4. ASSUME Admit PROVE TypeOK'
  <2>1. caller.session \in Sessions
    BY <1>4, <1>types DEF Admit, CallsAndWorkers
  <2>2. caller' \in [pc : CallerPc, session : Sessions \cup {None}, force : BOOLEAN]
    BY <1>4, <1>types DEF Admit, CallerPc
  <2> QED
    BY <1>4, <1>types, <2>1, <2>2 DEF Admit, poolVars
<1>5. ASSUME MarkQueued PROVE TypeOK'
  <2>1. caller' \in [pc : CallerPc, session : Sessions \cup {None}, force : BOOLEAN]
    BY <1>5, <1>types DEF MarkQueued, CallerPc
  <2>2. state' \in [Sessions -> ReasonerState]
    BY <1>5, <1>types DEF MarkQueued, SetState, ReasonerState
  <2> QED
    BY <1>5, <1>types, <2>1, <2>2 DEF MarkQueued, poolVars
<1>6. ASSUME SubmitJob PROVE TypeOK'
  <2>1. caller.session \in Sessions
    BY <1>6, <1>types DEF SubmitJob, CallsAndWorkers
  <2> QED
    BY <1>6, <1>types, <1>nocall, <2>1, SubmitTypes DEF SubmitJob
<1>7. ASSUME NEW w \in Workers, WorkerTakes(w) PROVE TypeOK'
  <2>1. Head(queue) \in Sessions /\ queue' \in Seq(Sessions)
    BY <1>7, <1>types, TailKeeps DEF WorkerTakes
  <2>2. at' \in [Workers -> WorkerPc]
    BY <1>7, <1>types DEF WorkerTakes, Goto, WorkerPc
  <2> QED
    BY <1>7, <1>types, <2>1, <2>2 DEF WorkerTakes
<1>8. ASSUME NEW w \in Workers, EnterSlot(w) PROVE TypeOK'
  <2>1. at' \in [Workers -> WorkerPc] /\ slots' \in Nat
    BY <1>8, <1>types DEF EnterSlot, Goto, WorkerPc
  <2> QED
    BY <1>8, <1>types, <2>1 DEF EnterSlot
<1>9. ASSUME NEW w \in Workers, DropThrottled(w) \/ MarkRunning(w) \/ Infer(w) PROVE TypeOK'
  <2>1. at' \in [Workers -> WorkerPc]
    BY <1>9, <1>types DEF DropThrottled, MarkRunning, Infer, Goto, WorkerPc
  <2>2. state' \in [Sessions -> ReasonerState]
    BY <1>9, <1>types DEF DropThrottled, MarkRunning, Infer, SetState, ReasonerState
  <2> QED
    BY <1>9, <1>types, <2>1, <2>2 DEF DropThrottled, MarkRunning, Infer
<1>10. ASSUME NEW w \in Workers, ExitSlot(w) PROVE TypeOK'
  <2>1. at' \in [Workers -> WorkerPc] /\ slots' \in Nat
    BY <1>10, <1>types DEF ExitSlot, Goto, WorkerPc
  <2> QED
    BY <1>10, <1>types, <2>1 DEF ExitSlot
<1>11. ASSUME NEW w \in Workers, Finally(w) PROVE TypeOK'
  <2>1. at' \in [Workers -> WorkerPc]
    BY <1>11, <1>types DEF Finally, Goto, WorkerPc
  <2>2. state' \in [Sessions -> ReasonerState]
    BY <1>11, <1>types DEF Finally, SetState, ReasonerState
  <2>3. inflight' \in SUBSET Sessions /\ job' \in [Workers -> Sessions \cup {None}]
    BY <1>11, <1>types DEF Finally
  <2>4. recent' \in [Sessions -> BOOLEAN]
    <3>1. recent' = recent \/ recent' = [recent EXCEPT ![job[w]] = TRUE]
      BY <1>11 DEF Finally
    <3> QED
      BY <3>1, <1>types
  <2>5. pending' \in [Sessions -> {"no", "fresh", "stale"}]
    <3>1. pending' = pending \/ pending' = [pending EXCEPT ![job[w]] = "no"]
      BY <1>11 DEF Finally
    <3> QED
      BY <3>1, <1>types
  <2> QED
    BY <1>11, <1>types, <2>1, <2>2, <2>3, <2>4, <2>5 DEF Finally
<1>12. ASSUME NEW w \in Workers, Resubmit(w) PROVE TypeOK'
  <2>1. at' \in [Workers -> WorkerPc] /\ job' \in [Workers -> Sessions \cup {None}]
    BY <1>12, <1>types DEF Resubmit, Goto, WorkerPc
  <2>2. job[w] \in Sessions
    BY <1>12, <1>busy DEF Resubmit
  <2> QED
    BY <1>12, <1>types, <2>1, <2>2, SubmitTypes DEF Resubmit
<1>13. ASSUME NEW s \in Sessions,
              IntervalPasses(s) \/ FailureAges(s) \/ PendingAges(s) \/ MemoryForgets(s)
       PROVE  TypeOK'
  BY <1>13, <1>types
    DEF IntervalPasses, FailureAges, PendingAges, MemoryForgets, SetState, ReasonerState, poolVars
<1>14. ASSUME PoolCloses \/ UNCHANGED vars PROVE TypeOK'
  BY <1>14, <1>types DEF PoolCloses, vars, poolVars
<1> QED
  BY <1>1, <1>2, <1>3, <1>4, <1>5, <1>6, <1>7, <1>8, <1>9, <1>10, <1>11, <1>12, <1>13, <1>14
    DEF Next, CallerStep, WorkerStep

(***************************************************************************)
(* Where a session in flight is.                                           *)
(***************************************************************************)
\* Calls and workers keep their subject.
LEMMA CallsStep ==
  ASSUME Invariant, [Next]_vars
  PROVE  CallsAndWorkers'
<1>types. TypeOK /\ CallsAndWorkers
  BY DEF Invariant
<1>1. ASSUME UNCHANGED <<job, at>>,
             caller' \in {caller, NoCall} \/ (caller.pc # "idle" /\ caller'.session = caller.session)
      PROVE  CallsAndWorkers'
  BY <1>1, <1>types DEF CallsAndWorkers, NoCall
<1>2. ASSUME NEW s \in Sessions, FrameArrives(s) PROVE CallsAndWorkers'
  BY <1>2, <1>types DEF FrameArrives, CallsAndWorkers, poolVars
<1>3. ASSUME CheckFailure \/ QueueLatest \/ Throttle \/ Admit \/ MarkQueued \/ SubmitJob
      PROVE  CallsAndWorkers'
  <2>1. caller.pc # "idle" /\ UNCHANGED <<job, at>>
    BY <1>3 DEF CheckFailure, QueueLatest, Throttle, Admit, MarkQueued, SubmitJob, poolVars
  <2>2. caller' = NoCall \/ \E place : caller' = [caller EXCEPT !.pc = place]
    BY <1>3 DEF CheckFailure, QueueLatest, Throttle, Admit, MarkQueued, SubmitJob
  <2>3. caller' = NoCall \/ caller'.session = caller.session
    BY <2>2, <1>types DEF TypeOK
  <2> QED
    BY <1>1, <2>1, <2>3
<1>4. ASSUME NEW w \in Workers, NEW to \in WorkerPc, at' = [at EXCEPT ![w] = to],
             (to = "idle") <=> (job'[w] = None), \A v \in Workers : v # w => job'[v] = job[v],
             UNCHANGED caller
      PROVE  CallsAndWorkers'
  BY <1>4, <1>types DEF CallsAndWorkers, TypeOK
<1>5. ASSUME NEW w \in Workers, WorkerTakes(w) PROVE CallsAndWorkers'
  <2>1. Head(queue) # None
    BY <1>5, <1>types, TailKeeps, NoneAssumption DEF WorkerTakes, TypeOK
  <2>2. /\ "slot" \in WorkerPc /\ at' = [at EXCEPT ![w] = "slot"] /\ UNCHANGED caller
        /\ job'[w] = Head(queue) /\ \A v \in Workers : v # w => job'[v] = job[v]
    BY <1>5, <1>types DEF WorkerTakes, Goto, WorkerPc, TypeOK
  <2> QED
    BY <1>4, <2>1, <2>2
<1>6. ASSUME NEW w \in Workers,
             EnterSlot(w) \/ DropThrottled(w) \/ MarkRunning(w) \/ Infer(w) \/ ExitSlot(w)
      PROVE  CallsAndWorkers'
  <2>1. PICK to \in WorkerPc \ {"idle"} : at' = [at EXCEPT ![w] = to]
    BY <1>6 DEF EnterSlot, DropThrottled, MarkRunning, Infer, ExitSlot, Goto, WorkerPc
  <2>2. at[w] # "idle" /\ UNCHANGED <<caller, job>>
    BY <1>6 DEF EnterSlot, DropThrottled, MarkRunning, Infer, ExitSlot
  <2> QED
    BY <1>4, <1>types, <2>1, <2>2 DEF CallsAndWorkers
<1>7. ASSUME NEW w \in Workers, Finally(w) PROVE CallsAndWorkers'
  <2>1. job[w] # None /\ UNCHANGED caller
    BY <1>7, <1>types DEF Finally, CallsAndWorkers
  <2>2. \/ at' = [at EXCEPT ![w] = "again"] /\ UNCHANGED job
        \/ at' = [at EXCEPT ![w] = "idle"] /\ job' = [job EXCEPT ![w] = None]
    BY <1>7 DEF Finally, Goto
  <2>3. {"again", "idle"} \subseteq WorkerPc
    BY DEF WorkerPc
  <2>4. CASE at' = [at EXCEPT ![w] = "again"] /\ UNCHANGED job
    BY <1>4, <2>1, <2>3, <2>4
  <2>5. CASE at' = [at EXCEPT ![w] = "idle"] /\ job' = [job EXCEPT ![w] = None]
    <3>1. job'[w] = None /\ \A v \in Workers : v # w => job'[v] = job[v]
      BY <2>5, <1>types DEF TypeOK
    <3> QED
      BY <1>4, <2>1, <2>3, <2>5, <3>1
  <2> QED
    BY <2>2, <2>4, <2>5
<1>8. ASSUME NEW w \in Workers, Resubmit(w) PROVE CallsAndWorkers'
  <2>1. /\ "idle" \in WorkerPc /\ at' = [at EXCEPT ![w] = "idle"] /\ UNCHANGED caller
        /\ job'[w] = None /\ \A v \in Workers : v # w => job'[v] = job[v]
    BY <1>8, <1>types DEF Resubmit, Goto, WorkerPc, TypeOK
  <2> QED
    BY <1>4, <2>1
<1>9. ASSUME NEW s, IntervalPasses(s) \/ FailureAges(s) \/ PendingAges(s) \/ MemoryForgets(s)
      PROVE  CallsAndWorkers'
  BY <1>1, <1>9 DEF IntervalPasses, FailureAges, PendingAges, MemoryForgets, poolVars
<1>10. ASSUME PoolCloses \/ UNCHANGED vars PROVE CallsAndWorkers'
  BY <1>1, <1>10 DEF PoolCloses, vars, poolVars
<1> QED
  BY <1>2, <1>3, <1>5, <1>6, <1>7, <1>8, <1>9, <1>10 DEF Next, CallerStep, WorkerStep

\* A session moves from one place to the next, or out of flight.
LEMMA PlacesStep ==
  ASSUME Invariant, [Next]_vars
  PROVE  OnePlaceEach'
<1>types. TypeOK /\ CallsAndWorkers /\ OnePlaceEach
  BY DEF Invariant
<1>none. None \notin Sessions
  BY NoneAssumption
<1>1. ASSUME UNCHANGED <<inflight, queue, job>>,
             \A s \in Sessions : Admitted(s)' <=> Admitted(s)
      PROVE  OnePlaceEach'
  BY <1>1, <1>types DEF OnePlaceEach
<1>2. ASSUME NEW s \in Sessions, FrameArrives(s) PROVE OnePlaceEach'
  <2>1. \A t \in Sessions : Admitted(t)' <=> Admitted(t)
    BY <1>2 DEF FrameArrives, Admitted, NoCall
  <2> QED
    BY <1>1, <1>2, <2>1 DEF FrameArrives, poolVars
<1>3. ASSUME CheckFailure \/ QueueLatest \/ Throttle \/ MarkQueued PROVE OnePlaceEach'
  <2>1. ASSUME CheckFailure \/ QueueLatest \/ Throttle PROVE \A t \in Sessions : Admitted(t)' <=> Admitted(t)
    <3>1. caller.pc \in {"check", "admit"}
      BY <2>1 DEF CheckFailure, QueueLatest, Throttle
    <3>2. caller' = NoCall \/ caller' = [caller EXCEPT !.pc = "admit"]
      BY <2>1 DEF CheckFailure, QueueLatest, Throttle
    <3>3. caller'.pc \in {"idle", "admit"}
      BY <3>2, <1>types DEF TypeOK, NoCall
    <3> QED
      BY <3>1, <3>3 DEF Admitted
  <2>2. ASSUME MarkQueued PROVE \A t \in Sessions : Admitted(t)' <=> Admitted(t)
    BY <2>2, <1>types DEF MarkQueued, Admitted, TypeOK
  <2>3. UNCHANGED <<inflight, queue, job>>
    BY <1>3 DEF CheckFailure, QueueLatest, Throttle, MarkQueued, poolVars
  <2> QED
    BY <1>1, <1>3, <2>1, <2>2, <2>3
<1>4. ASSUME Admit PROVE OnePlaceEach'
  <2> DEFINE s == caller.session
  <2>1. /\ s \in Sessions /\ s \notin inflight /\ inflight' = inflight \cup {s}
        /\ UNCHANGED <<queue, job>>
    BY <1>4, <1>types DEF Admit, CallsAndWorkers, poolVars
  <2>2. \A t \in Sessions : ~Admitted(t) /\ (Admitted(t)' <=> t = s)
    BY <1>4, <1>types DEF Admit, Admitted, TypeOK
  <2> HIDE DEF s
  <2>3. s \notin ToSet(queue) /\ \A w \in Workers : job[w] # s
    BY <2>1, <1>types DEF OnePlaceEach
  <2> QED
    BY <2>1, <2>2, <2>3, <1>types DEF OnePlaceEach
<1>5. ASSUME SubmitJob PROVE OnePlaceEach'
  <2> DEFINE s == caller.session
  <2>1. s \in Sessions /\ Admitted(s) /\ SubmitOrDiscard(s) /\ UNCHANGED job
    BY <1>5, <1>types DEF SubmitJob, CallsAndWorkers, Admitted
  <2>2. \A t \in Sessions : (Admitted(t) <=> t = s) /\ ~Admitted(t)'
    BY <1>5 DEF SubmitJob, Admitted, NoCall
  <2> HIDE DEF s
  <2>3. s \in inflight /\ s \notin ToSet(queue) /\ \A w \in Workers : job[w] # s
    BY <2>1, <1>types DEF OnePlaceEach
  <2>4. CASE poolOpen
    <3>1. queue' = Append(queue, s) /\ UNCHANGED inflight
      BY <2>1, <2>4 DEF SubmitOrDiscard
    <3>2. /\ DOMAIN queue' = 1..(Len(queue) + 1) /\ DOMAIN queue = 1..Len(queue)
          /\ \A i \in 1..Len(queue) : queue'[i] = queue[i]
          /\ queue'[Len(queue) + 1] = s /\ Len(queue) \in Nat
          /\ ToSet(queue') = ToSet(queue) \cup {s}
      BY <2>1, <3>1, <1>types, AppendAdds DEF TypeOK
    <3>3. \A i \in DOMAIN queue : queue[i] # s
      BY <2>3 DEF ToSet
    <3>4. \A i, j \in DOMAIN queue' : queue'[i] = queue'[j] => i = j
      BY <3>2, <3>3, <1>types DEF OnePlaceEach
    <3> QED
      BY <2>1, <2>2, <2>3, <3>1, <3>2, <3>4, <1>types DEF OnePlaceEach
  <2>5. CASE ~poolOpen
    <3>1. inflight' = inflight \ {s} /\ UNCHANGED queue
      BY <2>1, <2>5 DEF SubmitOrDiscard
    <3> QED
      BY <2>1, <2>2, <2>3, <3>1, <1>types DEF OnePlaceEach
  <2> QED
    BY <2>4, <2>5
<1>6. ASSUME NEW w \in Workers, WorkerTakes(w) PROVE OnePlaceEach'
  <2> DEFINE h == Head(queue)
  <2>1. /\ h \in Sessions /\ job' = [job EXCEPT ![w] = h] /\ job[w] = None
        /\ UNCHANGED <<inflight, caller>>
    BY <1>6, <1>types, TailKeeps DEF WorkerTakes, TypeOK, CallsAndWorkers
  <2>2. /\ ToSet(queue') = ToSet(queue) \ {h} /\ h \in ToSet(queue)
        /\ \A i, j \in DOMAIN queue' : queue'[i] = queue'[j] => i = j
    BY <1>6, <1>types, TailOfDistinct DEF WorkerTakes, TypeOK, OnePlaceEach
  <2> HIDE DEF h
  <2>3. job'[w] = h /\ \A v \in Workers : v # w => job'[v] = job[v]
    BY <2>1, <1>types DEF TypeOK
  <2>4. \A v \in Workers : job[v] # h
    BY <2>2, <1>types DEF OnePlaceEach
  <2>5. \A t \in Sessions : (Admitted(t)' <=> Admitted(t)) /\ (Admitted(t) => t # h)
    BY <2>1, <2>2, <1>types DEF OnePlaceEach, Admitted
  <2>6. ASSUME NEW t \in Sessions
        PROVE  (\E v \in Workers : job'[v] = t) <=> t = h \/ \E v \in Workers : job[v] = t
    BY <2>1, <2>3, <1>none
  <2>7. \A t \in Sessions :
          t \in inflight' <=> Admitted(t)' \/ t \in ToSet(queue') \/ \E v \in Workers : job'[v] = t
    BY <2>1, <2>2, <2>5, <2>6, <1>types DEF OnePlaceEach
  <2>8. \A u, v \in Workers : job'[u] = job'[v] /\ job'[u] # None => u = v
    BY <2>3, <2>4, <1>types DEF OnePlaceEach
  <2>9. \A v \in Workers : job'[v] \notin ToSet(queue')
    BY <2>2, <2>3, <1>types DEF OnePlaceEach
  <2>10. \A t \in Sessions : Admitted(t)' => t \notin ToSet(queue') /\ \A v \in Workers : job'[v] # t
    BY <2>2, <2>3, <2>5, <1>types DEF OnePlaceEach
  <2> QED
    BY <2>2, <2>7, <2>8, <2>9, <2>10 DEF OnePlaceEach
<1>7. ASSUME NEW w \in Workers, at[w] # "idle", job' = [job EXCEPT ![w] = None],
             inflight' = inflight \ {job[w]}, UNCHANGED <<queue, caller>>
      PROVE  OnePlaceEach'
  <2> DEFINE s == job[w]
  <2>1. s \in Sessions /\ s \notin ToSet(queue) /\ ~Admitted(s)
    BY <1>7, <1>types DEF TypeOK, CallsAndWorkers, OnePlaceEach
  <2>2. /\ job'[w] = None
        /\ \A v \in Workers : v # w => job'[v] = job[v] /\ job[v] # s
    BY <1>7, <2>1, <1>none, <1>types DEF TypeOK, OnePlaceEach
  <2> HIDE DEF s
  <2>3. \A t \in Sessions :
          (\E v \in Workers : job'[v] = t) <=> t # s /\ \E v \in Workers : job[v] = t
    BY <2>1, <2>2, <1>none DEF s
  <2>4. \A t \in Sessions : Admitted(t)' <=> Admitted(t)
    BY <1>7 DEF Admitted
  <2>5. \A t \in Sessions :
          t \in inflight' <=> Admitted(t)' \/ t \in ToSet(queue') \/ \E v \in Workers : job'[v] = t
    BY <1>7, <2>1, <2>3, <2>4, <1>types DEF OnePlaceEach, s
  <2>6. \A v \in Workers : job'[v] \notin ToSet(queue')
    <3>1. None \notin ToSet(queue)
      BY <1>none, <1>types DEF TypeOK, ToSet
    <3> QED
      BY <1>7, <2>2, <3>1, <1>types DEF OnePlaceEach
  <2>7. /\ \A u, v \in Workers : job'[u] = job'[v] /\ job'[u] # None => u = v
        /\ \A t \in Sessions : Admitted(t)' => t \notin ToSet(queue') /\ \A v \in Workers : job'[v] # t
    BY <1>7, <2>2, <2>4, <1>none, <1>types DEF OnePlaceEach
  <2> QED
    BY <1>7, <2>5, <2>6, <2>7, <1>types DEF OnePlaceEach
<1>8. ASSUME NEW w \in Workers, Finally(w) PROVE OnePlaceEach'
  <2>1. CASE UNCHANGED <<inflight, job>>
    BY <1>1, <1>8, <2>1 DEF Finally, Admitted
  <2>2. CASE inflight' = inflight \ {job[w]} /\ job' = [job EXCEPT ![w] = None]
    BY <1>7, <1>8, <2>2 DEF Finally
  <2> QED
    BY <1>8, <2>1, <2>2 DEF Finally
<1>9. ASSUME NEW w \in Workers, Resubmit(w) PROVE OnePlaceEach'
  <2>1. SubmitOrDiscard(job[w]) /\ at[w] # "idle" /\ job' = [job EXCEPT ![w] = None] /\ UNCHANGED caller
    BY <1>9 DEF Resubmit
  <2>2. CASE ~poolOpen
    BY <1>7, <2>1, <2>2 DEF SubmitOrDiscard
  <2>3. CASE poolOpen
    <3> DEFINE s == job[w]
    <3>1. s \in Sessions /\ s \notin ToSet(queue) /\ ~Admitted(s)
      BY <2>1, <1>types DEF TypeOK, CallsAndWorkers, OnePlaceEach
    <3>2. queue' = Append(queue, s) /\ UNCHANGED inflight
      BY <2>1, <2>3 DEF SubmitOrDiscard
    <3>3. /\ job'[w] = None
          /\ \A v \in Workers : v # w => job'[v] = job[v] /\ job[v] # s
      BY <2>1, <3>1, <1>none, <1>types DEF TypeOK, OnePlaceEach
    <3> HIDE DEF s
    <3>4. /\ DOMAIN queue' = 1..(Len(queue) + 1) /\ DOMAIN queue = 1..Len(queue)
          /\ \A i \in 1..Len(queue) : queue'[i] = queue[i]
          /\ queue'[Len(queue) + 1] = s /\ Len(queue) \in Nat
          /\ ToSet(queue') = ToSet(queue) \cup {s}
      BY <3>1, <3>2, <1>types, AppendAdds DEF TypeOK
    <3>5. \A i \in DOMAIN queue : queue[i] # s
      BY <3>1 DEF ToSet
    <3>6. \A i, j \in DOMAIN queue' : queue'[i] = queue'[j] => i = j
      BY <3>4, <3>5, <1>types DEF OnePlaceEach
    <3>7. \A t \in Sessions :
            (\E v \in Workers : job'[v] = t) <=> t # s /\ \E v \in Workers : job[v] = t
      BY <3>1, <3>3, <1>none DEF s
    <3>8. \A t \in Sessions : (Admitted(t)' <=> Admitted(t)) /\ (Admitted(t) => t # s)
      BY <2>1, <3>1 DEF Admitted
    <3>9. \A t \in Sessions :
            t \in inflight' <=> Admitted(t)' \/ t \in ToSet(queue') \/ \E v \in Workers : job'[v] = t
      <4>1. \E v \in Workers : job[v] = s
        BY DEF s
      <4> QED
        BY <3>1, <3>2, <3>4, <3>7, <3>8, <4>1, <1>types DEF OnePlaceEach
    <3>10. \A v \in Workers : job'[v] \notin ToSet(queue')
      <4>1. None \notin ToSet(queue)
        BY <1>none, <1>types DEF TypeOK, ToSet
      <4> QED
        BY <3>1, <3>3, <3>4, <4>1, <1>none, <1>types DEF OnePlaceEach
    <3>11. \A u, v \in Workers : job'[u] = job'[v] /\ job'[u] # None => u = v
      BY <3>3, <1>types DEF OnePlaceEach
    <3>12. \A t \in Sessions : Admitted(t)' => t \notin ToSet(queue') /\ \A v \in Workers : job'[v] # t
      BY <3>3, <3>4, <3>8, <1>none, <1>types DEF OnePlaceEach
    <3> QED
      BY <3>6, <3>9, <3>10, <3>11, <3>12 DEF OnePlaceEach
  <2> QED
    BY <2>2, <2>3
<1>10. ASSUME NEW w \in Workers,
              EnterSlot(w) \/ DropThrottled(w) \/ MarkRunning(w) \/ Infer(w) \/ ExitSlot(w)
       PROVE  OnePlaceEach'
  BY <1>1, <1>10 DEF EnterSlot, DropThrottled, MarkRunning, Infer, ExitSlot, Admitted
<1>11. ASSUME NEW s, IntervalPasses(s) \/ FailureAges(s) \/ PendingAges(s) \/ MemoryForgets(s)
       PROVE  OnePlaceEach'
  BY <1>1, <1>11 DEF IntervalPasses, FailureAges, PendingAges, MemoryForgets, poolVars, Admitted
<1>12. ASSUME PoolCloses \/ UNCHANGED vars PROVE OnePlaceEach'
  BY <1>1, <1>12 DEF PoolCloses, vars, poolVars, Admitted
<1> QED
  BY <1>2, <1>3, <1>4, <1>5, <1>6, <1>8, <1>9, <1>10, <1>11, <1>12
    DEF Next, CallerStep, WorkerStep

(***************************************************************************)
(* Caps and slots.                                                         *)
(***************************************************************************)
\* Taking a session out of flight makes room.
LEMMA RoomWithout ==
  ASSUME CapKept, NEW s
  PROVE  /\ IsFiniteSet(inflight \ {s}) /\ Cardinality(inflight \ {s}) <= MaxJobs
         /\ s \in inflight => ~Full(inflight \ {s})
<1>1. IsFiniteSet(inflight) /\ Cardinality(inflight) <= MaxJobs /\ MaxJobs \in Nat
  BY MaxJobsIsNat DEF CapKept
<1>2. IsFiniteSet(inflight \ {s}) /\ Cardinality(inflight) \in Nat
      /\ Cardinality(inflight \ {s}) = IF s \in inflight THEN Cardinality(inflight) - 1
                                       ELSE Cardinality(inflight)
  BY <1>1, FS_RemoveElement, FS_CardinalityType
<1> QED
  BY <1>1, <1>2 DEF Full

\* A session is admitted only below the cap.
LEMMA CapStep ==
  ASSUME Invariant, [Next]_vars
  PROVE  CapKept'
<1>types. CapKept
  BY DEF Invariant
<1>1. ASSUME UNCHANGED inflight PROVE CapKept'
  BY <1>1, <1>types DEF CapKept, MaxJobs
<1>2. ASSUME NEW s, inflight' = inflight \ {s} PROVE CapKept'
  BY <1>2, <1>types, RoomWithout DEF CapKept, MaxJobs
<1>3. ASSUME Admit PROVE CapKept'
  <2>1. /\ caller.session \notin inflight /\ inflight' = inflight \cup {caller.session}
        /\ ~(Cardinality(inflight) >= MaxJobs)
    BY <1>3 DEF Admit, Full
  <2>2. IsFiniteSet(inflight) /\ Cardinality(inflight) \in Nat /\ MaxJobs \in Nat
    BY <1>types, FS_CardinalityType, MaxJobsIsNat DEF CapKept
  <2>3. IsFiniteSet(inflight') /\ Cardinality(inflight') = Cardinality(inflight) + 1
    BY <2>1, <2>2, FS_AddElement
  <2> QED
    BY <2>1, <2>2, <2>3 DEF CapKept, MaxJobs
<1>4. ASSUME NEW s, SubmitOrDiscard(s) PROVE CapKept'
  BY <1>1, <1>2, <1>4 DEF SubmitOrDiscard
<1>5. ASSUME SubmitJob \/ \E w \in Workers : Resubmit(w) PROVE CapKept'
  BY <1>4, <1>5 DEF SubmitJob, Resubmit
<1>6. ASSUME NEW w, Finally(w) PROVE CapKept'
  BY <1>1, <1>2, <1>6 DEF Finally
<1>7. ASSUME NEW s, FrameArrives(s) \/ IntervalPasses(s) \/ FailureAges(s) \/ PendingAges(s)
                      \/ MemoryForgets(s)
      PROVE  CapKept'
  BY <1>1, <1>7 DEF FrameArrives, IntervalPasses, FailureAges, PendingAges, MemoryForgets
<1>8. ASSUME CheckFailure \/ QueueLatest \/ Throttle \/ MarkQueued PROVE CapKept'
  BY <1>1, <1>8 DEF CheckFailure, QueueLatest, Throttle, MarkQueued
<1>9. ASSUME NEW w, \/ WorkerTakes(w) \/ EnterSlot(w) \/ DropThrottled(w) \/ MarkRunning(w)
                    \/ Infer(w) \/ ExitSlot(w)
      PROVE  CapKept'
  BY <1>1, <1>9 DEF WorkerTakes, EnterSlot, DropThrottled, MarkRunning, Infer, ExitSlot
<1>10. ASSUME PoolCloses \/ UNCHANGED vars PROVE CapKept'
  BY <1>1, <1>10 DEF PoolCloses, vars
<1> QED
  BY <1>3, <1>5, <1>6, <1>7, <1>8, <1>9, <1>10 DEF Next, CallerStep, WorkerStep

\* The places where a worker has a slot.
Using == {"mark", "infer", "exit"}

\* A worker that moves takes a slot, gives it back, or keeps to its side.
LEMMA UsersOfSlots ==
  ASSUME TypeOK, NEW w \in Workers, NEW to, at' = [at EXCEPT ![w] = to]
  PROVE  LET U(f) == {v \in Workers : f[v] \in Using}
         IN  /\ Cardinality(U(at)) \in Nat /\ Cardinality(U(at')) \in Nat
             /\ (at[w] \in Using <=> to \in Using) => U(at') = U(at)
             /\ at[w] \notin Using /\ to \in Using => Cardinality(U(at')) = Cardinality(U(at)) + 1
             /\ at[w] \in Using /\ to \notin Using => Cardinality(U(at')) = Cardinality(U(at)) - 1
<1> DEFINE B == {v \in Workers : at[v] \in Using}
           C == {v \in Workers : at'[v] \in Using}
<1>1. at'[w] = to /\ \A v \in Workers : v # w => at'[v] = at[v]
  BY DEF TypeOK
<1>2. IsFiniteSet(Workers) /\ B \subseteq Workers /\ C \subseteq Workers
  BY BoundsAssumption
<1>3. (at[w] \in Using <=> to \in Using) => C = B
  BY <1>1
<1>4. at[w] \notin Using /\ to \in Using => C = B \cup {w} /\ w \notin B
  BY <1>1
<1>5. at[w] \in Using /\ to \notin Using => C = B \ {w} /\ w \in B
  BY <1>1
<1> HIDE DEF B, C
<1>6. IsFiniteSet(B) /\ IsFiniteSet(C)
  BY <1>2, FS_Subset
<1>7. Cardinality(B) \in Nat /\ Cardinality(C) \in Nat
  BY <1>6, FS_CardinalityType
<1>8. at[w] \notin Using /\ to \in Using => Cardinality(C) = Cardinality(B) + 1
  BY <1>4, <1>6, FS_AddElement
<1>9. at[w] \in Using /\ to \notin Using => Cardinality(C) = Cardinality(B) - 1
  BY <1>5, <1>6, FS_RemoveElement
<1> QED
  BY <1>3, <1>7, <1>8, <1>9 DEF B, C

\* A slot is counted when a worker enters and given back when it leaves.
LEMMA SlotsStep ==
  ASSUME Invariant, [Next]_vars
  PROVE  SlotsExact'
<1> DEFINE users == Cardinality({w \in Workers : at[w] \in {"mark", "infer", "exit"}})
<1>types. TypeOK /\ slots = users /\ slots <= GpuSlots /\ slots \in Nat /\ GpuSlots \in Nat
  BY BoundsAssumption DEF Invariant, SlotsExact, TypeOK
<1>goal. SlotsExact' <=> slots' = users' /\ slots' <= GpuSlots
  BY DEF SlotsExact
<1>1. ASSUME UNCHANGED <<at, slots>> PROVE SlotsExact'
  BY <1>1, <1>types, <1>goal
<1>2. ASSUME NEW w \in Workers, NEW to, at' = [at EXCEPT ![w] = to], UNCHANGED slots,
             at[w] \in Using <=> to \in Using
      PROVE  SlotsExact'
  <2>1. users' = users
    BY <1>2, <1>types, UsersOfSlots DEF Using
  <2> HIDE DEF users
  <2> QED
    BY <1>2, <1>types, <1>goal, <2>1
<1>3. ASSUME NEW w \in Workers, EnterSlot(w) PROVE SlotsExact'
  <2>1. at[w] = "slot"
    BY <1>3 DEF EnterSlot
  <2>2. CASE slots < GpuSlots
    <3>1. slots' = slots + 1 /\ at' = [at EXCEPT ![w] = "mark"]
      BY <1>3, <2>2 DEF EnterSlot, Goto
    <3>2. users' = users + 1
      BY <1>types, <2>1, <3>1, UsersOfSlots DEF Using
    <3> HIDE DEF users
    <3> QED
      BY <1>types, <1>goal, <2>2, <3>1, <3>2
  <2>3. CASE ~(slots < GpuSlots)
    <3>1. UNCHANGED slots /\ at' = [at EXCEPT ![w] = "throttle"]
      BY <1>3, <2>3 DEF EnterSlot, Goto
    <3> QED
      BY <1>2, <2>1, <3>1 DEF Using
  <2> QED
    BY <2>2, <2>3
<1>4. ASSUME NEW w \in Workers, ExitSlot(w) PROVE SlotsExact'
  <2>1. /\ at[w] = "exit" /\ at' = [at EXCEPT ![w] = "final"]
        /\ slots' = IF slots = 0 THEN 0 ELSE slots - 1
    BY <1>4 DEF ExitSlot, Goto
  <2>2. users' = users - 1 /\ users' \in Nat /\ users \in Nat
    BY <1>types, <2>1, UsersOfSlots DEF Using
  <2> HIDE DEF users
  <2> QED
    BY <1>types, <1>goal, <2>1, <2>2
<1>5. ASSUME NEW w \in Workers, WorkerTakes(w) PROVE SlotsExact'
  BY <1>2, <1>5 DEF WorkerTakes, Goto, Using
<1>6. ASSUME NEW w \in Workers, DropThrottled(w) \/ MarkRunning(w) \/ Infer(w) PROVE SlotsExact'
  <2>1. DropThrottled(w) => SlotsExact'
    BY <1>2 DEF DropThrottled, Goto, Using
  <2>2. MarkRunning(w) => SlotsExact'
    BY <1>2 DEF MarkRunning, Goto, Using
  <2>3. Infer(w) => SlotsExact'
    BY <1>2 DEF Infer, Goto, Using
  <2> QED
    BY <1>6, <2>1, <2>2, <2>3
<1>7. ASSUME NEW w \in Workers, Finally(w) PROVE SlotsExact'
  <2>1. PICK to \in {"again", "idle"} : at' = [at EXCEPT ![w] = to]
    BY <1>7 DEF Finally, Goto
  <2> QED
    BY <1>2, <1>7, <2>1 DEF Finally, Using
<1>8. ASSUME NEW w \in Workers, Resubmit(w) PROVE SlotsExact'
  BY <1>2, <1>8 DEF Resubmit, Goto, Using
<1>9. ASSUME NEW s, FrameArrives(s) \/ IntervalPasses(s) \/ FailureAges(s) \/ PendingAges(s)
                      \/ MemoryForgets(s)
      PROVE  SlotsExact'
  BY <1>1, <1>9
    DEF FrameArrives, IntervalPasses, FailureAges, PendingAges, MemoryForgets, poolVars
<1>10. ASSUME CheckFailure \/ QueueLatest \/ Throttle \/ Admit \/ MarkQueued \/ SubmitJob
       PROVE  SlotsExact'
  BY <1>1, <1>10 DEF CheckFailure, QueueLatest, Throttle, Admit, MarkQueued, SubmitJob, poolVars
<1>11. ASSUME PoolCloses \/ UNCHANGED vars PROVE SlotsExact'
  BY <1>1, <1>11 DEF PoolCloses, vars, poolVars
<1> QED
  BY <1>3, <1>4, <1>5, <1>6, <1>7, <1>8, <1>9, <1>10, <1>11 DEF Next, CallerStep, WorkerStep

(***************************************************************************)
(* What is announced.                                                      *)
(***************************************************************************)
\* Only the job itself and a newer frame announce work of a session in flight.
LEMMA AnnouncedStep ==
  ASSUME Invariant, [Next]_vars
  PROVE  AnnouncedIsPending'
<1>types. TypeOK /\ CallsAndWorkers /\ OnePlaceEach /\ AnnouncedIsPending
  BY DEF Invariant
<1>busy. \A w \in Workers : at[w] # "idle" => job[w] \in Sessions
  BY <1>types DEF TypeOK, CallsAndWorkers
<1>1. ASSUME UNCHANGED <<at, job>>,
             \A s \in Sessions : state'[s] \in {"queued", "running"} =>
                                   /\ pending[s] = "fresh" => pending'[s] = "fresh"
                                   /\ state[s] \in {"queued", "running"} \/ pending'[s] = "fresh"
      PROVE  AnnouncedIsPending'
  BY <1>1, <1>types, <1>busy DEF AnnouncedIsPending
<1>2. ASSUME UNCHANGED <<at, job, pending, state>> PROVE AnnouncedIsPending'
  BY <1>2, <1>types DEF AnnouncedIsPending
<1>3. ASSUME QueueLatest PROVE AnnouncedIsPending'
  <2>1. caller.session \in Sessions
    BY <1>3, <1>types DEF QueueLatest, CallsAndWorkers
  <2> QED
    BY <1>1, <1>2, <1>3, <1>types, <2>1 DEF QueueLatest, SetState, TypeOK, poolVars
<1>4. ASSUME MarkQueued PROVE AnnouncedIsPending'
  <2> DEFINE s == caller.session
  <2>1. s \in Sessions /\ Admitted(s)
    BY <1>4, <1>types DEF MarkQueued, CallsAndWorkers, Admitted
  <2>2. \A w \in Workers : job[w] # s
    BY <2>1, <1>types DEF OnePlaceEach
  <2>3. /\ \A t \in Sessions : t # s => state'[t] = state[t]
        /\ UNCHANGED <<at, job, pending>>
    BY <1>4, <1>types DEF MarkQueued, SetState, TypeOK, poolVars
  <2> HIDE DEF s
  <2> QED
    BY <2>2, <2>3, <1>types, <1>busy DEF AnnouncedIsPending
<1>5. ASSUME NEW w \in Workers, NEW to, at' = [at EXCEPT ![w] = to], at[w] # "idle",
             to \notin {"exit", "final"},
             \A v \in Workers : v # w => job'[v] = job[v],
             \A s \in Sessions : s # job[w] => state'[s] = state[s] /\ pending'[s] = pending[s]
      PROVE  AnnouncedIsPending'
  <2>1. \A v \in Workers : v # w => at'[v] = at[v]
    BY <1>5, <1>types DEF TypeOK
  <2>2. at'[w] = to
    BY <1>5, <1>types DEF TypeOK
  <2>3. \A v \in Workers : v # w /\ at[v] # "idle" => job[v] \in Sessions /\ job[v] # job[w]
    BY <1>5, <1>busy, <1>types, NoneAssumption DEF OnePlaceEach
  <2>4. ASSUME NEW v \in Workers, at'[v] \in {"exit", "final"},
               state'[job'[v]] \in {"queued", "running"}
        PROVE  pending'[job'[v]] = "fresh"
    <3>1. v # w
      BY <1>5, <2>2, <2>4
    <3>2. at[v] \in {"exit", "final"} /\ job'[v] = job[v]
      BY <1>5, <2>1, <2>4, <3>1
    <3>3. job[v] \in Sessions /\ job[v] # job[w]
      BY <2>3, <3>1, <3>2
    <3>4. state'[job[v]] = state[job[v]] /\ pending'[job[v]] = pending[job[v]]
      BY <1>5, <3>3
    <3> QED
      BY <2>4, <3>2, <3>4, <1>types DEF AnnouncedIsPending
  <2> QED
    BY <2>4 DEF AnnouncedIsPending
<1>6. ASSUME NEW w \in Workers, EnterSlot(w) \/ MarkRunning(w) PROVE AnnouncedIsPending'
  <2>1. PICK to \in {"mark", "throttle", "infer"} : at' = [at EXCEPT ![w] = to]
    BY <1>6 DEF EnterSlot, MarkRunning, Goto
  <2>2. at[w] # "idle" /\ UNCHANGED <<job, pending>>
    BY <1>6 DEF EnterSlot, MarkRunning
  <2>3. \A s \in Sessions : s # job[w] => state'[s] = state[s]
    BY <1>6, <1>types DEF EnterSlot, MarkRunning, SetState, TypeOK
  <2> QED
    BY <1>5, <2>1, <2>2, <2>3
<1>7. ASSUME NEW w \in Workers, Finally(w) PROVE AnnouncedIsPending'
  <2>1. PICK to \in {"again", "idle"} : at' = [at EXCEPT ![w] = to]
    BY <1>7 DEF Finally, Goto
  <2>2. at[w] # "idle" /\ job[w] \in Sessions
    BY <1>7, <1>busy DEF Finally
  <2>3. \A v \in Workers : v # w => job'[v] = job[v]
    BY <1>7, <1>types DEF Finally, TypeOK
  <2>4. \A s \in Sessions : s # job[w] => state'[s] = state[s] /\ pending'[s] = pending[s]
    BY <1>7, <1>types DEF Finally, SetState, TypeOK
  <2> QED
    BY <1>5, <2>1, <2>2, <2>3, <2>4
<1>8. ASSUME NEW w \in Workers, Resubmit(w) PROVE AnnouncedIsPending'
  <2>1. at' = [at EXCEPT ![w] = "idle"] /\ at[w] # "idle" /\ UNCHANGED <<state, pending>>
    BY <1>8 DEF Resubmit, Goto
  <2>2. \A v \in Workers : v # w => job'[v] = job[v]
    BY <1>8, <1>types DEF Resubmit, TypeOK
  <2> QED
    BY <1>5, <2>1, <2>2
<1>9. ASSUME NEW w \in Workers, WorkerTakes(w) PROVE AnnouncedIsPending'
  <2>1. \A v \in Workers : v # w => at'[v] = at[v] /\ job'[v] = job[v]
    BY <1>9, <1>types DEF WorkerTakes, Goto, TypeOK
  <2>2. at'[w] = "slot" /\ UNCHANGED <<state, pending>>
    BY <1>9, <1>types DEF WorkerTakes, Goto, TypeOK
  <2> QED
    BY <2>1, <2>2, <1>types DEF AnnouncedIsPending
<1>10. ASSUME NEW w \in Workers, DropThrottled(w) \/ Infer(w) PROVE AnnouncedIsPending'
  <2>1. /\ \A v \in Workers : v # w => at'[v] = at[v]
        /\ at[w] # "idle" /\ UNCHANGED <<job, pending>>
    BY <1>10, <1>types DEF DropThrottled, Infer, Goto, TypeOK
  <2>2. PICK result \in {"settled", "failed"} : state' = [state EXCEPT ![job[w]] = result]
    BY <1>10 DEF DropThrottled, Infer, SetState
  <2>3. job[w] \in Sessions
    BY <2>1, <1>busy
  <2>4. ASSUME NEW v \in Workers, at'[v] \in {"exit", "final"},
               state'[job'[v]] \in {"queued", "running"}
        PROVE  pending'[job'[v]] = "fresh"
    <3>1. v # w
      BY <2>1, <2>2, <2>3, <2>4, <1>types DEF TypeOK
    <3>2. at[v] \in {"exit", "final"} /\ job[v] \in Sessions /\ job'[v] = job[v]
      BY <2>1, <2>4, <3>1, <1>busy
    <3>3. job[v] # job[w]
      BY <2>3, <3>1, <3>2, <1>types, NoneAssumption DEF OnePlaceEach
    <3>4. state'[job[v]] = state[job[v]]
      BY <2>2, <3>2, <3>3, <1>types DEF TypeOK
    <3> QED
      BY <2>1, <2>4, <3>2, <3>4, <1>types DEF AnnouncedIsPending
  <2> QED
    BY <2>4 DEF AnnouncedIsPending
<1>11. ASSUME NEW w \in Workers, ExitSlot(w) PROVE AnnouncedIsPending'
  <2>1. at[w] = "exit" /\ UNCHANGED <<job, state, pending>>
    BY <1>11 DEF ExitSlot
  <2>2. \A v \in Workers : at'[v] \in {"exit", "final"} => at[v] \in {"exit", "final"}
    BY <1>11, <1>types, <2>1 DEF ExitSlot, Goto, TypeOK
  <2> QED
    BY <2>1, <2>2, <1>types DEF AnnouncedIsPending
<1>12. ASSUME NEW s \in Sessions, PendingAges(s) PROVE AnnouncedIsPending'
  <2>1. \A w \in Workers : at[w] \in {"exit", "final"} => job[w] # s
    <3>1. ASSUME NEW w \in Workers, at[w] \in {"exit", "final"}, job[w] = s PROVE FALSE
      <4>1. s \notin ToSet(queue)
        BY <3>1, <1>types DEF OnePlaceEach
      <4>2. PICK v \in Workers : job[v] = s /\ at[v] = "infer"
        BY <1>12, <4>1 DEF PendingAges
      <4>3. v = w
        BY <3>1, <4>2, <1>types, NoneAssumption DEF OnePlaceEach
      <4> QED
        BY <3>1, <4>2, <4>3
    <3> QED
      BY <3>1
  <2>2. /\ \A t \in Sessions : t # s => pending'[t] = pending[t]
        /\ UNCHANGED <<at, job, state>>
    BY <1>12, <1>types DEF PendingAges, TypeOK, poolVars
  <2> QED
    BY <2>1, <2>2, <1>types, <1>busy DEF AnnouncedIsPending
<1>13. ASSUME NEW s \in Sessions, FailureAges(s) \/ MemoryForgets(s) PROVE AnnouncedIsPending'
  <2>1. /\ state' = [state EXCEPT ![s] = "settled"] /\ UNCHANGED <<at, job, pending>>
    BY <1>13 DEF FailureAges, MemoryForgets, SetState, poolVars
  <2>2. \A t \in Sessions : state'[t] \in {"queued", "running"} => state[t] \in {"queued", "running"}
    BY <2>1, <1>types DEF TypeOK
  <2> QED
    BY <1>1, <2>1, <2>2
<1>14. ASSUME NEW s, FrameArrives(s) \/ IntervalPasses(s) PROVE AnnouncedIsPending'
  BY <1>2, <1>14 DEF FrameArrives, IntervalPasses, poolVars
<1>15. ASSUME CheckFailure \/ Throttle \/ Admit \/ SubmitJob PROVE AnnouncedIsPending'
  BY <1>2, <1>15 DEF CheckFailure, Throttle, Admit, SubmitJob, poolVars
<1>16. ASSUME PoolCloses \/ UNCHANGED vars PROVE AnnouncedIsPending'
  BY <1>2, <1>16 DEF PoolCloses, vars, poolVars
<1> QED
  BY <1>3, <1>4, <1>6, <1>7, <1>8, <1>9, <1>10, <1>11, <1>12, <1>13, <1>14, <1>15, <1>16
    DEF Next, CallerStep, WorkerStep

(***************************************************************************)
(* The state tells the truth.                                              *)
(***************************************************************************)
\* While the pool takes jobs, what is announced is in flight after a step.
LEMMA TruthStep ==
  ASSUME Invariant, [Next]_vars
  PROVE  StateTruthful'
<1>types. /\ TypeOK /\ CallsAndWorkers /\ OnePlaceEach /\ CapKept
          /\ AnnouncedIsPending /\ StateTruthful
  BY DEF Invariant
<1>open. poolOpen' => poolOpen
  BY DEF Next, CallerStep, WorkerStep, FrameArrives, CheckFailure, QueueLatest, Throttle, Admit,
         MarkQueued, SubmitJob, WorkerTakes, EnterSlot, DropThrottled, MarkRunning, Infer,
         ExitSlot, Finally, Resubmit, IntervalPasses, FailureAges, PendingAges, MemoryForgets,
         PoolCloses, vars
<1>1. ASSUME inflight \subseteq inflight',
             \A s \in Sessions : state'[s] \in {"queued", "running"} =>
                                   state[s] \in {"queued", "running"} \/ s \in inflight
      PROVE  StateTruthful'
  BY <1>1, <1>types, <1>open DEF StateTruthful
<1>2. ASSUME UNCHANGED state, inflight \subseteq inflight' PROVE StateTruthful'
  BY <1>1, <1>2
<1>3. ASSUME NEW s \in Sessions, s \in inflight, NEW to, state' = [state EXCEPT ![s] = to],
             inflight \subseteq inflight'
      PROVE  StateTruthful'
  BY <1>1, <1>3, <1>types DEF TypeOK
<1>4. ASSUME NEW s \in Sessions, NEW to \in {"settled", "failed"},
             state' = [state EXCEPT ![s] = to], UNCHANGED inflight
      PROVE  StateTruthful'
  BY <1>1, <1>4, <1>types DEF TypeOK
<1>5. ASSUME QueueLatest PROVE StateTruthful'
  <2>1. caller.session \in Sessions /\ caller.session \in inflight /\ UNCHANGED inflight
    BY <1>5, <1>types DEF QueueLatest, CallsAndWorkers
  <2>2. UNCHANGED state \/ state' = [state EXCEPT ![caller.session] = "queued"]
    BY <1>5 DEF QueueLatest, SetState
  <2> QED
    BY <1>2, <1>3, <2>1, <2>2
<1>6. ASSUME MarkQueued PROVE StateTruthful'
  <2>1. caller.session \in Sessions /\ Admitted(caller.session) /\ UNCHANGED inflight
    BY <1>6, <1>types DEF MarkQueued, CallsAndWorkers, Admitted
  <2>2. caller.session \in inflight
    BY <2>1, <1>types DEF OnePlaceEach
  <2> QED
    BY <1>3, <1>6, <2>1, <2>2 DEF MarkQueued, SetState
<1>busy. \A w \in Workers : at[w] # "idle" => job[w] \in Sessions /\ job[w] \in inflight
  BY <1>types DEF TypeOK, CallsAndWorkers, OnePlaceEach
<1>7. ASSUME NEW w \in Workers, MarkRunning(w) PROVE StateTruthful'
  BY <1>3, <1>7, <1>busy DEF MarkRunning, SetState
<1>8. ASSUME NEW w \in Workers, DropThrottled(w) \/ Infer(w) PROVE StateTruthful'
  <2>1. job[w] \in Sessions /\ UNCHANGED inflight
    BY <1>8, <1>busy DEF DropThrottled, Infer
  <2>2. PICK to \in {"settled", "failed"} : state' = [state EXCEPT ![job[w]] = to]
    BY <1>8 DEF DropThrottled, Infer, SetState
  <2> QED
    BY <1>4, <2>1, <2>2
<1>9. ASSUME NEW w \in Workers, Finally(w) PROVE StateTruthful'
  <2>1. at[w] = "final" /\ job[w] \in Sessions /\ job[w] \in inflight
    BY <1>9, <1>busy DEF Finally
  <2>2. CASE pending[job[w]] = "fresh"
    <3>1. ~Full(inflight \ {job[w]})
      BY <2>1, <1>types, RoomWithout
    <3>2. state' = [state EXCEPT ![job[w]] = "queued"] /\ UNCHANGED inflight
      BY <1>9, <2>2, <3>1 DEF Finally, SetState
    <3> QED
      BY <1>3, <2>1, <3>2
  <2>3. CASE pending[job[w]] # "fresh"
    <3>1. state[job[w]] \notin {"queued", "running"}
      BY <2>1, <2>3, <1>types DEF AnnouncedIsPending
    <3>2. UNCHANGED state /\ inflight' = inflight \ {job[w]}
      BY <1>9, <2>3 DEF Finally
    <3> QED
      BY <3>1, <3>2, <1>types, <1>open DEF StateTruthful
  <2> QED
    BY <2>2, <2>3
<1>10. ASSUME NEW s, SubmitOrDiscard(s), UNCHANGED <<state, poolOpen>> PROVE StateTruthful'
  BY <1>10, <1>types DEF SubmitOrDiscard, StateTruthful
<1>11. ASSUME NEW w \in Workers, Resubmit(w) PROVE StateTruthful'
  BY <1>10, <1>11 DEF Resubmit
<1>12. ASSUME SubmitJob PROVE StateTruthful'
  BY <1>10, <1>12 DEF SubmitJob
<1>13. ASSUME NEW s \in Sessions, FailureAges(s) \/ MemoryForgets(s) PROVE StateTruthful'
  BY <1>4, <1>13 DEF FailureAges, MemoryForgets, SetState
<1>14. ASSUME NEW w \in Workers, WorkerTakes(w) \/ EnterSlot(w) \/ ExitSlot(w) PROVE StateTruthful'
  BY <1>2, <1>14 DEF WorkerTakes, EnterSlot, ExitSlot
<1>15. ASSUME NEW s \in Sessions, FrameArrives(s) \/ IntervalPasses(s) \/ PendingAges(s)
       PROVE  StateTruthful'
  BY <1>2, <1>15 DEF FrameArrives, IntervalPasses, PendingAges
<1>16. ASSUME CheckFailure \/ Throttle \/ Admit \/ PoolCloses \/ UNCHANGED vars PROVE StateTruthful'
  BY <1>2, <1>16 DEF CheckFailure, Throttle, Admit, PoolCloses, vars
<1> QED
  BY <1>5, <1>6, <1>7, <1>8, <1>9, <1>11, <1>12, <1>13, <1>14, <1>15, <1>16
    DEF Next, CallerStep, WorkerStep

(***************************************************************************)
(* The jobs, counted.                                                      *)
(***************************************************************************)
\* What at most one element satisfies has a cardinality of 0 or 1.
LEMMA OneOrNone ==
  ASSUME NEW S, \A x, y \in S : x = y
  PROVE  Cardinality(S) = IF S = {} THEN 0 ELSE 1
<1>1. CASE S = {}
  BY <1>1, FS_EmptySet
<1>2. CASE S # {}
  <2>1. PICK x \in S : TRUE
    BY <1>2
  <2>2. S = {x}
    BY <2>1
  <2> QED
    BY <1>2, <2>2, FS_Singleton
<1> QED
  BY <1>1, <1>2

\* A session that is in one place has one job.
LEMMA PlacesAreCounted ==
  ASSUME TypeOK, OnePlaceEach, CapKept
  PROVE  JobsAccounted
<1>1. ASSUME NEW s \in Sessions
      PROVE  Cardinality({i \in DOMAIN queue : queue[i] = s})
               + Cardinality({w \in Workers : Works(w, s)})
               + (IF Admitted(s) THEN 1 ELSE 0) = IF s \in inflight THEN 1 ELSE 0
  <2> DEFINE waiting == {i \in DOMAIN queue : queue[i] = s}
             running == {w \in Workers : Works(w, s)}
  <2>1. /\ \A i, j \in waiting : i = j
        /\ waiting # {} <=> s \in ToSet(queue)
    BY DEF OnePlaceEach, ToSet
  <2>2. /\ \A v, w \in running : v = w
        /\ running # {} <=> \E w \in Workers : job[w] = s
    BY NoneAssumption DEF OnePlaceEach, Works
  <2>3. /\ waiting # {} => running = {} /\ ~Admitted(s)
        /\ running # {} => ~Admitted(s)
        /\ s \in inflight <=> Admitted(s) \/ waiting # {} \/ running # {}
    BY <2>1, <2>2 DEF OnePlaceEach
  <2> HIDE DEF waiting, running
  <2>4. /\ Cardinality(waiting) = IF waiting = {} THEN 0 ELSE 1
        /\ Cardinality(running) = IF running = {} THEN 0 ELSE 1
    BY <2>1, <2>2, OneOrNone
  <2>5. Cardinality(waiting) + Cardinality(running) + (IF Admitted(s) THEN 1 ELSE 0)
          = IF s \in inflight THEN 1 ELSE 0
    BY <2>3, <2>4
  <2> QED
    BY <2>5 DEF waiting, running
<1> QED
  BY <1>1 DEF JobsAccounted, CapKept

(***************************************************************************)
(* The theorems.                                                           *)
(***************************************************************************)
\* The inductive invariant holds in every reachable state.
THEOREM InvariantHolds == Spec => []Invariant
<1>1. ASSUME Invariant, [Next]_vars PROVE Invariant'
  <2>1. TypeOK' /\ CallsAndWorkers' /\ OnePlaceEach' /\ CapKept'
    BY <1>1, TypeStep, CallsStep, PlacesStep, CapStep
  <2>2. SlotsExact' /\ AnnouncedIsPending' /\ StateTruthful'
    BY <1>1, SlotsStep, AnnouncedStep, TruthStep
  <2> QED
    BY <2>1, <2>2 DEF Invariant
<1> QED
  BY InvariantInit, <1>1, PTL DEF Spec

\* Every variable keeps its type, the queue and the call included.
THEOREM TypeCorrect == Spec => []TypeOK
<1>1. Invariant => TypeOK
  BY DEF Invariant
<1> QED
  BY <1>1, InvariantHolds, PTL

\* _INFLIGHT holds a session exactly while one job of it is being submitted,
\* queued or run, and never more sessions than the pool has threads.
THEOREM JobsCorrect == Spec => []JobsAccounted
<1>1. Invariant => JobsAccounted
  BY PlacesAreCounted DEF Invariant
<1> QED
  BY <1>1, InvariantHolds, PTL

\* The GPU slots counted are those in use, whatever becomes of their jobs.
THEOREM SlotsCorrect == Spec => []SlotsExact
<1>1. Invariant => SlotsExact
  BY DEF Invariant
<1> QED
  BY <1>1, InvariantHolds, PTL

\* A client is told of queued or running work only while there is some.
THEOREM TruthCorrect == Spec => []StateTruthful
<1>1. Invariant => StateTruthful
  BY DEF Invariant
<1> QED
  BY <1>1, InvariantHolds, PTL

=============================================================================
