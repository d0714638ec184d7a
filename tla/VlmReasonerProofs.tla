------------------------- MODULE VlmReasonerProofs -------------------------
(***************************************************************************)
(* Safety of VlmReasoner for any sessions, pool, cache size and limits.    *)
(* That a stored answer is to the newest question needs that a session has *)
(* one job at most (JobsDistinct) and is in flight while it has one        *)
(* (JobsInFlight); that the back-off is kept needs that nothing but the    *)
(* sweep loses the time of a failure (ErrorsRemembered).                   *)
(***************************************************************************)
EXTENDS VlmReasoner, FiniteSetTheorems, TLAPS

\* The smaller of two numbers is one of them and bounded by both.
LEMMA MinOfTwo ==
  ASSUME NEW m \in Nat, NEW n \in Nat
  PROVE  /\ Min({m, n}) \in Nat
         /\ Min({m, n}) \in {m, n}
         /\ Min({m, n}) <= m /\ Min({m, n}) <= n
<1>1. \E x \in {m, n} : \A y \in {m, n} : x <= y
  <2>1. CASE m <= n
    BY <2>1
  <2>2. CASE ~(m <= n)
    BY <2>2
  <2> QED
    BY <2>1, <2>2
<1> QED
  BY <1>1 DEF Min

\* The horizon is a number.
LEMMA HorizonIsNat == Horizon \in Nat
<1>1. CacheTtl \in Nat /\ MinInterval \in Nat
  BY BoundsAssumption
<1>2. \E x \in {CacheTtl, MinInterval} : \A y \in {CacheTtl, MinInterval} : x >= y
  <2>1. CASE CacheTtl >= MinInterval
    BY <1>1, <2>1
  <2>2. CASE ~(CacheTtl >= MinInterval)
    BY <1>1, <2>2
  <2> QED
    BY <2>1, <2>2
<1>3. Max({CacheTtl, MinInterval}) \in {CacheTtl, MinInterval}
  BY <1>2 DEF Max
<1> QED
  BY <1>1, <1>3 DEF Horizon

\* Ages grow by one and stop at their limit, whatever they were.
LEMMA OlderAges ==
  ASSUME NEW limit \in Nat, NEW ages \in [Sessions -> 0..limit]
  PROVE  Older(ages, limit) \in [Sessions -> 0..limit]
<1>1. ASSUME NEW s \in Sessions PROVE Min({ages[s] + 1, limit}) \in 0..limit
  <2>1. ages[s] + 1 \in Nat
    OBVIOUS
  <2> QED
    BY <2>1, MinOfTwo
<1> QED
  BY <1>1 DEF Older

\* The initial states satisfy the invariant.
LEMMA InvariantInit == Init => Invariant
<1> SUFFICES ASSUME Init PROVE Invariant
  OBVIOUS
<1> USE BoundsAssumption
<1>1. runAge \in [Sessions -> 0..MinInterval]
  BY DEF Init
<1>2. errorAge \in [Sessions -> 0..Backoff] /\ failedAge \in [Sessions -> 0..Backoff]
  BY DEF Init
<1>3. cache \in [Sessions -> Drafts \cup {None}] /\ job \in [Workers -> Jobs \cup {None}]
  BY DEF Init
<1>4. queue \in Seq(Jobs) /\ DOMAIN queue = {}
  BY DEF Init
<1>5. at \in [Workers -> {"idle", "wait", "store", "final"}]
  BY DEF Init
<1>6. reply \in [Workers -> {"ok", "failed"}] /\ started \in [Sessions -> Nat]
  BY DEF Init
<1>7. TypeOK
  BY <1>1, <1>2, <1>3, <1>4, <1>5, <1>6 DEF Init, TypeOK
<1>8. JobsInFlight /\ JobsDistinct /\ ErrorsRemembered
  BY <1>4 DEF Init, JobsInFlight, JobsDistinct, ErrorsRemembered
<1> QED
  BY <1>7, <1>8 DEF Invariant

\* The sweep forgets sessions only.
LEMMA SweptSessions == ASSUME NEW gone \in Swept PROVE gone \subseteq Sessions
<1> DEFINE old  == {s \in Cached : cache[s].age > Horizon}
           left == Cached \ old
           more == IF Cardinality(left) > MaxSessions
                     THEN Cardinality(left) - MaxSessions ELSE 0
<1>1. PICK X \in kSubset(more, left) : gone = old \cup X
  BY DEF Swept
<1>2. X \subseteq left
  BY <1>1 DEF kSubset
<1> QED
  BY <1>1, <1>2 DEF Cached

\* What a sweep leaves of the limits and of what is remembered of failures.
LEMMA ForgetKeeps ==
  ASSUME TypeOK, ErrorsRemembered, NEW gone \in Swept, Forget(gone),
         UNCHANGED failedAge
  PROVE  /\ cache' \in [Sessions -> Drafts \cup {None}]
         /\ errorAge' \in [Sessions -> 0..Backoff]
         /\ forgotten' \in SUBSET Sessions
         /\ failedAge' \in [Sessions -> 0..Backoff]
         /\ ErrorsRemembered'
<1> USE BoundsAssumption, SweptSessions
<1>1. cache' \in [Sessions -> Drafts \cup {None}]
  BY DEF Forget, TypeOK
<1>2. errorAge' \in [Sessions -> 0..Backoff]
  BY DEF Forget, TypeOK
<1>3. forgotten' \in SUBSET Sessions
  BY DEF Forget, TypeOK
<1>4. ErrorsRemembered'
  BY DEF Forget, TypeOK, ErrorsRemembered
<1> QED
  BY <1>1, <1>2, <1>3, <1>4 DEF TypeOK

\* A trigger leaves the pool as it was or puts one job in flight, of a session
\* that had none.
LEMMA TriggerStep ==
  ASSUME Invariant, NEW s \in Sessions, NEW force \in BOOLEAN, Trigger(s, force)
  PROVE  Invariant'
<1> USE BoundsAssumption
<1>types. TypeOK /\ JobsInFlight /\ JobsDistinct /\ ErrorsRemembered
  BY DEF Invariant
<1>1. PICK gone \in Swept :
        /\ MayTrigger(s, gone, force)
        /\ Forget(gone)
        /\ runAge' = [t \in Sessions |->
                        IF t = s THEN 0 ELSE IF t \in gone THEN MinInterval ELSE runAge[t]]
  BY DEF Trigger
<1>2. s \notin inflight
  BY <1>1 DEF MayTrigger
<1>3. runAge' \in [Sessions -> 0..MinInterval]
  BY <1>1, <1>types DEF TypeOK
<1>4. started' \in [Sessions -> Nat] /\ started' = [started EXCEPT ![s] = @ + 1]
  BY <1>types DEF Trigger, TypeOK
<1>5. UNCHANGED <<job, at, reply, poolOpen, failedAge>>
  BY DEF Trigger
<1>6. ASSUME poolOpen PROVE Invariant'
  <2> DEFINE new == [session |-> s, no |-> started[s] + 1]
  <2>1. queue' = Append(queue, new) /\ inflight' = inflight \cup {s}
    BY <1>6 DEF Trigger, Submit
  <2>2. new \in Jobs /\ queue \in Seq(Jobs)
    BY <1>types DEF Jobs, TypeOK
  <2>3. /\ queue' \in Seq(Jobs)
        /\ DOMAIN queue' = 1..(Len(queue) + 1)
        /\ DOMAIN queue = 1..Len(queue)
        /\ queue'[Len(queue) + 1] = new
        /\ \A i \in DOMAIN queue : queue'[i] = queue[i] /\ queue[i] \in Jobs
    BY <2>1, <2>2
  <2>4. TypeOK'
    BY <1>1, <1>3, <1>4, <1>5, <2>1, <2>3, <1>types, ForgetKeeps DEF TypeOK
  <2>5. \A i \in DOMAIN queue :
          queue[i].session \in inflight /\ queue[i].session # s
    BY <1>2, <1>types DEF JobsInFlight
  <2>6. \A w \in Workers : job[w] # None =>
          job[w].session \in Sessions /\ job[w].session # s
    BY <1>2, <1>types DEF JobsInFlight, TypeOK, Jobs
  <2>7. \A i \in DOMAIN queue :
          queue[i].session \in Sessions /\ started'[queue[i].session] = started[queue[i].session]
    BY <1>4, <2>3, <2>5, <1>types DEF Jobs, TypeOK
  <2>8. JobsInFlight'
    <3>1. \A i \in DOMAIN queue' :
            queue'[i].session \in inflight' /\ queue'[i].no = started'[queue'[i].session]
      <4>1. new.session = s /\ new.no = started'[s]
        BY <1>4, <1>types DEF TypeOK
      <4>2. \A i \in DOMAIN queue :
              queue[i].session \in inflight' /\ queue[i].no = started'[queue[i].session]
        BY <2>1, <2>7, <1>types DEF JobsInFlight
      <4> QED
        BY <2>1, <2>3, <4>1, <4>2
    <3>2. \A w \in Workers : job'[w] # None =>
            job'[w].session \in inflight' /\ job'[w].no = started'[job'[w].session]
      BY <1>4, <1>5, <2>1, <2>6, <1>types DEF JobsInFlight, TypeOK
    <3> QED
      BY <1>5, <3>1, <3>2, <1>types DEF JobsInFlight
  <2>9. JobsDistinct'
    <3>1. \A i, j \in DOMAIN queue' : queue'[i].session = queue'[j].session => i = j
      BY <2>3, <2>5, <1>types DEF JobsDistinct
    <3>2. \A w \in Workers : job[w] # None =>
            \A i \in DOMAIN queue' : queue'[i].session # job[w].session
      BY <2>3, <2>6, <1>types DEF JobsDistinct
    <3> QED
      BY <1>5, <3>1, <3>2, <1>types DEF JobsDistinct
  <2> QED
    BY <1>1, <1>5, <2>4, <2>8, <2>9, <1>types, ForgetKeeps DEF Invariant
<1>7. ASSUME ~poolOpen PROVE Invariant'
  <2>1. UNCHANGED <<queue, inflight>>
    BY <1>7 DEF Trigger, Submit
  <2>2. TypeOK'
    BY <1>1, <1>3, <1>4, <1>5, <2>1, <1>types, ForgetKeeps DEF TypeOK
  <2>3. \A i \in DOMAIN queue : queue[i].session \in Sessions /\ queue[i].session # s
    BY <1>2, <1>types DEF JobsInFlight, TypeOK, Jobs
  <2>4. \A w \in Workers : job[w] # None =>
          job[w].session \in Sessions /\ job[w].session # s
    BY <1>2, <1>types DEF JobsInFlight, TypeOK, Jobs
  <2>5. JobsInFlight'
    BY <1>4, <1>5, <2>1, <2>3, <2>4, <1>types DEF JobsInFlight, TypeOK
  <2>6. JobsDistinct'
    BY <1>5, <2>1, <1>types DEF JobsDistinct
  <2> QED
    BY <1>1, <1>5, <2>2, <2>5, <2>6, <1>types, ForgetKeeps DEF Invariant
<1> QED
  BY <1>6, <1>7, <1>types DEF TypeOK

\* A pool thread takes the first job of the queue.
LEMMA TakesStep ==
  ASSUME Invariant, NEW w \in Workers, WorkerTakes(w)
  PROVE  Invariant'
<1>types. TypeOK /\ JobsInFlight /\ JobsDistinct /\ ErrorsRemembered
  BY DEF Invariant
<1>1. queue \in Seq(Jobs) /\ queue # << >>
  BY <1>types DEF TypeOK, WorkerTakes
<1>2. /\ queue' \in Seq(Jobs)
      /\ DOMAIN queue = 1..Len(queue)
      /\ DOMAIN queue' = 1..(Len(queue) - 1)
      /\ 1 \in DOMAIN queue /\ Head(queue) = queue[1] /\ Head(queue) \in Jobs
      /\ \A i \in DOMAIN queue' : i + 1 \in DOMAIN queue /\ queue'[i] = queue[i + 1]
  BY <1>1 DEF WorkerTakes
<1>3. /\ job' = [job EXCEPT ![w] = Head(queue)]
      /\ at' = [at EXCEPT ![w] = "wait"]
      /\ UNCHANGED <<cache, runAge, errorAge, inflight, reply, poolOpen, started,
                     failedAge, forgotten>>
  BY DEF WorkerTakes, Goto, limitVars, historyVars
<1>4. job[w] = None /\ Head(queue) # None
  BY <1>2, <1>types, NoneAssumption DEF JobsInFlight, WorkerTakes, Jobs
<1>5. TypeOK'
  BY <1>2, <1>3, <1>types DEF TypeOK
<1>6. JobsInFlight'
  <2>1. \A v \in Workers : job'[v] = None <=> at'[v] = "idle"
    BY <1>3, <1>4, <1>types DEF JobsInFlight, TypeOK
  <2>2. \A i \in DOMAIN queue' :
          queue'[i].session \in inflight' /\ queue'[i].no = started'[queue'[i].session]
    BY <1>2, <1>3, <1>types DEF JobsInFlight
  <2>3. \A v \in Workers : job'[v] # None =>
          job'[v].session \in inflight' /\ job'[v].no = started'[job'[v].session]
    BY <1>2, <1>3, <1>types DEF JobsInFlight, TypeOK
  <2> QED
    BY <2>1, <2>2, <2>3 DEF JobsInFlight
<1>7. JobsDistinct'
  <2>1. \A i, j \in DOMAIN queue' : queue'[i].session = queue'[j].session => i = j
    <3> SUFFICES ASSUME NEW i \in DOMAIN queue', NEW j \in DOMAIN queue',
                        queue'[i].session = queue'[j].session
                 PROVE  i = j
      OBVIOUS
    <3>1. i + 1 = j + 1
      BY <1>2, <1>types DEF JobsDistinct
    <3> QED
      BY <1>2, <3>1
  <2>2. \A i \in DOMAIN queue' : queue'[i].session # Head(queue).session
    <3> SUFFICES ASSUME NEW i \in DOMAIN queue', queue'[i].session = Head(queue).session
                 PROVE  FALSE
      OBVIOUS
    <3>1. i + 1 = 1 /\ i \in 1..(Len(queue) - 1)
      BY <1>2, <1>types DEF JobsDistinct
    <3> QED
      BY <1>1, <3>1
  <2>3. ASSUME NEW v \in Workers, job'[v] # None
        PROVE  /\ \A i \in DOMAIN queue' : queue'[i].session # job'[v].session
               /\ \A u \in Workers :
                    job'[u] # None /\ job'[u].session = job'[v].session => u = v
    <3>1. job'[w] = queue[1] /\ \A u \in Workers \ {w} : job'[u] = job[u]
      BY <1>2, <1>3, <1>types DEF TypeOK
    <3>2. \A u \in Workers \ {w} : job[u] # None =>
            /\ job[u].session # queue[1].session
            /\ \A i \in DOMAIN queue' : queue'[i].session # job[u].session
      BY <1>2, <1>types DEF JobsDistinct
    <3>3. CASE v = w
      BY <1>2, <2>2, <2>3, <3>1, <3>2, <3>3
    <3>4. CASE v # w
      <4>1. \A u \in Workers \ {w} :
              job[u] # None /\ job[u].session = job[v].session => u = v
        BY <2>3, <3>1, <3>4, <1>types DEF JobsDistinct
      <4> QED
        BY <2>3, <3>1, <3>2, <3>4, <4>1
    <3> QED
      BY <3>3, <3>4
  <2> QED
    BY <2>1, <2>3 DEF JobsDistinct
<1>8. ErrorsRemembered'
  BY <1>3, <1>types DEF ErrorsRemembered
<1> QED
  BY <1>5, <1>6, <1>7, <1>8 DEF Invariant

\* An answer, or the end of the wait for it, touches the reply only.
LEMMA ReplyStep ==
  ASSUME Invariant, NEW w \in Workers, Answer(w) \/ TimeOut(w)
  PROVE  Invariant'
<1>types. TypeOK /\ JobsInFlight /\ JobsDistinct /\ ErrorsRemembered
  BY DEF Invariant
<1>1. /\ at[w] = "wait" /\ at' = [at EXCEPT ![w] = "store"]
      /\ UNCHANGED <<cache, runAge, errorAge, inflight, queue, job, poolOpen, started,
                     failedAge, forgotten>>
  BY DEF Answer, TimeOut, Goto, limitVars, historyVars
<1>2. reply' \in [Workers -> {"ok", "failed"}]
  BY <1>types DEF Answer, TimeOut, TypeOK
<1>3. TypeOK'
  BY <1>1, <1>2, <1>types DEF TypeOK
<1>4. JobsInFlight'
  BY <1>1, <1>types DEF JobsInFlight, TypeOK
<1>5. JobsDistinct' /\ ErrorsRemembered'
  BY <1>1, <1>types DEF JobsDistinct, ErrorsRemembered
<1> QED
  BY <1>3, <1>4, <1>5 DEF Invariant

\* A job whose answer is stored is the newest of its session.
LEMMA StoresNewest ==
  ASSUME TypeOK, JobsInFlight, NEW w \in Workers, Store(w)
  PROVE  job[w] \in Jobs /\ job[w].no = started[job[w].session]
<1>1. job[w] # None
  BY DEF Store, JobsInFlight
<1> QED
  BY <1>1 DEF TypeOK, JobsInFlight

\* Storing sets the age of the failure, for the code and in history, or touches neither.
LEMMA StoreStep ==
  ASSUME Invariant, NEW w \in Workers, Store(w)
  PROVE  Invariant'
<1> USE BoundsAssumption, HorizonIsNat
<1>types. TypeOK /\ JobsInFlight /\ JobsDistinct /\ ErrorsRemembered
  BY DEF Invariant
<1>1. job[w] \in Jobs /\ job[w].session \in Sessions /\ job[w].no \in Nat
  BY <1>types, StoresNewest DEF Jobs
<1>2. /\ at[w] = "store" /\ at' = [at EXCEPT ![w] = "final"]
      /\ UNCHANGED <<runAge, inflight, queue, job, reply, poolOpen, started>>
  BY DEF Store, Goto
<1>3. cache' \in [Sessions -> Drafts \cup {None}]
  <2>1. [ok |-> ~(reply[w] = "failed"), no |-> job[w].no, age |-> 0] \in Drafts
    BY <1>1 DEF Drafts
  <2> QED
    BY <1>1, <2>1, <1>types DEF Store, TypeOK
<1>4. /\ errorAge' \in [Sessions -> 0..Backoff]
      /\ failedAge' \in [Sessions -> 0..Backoff]
      /\ forgotten' \in SUBSET Sessions
      /\ ErrorsRemembered'
  <2>1. CASE reply[w] = "failed"
    <3>1. /\ errorAge' = [errorAge EXCEPT ![job[w].session] = 0]
          /\ failedAge' = [failedAge EXCEPT ![job[w].session] = 0]
          /\ forgotten' = forgotten \ {job[w].session}
      BY <2>1 DEF Store
    <3> QED
      BY <1>1, <3>1, <1>types DEF TypeOK, ErrorsRemembered
  <2>2. CASE reply[w] # "failed"
    BY <2>2, <1>types DEF Store, TypeOK, ErrorsRemembered
  <2> QED
    BY <2>1, <2>2
<1>5. TypeOK'
  BY <1>2, <1>3, <1>4, <1>types DEF TypeOK
<1>6. JobsInFlight'
  BY <1>2, <1>types DEF JobsInFlight, TypeOK
<1>7. JobsDistinct'
  BY <1>2, <1>types DEF JobsDistinct
<1> QED
  BY <1>4, <1>5, <1>6, <1>7 DEF Invariant

\* The session leaves _INFLIGHT with its only job.
LEMMA FinalStep ==
  ASSUME Invariant, NEW w \in Workers, Final(w)
  PROVE  Invariant'
<1>types. TypeOK /\ JobsInFlight /\ JobsDistinct /\ ErrorsRemembered
  BY DEF Invariant
<1>1. /\ at[w] = "final" /\ at' = [at EXCEPT ![w] = "idle"]
      /\ job' = [job EXCEPT ![w] = None]
      /\ inflight' = inflight \ {job[w].session}
      /\ reply' = [reply EXCEPT ![w] = "ok"]
      /\ UNCHANGED <<cache, runAge, errorAge, queue, poolOpen, started, failedAge,
                     forgotten>>
  BY DEF Final, Goto, limitVars, historyVars
<1>2. job[w] # None
  BY <1>1, <1>types DEF JobsInFlight
<1>3. job'[w] = None /\ \A v \in Workers \ {w} : job'[v] = job[v]
  BY <1>1, <1>types DEF TypeOK
<1>4. TypeOK'
  BY <1>1, <1>types DEF TypeOK
<1>5. JobsInFlight'
  <2>1. \A v \in Workers : job'[v] = None <=> at'[v] = "idle"
    BY <1>1, <1>3, <1>types DEF JobsInFlight, TypeOK
  <2>2. \A i \in DOMAIN queue : queue[i].session # job[w].session
    BY <1>2, <1>types DEF JobsDistinct
  <2>3. \A v \in Workers \ {w} : job[v] # None => job[v].session # job[w].session
    BY <1>2, <1>types DEF JobsDistinct
  <2> QED
    BY <1>1, <1>3, <2>1, <2>2, <2>3, <1>types DEF JobsInFlight
<1>6. JobsDistinct'
  BY <1>1, <1>3, <1>types DEF JobsDistinct
<1>7. ErrorsRemembered'
  BY <1>1, <1>types DEF ErrorsRemembered
<1> QED
  BY <1>4, <1>5, <1>6, <1>7 DEF Invariant

\* Time passes alike for what the code remembers of a failure and for the failure.
LEMMA TickStep == Invariant /\ Tick => Invariant'
<1> SUFFICES ASSUME Invariant, Tick PROVE Invariant'
  OBVIOUS
<1> USE BoundsAssumption, HorizonIsNat
<1>types. TypeOK /\ JobsInFlight /\ JobsDistinct /\ ErrorsRemembered
  BY DEF Invariant
<1>1. /\ runAge' \in [Sessions -> 0..MinInterval]
      /\ errorAge' \in [Sessions -> 0..Backoff]
      /\ failedAge' \in [Sessions -> 0..Backoff]
  BY <1>types, OlderAges DEF Tick, TypeOK
<1>2. cache' \in [Sessions -> Drafts \cup {None}]
  <2>1. ASSUME NEW s \in Sessions, cache[s] # None
        PROVE  [cache[s] EXCEPT !.age = Min({@ + 1, Horizon + 1})] \in Drafts
    <3>1. cache[s] \in Drafts /\ cache[s].age \in Nat /\ cache[s].age + 1 \in Nat
      BY <2>1, <1>types DEF TypeOK, Drafts
    <3>2. Min({cache[s].age + 1, Horizon + 1}) \in 0..(Horizon + 1)
      BY <3>1, MinOfTwo
    <3> QED
      BY <3>1, <3>2 DEF Drafts
  <2> QED
    BY <2>1 DEF Tick
<1>3. UNCHANGED <<inflight, queue, job, at, reply, poolOpen, started, forgotten>>
  BY DEF Tick, poolVars
<1>4. TypeOK'
  BY <1>1, <1>2, <1>3, <1>types DEF TypeOK
<1>5. JobsInFlight' /\ JobsDistinct'
  BY <1>3, <1>types DEF JobsInFlight, JobsDistinct
<1>6. ErrorsRemembered'
  BY <1>3, <1>types DEF Tick, Older, ErrorsRemembered
<1> QED
  BY <1>4, <1>5, <1>6 DEF Invariant

\* Every step, and every stutter, keeps the invariant.
LEMMA InvariantStep == Invariant /\ [Next]_vars => Invariant'
<1> SUFFICES ASSUME Invariant, [Next]_vars PROVE Invariant'
  OBVIOUS
<1>types. TypeOK /\ JobsInFlight /\ JobsDistinct /\ ErrorsRemembered
  BY DEF Invariant
<1>1. ASSUME ServeOnly PROVE Invariant'
  <2>1. PICK gone \in Swept :
          /\ Forget(gone)
          /\ runAge' = [s \in Sessions |-> IF s \in gone THEN MinInterval ELSE runAge[s]]
    BY <1>1 DEF ServeOnly
  <2>2. runAge' \in [Sessions -> 0..MinInterval]
    BY <2>1, <1>types, BoundsAssumption DEF TypeOK
  <2>3. UNCHANGED <<inflight, queue, job, at, reply, poolOpen, started, failedAge>>
    BY <1>1 DEF ServeOnly, poolVars
  <2>4. TypeOK'
    BY <2>1, <2>2, <2>3, <1>types, ForgetKeeps DEF TypeOK
  <2>5. JobsInFlight' /\ JobsDistinct'
    BY <2>3, <1>types DEF JobsInFlight, JobsDistinct
  <2> QED
    BY <2>1, <2>3, <2>4, <2>5, <1>types, ForgetKeeps DEF Invariant
<1>2. ASSUME NEW s \in Sessions, NEW force \in BOOLEAN, Trigger(s, force)
      PROVE  Invariant'
  BY <1>2, TriggerStep
<1>3. ASSUME NEW w \in Workers, Progress(w) \/ Answer(w) PROVE Invariant'
  BY <1>3, TakesStep, ReplyStep, StoreStep, FinalStep DEF Progress
<1>4. ASSUME PoolCloses PROVE Invariant'
  BY <1>4, <1>types
  DEF PoolCloses, limitVars, historyVars, Invariant, TypeOK, JobsInFlight, JobsDistinct,
      ErrorsRemembered
<1>5. ASSUME UNCHANGED vars PROVE Invariant'
  BY <1>5, <1>types
  DEF vars, limitVars, poolVars, historyVars, Invariant, TypeOK, JobsInFlight,
      JobsDistinct, ErrorsRemembered
<1> QED
  BY <1>1, <1>2, <1>3, <1>4, <1>5, TickStep DEF Next

\* The invariant holds in every reachable state.
THEOREM InvariantHolds == Spec => []Invariant
<1> QED
  BY InvariantInit, InvariantStep, PTL DEF Spec

\* Type correctness of the reasoner's caches, limits and pool.
THEOREM TypeCorrect == Spec => []TypeOK
<1>1. Invariant => TypeOK
  BY DEF Invariant
<1> QED
  BY <1>1, InvariantHolds, PTL

\* maybe_trigger() starts no job for a session during the back-off after its
\* failure, forced or not, unless a sweep has forgotten the session.
THEOREM BackoffCorrect == Spec => BackoffUnlessForgotten
<1>1. ASSUME Invariant, [Next]_vars, NEW s \in Sessions, started'[s] > started[s]
      PROVE  failedAge[s] >= Backoff \/ s \in forgotten'
  <2> USE BoundsAssumption
  <2>types. TypeOK /\ ErrorsRemembered
    BY <1>1 DEF Invariant
  <2>1. PICK t \in Sessions, force \in BOOLEAN : Trigger(t, force)
    <3>1. ~(started' = started)
      BY <1>1, <2>types DEF TypeOK
    <3> QED
      BY <1>1, <3>1
      DEF Next, ServeOnly, Progress, WorkerTakes, TimeOut, Store, Final, Answer, Tick,
          PoolCloses, vars, historyVars
  <2>2. t = s
    BY <1>1, <2>1, <2>types DEF Trigger, TypeOK
  <2>3. PICK gone \in Swept : MayTrigger(s, gone, force) /\ Forget(gone)
    BY <2>1, <2>2 DEF Trigger
  <2>4. s \in gone \/ errorAge[s] >= Backoff
    BY <2>3 DEF MayTrigger, RateAllows
  <2>5. forgotten' = forgotten \cup gone
    BY <2>3 DEF Forget
  <2> QED
    BY <2>4, <2>5, <2>types DEF ErrorsRemembered
<1>2. Invariant /\ [Next]_vars =>
        \A s \in Sessions :
          started'[s] > started[s] => failedAge[s] >= Backoff \/ s \in forgotten'
  BY <1>1
<1> QED
  BY <1>2, InvariantHolds, PTL DEF Spec, BackoffUnlessForgotten

\* An answer that is stored is to the newest question asked for the session, and
\* a failure takes no good draft's place.
THEOREM DraftsCorrect == Spec => DraftsAdvance
<1>1. ASSUME Invariant, [Next]_vars, NEW s \in Sessions, cache'[s] # None,
             \/ cache[s] = None
             \/ cache'[s].age < cache[s].age
             \/ cache'[s].no # cache[s].no
      PROVE  /\ cache'[s].no = started[s]
             /\ cache[s] # None /\ cache[s].ok => cache'[s].ok
  <2> USE BoundsAssumption, HorizonIsNat
  <2>types. TypeOK /\ JobsInFlight
    BY <1>1 DEF Invariant
  <2>1. cache'[s] # cache[s]
    BY <1>1, <2>types DEF TypeOK, Drafts
  <2>2. ASSUME NEW gone, Forget(gone) PROVE FALSE
    BY <1>1, <2>1, <2>2 DEF Forget
  <2>3. ASSUME Tick PROVE FALSE
    <3>1. cache[s] # None /\ cache'[s] = [cache[s] EXCEPT !.age = Min({@ + 1, Horizon + 1})]
      BY <1>1, <2>3 DEF Tick
    <3>2. cache[s] \in Drafts
      BY <3>1, <2>types DEF TypeOK
    <3>3. cache[s].age <= Horizon + 1 /\ cache[s].age \in Nat
      BY <3>2 DEF Drafts
    <3>4. /\ Min({cache[s].age + 1, Horizon + 1}) \in Nat
          /\ Min({cache[s].age + 1, Horizon + 1}) >= cache[s].age
      <4>1. cache[s].age + 1 \in Nat /\ Horizon + 1 \in Nat
        BY <3>3
      <4> QED
        BY <3>3, <4>1, MinOfTwo
    <3>5. cache'[s].no = cache[s].no /\ cache'[s].age = Min({cache[s].age + 1, Horizon + 1})
      BY <3>1, <3>2 DEF Drafts
    <3> QED
      BY <1>1, <3>1, <3>3, <3>4, <3>5
  <2>4. PICK w \in Workers : Store(w)
    BY <1>1, <2>1, <2>2, <2>3
    DEF Next, ServeOnly, Trigger, Progress, WorkerTakes, TimeOut, Final, Answer,
        PoolCloses, vars
  <2>5. job[w] \in Jobs /\ job[w].no = started[job[w].session]
    BY <2>4, <2>types, StoresNewest
  <2>6. /\ s = job[w].session
        /\ cache'[s] = [ok |-> ~(reply[w] = "failed"), no |-> job[w].no, age |-> 0]
        /\ ~(reply[w] = "failed" /\ ~FailureStored(s))
    BY <2>1, <2>4, <2>types DEF Store, TypeOK
  <2>7. cache'[s].no = started[s] /\ cache'[s].ok = (reply[w] # "failed")
    BY <2>5, <2>6
  <2>8. reply[w] = "failed" => ~(cache[s] # None /\ cache[s].ok)
    BY <2>6 DEF FailureStored
  <2> QED
    BY <2>7, <2>8, Zenon
<1>2. Invariant /\ [Next]_vars =>
        \A s \in Sessions :
          cache'[s] # None /\ (cache[s] = None \/ cache'[s].age < cache[s].age
                                 \/ cache'[s].no # cache[s].no) =>
            /\ cache'[s].no = started[s]
            /\ cache[s] # None /\ cache[s].ok => cache'[s].ok
  BY <1>1
<1> QED
  BY <1>2, InvariantHolds, PTL DEF Spec, DraftsAdvance

\* A session stays in flight only as long as it has a job.
LEMMA HasJobStep == Invariant /\ InFlightHasJob /\ [Next]_vars => InFlightHasJob'
<1> SUFFICES ASSUME Invariant, InFlightHasJob, [Next]_vars, NEW s \in inflight'
             PROVE  \/ \E i \in DOMAIN queue' : queue'[i].session = s
                    \/ \E w \in Workers : job'[w] # None /\ job'[w].session = s
  BY DEF InFlightHasJob
<1>types. TypeOK /\ JobsInFlight
  BY DEF Invariant
<1>0. queue \in Seq(Jobs)
  BY <1>types DEF TypeOK
<1>1. CASE UNCHANGED <<inflight, queue, job>>
  BY <1>1 DEF InFlightHasJob
<1>2. ASSUME NEW t \in Sessions, NEW force \in BOOLEAN, Trigger(t, force), poolOpen
      PROVE  \/ \E i \in DOMAIN queue' : queue'[i].session = s
             \/ \E w \in Workers : job'[w] # None /\ job'[w].session = s
  <2> DEFINE new == [session |-> t, no |-> started[t] + 1]
  <2>1. /\ queue' = Append(queue, new) /\ inflight' = inflight \cup {t}
        /\ UNCHANGED job
    BY <1>2 DEF Trigger, Submit
  <2>2. /\ DOMAIN queue' = 1..(Len(queue) + 1) /\ DOMAIN queue = 1..Len(queue)
        /\ Len(queue) \in Nat
        /\ queue'[Len(queue) + 1] = new
        /\ \A i \in DOMAIN queue : queue'[i] = queue[i]
    BY <1>0, <2>1
  <2>3. CASE s = t
    <3>1. Len(queue) + 1 \in DOMAIN queue' /\ queue'[Len(queue) + 1].session = s
      BY <2>2, <2>3
    <3> QED
      BY <3>1
  <2>4. CASE s \in inflight
    BY <2>1, <2>2, <2>4 DEF InFlightHasJob
  <2> QED
    BY <2>1, <2>3, <2>4
<1>3. ASSUME NEW w \in Workers, WorkerTakes(w)
      PROVE  \/ \E i \in DOMAIN queue' : queue'[i].session = s
             \/ \E v \in Workers : job'[v] # None /\ job'[v].session = s
  <2>1. /\ queue # << >> /\ queue' = Tail(queue) /\ UNCHANGED inflight
        /\ job' = [job EXCEPT ![w] = Head(queue)]
    BY <1>3 DEF WorkerTakes
  <2>2. /\ DOMAIN queue = 1..Len(queue) /\ DOMAIN queue' = 1..(Len(queue) - 1)
        /\ Len(queue) \in Nat
        /\ Head(queue) = queue[1] /\ Head(queue) \in Jobs
        /\ \A i \in DOMAIN queue' : queue'[i] = queue[i + 1]
    BY <1>0, <2>1
  <2>3. /\ job[w] = None /\ Head(queue) # None
        /\ job'[w] = Head(queue) /\ \A v \in Workers \ {w} : job'[v] = job[v]
    BY <1>3, <2>1, <2>2, <1>types, NoneAssumption
    DEF WorkerTakes, TypeOK, JobsInFlight, Jobs
  <2>4. ASSUME NEW i \in DOMAIN queue, queue[i].session = s
        PROVE  \/ \E j \in DOMAIN queue' : queue'[j].session = s
               \/ \E v \in Workers : job'[v] # None /\ job'[v].session = s
    <3>1. CASE i = 1
      BY <2>2, <2>3, <2>4, <3>1
    <3>2. CASE i # 1
      <4>1. i - 1 \in DOMAIN queue' /\ queue'[i - 1] = queue[i]
        BY <2>2, <3>2
      <4> QED
        BY <2>4, <4>1
    <3> QED
      BY <3>1, <3>2
  <2>5. ASSUME NEW v \in Workers, job[v] # None, job[v].session = s
        PROVE  job'[v] # None /\ job'[v].session = s
    BY <2>3, <2>5
  <2> QED
    BY <2>1, <2>4, <2>5 DEF InFlightHasJob
<1>4. ASSUME NEW w \in Workers, Final(w)
      PROVE  \/ \E i \in DOMAIN queue' : queue'[i].session = s
             \/ \E v \in Workers : job'[v] # None /\ job'[v].session = s
  <2>1. /\ inflight' = inflight \ {job[w].session} /\ UNCHANGED queue
        /\ job' = [job EXCEPT ![w] = None]
    BY <1>4 DEF Final
  <2>2. \A v \in Workers : v # w => job'[v] = job[v]
    BY <2>1, <1>types DEF TypeOK
  <2> QED
    BY <2>1, <2>2 DEF InFlightHasJob
<1> QED
  BY <1>1, <1>2, <1>3, <1>4
  DEF Next, ServeOnly, Trigger, Submit, Progress, Answer, TimeOut, Store, Tick,
      PoolCloses, poolVars, vars

\* _INFLIGHT holds exactly the sessions that have a job, and each has one: none is
\* left behind by a refusal, a failure or a timeout, and none is asked about twice.
THEOREM InflightCorrect == Spec => []InflightExact
<1>1. Init => InFlightHasJob
  BY DEF Init, InFlightHasJob
<1>2. ASSUME Invariant, InFlightHasJob PROVE InflightExact
  <2> SUFFICES ASSUME NEW s \in Sessions
               PROVE  JobsOf(s) = IF s \in inflight THEN 1 ELSE 0
    BY DEF InflightExact
  <2> DEFINE A == {i \in DOMAIN queue : queue[i].session = s}
             B == {w \in Workers : job[w] # None /\ job[w].session = s}
  <2>types. JobsInFlight /\ JobsDistinct
    BY <1>2 DEF Invariant
  <2>1. CASE s \notin inflight
    <3>1. A = {} /\ B = {}
      BY <2>1, <2>types DEF JobsInFlight
    <3>2. Cardinality(A) = 0 /\ Cardinality(B) = 0
      BY <3>1, FS_EmptySet
    <3> QED
      BY <2>1, <3>2 DEF JobsOf
  <2>2. ASSUME s \in inflight, NEW i \in A
        PROVE  JobsOf(s) = IF s \in inflight THEN 1 ELSE 0
    <3>1. A = {i} /\ B = {}
      BY <2>2, <2>types DEF JobsDistinct
    <3>2. Cardinality(A) = 1 /\ Cardinality(B) = 0
      BY <3>1, FS_EmptySet, FS_Singleton
    <3> QED
      BY <2>2, <3>2 DEF JobsOf
  <2>3. ASSUME s \in inflight, NEW w \in B
        PROVE  JobsOf(s) = IF s \in inflight THEN 1 ELSE 0
    <3>1. A = {} /\ B = {w}
      BY <2>3, <2>types DEF JobsDistinct
    <3>2. Cardinality(A) = 0 /\ Cardinality(B) = 1
      BY <3>1, FS_EmptySet, FS_Singleton
    <3> QED
      BY <2>3, <3>2 DEF JobsOf
  <2> QED
    BY <1>2, <2>1, <2>2, <2>3 DEF InFlightHasJob
<1> QED
  BY <1>1, <1>2, HasJobStep, InvariantHolds, PTL DEF Spec

(***************************************************************************)
(* Each session is an AnswerBox.                                           *)
(***************************************************************************)
\* What is shown stays or is forgotten while nothing else of the session moves.
LEMMA BoxRests ==
  ASSUME NEW s \in Sessions, started'[s] = started[s], BoxPhase(s)' = BoxPhase(s),
         Shown(s)' = Shown(s) \/ Shown(s)' = None
  PROVE  [Box(s)!BoxNext]_(Box(s)!boxVars)
BY DEF Box!BoxNext, Box!Forget, Box!boxVars

\* The phase depends on the jobs of the session only.
LEMMA PhaseRests ==
  ASSUME NEW s \in Sessions, s \in inflight' <=> s \in inflight,
         \A w \in Workers :
           (at[w] = "final" /\ job[w].session = s)'
             <=> at[w] = "final" /\ job[w].session = s
  PROVE  BoxPhase(s)' = BoxPhase(s)
BY DEF BoxPhase

\* A question is asked of an idle box, and of no other.
LEMMA TriggerBox ==
  ASSUME Invariant, NEW t \in Sessions, NEW force \in BOOLEAN, Trigger(t, force),
         NEW s \in Sessions
  PROVE  [Box(s)!BoxNext]_(Box(s)!boxVars)
<1>types. TypeOK /\ JobsInFlight
  BY DEF Invariant
<1>1. PICK gone \in Swept : MayTrigger(t, gone, force) /\ Forget(gone)
  BY DEF Trigger
<1>2. /\ started' = [started EXCEPT ![t] = @ + 1]
      /\ UNCHANGED <<job, at>>
      /\ inflight' = inflight \cup {t} \/ inflight' = inflight
  BY DEF Trigger, Submit
<1>3. Shown(s)' = Shown(s) \/ Shown(s)' = None
  BY <1>1 DEF Forget, Shown
<1>4. CASE s # t
  <2>1. started'[s] = started[s]
    BY <1>2, <1>4, <1>types DEF TypeOK
  <2>2. BoxPhase(s)' = BoxPhase(s)
    BY <1>2, <1>4, PhaseRests
  <2> QED
    BY <1>3, <2>1, <2>2, BoxRests
<1>5. CASE s = t
  <2>1. s \notin inflight
    BY <1>1, <1>5 DEF MayTrigger
  <2>2. \A w \in Workers : at[w] = "final" => job[w].session # s
    BY <2>1, <1>types DEF JobsInFlight
  <2>3. BoxPhase(s) = "idle" /\ BoxPhase(s)' \in {"asked", "idle"}
    BY <1>2, <2>1, <2>2 DEF BoxPhase
  <2>4. started'[s] = started[s] + 1
    BY <1>2, <1>5, <1>types DEF TypeOK
  <2>5. Box(s)!Ask
    BY <1>3, <2>3, <2>4 DEF Box!Ask
  <2> QED
    BY <2>5 DEF Box!BoxNext
<1> QED
  BY <1>4, <1>5

\* Storing answers the question that was asked, once.
LEMMA StoreBox ==
  ASSUME Invariant, NEW w \in Workers, Store(w), NEW s \in Sessions
  PROVE  [Box(s)!BoxNext]_(Box(s)!boxVars)
<1>types. TypeOK /\ JobsInFlight /\ JobsDistinct
  BY DEF Invariant
<1> DEFINE t == job[w].session
           told == [ok |-> reply[w] # "failed", no |-> job[w].no, age |-> 0]
<1>1. /\ at[w] = "store" /\ at' = [at EXCEPT ![w] = "final"]
      /\ UNCHANGED <<inflight, job, started>>
      /\ cache' = IF reply[w] = "failed" /\ ~FailureStored(t) THEN cache
                  ELSE [cache EXCEPT ![t] = told]
  BY DEF Store, Goto
<1>2. /\ job[w] # None /\ t \in Sessions /\ t \in inflight
      /\ job[w].no = started[t]
  BY <1>1, <1>types, StoresNewest DEF JobsInFlight, Jobs
<1>3. at'[w] = "final" /\ \A v \in Workers \ {w} : at'[v] = at[v]
  BY <1>1, <1>types DEF TypeOK
<1>4. CASE s # t
  <2>1. BoxPhase(s)' = BoxPhase(s)
    BY <1>1, <1>3, <1>4, PhaseRests
  <2>2. cache'[s] = cache[s]
    BY <1>1, <1>2, <1>4, <1>types DEF TypeOK
  <2>3. Shown(s)' = Shown(s)
    BY <2>2 DEF Shown
  <2> QED
    BY <1>1, <2>1, <2>3, BoxRests
<1>5. CASE s = t
  <2>1. ASSUME NEW v \in Workers, at[v] = "final" PROVE job[v].session # s
    <3>1. job[v] # None /\ v # w
      BY <1>1, <2>1, <1>types DEF JobsInFlight
    <3> QED
      BY <1>2, <1>5, <3>1, <1>types DEF JobsDistinct
  <2>2. BoxPhase(s) = "asked"
    BY <1>2, <1>5, <2>1 DEF BoxPhase
  <2>3. BoxPhase(s)' = "told"
    BY <1>1, <1>2, <1>3, <1>5 DEF BoxPhase
  <2>4. told # None
    <3>1. told \in [ok : BOOLEAN, no : Nat, age : Nat]
      BY <1>2, <1>types DEF TypeOK
    <3> QED
      BY <3>1, NoneAssumption
  <2>5. CASE reply[w] # "failed"
    <3>1. cache'[s] = told
      BY <1>1, <1>2, <1>5, <2>5, <1>types DEF TypeOK
    <3>2. Shown(s)' = [ok |-> TRUE, no |-> started[s]]
      <4>1. told.ok = TRUE /\ told.no = started[s]
        BY <1>2, <1>5, <2>5
      <4> QED
        BY <2>4, <3>1, <4>1 DEF Shown
    <3>3. Box(s)!Succeed
      BY <1>1, <2>2, <2>3, <3>2 DEF Box!Succeed
    <3> QED
      BY <3>3 DEF Box!BoxNext
  <2>6. CASE reply[w] = "failed" /\ FailureStored(s)
    <3>1. cache'[s] = told
      BY <1>1, <1>2, <1>5, <2>6, <1>types DEF TypeOK
    <3>2. Shown(s)' = [ok |-> FALSE, no |-> started[s]]
      <4>1. told.ok = FALSE /\ told.no = started[s]
        BY <1>2, <1>5, <2>6
      <4> QED
        BY <2>4, <3>1, <4>1 DEF Shown
    <3>3. ~(Shown(s) # None /\ Shown(s).ok)
      BY <2>6 DEF Shown, FailureStored
    <3>4. Box(s)!Fail
      BY <1>1, <2>2, <2>3, <3>2, <3>3 DEF Box!Fail
    <3> QED
      BY <3>4 DEF Box!BoxNext
  <2>7. CASE reply[w] = "failed" /\ ~FailureStored(s)
    <3>1. cache' = cache
      BY <1>1, <1>5, <2>7
    <3>2. cache[s] # None /\ cache[s].ok
      BY <2>7 DEF FailureStored
    <3>3. Shown(s)' = Shown(s)
      BY <3>1 DEF Shown
    <3>4. Shown(s) = [ok |-> cache[s].ok, no |-> cache[s].no]
      BY <3>2 DEF Shown
    <3>5. Shown(s) # None /\ Shown(s).ok
      <4>1. cache[s] \in Drafts
        BY <3>2, <1>5, <1>2, <1>types DEF TypeOK
      <4>2. Shown(s) \in [ok : BOOLEAN, no : Nat]
        BY <3>4, <4>1 DEF Drafts
      <4>3. Shown(s) # None
        BY <4>2, NoneAssumption
      <4>4. Shown(s).ok = cache[s].ok
        BY <3>4
      <4> QED
        BY <3>2, <4>3, <4>4, Zenon
    <3>6. Box(s)!Fail
      BY <1>1, <2>2, <2>3, <3>3, <3>5 DEF Box!Fail
    <3> QED
      BY <3>6 DEF Box!BoxNext
  <2> QED
    BY <2>5, <2>6, <2>7
<1> QED
  BY <1>4, <1>5

\* The job that has been answered leaves, and nothing else of any box moves.
LEMMA FinalBox ==
  ASSUME Invariant, NEW w \in Workers, Final(w), NEW s \in Sessions
  PROVE  [Box(s)!BoxNext]_(Box(s)!boxVars)
<1>types. TypeOK /\ JobsInFlight
  BY DEF Invariant
<1> DEFINE t == job[w].session
<1>1. /\ at[w] = "final" /\ at' = [at EXCEPT ![w] = "idle"]
      /\ inflight' = inflight \ {t}
      /\ job' = [job EXCEPT ![w] = None]
      /\ UNCHANGED <<cache, started>>
  BY DEF Final, Goto, historyVars
<1>2. t \in inflight
  BY <1>1, <1>types DEF JobsInFlight
<1>3. /\ at'[w] = "idle"
      /\ \A v \in Workers \ {w} : at'[v] = at[v] /\ job'[v] = job[v]
  BY <1>1, <1>types DEF TypeOK
<1>4. Shown(s)' = Shown(s)
  BY <1>1 DEF Shown
<1>5. CASE s # t
  <2>1. BoxPhase(s)' = BoxPhase(s)
    BY <1>1, <1>3, <1>5, PhaseRests
  <2> QED
    BY <1>1, <1>4, <2>1, BoxRests
<1>6. CASE s = t
  <2>1. BoxPhase(s) = "told" /\ BoxPhase(s)' = "idle"
    BY <1>1, <1>2, <1>6 DEF BoxPhase
  <2>2. Box(s)!Settle
    BY <1>1, <1>4, <2>1 DEF Box!Settle
  <2> QED
    BY <2>2 DEF Box!BoxNext
<1> QED
  BY <1>5, <1>6

\* Every step of the reasoner is a step or a stutter of each box.
LEMMA BoxStep ==
  ASSUME Invariant, [Next]_vars, NEW s \in Sessions
  PROVE  [Box(s)!BoxNext]_(Box(s)!boxVars)
<1>types. TypeOK /\ JobsInFlight
  BY DEF Invariant
<1>1. ASSUME ServeOnly PROVE [Box(s)!BoxNext]_(Box(s)!boxVars)
  <2>1. PICK gone \in Swept : Forget(gone)
    BY <1>1 DEF ServeOnly
  <2>2. UNCHANGED <<inflight, job, at, started>>
    BY <1>1 DEF ServeOnly, poolVars
  <2>3. Shown(s)' = Shown(s) \/ Shown(s)' = None
    BY <2>1 DEF Forget, Shown
  <2>4. BoxPhase(s)' = BoxPhase(s)
    BY <2>2 DEF BoxPhase
  <2> QED
    BY <2>2, <2>3, <2>4, BoxRests
<1>2. ASSUME NEW t \in Sessions, NEW force \in BOOLEAN, Trigger(t, force)
      PROVE  [Box(s)!BoxNext]_(Box(s)!boxVars)
  BY <1>2, TriggerBox
<1>3. ASSUME NEW w \in Workers, WorkerTakes(w) \/ Answer(w) \/ TimeOut(w)
      PROVE  [Box(s)!BoxNext]_(Box(s)!boxVars)
  <2>1. /\ UNCHANGED <<cache, inflight, started>>
        /\ at[w] \in {"idle", "wait"}
        /\ \E place \in {"wait", "store"} : at' = [at EXCEPT ![w] = place]
        /\ UNCHANGED job \/ \E j : job' = [job EXCEPT ![w] = j]
    BY <1>3 DEF WorkerTakes, Answer, TimeOut, Goto, historyVars
  <2>2. /\ at'[w] \in {"wait", "store"}
        /\ \A v \in Workers \ {w} : at'[v] = at[v] /\ job'[v] = job[v]
    BY <2>1, <1>types DEF TypeOK
  <2>3. BoxPhase(s)' = BoxPhase(s)
    BY <2>1, <2>2, PhaseRests
  <2>4. Shown(s)' = Shown(s)
    BY <2>1 DEF Shown
  <2> QED
    BY <2>1, <2>3, <2>4, BoxRests
<1>4. ASSUME Tick PROVE [Box(s)!BoxNext]_(Box(s)!boxVars)
  <2>1. UNCHANGED <<inflight, job, at, started>>
    BY <1>4 DEF Tick, poolVars
  <2>2. Shown(s)' = Shown(s)
    <3>1. CASE cache[s] = None
      BY <1>4, <3>1 DEF Tick, Shown
    <3>2. CASE cache[s] # None
      <4>1. cache[s] \in Drafts
        BY <3>2, <1>types DEF TypeOK
      <4>2. cache'[s] = [cache[s] EXCEPT !.age = Min({@ + 1, Horizon + 1})]
        BY <1>4, <3>2 DEF Tick
      <4>3. cache'[s] = [ok  |-> cache[s].ok, no |-> cache[s].no,
                         age |-> Min({cache[s].age + 1, Horizon + 1})]
        BY <4>1, <4>2 DEF Drafts
      <4>4. cache'[s] \in [ok : BOOLEAN, no : Nat, age : Nat]
        <5>1. cache[s].age + 1 \in Nat /\ Horizon + 1 \in Nat
          BY <4>1, HorizonIsNat DEF Drafts
        <5>2. Min({cache[s].age + 1, Horizon + 1}) \in Nat
          BY <5>1, MinOfTwo
        <5>3. cache[s].ok \in BOOLEAN /\ cache[s].no \in Nat
          BY <4>1 DEF Drafts
        <5> QED
          BY <4>3, <5>2, <5>3
      <4>5. cache'[s] # None
        BY <4>4, NoneAssumption
      <4>6. cache'[s].ok = cache[s].ok /\ cache'[s].no = cache[s].no
        BY <4>3
      <4> QED
        BY <3>2, <4>5, <4>6 DEF Shown
    <3> QED
      BY <3>1, <3>2
  <2>3. BoxPhase(s)' = BoxPhase(s)
    BY <2>1 DEF BoxPhase
  <2> QED
    BY <2>1, <2>2, <2>3, BoxRests
<1>5. ASSUME PoolCloses \/ UNCHANGED vars PROVE [Box(s)!BoxNext]_(Box(s)!boxVars)
  <2>1. UNCHANGED <<cache, inflight, job, at, started>>
    BY <1>5 DEF PoolCloses, vars, poolVars, historyVars
  <2>2. BoxPhase(s)' = BoxPhase(s) /\ Shown(s)' = Shown(s)
    BY <2>1 DEF BoxPhase, Shown
  <2> QED
    BY <2>1, <2>2, BoxRests
<1> QED
  BY <1>1, <1>2, <1>3, <1>4, <1>5, StoreBox, FinalBox DEF Next, Progress

\* Each session of the reasoner implements the abstract box: one question at a
\* time, each answered once, and no answer shown but the newest.
THEOREM BoxesImplemented == Spec => EverySessionIsABox
<1>1. Init => \A s \in Sessions : Box(s)!BoxInit
  BY DEF Init, Box!BoxInit, BoxPhase, Shown
<1>2. Invariant /\ [Next]_vars
        => [\A s \in Sessions : [Box(s)!BoxNext]_(Box(s)!boxVars)]_vars
  BY BoxStep
<1> QED
  BY InvariantHolds, <1>1, <1>2, PTL DEF Spec, EverySessionIsABox
=============================================================================
