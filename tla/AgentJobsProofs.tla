--------------------------- MODULE AgentJobsProofs ---------------------------
(***************************************************************************)
(* Safety of AgentJobs for any requests, pool, caps and approval gate.     *)
(* That the count of jobs is exact needs that a place is given back once;  *)
(* that an outcome is final needs that nobody else has a job to settle     *)
(* (JobsMoveOn), and that only the loop's own job is created (LoopWaits).  *)
(***************************************************************************)
EXTENDS AgentJobs, FiniteSetTheorems, SequenceTheorems, TLAPS

(***************************************************************************)
(* Queues and stores.                                                      *)
(***************************************************************************)
\* Appending adds one element at the end.
LEMMA AppendAdds ==
  ASSUME NEW S, NEW q \in Seq(S), NEW e \in S
  PROVE  /\ Append(q, e) \in Seq(S)
         /\ DOMAIN Append(q, e) = 1..(Len(q) + 1) /\ DOMAIN q = 1..Len(q)
         /\ \A i \in 1..Len(q) : Append(q, e)[i] = q[i]
         /\ Append(q, e)[Len(q) + 1] = e
         /\ ToSet(Append(q, e)) = ToSet(q) \cup {e}
<1>1. /\ Append(q, e) \in Seq(S) /\ Len(Append(q, e)) = Len(q) + 1
      /\ \A i \in 1..Len(q) : Append(q, e)[i] = q[i]
      /\ Append(q, e)[Len(q) + 1] = e
  BY AppendProperties
<1> DEFINE a == Append(q, e)
<1> HIDE DEF a
<1>2. DOMAIN a = 1..(Len(q) + 1) /\ DOMAIN q = 1..Len(q) /\ Len(q) \in Nat
  BY <1>1 DEF a
<1>3. ToSet(a) = ToSet(q) \cup {e}
  BY <1>1, <1>2 DEF ToSet, a
<1> QED
  BY <1>1, <1>2, <1>3 DEF a

\* What is evicted or taken from the front leaves a part of the elements.
LEMMA TailKeeps ==
  ASSUME NEW S, NEW q \in Seq(S), q # << >>
  PROVE  /\ Head(q) \in S /\ Head(q) = q[1] /\ 1 \in DOMAIN q
         /\ Tail(q) \in Seq(S) /\ Len(Tail(q)) = Len(q) - 1
         /\ DOMAIN q = 1..Len(q) /\ DOMAIN Tail(q) = 1..(Len(q) - 1)
         /\ \A i \in 1..(Len(q) - 1) : Tail(q)[i] = q[i + 1]
         /\ ToSet(Tail(q)) \subseteq ToSet(q)
<1>1. /\ Head(q) \in S /\ Tail(q) \in Seq(S) /\ Len(Tail(q)) = Len(q) - 1
      /\ \A i \in 1..Len(Tail(q)) : Tail(q)[i] = q[i + 1]
  BY HeadTailProperties
<1>2. Head(q) = q[1] /\ Len(q) \in Nat \ {0}
  OBVIOUS
<1> DEFINE t == Tail(q)
<1> HIDE DEF t
<1>3. DOMAIN t = 1..(Len(q) - 1) /\ DOMAIN q = 1..Len(q)
  BY <1>1, <1>2 DEF t
<1>4. ToSet(t) \subseteq ToSet(q)
  BY <1>1, <1>2, <1>3 DEF t, ToSet
<1> QED
  BY <1>1, <1>2, <1>3, <1>4 DEF t

\* The eviction loops keep the newest entries, and no others.
LEMMA NewestKeeps ==
  ASSUME NEW S, NEW q \in Seq(S), NEW n \in Nat \ {0}
  PROVE  Newest(q, n) \in Seq(S) /\ ToSet(Newest(q, n)) \subseteq ToSet(q)
<1>1. CASE Len(q) <= n
  BY <1>1 DEF Newest
<1>2. CASE ~(Len(q) <= n)
  <2> DEFINE m == Len(q) - n + 1
             r == SubSeq(q, m, Len(q))
  <2>1. m \in 1..Len(q) /\ Len(q) \in Nat
    BY <1>2
  <2> HIDE DEF m
  <2>2. \A i \in m..Len(q) : q[i] \in S
    BY <2>1
  <2>3. /\ r \in Seq(S) /\ Len(r) = Len(q) - m + 1
        /\ \A i \in 1..(Len(q) - m + 1) : r[i] = q[m + i - 1]
    BY <2>1, <2>2, SubSeqProperties
  <2>4. Newest(q, n) = r
    BY <1>2 DEF Newest, m
  <2> HIDE DEF r
  <2>5. DOMAIN r = 1..(Len(q) - m + 1) /\ DOMAIN q = 1..Len(q)
    BY <2>1, <2>3
  <2>6. ASSUME NEW i \in DOMAIN r PROVE r[i] \in ToSet(q)
    <3>1. i \in Nat /\ i >= 1 /\ i <= Len(q) - m + 1
      BY <2>1, <2>5
    <3>2. m + i - 1 \in 1..Len(q)
      BY <2>1, <3>1
    <3>3. m + i - 1 \in DOMAIN q /\ r[i] = q[m + i - 1]
      BY <2>1, <2>3, <2>5, <3>1, <3>2
    <3> QED
      BY <3>3 DEF ToSet
  <2>7. ToSet(r) \subseteq ToSet(q)
    BY <2>6 DEF ToSet
  <2> QED
    BY <2>3, <2>4, <2>7
<1> QED
  BY <1>1, <1>2

\* A draft that is registered joins drafts that already were.
LEMMA RegisterAdds ==
  ASSUME store \in Seq(Drafts), NEW a \in Drafts, Register(a)
  PROVE  store' \in Seq(Drafts) /\ ToSet(store') \subseteq ToSet(store) \cup {a}
<1>1. Append(store, a) \in Seq(Drafts) /\ ToSet(Append(store, a)) = ToSet(store) \cup {a}
  BY AppendAdds
<1>2. store' = Newest(Append(store, a), StoreMax) /\ StoreMax \in Nat \ {0}
  BY BoundsAssumption DEF Register
<1> QED
  BY <1>1, <1>2, NewestKeeps

(***************************************************************************)
(* Initial states and types.                                               *)
(***************************************************************************)
\* The initial states satisfy the invariant.
LEMMA InvariantInit == Init => Invariant
<1> SUFFICES ASSUME Init PROVE Invariant
  OBVIOUS
<1>1. None \notin Jobs
  BY NamesAssumption DEF Drafts
<1>2. TypeOK
  <2>1. stored \in Seq(Jobs) /\ queue \in Seq(Jobs) /\ store \in Seq(Drafts)
    BY DEF Init
  <2>2. status \in [Jobs -> Status] /\ agent \in [Jobs -> {"none", "running", "value", "raised"}]
    BY DEF Init, Status
  <2>3. /\ working \in [Workers -> Jobs \cup {None}]
        /\ verdict \in [Workers -> {"waits", "value", "error"}]
        /\ answer \in [Jobs -> {"none", "draft", "failed", "accepted", "refused"}]
    BY DEF Init
  <2>4. request \in [pc : RequestPc, job : Jobs \cup {None}]
    BY DEF Init, NoRequest, RequestPc
  <2> QED
    BY <2>1, <2>2, <2>3, <2>4 DEF Init, TypeOK
<1>3. ToSet(<< >>) = {}
  BY DEF ToSet
<1>4. LoopWaits
  BY <1>1, <1>3 DEF Init, LoopWaits, NoRequest, Untouched
<1>5. JobsMoveOn
  BY DEF Init, JobsMoveOn, NoRequest
<1>6. SuccessIsTheAgents
  BY DEF Init, SuccessIsTheAgents
<1>7. CountExact
  <2>1. {w \in Workers : working[w] # None} = {}
    BY DEF Init
  <2>2. Cardinality({w \in Workers : working[w] # None}) = 0
    BY <2>1, FS_EmptySet
  <2>3. Len(queue) = 0 /\ request.pc = "idle" /\ count = 0
    BY DEF Init, NoRequest
  <2> QED
    BY <2>2, <2>3, BoundsAssumption DEF CountExact
<1>8. OnlyOfferedDrafts
  BY <1>3 DEF Init, OnlyOfferedDrafts
<1> QED
  BY <1>2, <1>4, <1>5, <1>6, <1>7, <1>8 DEF Invariant

\* Types.
LEMMA TypeStep ==
  ASSUME Invariant, [Next]_vars
  PROVE  TypeOK'
<1> USE DEF TypeOK
<1>types. TypeOK
  BY DEF Invariant
<1>1. ASSUME NEW j \in Jobs, RefuseFull(j) PROVE TypeOK'
  BY <1>1, <1>types DEF RefuseFull, jobVars, poolVars, approvalVars
<1>2. ASSUME NEW j \in Jobs, CreateJob(j) PROVE TypeOK'
  <2>1. stored' \in Seq(Jobs)
    <3>1. Append(stored, j) \in Seq(Jobs)
      BY <1>types, AppendAdds
    <3> QED
      BY <1>2, <3>1, BoundsAssumption, NewestKeeps DEF CreateJob
  <2>2. status' \in [Jobs -> Status]
    BY <1>2, <1>types DEF CreateJob, Status
  <2>3. request' \in [pc : RequestPc, job : Jobs \cup {None}] /\ count' \in Nat
    BY <1>2, <1>types DEF CreateJob, RequestPc
  <2> QED
    BY <1>2, <1>types, <2>1, <2>2, <2>3 DEF CreateJob, poolVars, approvalVars
<1>3. ASSUME EnterPool PROVE TypeOK'
  <2>1. request.job \in Jobs
    BY <1>3 DEF EnterPool, Invariant, LoopWaits
  <2>2. queue' \in Seq(Jobs)
    BY <1>3, <1>types, <2>1, AppendAdds DEF EnterPool
  <2>3. request' \in [pc : RequestPc, job : Jobs \cup {None}]
    BY <1>3, <1>types DEF EnterPool, RequestPc
  <2> QED
    BY <1>3, <1>types, <2>2, <2>3 DEF EnterPool, jobVars, approvalVars
<1>4. ASSUME RefusedByPool PROVE TypeOK'
  <2>1. status' \in [Jobs -> Status]
    BY <1>4, <1>types DEF RefusedByPool, Mark, Status
  <2>2. count' \in Nat
    BY <1>4, <1>types DEF RefusedByPool
  <2>3. answer' \in [Jobs -> {"none", "draft", "failed", "accepted", "refused"}]
    BY <1>4, <1>types DEF RefusedByPool
  <2>4. request' \in [pc : RequestPc, job : Jobs \cup {None}]
    BY <1>4, <1>types DEF RefusedByPool, NoRequest, RequestPc
  <2> QED
    BY <1>4, <1>types, <2>1, <2>2, <2>3, <2>4 DEF RefusedByPool, poolVars, approvalVars
<1>5. ASSUME StopPolling PROVE TypeOK'
  BY <1>5, <1>types DEF StopPolling, RequestPc, jobVars, poolVars, approvalVars
<1>6. ASSUME Answer PROVE TypeOK'
  <2>1. request.job \in Jobs /\ request.job \in Drafts
    BY <1>6 DEF Answer, Invariant, LoopWaits, Drafts
  <2>2. store' \in Seq(Drafts)
    BY <1>6, <1>types, <2>1, RegisterAdds DEF Answer
  <2>3. answer' \in [Jobs -> {"none", "draft", "failed", "accepted", "refused"}]
    BY <1>6, <1>types, <2>1 DEF Answer
  <2>4. request' \in [pc : RequestPc, job : Jobs \cup {None}]
    BY <1>6, <1>types DEF Answer, NoRequest, RequestPc
  <2> QED
    BY <1>6, <1>types, <2>2, <2>3, <2>4 DEF Answer, jobVars, poolVars
<1>7. ASSUME NEW w \in Workers, WorkerTakes(w) PROVE TypeOK'
  <2>1. Head(queue) \in Jobs /\ queue' \in Seq(Jobs)
    BY <1>7, <1>types, TailKeeps DEF WorkerTakes
  <2>2. status' \in [Jobs -> Status]
    BY <1>7, <1>types, <2>1 DEF WorkerTakes, Mark, Status
  <2>3. working' \in [Workers -> Jobs \cup {None}]
    BY <1>7, <1>types, <2>1 DEF WorkerTakes
  <2>4. agent' \in [Jobs -> {"none", "running", "value", "raised"}]
    BY <1>7, <1>types, <2>1 DEF WorkerTakes
  <2> QED
    BY <1>7, <1>types, <2>1, <2>2, <2>3, <2>4 DEF WorkerTakes, approvalVars
<1>8. ASSUME NEW j \in Jobs, AgentEnds(j) PROVE TypeOK'
  BY <1>8, <1>types DEF AgentEnds, jobVars, approvalVars
<1>9. ASSUME NEW w \in Workers, StopWaiting(w) PROVE TypeOK'
  BY <1>9, <1>types DEF StopWaiting, jobVars, approvalVars
<1>10. ASSUME NEW w \in Workers, Settle(w) PROVE TypeOK'
  <2>1. status' \in [Jobs -> Status]
    BY <1>10, <1>types DEF Settle, Mark, Status
  <2>2. count' \in Nat
    BY <1>10, <1>types DEF Settle
  <2>3. working' \in [Workers -> Jobs \cup {None}]
    BY <1>10, <1>types DEF Settle
  <2> QED
    BY <1>10, <1>types, <2>1, <2>2, <2>3 DEF Settle, approvalVars
<1>11. ASSUME NEW a \in Previews, Preview(a) PROVE TypeOK'
  <2>1. store' \in Seq(Drafts)
    BY <1>11, <1>types, RegisterAdds DEF Preview, Drafts
  <2> QED
    BY <1>11, <1>types, <2>1 DEF Preview, jobVars, poolVars
<1>12. ASSUME NEW a \in Drafts, NEW approved, NEW by, Execute(a, approved, by) PROVE TypeOK'
  BY <1>12, <1>types DEF Execute, jobVars, poolVars
<1>13. ASSUME PoolCloses \/ DetectArrives \/ DetectServed \/ UNCHANGED vars PROVE TypeOK'
  BY <1>13, <1>types
    DEF PoolCloses, DetectArrives, DetectServed, vars, jobVars, poolVars, approvalVars
<1> QED
  BY <1>1, <1>2, <1>3, <1>4, <1>5, <1>6, <1>7, <1>8, <1>9, <1>10, <1>11, <1>12, <1>13
    DEF Next, RequestStep, WorkerStep

(***************************************************************************)
(* Where a job is.                                                         *)
(***************************************************************************)
\* The event loop and the jobs it has not answered for.
LEMMA LoopWaitsStep ==
  ASSUME Invariant, [Next]_vars
  PROVE  LoopWaits'
<1>types. TypeOK /\ LoopWaits
  BY DEF Invariant
<1>none. None \notin Jobs
  BY NamesAssumption DEF Drafts
<1>1. ASSUME NEW j \in Jobs, RefuseFull(j) PROVE LoopWaits'
  BY <1>1, <1>types, <1>none
    DEF RefuseFull, TypeOK, LoopWaits, LoopFree, NoRequest, Untouched, jobVars, poolVars
<1>2. ASSUME NEW j \in Jobs, CreateJob(j) PROVE LoopWaits'
  <2>1. request' = [pc |-> "submit", job |-> j] /\ UNCHANGED <<answer, poolVars>>
    BY <1>2 DEF CreateJob
  <2>2. request = NoRequest /\ answer[j] = "none"
    BY <1>2 DEF CreateJob, LoopFree
  <2>3. ASSUME NEW k \in Jobs, answer[k] = "none", k # j PROVE Untouched(k)'
    <3>1. Untouched(k)
      BY <1>types, <1>none, <2>2, <2>3 DEF LoopWaits, NoRequest
    <3>2. k \notin ToSet(stored) /\ status[k] = "none"
      BY <3>1 DEF Untouched
    <3>3. status'[k] = "none"
      BY <1>2, <2>3, <3>2 DEF CreateJob
    <3>4. k \notin ToSet(stored')
      <4>1. Append(stored, j) \in Seq(Jobs) /\ ToSet(Append(stored, j)) = ToSet(stored) \cup {j}
        BY <1>types, AppendAdds DEF TypeOK
      <4>2. stored' = Newest(Append(stored, j), JobsMax) /\ JobsMax \in Nat \ {0}
        BY <1>2, BoundsAssumption DEF CreateJob
      <4> DEFINE all == Append(stored, j)
      <4> HIDE DEF all
      <4>3. all \in Seq(Jobs) /\ ToSet(all) = ToSet(stored) \cup {j} /\ stored' = Newest(all, JobsMax)
        BY <4>1, <4>2 DEF all
      <4>4. ToSet(stored') \subseteq ToSet(all)
        BY <4>2, <4>3, NewestKeeps
      <4> QED
        BY <2>3, <3>2, <4>3, <4>4
    <3> QED
      BY <2>1, <3>1, <3>3, <3>4 DEF Untouched, poolVars
  <2> QED
    BY <1>none, <2>1, <2>2, <2>3 DEF LoopWaits
<1>3. ASSUME EnterPool PROVE LoopWaits'
  <2>1. /\ request.job \in Jobs /\ request.pc = "submit"
        /\ queue' = Append(queue, request.job)
        /\ request' = [request EXCEPT !.pc = "poll"]
        /\ UNCHANGED <<jobVars, working, agent, answer>>
    BY <1>3, <1>types DEF EnterPool, TypeOK, LoopWaits
  <2>2. request'.pc = "poll" /\ request'.job = request.job
    BY <1>types, <2>1 DEF TypeOK
  <2>3. ToSet(queue') = ToSet(queue) \cup {request.job}
    BY <1>types, <2>1, AppendAdds DEF TypeOK
  <2>4. ASSUME NEW k \in Jobs, answer[k] = "none", k # request.job PROVE Untouched(k)'
    BY <1>types, <2>1, <2>3, <2>4 DEF LoopWaits, Untouched, jobVars
  <2> QED
    BY <1>types, <2>1, <2>2, <2>4 DEF LoopWaits
<1>4. ASSUME NEW a \in {"draft", "failed", "accepted", "refused"}, request.pc # "idle",
             answer' = [answer EXCEPT ![request.job] = a], request' = NoRequest,
             UNCHANGED <<stored, poolVars>>,
             \A k \in Jobs : k # request.job => status'[k] = status[k]
      PROVE  LoopWaits'
  <2>1. ASSUME NEW k \in Jobs, answer'[k] = "none" PROVE Untouched(k)'
    <3>1. k # request.job /\ answer[k] = "none"
      BY <1>4, <1>types, <2>1 DEF TypeOK
    <3>2. Untouched(k)
      BY <1>types, <3>1 DEF LoopWaits
    <3> QED
      BY <1>4, <3>1, <3>2 DEF Untouched, poolVars
  <2> QED
    BY <1>4, <2>1 DEF LoopWaits, NoRequest
<1>5. ASSUME RefusedByPool PROVE LoopWaits'
  <2>1. \A k \in Jobs : k # request.job => status'[k] = status[k]
    BY <1>5, <1>types DEF RefusedByPool, TypeOK
  <2> QED
    BY <1>4, <1>5, <2>1 DEF RefusedByPool
<1>6. ASSUME Answer PROVE LoopWaits'
  <2>1. \E a \in {"draft", "failed", "accepted", "refused"} :
          answer' = [answer EXCEPT ![request.job] = a]
    BY <1>6 DEF Answer
  <2> QED
    BY <1>4, <1>6, <2>1 DEF Answer, jobVars
<1>7. ASSUME StopPolling PROVE LoopWaits'
  <2>1. /\ request' = [request EXCEPT !.pc = "answer"] /\ request.pc = "poll"
        /\ UNCHANGED <<jobVars, poolVars, answer>>
    BY <1>7 DEF StopPolling
  <2>2. request'.pc = "answer" /\ request'.job = request.job
    BY <1>types, <2>1 DEF TypeOK
  <2> QED
    BY <1>types, <2>1, <2>2 DEF LoopWaits, Untouched, jobVars, poolVars
<1>8. ASSUME UNCHANGED <<answer, request, stored>>,
             \A k \in Jobs : Untouched(k) => Untouched(k)'
      PROVE  LoopWaits'
  BY <1>8, <1>types DEF LoopWaits, NoRequest
<1>9. ASSUME NEW w \in Workers, WorkerTakes(w) PROVE LoopWaits'
  <2> DEFINE h == Head(queue)
  <2>1. h \in ToSet(queue) /\ ToSet(queue') \subseteq ToSet(queue)
    BY <1>9, <1>types, TailKeeps DEF WorkerTakes, TypeOK, ToSet
  <2>2. /\ status' = [status EXCEPT ![h] = Mark(h, "running")]
        /\ agent' = [agent EXCEPT ![h] = "running"]
        /\ working' = [working EXCEPT ![w] = h]
        /\ UNCHANGED <<stored, answer, request>>
    BY <1>9 DEF WorkerTakes
  <2> HIDE DEF h
  <2>3. ASSUME NEW k \in Jobs, Untouched(k) PROVE Untouched(k)'
    <3>1. k # h
      BY <2>1, <2>3 DEF Untouched
    <3> QED
      BY <1>types, <2>1, <2>2, <2>3, <3>1 DEF Untouched, TypeOK
  <2> QED
    BY <1>8, <2>2, <2>3
<1>10. ASSUME NEW j \in Jobs, AgentEnds(j) PROVE LoopWaits'
  <2>1. \A k \in Jobs : Untouched(k) => Untouched(k)'
    BY <1>10, <1>types DEF AgentEnds, Untouched, TypeOK, jobVars
  <2> QED
    BY <1>8, <1>10, <2>1 DEF AgentEnds, jobVars
<1>11. ASSUME NEW w \in Workers, StopWaiting(w) PROVE LoopWaits'
  <2>1. \A k \in Jobs : Untouched(k) => Untouched(k)'
    BY <1>11 DEF StopWaiting, Untouched, jobVars
  <2> QED
    BY <1>8, <1>11, <2>1 DEF StopWaiting, jobVars
<1>12. ASSUME NEW w \in Workers, Settle(w) PROVE LoopWaits'
  <2>1. working[w] # None
    BY <1>12 DEF Settle, Invariant, SuccessIsTheAgents
  <2>2. ASSUME NEW k \in Jobs, Untouched(k) PROVE Untouched(k)'
    <3>1. k # working[w]
      BY <2>2 DEF Untouched
    <3> QED
      BY <1>12, <1>types, <1>none, <2>2, <3>1 DEF Settle, Untouched, TypeOK
  <2> QED
    BY <1>8, <1>12, <2>2 DEF Settle
<1>13. ASSUME UNCHANGED <<jobVars, poolVars, request, answer>> PROVE LoopWaits'
  BY <1>13, <1>types DEF LoopWaits, NoRequest, Untouched, jobVars, poolVars
<1>14. ASSUME NEW a, Preview(a) PROVE LoopWaits'
  BY <1>13, <1>14 DEF Preview
<1>15. ASSUME NEW a, NEW approved, NEW by, Execute(a, approved, by) PROVE LoopWaits'
  BY <1>13, <1>15 DEF Execute
<1>16. ASSUME PoolCloses \/ DetectArrives \/ DetectServed \/ UNCHANGED vars PROVE LoopWaits'
  BY <1>13, <1>16 DEF PoolCloses, DetectArrives, DetectServed, vars, jobVars, poolVars
<1> QED
  BY <1>1, <1>2, <1>3, <1>5, <1>6, <1>7, <1>9, <1>10, <1>11, <1>12, <1>14, <1>15, <1>16
    DEF Next, RequestStep, WorkerStep

\* A job has one place: no thread takes, runs or settles it twice.
LEMMA JobsMoveOnStep ==
  ASSUME Invariant, [Next]_vars
  PROVE  JobsMoveOn'
<1>types. TypeOK /\ LoopWaits /\ JobsMoveOn /\ SuccessIsTheAgents
  BY DEF Invariant
<1>none. None \notin Jobs
  BY NamesAssumption DEF Drafts
<1>queued. \A i \in DOMAIN queue : queue[i] \in Jobs /\ queue[i] \in ToSet(queue)
  BY <1>types DEF TypeOK, ToSet
<1>1. ASSUME UNCHANGED <<status, queue, working, agent>>,
             request'.pc = "submit" => request' = request
      PROVE  JobsMoveOn'
  BY <1>1, <1>types DEF JobsMoveOn
<1>2. ASSUME NEW j \in Jobs, CreateJob(j) PROVE JobsMoveOn'
  <2>1. /\ request' = [pc |-> "submit", job |-> j] /\ Untouched(j)
        /\ UNCHANGED <<queue, working, agent>>
    BY <1>2, <1>types, <1>none DEF CreateJob, LoopFree, NoRequest, LoopWaits, poolVars
  <2>2. \A k \in Jobs : k # j => status'[k] \in {status[k], "gone"}
    BY <1>2 DEF CreateJob
  <2>3. status'[j] = "queued"
    BY <1>2 DEF CreateJob
  <2>4. \A i \in DOMAIN queue : queue[i] # j
    BY <2>1, <1>queued DEF Untouched
  <2>5. \A i \in DOMAIN queue' :
          status'[queue'[i]] \in {"queued", "gone"} /\ agent'[queue'[i]] = "none"
    BY <2>1, <2>2, <2>4, <1>queued, <1>types DEF JobsMoveOn
  <2>6. \A w \in Workers : working'[w] # None =>
          status'[working'[w]] \in {"running", "gone"} /\ agent'[working'[w]] # "none"
    BY <2>1, <2>2, <1>types DEF JobsMoveOn, Untouched, TypeOK
  <2> QED
    BY <1>types, <2>1, <2>3, <2>5, <2>6 DEF JobsMoveOn, Untouched
<1>3. ASSUME EnterPool PROVE JobsMoveOn'
  <2> DEFINE j == request.job
  <2>1. /\ j \in Jobs /\ j \notin ToSet(queue)
        /\ status[j] \in {"queued", "gone"} /\ agent[j] = "none"
        /\ UNCHANGED <<status, working, agent>> /\ request'.pc # "submit"
    BY <1>3, <1>types DEF EnterPool, TypeOK, LoopWaits, JobsMoveOn, jobVars
  <2>2. queue' = Append(queue, j)
    BY <1>3 DEF EnterPool
  <2> HIDE DEF j
  <2>3. /\ DOMAIN queue' = 1..(Len(queue) + 1) /\ DOMAIN queue = 1..Len(queue)
        /\ \A i \in 1..Len(queue) : queue'[i] = queue[i]
        /\ queue'[Len(queue) + 1] = j /\ Len(queue) \in Nat
    BY <1>types, <2>1, <2>2, AppendAdds DEF TypeOK
  <2>4. \A i \in DOMAIN queue : queue[i] # j
    BY <2>1, <1>queued
  <2>5. \A i \in DOMAIN queue' :
          status'[queue'[i]] \in {"queued", "gone"} /\ agent'[queue'[i]] = "none"
    BY <2>1, <2>3, <1>types DEF JobsMoveOn
  <2>6. \A i, k \in DOMAIN queue' : queue'[i] = queue'[k] => i = k
    BY <2>3, <2>4, <1>types DEF JobsMoveOn
  <2> QED
    BY <2>1, <2>5, <2>6, <1>types DEF JobsMoveOn
<1>4. ASSUME RefusedByPool PROVE JobsMoveOn'
  <2> DEFINE j == request.job
  <2>1. /\ j \in Jobs /\ j \notin ToSet(queue)
        /\ agent[j] = "none"
        /\ UNCHANGED <<queue, working, agent>> /\ request' = NoRequest
        /\ \A k \in Jobs : k # j => status'[k] = status[k]
    BY <1>4, <1>types DEF RefusedByPool, TypeOK, LoopWaits, JobsMoveOn, poolVars
  <2> HIDE DEF j
  <2>2. \A i \in DOMAIN queue : queue[i] # j
    BY <2>1, <1>queued
  <2>3. \A w \in Workers : working[w] # None => working[w] # j /\ working[w] \in Jobs
    BY <2>1, <1>types DEF JobsMoveOn, TypeOK
  <2> QED
    BY <2>1, <2>2, <2>3, <1>queued, <1>types DEF JobsMoveOn, NoRequest
<1>5. ASSUME NEW w \in Workers, WorkerTakes(w) PROVE JobsMoveOn'
  <2> DEFINE h == Head(queue)
  <2>1. /\ h \in Jobs /\ h = queue[1] /\ 1 \in DOMAIN queue
        /\ DOMAIN queue = 1..Len(queue) /\ DOMAIN queue' = 1..(Len(queue) - 1)
        /\ \A i \in 1..(Len(queue) - 1) : queue'[i] = queue[i + 1]
        /\ Len(queue) \in Nat
    BY <1>5, <1>types, TailKeeps DEF WorkerTakes, TypeOK
  <2>2. /\ status' = [status EXCEPT ![h] = Mark(h, "running")]
        /\ agent' = [agent EXCEPT ![h] = "running"]
        /\ working' = [working EXCEPT ![w] = h]
        /\ UNCHANGED request
    BY <1>5 DEF WorkerTakes
  <2> HIDE DEF h
  <2>3. h \in ToSet(queue) /\ agent[h] = "none"
    BY <2>1, <1>queued, <1>types DEF JobsMoveOn
  <2>4. /\ status'[h] \in {"running", "gone"} /\ agent'[h] = "running"
        /\ \A k \in Jobs : k # h => status'[k] = status[k] /\ agent'[k] = agent[k]
    BY <2>1, <2>2, <1>types DEF TypeOK, Mark
  <2>5. \A i \in DOMAIN queue' : queue'[i] \in Jobs /\ queue'[i] # h
    <3>1. ASSUME NEW i \in DOMAIN queue' PROVE queue'[i] \in Jobs /\ queue'[i] # h
      <4>1. i + 1 \in DOMAIN queue /\ queue'[i] = queue[i + 1] /\ i + 1 # 1
        BY <2>1
      <4> QED
        BY <4>1, <2>1, <1>queued, <1>types DEF JobsMoveOn
    <3> QED
      BY <3>1
  <2>6. \A i \in DOMAIN queue' : \E k \in DOMAIN queue : k = i + 1 /\ queue'[i] = queue[k]
    BY <2>1
  <2>7. \A i \in DOMAIN queue' :
          status'[queue'[i]] \in {"queued", "gone"} /\ agent'[queue'[i]] = "none"
    BY <2>4, <2>5, <2>6, <1>types DEF JobsMoveOn
  <2>8. \A i, k \in DOMAIN queue' : queue'[i] = queue'[k] => i = k
    <3>1. ASSUME NEW i \in DOMAIN queue', NEW k \in DOMAIN queue', queue'[i] = queue'[k]
          PROVE  i = k
      <4>1. i + 1 \in DOMAIN queue /\ k + 1 \in DOMAIN queue /\ queue[i + 1] = queue[k + 1]
        BY <2>1, <3>1
      <4>2. i + 1 = k + 1
        BY <4>1, <1>types DEF JobsMoveOn
      <4> QED
        BY <2>1, <4>2
    <3> QED
      BY <3>1
  <2>9. \A v \in Workers : working[v] # None => working[v] # h /\ working[v] \in Jobs
    BY <2>3, <1>types DEF JobsMoveOn, TypeOK
  <2>10. /\ working'[w] = h /\ \A v \in Workers : v # w => working'[v] = working[v]
    BY <2>2, <1>types DEF TypeOK
  <2>11. \A v \in Workers : working'[v] # None =>
           status'[working'[v]] \in {"running", "gone"} /\ agent'[working'[v]] # "none"
    BY <2>4, <2>9, <2>10, <1>types DEF JobsMoveOn
  <2>12. \A u, v \in Workers : working'[u] = working'[v] /\ working'[u] # None => u = v
    BY <2>9, <2>10, <1>types DEF JobsMoveOn
  <2>13. request'.pc = "submit" =>
           /\ status'[request'.job] \in {"queued", "gone"} /\ agent'[request'.job] = "none"
           /\ request'.job \notin ToSet(queue')
    <3>1. ToSet(queue') \subseteq ToSet(queue)
      BY <1>5, <1>types, TailKeeps DEF WorkerTakes, TypeOK
    <3>2. request.pc = "submit" => request.job # h /\ request.job \in Jobs
      BY <2>3, <1>types DEF JobsMoveOn, LoopWaits, TypeOK
    <3> QED
      BY <2>2, <2>4, <3>1, <3>2, <1>types DEF JobsMoveOn
  <2> QED
    BY <2>7, <2>8, <2>11, <2>12, <2>13 DEF JobsMoveOn
<1>6. ASSUME NEW j \in Jobs, AgentEnds(j) PROVE JobsMoveOn'
  <2>1. PICK end \in {"value", "raised"} : agent' = [agent EXCEPT ![j] = end]
    BY <1>6 DEF AgentEnds
  <2>2. UNCHANGED <<status, queue, working, request>> /\ agent[j] = "running"
    BY <1>6 DEF AgentEnds, jobVars
  <2>3. \A k \in Jobs : (agent[k] = "none" <=> agent'[k] = "none")
    BY <2>1, <2>2, <1>types DEF TypeOK
  <2> QED
    BY <2>2, <2>3, <1>queued, <1>types DEF JobsMoveOn, TypeOK, LoopWaits
<1>7. ASSUME NEW w \in Workers, Settle(w) PROVE JobsMoveOn'
  <2> DEFINE j == working[w]
  <2>1. j # None /\ j \in Jobs
    BY <1>7, <1>types DEF Settle, SuccessIsTheAgents, TypeOK
  <2>2. /\ \A k \in Jobs : k # j => status'[k] = status[k]
        /\ working' = [working EXCEPT ![w] = None]
        /\ UNCHANGED <<queue, agent, request>>
    BY <1>7, <1>types DEF Settle, TypeOK
  <2>3. agent[j] # "none"
    BY <2>1, <1>types DEF JobsMoveOn
  <2>4. /\ working'[w] = None
        /\ \A v \in Workers : v # w => working'[v] = working[v] /\ (working[v] # None => working[v] # j)
    BY <2>1, <2>2, <1>types DEF TypeOK, JobsMoveOn
  <2> HIDE DEF j
  <2>5. \A i \in DOMAIN queue : queue[i] # j
    BY <2>3, <1>types DEF JobsMoveOn
  <2>6. request.pc = "submit" => request.job # j /\ request.job \in Jobs
    BY <2>3, <1>types DEF JobsMoveOn, LoopWaits, TypeOK
  <2>7. \A v \in Workers : working'[v] # None =>
          /\ working'[v] \in Jobs /\ status'[working'[v]] = status[working'[v]]
          /\ status[working'[v]] \in {"running", "gone"} /\ agent[working'[v]] # "none"
    BY <2>2, <2>4, <1>types DEF JobsMoveOn, TypeOK
  <2>8. \A u, v \in Workers : working'[u] = working'[v] /\ working'[u] # None => u = v
    BY <2>4, <1>types DEF JobsMoveOn
  <2> QED
    BY <2>2, <2>5, <2>6, <2>7, <2>8, <1>queued, <1>types DEF JobsMoveOn
<1>8. ASSUME NEW j, RefuseFull(j) PROVE JobsMoveOn'
  BY <1>1, <1>8 DEF RefuseFull, jobVars, poolVars
<1>9. ASSUME StopPolling \/ Answer PROVE JobsMoveOn'
  <2>1. request'.pc # "submit"
    BY <1>9, <1>types DEF StopPolling, Answer, NoRequest, TypeOK
  <2> QED
    BY <1>1, <1>9, <2>1 DEF StopPolling, Answer, jobVars, poolVars
<1>10. ASSUME NEW w, StopWaiting(w) PROVE JobsMoveOn'
  BY <1>1, <1>10 DEF StopWaiting, jobVars
<1>11. ASSUME NEW a, Preview(a) PROVE JobsMoveOn'
  BY <1>1, <1>11 DEF Preview, jobVars, poolVars
<1>12. ASSUME NEW a, NEW approved, NEW by, Execute(a, approved, by) PROVE JobsMoveOn'
  BY <1>1, <1>12 DEF Execute, jobVars, poolVars
<1>13. ASSUME PoolCloses \/ DetectArrives \/ DetectServed \/ UNCHANGED vars PROVE JobsMoveOn'
  BY <1>1, <1>13 DEF PoolCloses, DetectArrives, DetectServed, vars, jobVars, poolVars
<1> QED
  BY <1>2, <1>3, <1>4, <1>5, <1>6, <1>7, <1>8, <1>9, <1>10, <1>11, <1>12, <1>13
    DEF Next, RequestStep, WorkerStep

\* No step takes back what an agent returned, or settles a job by anything else.
LEMMA SuccessStep ==
  ASSUME Invariant, [Next]_vars
  PROVE  SuccessIsTheAgents'
<1>types. TypeOK /\ LoopWaits /\ JobsMoveOn /\ SuccessIsTheAgents
  BY DEF Invariant
<1>none. None \notin Jobs
  BY NamesAssumption DEF Drafts
<1>1. ASSUME UNCHANGED <<working, verdict>>,
             \A j \in Jobs : agent[j] = "value" => agent'[j] = "value",
             \A j \in Jobs : status'[j] = "done" => status[j] = "done"
      PROVE  SuccessIsTheAgents'
  BY <1>1, <1>types DEF SuccessIsTheAgents, TypeOK
<1>2. ASSUME NEW j \in Jobs, CreateJob(j) PROVE SuccessIsTheAgents'
  <2>1. \A k \in Jobs : status'[k] = "done" => status[k] = "done"
    BY <1>2 DEF CreateJob
  <2> QED
    BY <1>1, <1>2, <2>1 DEF CreateJob, poolVars
<1>3. ASSUME RefusedByPool PROVE SuccessIsTheAgents'
  <2>1. \A k \in Jobs : status'[k] = "done" => status[k] = "done"
    BY <1>3, <1>types DEF RefusedByPool, Mark, TypeOK
  <2> QED
    BY <1>1, <1>3, <2>1 DEF RefusedByPool, poolVars
<1>4. ASSUME NEW w \in Workers, WorkerTakes(w) PROVE SuccessIsTheAgents'
  <2> DEFINE h == Head(queue)
  <2>1. h \in Jobs /\ h = queue[1] /\ 1 \in DOMAIN queue
    BY <1>4, <1>types, TailKeeps DEF WorkerTakes, TypeOK
  <2>2. /\ status' = [status EXCEPT ![h] = Mark(h, "running")]
        /\ agent' = [agent EXCEPT ![h] = "running"]
        /\ working' = [working EXCEPT ![w] = h]
        /\ working[w] = None /\ UNCHANGED verdict
    BY <1>4 DEF WorkerTakes
  <2> HIDE DEF h
  <2>3. agent[h] = "none"
    BY <2>1, <1>types DEF JobsMoveOn
  <2>4. verdict[w] = "waits" /\ \A v \in Workers : verdict[v] # "waits" => v # w /\ working[v] \in Jobs
    BY <2>2, <1>types DEF SuccessIsTheAgents, TypeOK
  <2>5. /\ \A k \in Jobs : agent[k] = "value" => agent'[k] = "value"
        /\ \A k \in Jobs : status'[k] = "done" => status[k] = "done"
    BY <2>1, <2>2, <2>3, <1>types DEF TypeOK, Mark
  <2>6. \A v \in Workers : verdict'[v] # "waits" => working'[v] = working[v]
    BY <2>2, <2>4, <1>types DEF TypeOK
  <2> QED
    BY <2>2, <2>4, <2>5, <2>6, <1>types DEF SuccessIsTheAgents
<1>5. ASSUME NEW j \in Jobs, AgentEnds(j) PROVE SuccessIsTheAgents'
  <2>1. \A k \in Jobs : agent[k] = "value" => agent'[k] = "value"
    BY <1>5, <1>types DEF AgentEnds, TypeOK
  <2> QED
    BY <1>1, <1>5, <2>1 DEF AgentEnds, jobVars
<1>6. ASSUME NEW w \in Workers, StopWaiting(w) PROVE SuccessIsTheAgents'
  <2>1. \A v \in Workers : v # w => verdict'[v] = verdict[v]
    BY <1>6, <1>types DEF StopWaiting, TypeOK
  <2>2. working[w] # None /\ (verdict'[w] = "value" => agent[working[w]] = "value")
    BY <1>6, <1>types DEF StopWaiting, TypeOK
  <2> QED
    BY <1>6, <1>types, <2>1, <2>2 DEF StopWaiting, SuccessIsTheAgents, jobVars
<1>7. ASSUME NEW w \in Workers, Settle(w) PROVE SuccessIsTheAgents'
  <2>1. working[w] \in Jobs /\ (verdict[w] = "value" => agent[working[w]] = "value")
    BY <1>7, <1>types DEF Settle, SuccessIsTheAgents, TypeOK
  <2>2. \A v \in Workers : /\ v # w => verdict'[v] = verdict[v] /\ working'[v] = working[v]
                           /\ verdict'[w] = "waits"
    BY <1>7, <1>types DEF Settle, TypeOK
  <2>3. \A k \in Jobs : status'[k] = "done" => agent[k] = "value"
    BY <1>7, <2>1, <1>types DEF Settle, Mark, TypeOK, SuccessIsTheAgents
  <2>4. UNCHANGED agent
    BY <1>7 DEF Settle
  <2> QED
    BY <1>types, <2>2, <2>3, <2>4 DEF SuccessIsTheAgents
<1>8. ASSUME NEW j, RefuseFull(j) PROVE SuccessIsTheAgents'
  BY <1>1, <1>8 DEF RefuseFull, jobVars, poolVars
<1>9. ASSUME EnterPool \/ StopPolling \/ Answer PROVE SuccessIsTheAgents'
  BY <1>1, <1>9 DEF EnterPool, StopPolling, Answer, jobVars, poolVars
<1>10. ASSUME NEW a, Preview(a) PROVE SuccessIsTheAgents'
  BY <1>1, <1>10 DEF Preview, jobVars, poolVars
<1>11. ASSUME NEW a, NEW approved, NEW by, Execute(a, approved, by) PROVE SuccessIsTheAgents'
  BY <1>1, <1>11 DEF Execute, jobVars, poolVars
<1>12. ASSUME PoolCloses \/ DetectArrives \/ DetectServed \/ UNCHANGED vars
       PROVE  SuccessIsTheAgents'
  BY <1>1, <1>12 DEF PoolCloses, DetectArrives, DetectServed, vars, jobVars, poolVars
<1> QED
  BY <1>2, <1>3, <1>4, <1>5, <1>6, <1>7, <1>8, <1>9, <1>10, <1>11, <1>12
    DEF Next, RequestStep, WorkerStep

(***************************************************************************)
(* The count.                                                              *)
(***************************************************************************)
\* A thread that takes a job or settles it is one busy thread more or less.
LEMMA BusyCount ==
  ASSUME TypeOK, NEW w \in Workers
  PROVE  LET Busy(f) == {v \in Workers : f[v] # None}
         IN  /\ Cardinality(Busy(working)) \in Nat
             /\ \A j \in Jobs :
                  working[w] = None /\ working' = [working EXCEPT ![w] = j]
                    => Cardinality(Busy(working')) = Cardinality(Busy(working)) + 1
             /\ working[w] # None /\ working' = [working EXCEPT ![w] = None]
                  => Cardinality(Busy(working')) = Cardinality(Busy(working)) - 1
<1> DEFINE B == {v \in Workers : working[v] # None}
           C == {v \in Workers : working'[v] # None}
<1>none. None \notin Jobs
  BY NamesAssumption DEF Drafts
<1>1. IsFiniteSet(B)
  <2>1. IsFiniteSet(Workers) /\ B \subseteq Workers
    BY BoundsAssumption
  <2> HIDE DEF B
  <2> QED
    BY <2>1, FS_Subset
<1>2. ASSUME NEW j \in Jobs, working[w] = None, working' = [working EXCEPT ![w] = j]
      PROVE  Cardinality(C) = Cardinality(B) + 1
  <2>1. C = B \cup {w} /\ w \notin B
    BY <1>2, <1>none DEF TypeOK
  <2> HIDE DEF B, C
  <2> QED
    BY <1>1, <2>1, FS_AddElement
<1>3. ASSUME working[w] # None, working' = [working EXCEPT ![w] = None]
      PROVE  Cardinality(C) = Cardinality(B) - 1
  <2>1. C = B \ {w} /\ w \in B
    BY <1>3 DEF TypeOK
  <2> HIDE DEF B, C
  <2> QED
    BY <1>1, <2>1, FS_RemoveElement
<1>4. Cardinality(B) \in Nat
  <2> HIDE DEF B
  <2> QED
    BY <1>1, FS_CardinalityType
<1> QED
  BY <1>2, <1>3, <1>4

\* A place is taken when a job is created and given back when it is refused or settled.
LEMMA CountStep ==
  ASSUME Invariant, [Next]_vars
  PROVE  CountExact'
<1> DEFINE busy == Cardinality({v \in Workers : working[v] # None})
           held == IF request.pc = "submit" THEN 1 ELSE 0
<1>types. TypeOK /\ LoopWaits /\ SuccessIsTheAgents
  BY DEF Invariant
<1>count. /\ count = Len(queue) + busy + held /\ count <= QueueMax
          /\ Len(queue) \in Nat /\ held \in Nat /\ count \in Nat /\ QueueMax \in Nat
  BY BoundsAssumption DEF Invariant, CountExact, TypeOK
<1>nat. busy \in Nat
  <2>1. IsFiniteSet(Workers) /\ {v \in Workers : working[v] # None} \subseteq Workers
    BY BoundsAssumption
  <2>2. IsFiniteSet({v \in Workers : working[v] # None})
    BY <2>1, FS_Subset
  <2> QED
    BY <2>2, FS_CardinalityType
<1>goal. CountExact' <=> count' = Len(queue') + busy' + held' /\ count' <= QueueMax
  BY DEF CountExact
<1>1. ASSUME UNCHANGED <<count, queue, working>>,
             request'.pc = "submit" <=> request.pc = "submit"
      PROVE  CountExact'
  BY <1>1, <1>count, <1>goal
<1>2. ASSUME NEW j \in Jobs, CreateJob(j) PROVE CountExact'
  <2>1. /\ count' = count + 1 /\ count < QueueMax /\ held = 0 /\ held' = 1
        /\ UNCHANGED <<queue, working>>
    BY <1>2, <1>count DEF CreateJob, QueueFull, LoopFree, NoRequest, poolVars
  <2>2. busy' = busy
    BY <2>1
  <2> HIDE DEF busy, held
  <2> QED
    BY <1>count, <1>nat, <1>goal, <2>1, <2>2
<1>3. ASSUME EnterPool PROVE CountExact'
  <2>1. /\ request.job \in Jobs /\ queue' = Append(queue, request.job)
        /\ held = 1 /\ held' = 0 /\ UNCHANGED <<count, working>>
    BY <1>3, <1>types DEF EnterPool, LoopWaits, TypeOK, jobVars
  <2>2. Len(queue') = Len(queue) + 1
    BY <2>1, <1>types DEF TypeOK
  <2>3. busy' = busy
    BY <2>1
  <2> HIDE DEF busy, held
  <2> QED
    BY <1>count, <1>nat, <1>goal, <2>1, <2>2, <2>3
<1>4. ASSUME RefusedByPool PROVE CountExact'
  <2>1. /\ held = 1 /\ held' = 0 /\ UNCHANGED <<queue, working>>
        /\ count' = IF count = 0 THEN 0 ELSE count - 1
    BY <1>4 DEF RefusedByPool, NoRequest, poolVars
  <2>2. busy' = busy
    BY <2>1
  <2> HIDE DEF busy, held
  <2> QED
    BY <1>count, <1>nat, <1>goal, <2>1, <2>2
<1>5. ASSUME NEW w \in Workers, WorkerTakes(w) PROVE CountExact'
  <2>1. /\ Head(queue) \in Jobs /\ Len(queue') = Len(queue) - 1
        /\ working[w] = None /\ working' = [working EXCEPT ![w] = Head(queue)]
        /\ UNCHANGED <<count, request>>
    BY <1>5, <1>types, TailKeeps DEF WorkerTakes, TypeOK
  <2>2. busy' = busy + 1
    BY <2>1, <1>types, BusyCount
  <2>3. held' = held
    BY <2>1
  <2> HIDE DEF busy, held
  <2> QED
    BY <1>count, <1>nat, <1>goal, <2>1, <2>2, <2>3
<1>6. ASSUME NEW w \in Workers, Settle(w) PROVE CountExact'
  <2>1. /\ working[w] # None /\ working' = [working EXCEPT ![w] = None]
        /\ count' = IF count = 0 THEN 0 ELSE count - 1
        /\ UNCHANGED <<queue, request>>
    BY <1>6, <1>types DEF Settle, SuccessIsTheAgents
  <2>2. busy' = busy - 1
    BY <2>1, <1>types, BusyCount
  <2>3. held' = held /\ busy' \in Nat
    <3>1. held' = held
      BY <2>1
    <3>2. IsFiniteSet(Workers) /\ {v \in Workers : working'[v] # None} \subseteq Workers
      BY BoundsAssumption
    <3>3. IsFiniteSet({v \in Workers : working'[v] # None})
      BY <3>2, FS_Subset
    <3> QED
      BY <3>1, <3>3, FS_CardinalityType
  <2> HIDE DEF busy, held
  <2> QED
    BY <1>count, <1>nat, <1>goal, <2>1, <2>2, <2>3
<1>7. ASSUME NEW j, RefuseFull(j) PROVE CountExact'
  BY <1>1, <1>7 DEF RefuseFull, jobVars, poolVars
<1>8. ASSUME StopPolling \/ Answer PROVE CountExact'
  <2>1. request.pc # "submit" /\ request'.pc # "submit"
    BY <1>8, <1>types DEF StopPolling, Answer, NoRequest, TypeOK
  <2> QED
    BY <1>1, <1>8, <2>1 DEF StopPolling, Answer, jobVars, poolVars
<1>9. ASSUME NEW w, StopWaiting(w) \/ AgentEnds(w) PROVE CountExact'
  BY <1>1, <1>9 DEF StopWaiting, AgentEnds, jobVars
<1>10. ASSUME NEW a, Preview(a) PROVE CountExact'
  BY <1>1, <1>10 DEF Preview, jobVars, poolVars
<1>11. ASSUME NEW a, NEW approved, NEW by, Execute(a, approved, by) PROVE CountExact'
  BY <1>1, <1>11 DEF Execute, jobVars, poolVars
<1>12. ASSUME PoolCloses \/ DetectArrives \/ DetectServed \/ UNCHANGED vars PROVE CountExact'
  BY <1>1, <1>12 DEF PoolCloses, DetectArrives, DetectServed, vars, jobVars, poolVars
<1> QED
  BY <1>2, <1>3, <1>4, <1>5, <1>6, <1>7, <1>8, <1>9, <1>10, <1>11, <1>12
    DEF Next, RequestStep, WorkerStep

(***************************************************************************)
(* Outcomes and drafts.                                                    *)
(***************************************************************************)
\* Nobody settles a job twice.
OutcomesStay ==
  \A j \in Jobs : status[j] \in {"done", "error"} => status'[j] \in {status[j], "gone"}

\* Whoever writes a status has a job that is not settled.
LEMMA OutcomesStayStep ==
  ASSUME Invariant, [Next]_vars
  PROVE  OutcomesStay
<1>types. TypeOK /\ LoopWaits /\ JobsMoveOn /\ SuccessIsTheAgents
  BY DEF Invariant
<1>none. None \notin Jobs
  BY NamesAssumption DEF Drafts
<1>1. ASSUME UNCHANGED status PROVE OutcomesStay
  BY <1>1 DEF OutcomesStay
<1>2. ASSUME NEW j \in Jobs, CreateJob(j) PROVE OutcomesStay
  <2>1. status[j] = "none"
    BY <1>2, <1>types, <1>none DEF CreateJob, LoopFree, NoRequest, LoopWaits, Untouched
  <2> QED
    BY <1>2, <2>1 DEF CreateJob, OutcomesStay
<1>3. ASSUME RefusedByPool PROVE OutcomesStay
  BY <1>3, <1>types DEF RefusedByPool, JobsMoveOn, OutcomesStay, TypeOK
<1>4. ASSUME NEW w \in Workers, WorkerTakes(w) PROVE OutcomesStay
  <2>1. Head(queue) \in Jobs /\ Head(queue) = queue[1] /\ 1 \in DOMAIN queue
    BY <1>4, <1>types, TailKeeps DEF WorkerTakes, TypeOK
  <2>2. status[Head(queue)] \in {"queued", "gone"}
    BY <2>1, <1>types DEF JobsMoveOn
  <2> QED
    BY <1>4, <1>types, <2>1, <2>2 DEF WorkerTakes, OutcomesStay, TypeOK
<1>5. ASSUME NEW w \in Workers, Settle(w) PROVE OutcomesStay
  <2>1. status[working[w]] \in {"running", "gone"}
    BY <1>5, <1>types DEF Settle, SuccessIsTheAgents, JobsMoveOn
  <2> QED
    BY <1>5, <1>types, <2>1 DEF Settle, OutcomesStay, TypeOK
<1>6. ASSUME NEW j, RefuseFull(j) \/ AgentEnds(j) \/ StopWaiting(j) \/ Preview(j)
      PROVE  OutcomesStay
  BY <1>1, <1>6 DEF RefuseFull, AgentEnds, StopWaiting, Preview, jobVars
<1>7. ASSUME EnterPool \/ StopPolling \/ Answer PROVE OutcomesStay
  BY <1>1, <1>7 DEF EnterPool, StopPolling, Answer, jobVars
<1>8. ASSUME NEW a, NEW approved, NEW by, Execute(a, approved, by) PROVE OutcomesStay
  BY <1>1, <1>8 DEF Execute, jobVars
<1>9. ASSUME PoolCloses \/ DetectArrives \/ DetectServed \/ UNCHANGED vars PROVE OutcomesStay
  BY <1>1, <1>9 DEF PoolCloses, DetectArrives, DetectServed, vars, jobVars
<1> QED
  BY <1>2, <1>3, <1>4, <1>5, <1>6, <1>7, <1>8, <1>9 DEF Next, RequestStep, WorkerStep

\* What is in the store was offered, and stays so.
LEMMA OfferedStep ==
  ASSUME Invariant, [Next]_vars
  PROVE  OnlyOfferedDrafts'
<1> DEFINE Offered == Jobs \cap (ToSet(store) \cup executed)
<1>types. TypeOK /\ LoopWaits /\ JobsMoveOn /\ SuccessIsTheAgents /\ OnlyOfferedDrafts
  BY DEF Invariant
<1>none. None \notin Jobs
  BY NamesAssumption DEF Drafts
<1>1. ASSUME NEW j \in Offered
      PROVE  /\ j \in Jobs /\ answer[j] = "draft" /\ agent[j] = "value"
             /\ status[j] \in {"done", "gone"} /\ status'[j] \in {"done", "gone"}
  <2>1. j \in Jobs /\ answer[j] = "draft" /\ status[j] \in {"done", "gone"} /\ agent[j] = "value"
    BY <1>1, <1>types DEF OnlyOfferedDrafts
  <2>2. status[j] = "gone" => status'[j] \in {"done", "gone"}
    <3>1. ASSUME status[j] = "gone", NEW k \in Jobs, CreateJob(k) PROVE status'[j] = "gone"
      <4>1. answer[k] = "none"
        BY <3>1 DEF CreateJob
      <4> QED
        BY <2>1, <3>1, <4>1 DEF CreateJob
    <3>2. ASSUME status[j] = "gone", RefusedByPool \/ \E w \in Workers : WorkerTakes(w) \/ Settle(w)
          PROVE  status'[j] = "gone"
      <4>1. \E k, to : status' = [status EXCEPT ![k] = Mark(k, to)]
        BY <3>2 DEF RefusedByPool, WorkerTakes, Settle
      <4> QED
        BY <2>1, <3>2, <4>1, <1>types DEF TypeOK, Mark
    <3>3. ASSUME UNCHANGED status, status[j] = "gone" PROVE status'[j] = "gone"
      BY <3>3
    <3> QED
      BY <3>1, <3>2, <3>3
        DEF Next, RequestStep, WorkerStep, RefuseFull, EnterPool, StopPolling, Answer, AgentEnds,
            StopWaiting, Preview, Execute, PoolCloses, DetectArrives, DetectServed, vars, jobVars
  <2>3. status[j] = "done" => status'[j] \in {"done", "gone"}
    BY <2>1, OutcomesStayStep DEF OutcomesStay
  <2> QED
    BY <2>1, <2>2, <2>3
<1>2. ASSUME UNCHANGED <<answer, agent>>, Offered' \subseteq Offered
      PROVE  OnlyOfferedDrafts'
  <2>1. \A j \in Offered' : j \in Offered
    BY <1>2
  <2> HIDE DEF Offered
  <2>2. \A j \in Offered' : answer'[j] = "draft" /\ status'[j] \in {"done", "gone"} /\ agent'[j] = "value"
    BY <1>1, <1>2, <2>1
  <2> QED
    BY <2>2 DEF OnlyOfferedDrafts, Offered
<1>3. ASSUME UNCHANGED <<answer, agent, store, executed>> PROVE OnlyOfferedDrafts'
  BY <1>2, <1>3
<1>4. ASSUME NEW j \in Jobs, answer[j] = "none", NEW a,
             answer' = [answer EXCEPT ![j] = a], UNCHANGED <<agent, store, executed>>
      PROVE  OnlyOfferedDrafts'
  <2>1. \A k \in Offered : k # j /\ answer'[k] = answer[k]
    BY <1>1, <1>4, <1>types DEF TypeOK
  <2>2. \A k \in Offered' : k \in Offered
    BY <1>4
  <2> HIDE DEF Offered
  <2>3. \A k \in Offered' : answer'[k] = "draft" /\ status'[k] \in {"done", "gone"} /\ agent'[k] = "value"
    BY <1>1, <1>4, <2>1, <2>2
  <2> QED
    BY <2>3 DEF OnlyOfferedDrafts, Offered
<1>5. ASSUME NEW j \in Jobs, RefuseFull(j) PROVE OnlyOfferedDrafts'
  BY <1>4, <1>5 DEF RefuseFull, poolVars, approvalVars
<1>6. ASSUME RefusedByPool PROVE OnlyOfferedDrafts'
  <2>1. request.job \in Jobs /\ answer[request.job] = "none"
    BY <1>6, <1>types DEF RefusedByPool, LoopWaits, TypeOK
  <2> QED
    BY <1>4, <1>6, <2>1 DEF RefusedByPool, poolVars, approvalVars
<1>7. ASSUME Answer PROVE OnlyOfferedDrafts'
  <2> DEFINE j == request.job
  <2>1. j \in Jobs /\ answer[j] = "none" /\ j \in Drafts
    BY <1>7, <1>types DEF Answer, LoopWaits, TypeOK, Drafts
  <2>2. UNCHANGED <<agent, executed, status>>
    BY <1>7 DEF Answer, jobVars, poolVars
  <2>3. CASE UNCHANGED store
    <3>1. \E a : answer' = [answer EXCEPT ![j] = a]
      BY <1>7 DEF Answer
    <3> QED
      BY <1>4, <2>1, <2>2, <2>3, <3>1
  <2>4. CASE status[j] = "done" /\ Register(j) /\ answer' = [answer EXCEPT ![j] = "draft"]
    <3> HIDE DEF j
    <3>1. ToSet(store') \subseteq ToSet(store) \cup {j}
      BY <2>1, <2>4, <1>types, RegisterAdds DEF TypeOK
    <3>2. agent[j] = "value"
      BY <2>1, <2>4, <1>types DEF SuccessIsTheAgents
    <3>3. \A k \in Offered : answer'[k] = answer[k]
      BY <1>1, <2>1, <2>4, <1>types DEF TypeOK
    <3>4. answer'[j] = "draft"
      BY <2>1, <2>4, <1>types DEF TypeOK
    <3>5. \A k \in Offered' : k = j \/ k \in Offered
      BY <2>2, <3>1
    <3> HIDE DEF Offered
    <3>6. \A k \in Offered' : answer'[k] = "draft" /\ status'[k] \in {"done", "gone"} /\ agent'[k] = "value"
      BY <1>1, <2>2, <2>4, <3>2, <3>3, <3>4, <3>5
    <3> QED
      BY <3>6 DEF OnlyOfferedDrafts, Offered
  <2> QED
    BY <1>7, <2>3, <2>4 DEF Answer
<1>8. ASSUME NEW w \in Workers, WorkerTakes(w) PROVE OnlyOfferedDrafts'
  <2> DEFINE h == Head(queue)
  <2>1. h \in Jobs /\ h = queue[1] /\ 1 \in DOMAIN queue
    BY <1>8, <1>types, TailKeeps DEF WorkerTakes, TypeOK
  <2>2. agent' = [agent EXCEPT ![h] = "running"] /\ UNCHANGED <<answer, store, executed>>
    BY <1>8 DEF WorkerTakes, approvalVars
  <2> HIDE DEF h
  <2>3. agent[h] = "none"
    BY <2>1, <1>types DEF JobsMoveOn
  <2>4. \A k \in Offered : agent'[k] = agent[k]
    BY <1>1, <2>1, <2>2, <2>3, <1>types DEF TypeOK
  <2>5. Offered' = Offered
    BY <2>2
  <2> HIDE DEF Offered
  <2>6. \A k \in Offered' : answer'[k] = "draft" /\ status'[k] \in {"done", "gone"} /\ agent'[k] = "value"
    BY <1>1, <2>2, <2>4, <2>5
  <2> QED
    BY <2>6 DEF OnlyOfferedDrafts, Offered
<1>9. ASSUME NEW j \in Jobs, AgentEnds(j) PROVE OnlyOfferedDrafts'
  <2>1. UNCHANGED <<answer, store, executed>>
    BY <1>9 DEF AgentEnds, approvalVars
  <2>2. \A k \in Offered : agent'[k] = agent[k]
    BY <1>1, <1>9, <1>types DEF AgentEnds, TypeOK
  <2>3. Offered' = Offered
    BY <2>1
  <2> HIDE DEF Offered
  <2>4. \A k \in Offered' : answer'[k] = "draft" /\ status'[k] \in {"done", "gone"} /\ agent'[k] = "value"
    BY <1>1, <2>1, <2>2, <2>3
  <2> QED
    BY <2>4 DEF OnlyOfferedDrafts, Offered
<1>10. ASSUME NEW a \in Previews, Preview(a) PROVE OnlyOfferedDrafts'
  <2>1. a \notin Jobs /\ a \in Drafts
    BY NamesAssumption DEF Drafts
  <2>2. ToSet(store') \subseteq ToSet(store) \cup {a} /\ UNCHANGED <<answer, agent, executed>>
    BY <1>10, <2>1, <1>types, RegisterAdds DEF Preview, TypeOK, poolVars
  <2>3. Offered' \subseteq Offered
    BY <2>1, <2>2
  <2> QED
    BY <1>2, <2>2, <2>3
<1>11. ASSUME NEW a \in Drafts, NEW approved, NEW by, Execute(a, approved, by)
       PROVE  OnlyOfferedDrafts'
  <2>1. /\ a \in ToSet(store) /\ executed' = executed \cup {a}
        /\ UNCHANGED <<answer, agent, store>>
    BY <1>11 DEF Execute, poolVars
  <2>2. Offered' \subseteq Offered
    BY <2>1
  <2> QED
    BY <1>2, <2>1, <2>2
<1>12. ASSUME NEW w, CreateJob(w) \/ StopWaiting(w) \/ Settle(w) PROVE OnlyOfferedDrafts'
  BY <1>3, <1>12 DEF CreateJob, StopWaiting, Settle, poolVars, approvalVars
<1>13. ASSUME EnterPool \/ StopPolling PROVE OnlyOfferedDrafts'
  BY <1>3, <1>13 DEF EnterPool, StopPolling, poolVars, approvalVars
<1>14. ASSUME PoolCloses \/ DetectArrives \/ DetectServed \/ UNCHANGED vars
       PROVE  OnlyOfferedDrafts'
  BY <1>3, <1>14 DEF PoolCloses, DetectArrives, DetectServed, vars, poolVars, approvalVars
<1> QED
  BY <1>5, <1>6, <1>7, <1>8, <1>9, <1>10, <1>11, <1>12, <1>13, <1>14
    DEF Next, RequestStep, WorkerStep

(***************************************************************************)
(* Each draft request is a DraftTicket.                                    *)
(***************************************************************************)
\* What is stored, or what the loop works on, has been opened.
Opened ==
  /\ \A j \in Jobs : j \in ToSet(stored) => status[j] # "none"
  /\ request.pc # "idle" => status[request.job] # "none"

\* The newest entry is never the one that is evicted.
LEMMA NewestHasLast ==
  ASSUME NEW S, NEW q \in Seq(S), NEW e \in S, NEW n \in Nat \ {0}
  PROVE  e \in ToSet(Newest(Append(q, e), n))
<1> DEFINE a == Append(q, e)
<1>1. /\ a \in Seq(S) /\ Len(a) = Len(q) + 1 /\ a[Len(q) + 1] = e
      /\ DOMAIN a = 1..(Len(q) + 1) /\ Len(q) \in Nat
  BY AppendAdds, AppendProperties
<1> HIDE DEF a
<1>2. CASE Len(a) <= n
  <2>1. Len(q) + 1 \in DOMAIN a
    BY <1>1
  <2> QED
    BY <1>1, <1>2, <2>1 DEF Newest, ToSet, a
<1>3. CASE ~(Len(a) <= n)
  <2> DEFINE m == Len(a) - n + 1
             r == SubSeq(a, m, Len(a))
  <2>1. m \in 1..Len(a) /\ Len(a) \in Nat /\ Len(a) - m + 1 = n
    BY <1>1, <1>3
  <2> HIDE DEF m
  <2>2. \A i \in m..Len(a) : a[i] \in S
    BY <1>1, <2>1
  <2>3. /\ r \in Seq(S) /\ Len(r) = Len(a) - m + 1
        /\ \A i \in 1..(Len(a) - m + 1) : r[i] = a[m + i - 1]
    BY <1>1, <2>1, <2>2, SubSeqProperties
  <2>4. Newest(a, n) = r
    BY <1>3 DEF Newest, m
  <2> HIDE DEF r
  <2>5. n \in 1..(Len(a) - m + 1) /\ m + n - 1 = Len(a)
    BY <2>1
  <2>6. r[n] = a[Len(a)]
    BY <2>3, <2>5
  <2>7. n \in DOMAIN r /\ r[n] = e
    BY <1>1, <2>3, <2>5, <2>6
  <2> QED
    BY <2>4, <2>7 DEF ToSet, a
<1> QED
  BY <1>2, <1>3 DEF a

\* No job is unopened again.
LEMMA OpenedStays ==
  ASSUME Invariant, [Next]_vars, NEW j \in Jobs, status[j] # "none"
  PROVE  status'[j] # "none"
<1>types. TypeOK
  BY DEF Invariant
<1>1. ASSUME NEW k \in Jobs, CreateJob(k) PROVE status'[j] # "none"
  BY <1>1 DEF CreateJob
<1>2. ASSUME RefusedByPool \/ \E w \in Workers : WorkerTakes(w) \/ Settle(w)
      PROVE  status'[j] # "none"
  <2>1. \E k, to : to # "none" /\ status' = [status EXCEPT ![k] = Mark(k, to)]
    BY <1>2 DEF RefusedByPool, WorkerTakes, Settle
  <2> QED
    BY <2>1, <1>types DEF TypeOK, Mark
<1>3. ASSUME UNCHANGED status PROVE status'[j] # "none"
  BY <1>3
<1> QED
  BY <1>1, <1>2, <1>3
    DEF Next, RequestStep, WorkerStep, RefuseFull, EnterPool, StopPolling, Answer, AgentEnds,
        StopWaiting, Preview, Execute, PoolCloses, DetectArrives, DetectServed, vars, jobVars

\* A job is opened when it is stored and the loop begins to wait for it.
LEMMA OpenedStep ==
  ASSUME Invariant, Opened, [Next]_vars
  PROVE  Opened'
<1>types. TypeOK /\ LoopWaits
  BY DEF Invariant
<1>1. ASSUME NEW j \in Jobs, CreateJob(j) PROVE Opened'
  <2>1. Append(stored, j) \in Seq(Jobs) /\ ToSet(Append(stored, j)) = ToSet(stored) \cup {j}
    BY <1>types, AppendAdds DEF TypeOK
  <2>2. stored' = Newest(Append(stored, j), JobsMax) /\ JobsMax \in Nat \ {0}
    BY <1>1, BoundsAssumption DEF CreateJob
  <2>3. ToSet(stored') \subseteq ToSet(stored) \cup {j}
    BY <2>1, <2>2, NewestKeeps
  <2>4. status'[j] = "queued" /\ request' = [pc |-> "submit", job |-> j]
    BY <1>1 DEF CreateJob
  <2>5. \A k \in Jobs : k \in ToSet(stored') => status'[k] # "none"
    BY <2>3, <2>4, OpenedStays DEF Opened
  <2> QED
    BY <2>4, <2>5 DEF Opened
<1>2. ASSUME UNCHANGED stored,
             \/ request'.pc = "idle"
             \/ request.pc # "idle" /\ request'.job = request.job
      PROVE  Opened'
  <2>1. \A j \in Jobs : j \in ToSet(stored') => status'[j] # "none"
    BY <1>2, OpenedStays DEF Opened
  <2>2. request'.pc # "idle" => status'[request'.job] # "none"
    <3>1. request.pc # "idle" => request.job \in Jobs /\ status[request.job] # "none"
      BY <1>types DEF LoopWaits, TypeOK, Opened
    <3> QED
      BY <1>2, <3>1, OpenedStays
  <2> QED
    BY <2>1, <2>2 DEF Opened
<1>3. ASSUME UNCHANGED <<stored, request>> PROVE Opened'
  BY <1>2, <1>3
<1>4. ASSUME EnterPool \/ StopPolling PROVE Opened'
  <2>1. request.pc # "idle" /\ UNCHANGED stored
    BY <1>4 DEF EnterPool, StopPolling, jobVars
  <2>2. request'.job = request.job
    BY <1>4, <1>types DEF EnterPool, StopPolling, TypeOK
  <2> QED
    BY <1>2, <2>1, <2>2
<1>5. ASSUME RefusedByPool \/ Answer PROVE Opened'
  BY <1>2, <1>5 DEF RefusedByPool, Answer, NoRequest, jobVars
<1>6. ASSUME NEW w, \/ RefuseFull(w) \/ AgentEnds(w) \/ WorkerTakes(w) \/ StopWaiting(w)
                    \/ Settle(w) \/ Preview(w)
      PROVE  Opened'
  BY <1>3, <1>6
    DEF RefuseFull, AgentEnds, WorkerTakes, StopWaiting, Settle, Preview, jobVars
<1>7. ASSUME NEW a, NEW approved, NEW by, Execute(a, approved, by) PROVE Opened'
  BY <1>3, <1>7 DEF Execute, jobVars
<1>8. ASSUME PoolCloses \/ DetectArrives \/ DetectServed \/ UNCHANGED vars PROVE Opened'
  BY <1>3, <1>8 DEF PoolCloses, DetectArrives, DetectServed, vars, jobVars
<1> QED
  BY <1>1, <1>4, <1>5, <1>6, <1>7, <1>8 DEF Next, RequestStep, WorkerStep

\* A step that moves nothing of a request is a stutter of its ticket.
LEMMA TicketRests ==
  ASSUME NEW j \in Jobs, Outcome(j)' = Outcome(j), answer'[j] = answer[j],
         (j \in ToSet(store')) = (j \in ToSet(store)),
         (j \in executed') = (j \in executed)
  PROVE  [Ticket(j)!TicketNext]_(Ticket(j)!ticketVars)
BY DEF Ticket!ticketVars

\* What another draft pushes out of the store is dropped.
LEMMA TicketDrops ==
  ASSUME NEW j \in Jobs, Outcome(j)' = Outcome(j), answer'[j] = answer[j],
         ToSet(store') \cap {j} \subseteq ToSet(store), UNCHANGED executed
  PROVE  [Ticket(j)!TicketNext]_(Ticket(j)!ticketVars)
<1>1. CASE (j \in ToSet(store')) = (j \in ToSet(store))
  BY <1>1, TicketRests
<1>2. CASE (j \in ToSet(store')) # (j \in ToSet(store))
  <2>1. j \in ToSet(store) /\ (j \in ToSet(store')) = FALSE
    BY <1>2
  <2>2. Ticket(j)!Drop
    BY <2>1 DEF Ticket!Drop
  <2> QED
    BY <2>2 DEF Ticket!TicketNext
<1> QED
  BY <1>1, <1>2

\* The request routes: refused, opened, or told how the request stands.
LEMMA RequestTicket ==
  ASSUME Invariant, Opened, NEW j \in Jobs,
         RequestStep \/ \E k \in Jobs : RefuseFull(k) \/ CreateJob(k)
  PROVE  [Ticket(j)!TicketNext]_(Ticket(j)!ticketVars)
<1>types. TypeOK /\ LoopWaits /\ JobsMoveOn
  BY DEF Invariant
<1>none. None \notin Jobs
  BY NamesAssumption DEF Drafts
<1>1. ASSUME NEW k \in Jobs, RefuseFull(k)
      PROVE  [Ticket(j)!TicketNext]_(Ticket(j)!ticketVars)
  <2>1. /\ request = NoRequest /\ answer[k] = "none"
        /\ answer' = [answer EXCEPT ![k] = "refused"]
        /\ UNCHANGED <<status, store, executed>>
    BY <1>1 DEF RefuseFull, LoopFree, jobVars, approvalVars
  <2>2. Outcome(j)' = Outcome(j)
    BY <2>1 DEF Outcome
  <2>3. CASE j # k
    <3>1. answer'[j] = answer[j]
      BY <2>1, <2>3, <1>types DEF TypeOK
    <3> QED
      BY <2>1, <2>2, <3>1, TicketRests
  <2>4. CASE j = k
    <3>1. status[j] = "none"
      BY <2>1, <2>4, <1>types, <1>none DEF LoopWaits, NoRequest, Untouched
    <3>2. Outcome(j) = "none" /\ answer'[j] = "refused"
      BY <2>1, <2>4, <3>1, <1>types DEF Outcome, TypeOK
    <3>3. Ticket(j)!Refuse
      BY <2>1, <2>2, <2>4, <3>2 DEF Ticket!Refuse
    <3> QED
      BY <3>3 DEF Ticket!TicketNext
  <2> QED
    BY <2>3, <2>4
<1>2. ASSUME NEW k \in Jobs, CreateJob(k)
      PROVE  [Ticket(j)!TicketNext]_(Ticket(j)!ticketVars)
  <2>1. /\ request = NoRequest /\ answer[k] = "none"
        /\ UNCHANGED <<answer, store, executed>>
    BY <1>2 DEF CreateJob, LoopFree, approvalVars
  <2>2. CASE j = k
    <3>1. status[j] = "none" /\ status'[j] = "queued"
      BY <1>2, <2>1, <2>2, <1>types, <1>none
        DEF CreateJob, LoopWaits, NoRequest, Untouched
    <3>2. Outcome(j) = "none" /\ Outcome(j)' = "open"
      BY <3>1 DEF Outcome
    <3>3. Ticket(j)!Open
      BY <2>1, <2>2, <3>2 DEF Ticket!Open
    <3> QED
      BY <3>3 DEF Ticket!TicketNext
  <2>3. CASE j # k /\ status'[j] = status[j]
    <3>1. Outcome(j)' = Outcome(j)
      BY <2>3 DEF Outcome
    <3> QED
      BY <2>1, <3>1, TicketRests
  <2>4. CASE j # k /\ status'[j] # status[j]
    <3>1. status'[j] = "gone" /\ j \in ToSet(stored)
      BY <1>2, <2>4 DEF CreateJob
    <3>2. Outcome(j)' = "gone" /\ Outcome(j) # "none"
      BY <3>1 DEF Outcome, Opened
    <3>3. Ticket(j)!Evict
      BY <2>1, <3>2 DEF Ticket!Evict
    <3> QED
      BY <3>3 DEF Ticket!TicketNext
  <2> QED
    BY <2>2, <2>3, <2>4
<1>3. ASSUME RefusedByPool PROVE [Ticket(j)!TicketNext]_(Ticket(j)!ticketVars)
  <2>1. /\ request.job \in Jobs /\ answer[request.job] = "none"
        /\ status[request.job] \in {"queued", "gone"}
        /\ status' = [status EXCEPT ![request.job] = Mark(request.job, "error")]
        /\ answer' = [answer EXCEPT ![request.job] = "refused"]
        /\ UNCHANGED <<store, executed>>
    BY <1>3, <1>types
      DEF RefusedByPool, LoopWaits, JobsMoveOn, TypeOK, approvalVars
  <2>2. CASE j # request.job
    <3>1. status'[j] = status[j] /\ answer'[j] = answer[j]
      BY <2>1, <2>2, <1>types DEF TypeOK
    <3>2. Outcome(j)' = Outcome(j)
      BY <3>1 DEF Outcome
    <3> QED
      BY <2>1, <3>1, <3>2, TicketRests
  <2>3. CASE j = request.job
    <3>1. answer'[j] = "refused" /\ status'[j] = IF status[j] = "gone" THEN "gone" ELSE "error"
      BY <2>1, <2>3, <1>types DEF TypeOK, Mark
    <3>2. /\ Outcome(j) \in {"open", "gone"}
          /\ Outcome(j)' = IF Outcome(j) = "open" THEN "error" ELSE "gone"
      BY <2>1, <2>3, <3>1 DEF Outcome
    <3>3. Ticket(j)!Reject
      BY <2>1, <2>3, <3>1, <3>2 DEF Ticket!Reject
    <3> QED
      BY <3>3 DEF Ticket!TicketNext
  <2> QED
    BY <2>2, <2>3
<1>4. ASSUME Answer PROVE [Ticket(j)!TicketNext]_(Ticket(j)!ticketVars)
  <2> DEFINE k == request.job
  <2>1. /\ k \in Jobs /\ k \in Drafts /\ answer[k] = "none" /\ status[k] # "none"
        /\ UNCHANGED <<status, executed>>
    BY <1>4, <1>types DEF Answer, LoopWaits, TypeOK, Drafts, Opened, jobVars
  <2>2. \/ /\ status[k] = "done" /\ Register(k)
           /\ answer' = [answer EXCEPT ![k] = "draft"]
        \/ /\ status[k] = "error" /\ UNCHANGED store
           /\ answer' = [answer EXCEPT ![k] = "failed"]
        \/ /\ status[k] \notin {"done", "error"} /\ UNCHANGED store
           /\ answer' = [answer EXCEPT ![k] = "accepted"]
    BY <1>4 DEF Answer
  <2> HIDE DEF k
  <2>3. Outcome(j)' = Outcome(j)
    BY <2>1 DEF Outcome
  <2>4. CASE j # k
    <3>1. answer'[j] = answer[j]
      BY <2>2, <2>4, <1>types DEF TypeOK
    <3>2. Register(k) => ToSet(store') \cap {j} \subseteq ToSet(store)
      BY <2>1, <2>4, <1>types, RegisterAdds DEF TypeOK
    <3>3. ToSet(store') \cap {j} \subseteq ToSet(store)
      BY <2>2, <3>2
    <3> QED
      BY <2>1, <2>3, <3>1, <3>3, TicketDrops
  <2>5. CASE j = k /\ status[j] = "done"
    <3>1. answer'[j] = "draft" /\ Register(j)
      BY <2>1, <2>2, <2>5, <1>types DEF TypeOK
    <3>2. (j \in ToSet(store')) = TRUE
      BY <2>1, <2>5, <3>1, <1>types, BoundsAssumption, NewestHasLast DEF Register, TypeOK
    <3>3. Outcome(j) = "done"
      BY <2>5 DEF Outcome
    <3>4. Ticket(j)!TellDraft
      BY <2>1, <2>3, <2>5, <3>1, <3>2, <3>3 DEF Ticket!TellDraft
    <3> QED
      BY <3>4 DEF Ticket!TicketNext
  <2>6. CASE j = k /\ status[j] = "error"
    <3>1. answer'[j] = "failed" /\ UNCHANGED store
      BY <2>1, <2>2, <2>6, <1>types DEF TypeOK
    <3>2. Outcome(j) = "error"
      BY <2>6 DEF Outcome
    <3>3. Ticket(j)!TellFailed
      BY <2>1, <2>3, <2>6, <3>1, <3>2 DEF Ticket!TellFailed
    <3> QED
      BY <3>3 DEF Ticket!TicketNext
  <2>7. CASE j = k /\ status[j] \notin {"done", "error"}
    <3>1. answer'[j] = "accepted" /\ UNCHANGED store
      BY <2>1, <2>2, <2>7, <1>types DEF TypeOK
    <3>2. Outcome(j) \in {"open", "gone"}
      BY <2>1, <2>7, <1>types DEF Outcome, TypeOK, Status
    <3>3. Ticket(j)!TellAccepted
      BY <2>1, <2>3, <2>7, <3>1, <3>2 DEF Ticket!TellAccepted
    <3> QED
      BY <3>3 DEF Ticket!TicketNext
  <2> QED
    BY <2>4, <2>5, <2>6, <2>7
<1>5. ASSUME EnterPool \/ StopPolling PROVE [Ticket(j)!TicketNext]_(Ticket(j)!ticketVars)
  <2>1. UNCHANGED <<status, answer, store, executed>>
    BY <1>5 DEF EnterPool, StopPolling, jobVars, approvalVars
  <2> QED
    BY <2>1, TicketRests DEF Outcome
<1> QED
  BY <1>1, <1>2, <1>3, <1>4, <1>5 DEF RequestStep

\* The pool: an open request ends, a forgotten one stays forgotten.
LEMMA PoolTicket ==
  ASSUME Invariant, NEW j \in Jobs, NEW w \in Workers, WorkerStep(w)
  PROVE  [Ticket(j)!TicketNext]_(Ticket(j)!ticketVars)
<1>types. TypeOK /\ JobsMoveOn /\ SuccessIsTheAgents
  BY DEF Invariant
<1>1. UNCHANGED <<answer, store, executed>>
  BY DEF WorkerStep, WorkerTakes, StopWaiting, Settle, approvalVars
<1>2. CASE WorkerTakes(w)
  <2>1. Head(queue) \in Jobs /\ Head(queue) = queue[1] /\ 1 \in DOMAIN queue
    BY <1>2, <1>types, TailKeeps DEF WorkerTakes, TypeOK
  <2>2. status[Head(queue)] \in {"queued", "gone"}
    BY <2>1, <1>types DEF JobsMoveOn
  <2>3. status' = [status EXCEPT ![Head(queue)] = Mark(Head(queue), "running")]
    BY <1>2 DEF WorkerTakes
  <2>4. \/ status'[j] = status[j]
        \/ status[j] = "queued" /\ status'[j] = "running"
    BY <2>1, <2>2, <2>3, <1>types DEF TypeOK, Mark
  <2>5. Outcome(j)' = Outcome(j)
    BY <2>4 DEF Outcome
  <2> QED
    BY <1>1, <2>5, TicketRests
<1>3. CASE StopWaiting(w)
  <2>1. Outcome(j)' = Outcome(j)
    BY <1>3 DEF StopWaiting, jobVars, Outcome
  <2> QED
    BY <1>1, <2>1, TicketRests
<1>4. CASE Settle(w)
  <2>1. working[w] \in Jobs /\ status[working[w]] \in {"running", "gone"}
    BY <1>4, <1>types DEF Settle, SuccessIsTheAgents, JobsMoveOn, TypeOK
  <2>2. \E to \in {"done", "error"} :
          status' = [status EXCEPT ![working[w]] = Mark(working[w], to)]
    BY <1>4 DEF Settle
  <2>3. \/ status'[j] = status[j]
        \/ status[j] = "running" /\ status'[j] \in {"done", "error"}
    BY <2>1, <2>2, <1>types DEF TypeOK, Mark
  <2>4. CASE status'[j] = status[j]
    <3>1. Outcome(j)' = Outcome(j)
      BY <2>4 DEF Outcome
    <3> QED
      BY <1>1, <3>1, TicketRests
  <2>5. CASE status[j] = "running" /\ status'[j] \in {"done", "error"}
    <3>1. Outcome(j) = "open" /\ Outcome(j)' \in {"done", "error"}
      BY <2>5 DEF Outcome
    <3>2. Ticket(j)!End
      BY <1>1, <3>1 DEF Ticket!End
    <3> QED
      BY <3>2 DEF Ticket!TicketNext
  <2> QED
    BY <2>3, <2>4, <2>5
<1> QED
  BY <1>2, <1>3, <1>4 DEF WorkerStep

\* Every step of the worker is a step or a stutter of each ticket.
LEMMA TicketStep ==
  ASSUME Invariant, Opened, [Next]_vars, NEW j \in Jobs
  PROVE  [Ticket(j)!TicketNext]_(Ticket(j)!ticketVars)
<1>types. TypeOK
  BY DEF Invariant
<1>1. ASSUME UNCHANGED <<status, answer, store, executed>>
      PROVE  [Ticket(j)!TicketNext]_(Ticket(j)!ticketVars)
  BY <1>1, TicketRests DEF Outcome
<1>2. ASSUME NEW a \in Previews, Preview(a)
      PROVE  [Ticket(j)!TicketNext]_(Ticket(j)!ticketVars)
  <2>1. a \in Drafts /\ a # j
    BY NamesAssumption DEF Drafts
  <2>2. ToSet(store') \cap {j} \subseteq ToSet(store) /\ UNCHANGED <<status, answer, executed>>
    BY <1>2, <2>1, <1>types, RegisterAdds DEF Preview, TypeOK, jobVars
  <2> QED
    BY <2>2, TicketDrops DEF Outcome
<1>3. ASSUME NEW a \in Drafts, NEW approved, NEW by, Execute(a, approved, by)
      PROVE  [Ticket(j)!TicketNext]_(Ticket(j)!ticketVars)
  <2>1. /\ a \in ToSet(store) /\ executed' = executed \cup {a}
        /\ UNCHANGED <<status, answer, store>>
    BY <1>3 DEF Execute, jobVars
  <2>2. Outcome(j)' = Outcome(j)
    BY <2>1 DEF Outcome
  <2>3. CASE a # j
    BY <2>1, <2>2, <2>3, TicketRests
  <2>4. CASE a = j
    <3>1. j \in ToSet(store) /\ (j \in executed') = TRUE
      BY <2>1, <2>4
    <3>2. Ticket(j)!Execute
      BY <2>1, <2>2, <3>1 DEF Ticket!Execute
    <3> QED
      BY <3>2 DEF Ticket!TicketNext
  <2> QED
    BY <2>3, <2>4
<1>4. ASSUME NEW k, AgentEnds(k) PROVE [Ticket(j)!TicketNext]_(Ticket(j)!ticketVars)
  BY <1>1, <1>4 DEF AgentEnds, jobVars, approvalVars
<1>5. ASSUME PoolCloses \/ DetectArrives \/ DetectServed \/ UNCHANGED vars
      PROVE  [Ticket(j)!TicketNext]_(Ticket(j)!ticketVars)
  BY <1>1, <1>5
    DEF PoolCloses, DetectArrives, DetectServed, vars, jobVars, approvalVars
<1> QED
  BY <1>2, <1>3, <1>4, <1>5, RequestTicket, PoolTicket DEF Next

(***************************************************************************)
(* The theorems.                                                           *)
(***************************************************************************)
\* The invariant holds in every reachable state, for any requests, pool and caps.
THEOREM InvariantHolds == Spec => []Invariant
<1>1. Invariant /\ [Next]_vars => Invariant'
  BY TypeStep, LoopWaitsStep, JobsMoveOnStep, SuccessStep, CountStep, OfferedStep DEF Invariant
<1> QED
  BY InvariantInit, <1>1, PTL DEF Spec

\* The state is well typed.
THEOREM TypeCorrect == Spec => []TypeOK
<1>1. Invariant => TypeOK
  BY DEF Invariant
<1> QED
  BY InvariantHolds, <1>1, PTL

\* "Total queued+running is capped" (jobs.py:7-8), and no place is ever lost or given
\* back twice.
THEOREM CountCorrect == Spec => []CountExact
<1>1. Invariant => CountExact
  BY DEF Invariant
<1> QED
  BY InvariantHolds, <1>1, PTL

\* What can be approved or was executed is the draft of a job that succeeded, and was
\* answered to the client as a draft (router.py, approvals.py).
THEOREM DraftsCorrect == Spec => []OnlyOfferedDrafts
<1>1. Invariant => OnlyOfferedDrafts
  BY DEF Invariant
<1> QED
  BY InvariantHolds, <1>1, PTL

\* The outcome of a job is final, whatever its abandoned agent still does
\* (jobs.py:81-84).
THEOREM OutcomesCorrect == Spec => OutcomeFinal
<1>1. Invariant /\ [Next]_vars => [OutcomesStay]_vars
  BY OutcomesStayStep
<1>2. Spec => [][OutcomesStay]_vars
  BY InvariantHolds, <1>1, PTL DEF Spec
<1> QED
  BY <1>2, PTL DEF OutcomeFinal, OutcomesStay

\* Each draft request implements the abstract ticket: it ends once, its client is
\* told once and the truth, and only a draft the client was told of is executed.
THEOREM TicketsImplemented == Spec => EveryJobIsATicket
<1>1. Init => Opened /\ \A j \in Jobs : Ticket(j)!TicketInit
  <2> SUFFICES ASSUME Init PROVE Opened /\ \A j \in Jobs : Ticket(j)!TicketInit
    OBVIOUS
  <2>1. ToSet(<< >>) = {}
    BY DEF ToSet
  <2>2. Opened
    BY <2>1 DEF Init, Opened, NoRequest
  <2>3. ASSUME NEW j \in Jobs PROVE Ticket(j)!TicketInit
    <3>1. Outcome(j) = "none" /\ answer[j] = "none"
      BY DEF Init, Outcome
    <3>2. (j \in ToSet(store)) = FALSE /\ (j \in executed) = FALSE
      BY <2>1 DEF Init
    <3> QED
      BY <3>1, <3>2 DEF Ticket!TicketInit
  <2> QED
    BY <2>2, <2>3
<1>2. Invariant /\ Opened /\ [Next]_vars => Opened'
  BY OpenedStep
<1>3. Invariant /\ Opened /\ [Next]_vars
        => [\A j \in Jobs : [Ticket(j)!TicketNext]_(Ticket(j)!ticketVars)]_vars
  BY TicketStep
<1> QED
  BY InvariantHolds, <1>1, <1>2, <1>3, PTL DEF Spec, EveryJobIsATicket

=============================================================================
