----------------------------- MODULE AgentJobs -----------------------------
(***************************************************************************)
(* The CPU agent layer: the bounded job queue (src/agentic_cpu/jobs.py),   *)
(* the draft routes that wait for a job on the event loop                  *)
(* (src/agentic_cpu/router.py) and the approval gate                       *)
(* (src/agentic_cpu/approvals.py).                                         *)
(*                                                                         *)
(* The event loop, the pool threads and one watched thread per job         *)
(* interleave at every lock.  A draft route holds the event loop, asleep   *)
(* included, until its answer.                                             *)
(***************************************************************************)
EXTENDS Naturals, FiniteSetsExt, SequencesExt

CONSTANTS
  Jobs,      \* bound: draft requests, each with one job and one draft
  Previews,  \* bound: drafts made by POST /agent/approvals/preview
  Workers,   \* CPU_AGENT_MAX_INFLIGHT pool threads
  QueueMax,  \* CPU_AGENT_QUEUE_MAX
  JobsMax,   \* _JOBS_MAX
  StoreMax,  \* approvals._MAX
  RequireApproval, \* CPU_AGENT_REQUIRE_APPROVAL
  MayExit,   \* bound: whether the executor may begin to refuse jobs
  None       \* no job, no approver

Drafts == Jobs \cup Previews

ASSUME NamesAssumption == None \notin Drafts /\ Jobs \cap Previews = {}
ASSUME BoundsAssumption ==
  /\ IsFiniteSet(Workers)
  /\ QueueMax \in Nat \ {0}
  /\ JobsMax \in Nat \ {0}
  /\ StoreMax \in Nat \ {0}
  /\ RequireApproval \in BOOLEAN
  /\ MayExit \in BOOLEAN

VARIABLES
  status,   \* job["status"]
  stored,   \* the keys of _JOBS, oldest first
  count,    \* _PENDING["n"]
  queue,    \* jobs submitted to the pool and not begun
  working,  \* the job a pool thread has, or None
  verdict,  \* what the pool thread saw when it stopped waiting
  agent,    \* the watched thread that runs a job's agent
  open,     \* the executor accepts jobs
  request,  \* the draft request on the event loop
  answer,   \* the answer each draft request got
  store,    \* the keys of approvals._STORE, oldest first
  executed, \* actions with a record in the action log
  detect    \* a POST /detect waits for the event loop

jobVars      == <<status, stored, count>>
poolVars     == <<queue, working, verdict, agent>>
approvalVars == <<store, executed>>
vars == <<status, stored, count, queue, working, verdict, agent, open, request,
          answer, store, executed, detect>>

\* "none": not created; "gone": evicted from _JOBS.
Status == {"none", "queued", "running", "done", "error", "gone"}

\* "submit": counted and stored, not in the pool; "poll": submit_and_wait();
\* "answer": the waiting is over.
RequestPc == {"idle", "submit", "poll", "answer"}

TypeOK ==
  /\ status \in [Jobs -> Status]
  /\ stored \in Seq(Jobs)
  /\ count \in Nat
  /\ queue \in Seq(Jobs)
  /\ working \in [Workers -> Jobs \cup {None}]
  /\ verdict \in [Workers -> {"waits", "value", "error"}]
  /\ agent \in [Jobs -> {"none", "running", "value", "raised"}]
  /\ open \in BOOLEAN
  /\ request \in [pc : RequestPc, job : Jobs \cup {None}]
  /\ answer \in [Jobs -> {"none", "draft", "failed", "accepted", "refused"}]
  /\ store \in Seq(Drafts)
  /\ executed \in SUBSET Drafts
  /\ detect \in BOOLEAN

NoRequest == [pc |-> "idle", job |-> None]

Init ==
  /\ status = [j \in Jobs |-> "none"]
  /\ stored = << >>
  /\ count = 0
  /\ queue = << >>
  /\ working = [w \in Workers |-> None]
  /\ verdict = [w \in Workers |-> "waits"]
  /\ agent = [j \in Jobs |-> "none"]
  /\ open = TRUE
  /\ request = NoRequest
  /\ answer = [j \in Jobs |-> "none"]
  /\ store = << >>
  /\ executed = {}
  /\ detect = FALSE

LoopFree == request = NoRequest

\* The newest entries that fit, as the eviction loops leave them.
Newest(s, n) == IF Len(s) <= n THEN s ELSE SubSeq(s, Len(s) - n + 1, Len(s))

\* A status is only written to a job that is still in _JOBS.
Mark(j, to) == IF status[j] = "gone" THEN "gone" ELSE to

(***************************************************************************)
(* A draft route: submit_and_wait() on the event loop.                     *)
(***************************************************************************)
QueueFull == count >= QueueMax

RefuseFull(j) ==
  /\ LoopFree
  /\ answer[j] = "none"
  /\ QueueFull
  /\ answer' = [answer EXCEPT ![j] = "refused"]
  /\ UNCHANGED <<jobVars, poolVars, open, request, approvalVars, detect>>

\* The job is counted and stored; the oldest jobs leave the store, whatever
\* their status.
CreateJob(j) ==
  /\ LoopFree
  /\ answer[j] = "none"
  /\ ~QueueFull
  /\ count' = count + 1
  /\ stored' = Newest(Append(stored, j), JobsMax)
  /\ status' = [k \in Jobs |->
                  IF k = j THEN "queued"
                  ELSE IF k \in ToSet(stored) \ ToSet(stored') THEN "gone"
                  ELSE status[k]]
  /\ request' = [pc |-> "submit", job |-> j]
  /\ UNCHANGED <<poolVars, open, answer, approvalVars, detect>>

EnterPool ==
  /\ request.pc = "submit"
  /\ open
  /\ queue' = Append(queue, request.job)
  /\ request' = [request EXCEPT !.pc = "poll"]
  /\ UNCHANGED <<jobVars, working, verdict, agent, open, answer, approvalVars,
                 detect>>

RefusalStaysCounted ==
  /\ request.pc = "submit"
  /\ ~open
  /\ status' = [status EXCEPT ![request.job] = Mark(request.job, "error")]
  /\ answer' = [answer EXCEPT ![request.job] = "refused"]
  /\ request' = NoRequest
  /\ UNCHANGED <<stored, count, poolVars, open, approvalVars, detect>>

\* An executor that refuses the job gives its place back.
RefusedByPool ==
  /\ request.pc = "submit"
  /\ ~open
  /\ count' = IF count = 0 THEN 0 ELSE count - 1
  /\ status' = [status EXCEPT ![request.job] = Mark(request.job, "error")]
  /\ answer' = [answer EXCEPT ![request.job] = "refused"]
  /\ request' = NoRequest
  /\ UNCHANGED <<stored, poolVars, open, approvalVars, detect>>

PollsUntilSuccess ==
  /\ request.pc = "poll"
  /\ status[request.job] = "done"
  /\ request' = [request EXCEPT !.pc = "answer"]
  /\ UNCHANGED <<jobVars, poolVars, open, answer, approvalVars, detect>>

\* The job is over, or the budget of min(2 s, job timeout) is.
StopPolling ==
  /\ request.pc = "poll"
  /\ request' = [request EXCEPT !.pc = "answer"]
  /\ UNCHANGED <<jobVars, poolVars, open, answer, approvalVars, detect>>

\* approvals.register(): the oldest drafts leave the store.
Register(a) == store' = Newest(Append(store, a), StoreMax)

AnswersWhatItPolled ==
  /\ request.pc = "answer"
  /\ Register(request.job)
  /\ answer' = [answer EXCEPT ![request.job] = "draft"]
  /\ request' = NoRequest
  /\ UNCHANGED <<jobVars, poolVars, open, executed, detect>>

\* The job is read again: its draft is registered for approval and answered,
\* or its error, or 202 when it is unfinished or evicted.
Answer ==
  LET j == request.job
  IN  /\ request.pc = "answer"
      /\ \/ /\ status[j] = "done"
            /\ Register(j)
            /\ answer' = [answer EXCEPT ![j] = "draft"]
         \/ /\ status[j] = "error"
            /\ answer' = [answer EXCEPT ![j] = "failed"]
            /\ UNCHANGED store
         \/ /\ status[j] \notin {"done", "error"}
            /\ answer' = [answer EXCEPT ![j] = "accepted"]
            /\ UNCHANGED store
      /\ request' = NoRequest
      /\ UNCHANGED <<jobVars, poolVars, open, executed, detect>>

(***************************************************************************)
(* The pool: _worker() and _run_with_timeout().                            *)
(***************************************************************************)
WorkerTakes(w) ==
  /\ working[w] = None
  /\ queue # << >>
  /\ working' = [working EXCEPT ![w] = Head(queue)]
  /\ queue' = Tail(queue)
  /\ status' = [status EXCEPT ![Head(queue)] = Mark(Head(queue), "running")]
  /\ agent' = [agent EXCEPT ![Head(queue)] = "running"]
  /\ UNCHANGED <<stored, count, verdict, open, request, answer, approvalVars,
                 detect>>

AgentWritesJob(j) ==
  /\ agent[j] = "running"
  /\ agent' = [agent EXCEPT ![j] = "value"]
  /\ status' = [status EXCEPT ![j] = Mark(j, "done")]
  /\ UNCHANGED <<stored, count, queue, working, verdict, open, request, answer,
                 approvalVars, detect>>

\* The agent ends, also long after its job has timed out.
AgentEnds(j) ==
  /\ agent[j] = "running"
  /\ \E end \in {"value", "raised"} : agent' = [agent EXCEPT ![j] = end]
  /\ UNCHANGED <<jobVars, queue, working, verdict, open, request, answer,
                 approvalVars, detect>>

WaitsForAgent(w) ==
  /\ working[w] # None
  /\ verdict[w] = "waits"
  /\ agent[working[w]] # "running"
  /\ verdict' = [verdict EXCEPT
                   ![w] = IF agent[working[w]] = "value" THEN "value" ELSE "error"]
  /\ UNCHANGED <<jobVars, queue, working, agent, open, request, answer,
                 approvalVars, detect>>

\* join() returns: the agent has ended, or the timeout has passed and its
\* thread is abandoned.
StopWaiting(w) ==
  /\ working[w] # None
  /\ verdict[w] = "waits"
  /\ verdict' = [verdict EXCEPT
                   ![w] = IF agent[working[w]] = "value" THEN "value" ELSE "error"]
  /\ UNCHANGED <<jobVars, queue, working, agent, open, request, answer,
                 approvalVars, detect>>

\* The outcome is stored, if the job still is, and its place is given back.
Settle(w) ==
  /\ verdict[w] # "waits"
  /\ status' = [status EXCEPT ![working[w]] = Mark(working[w],
                  IF verdict[w] = "value" THEN "done" ELSE "error")]
  /\ count' = IF count = 0 THEN 0 ELSE count - 1
  /\ working' = [working EXCEPT ![w] = None]
  /\ verdict' = [verdict EXCEPT ![w] = "waits"]
  /\ UNCHANGED <<stored, queue, agent, open, request, answer, approvalVars, detect>>

PoolCloses ==
  /\ MayExit
  /\ open
  /\ open' = FALSE
  /\ UNCHANGED <<jobVars, poolVars, request, answer, approvalVars, detect>>

(***************************************************************************)
(* Approvals, on the event loop.                                           *)
(***************************************************************************)
\* POST /agent/approvals/preview drafts and registers in one go.
Preview(a) ==
  /\ LoopFree
  /\ a \notin ToSet(store) \cup executed
  /\ Register(a)
  /\ UNCHANGED <<jobVars, poolVars, open, request, answer, executed, detect>>

\* POST /agent/approvals/execute: a draft is executed only if somebody
\* approves it.  Every draft requires approval: the registered agents make types that do,
\* and none turns the flag of new_action() off.  An executed action may be executed again.
Execute(a, approved, by) ==
  /\ LoopFree
  /\ a \in ToSet(store)
  /\ RequireApproval => approved /\ by # None
  /\ executed' = executed \cup {a}
  /\ UNCHANGED <<jobVars, poolVars, open, request, answer, store, detect>>

(***************************************************************************)
(* POST /detect, as far as it needs the event loop.                        *)
(***************************************************************************)
DetectArrives ==
  /\ ~detect
  /\ detect' = TRUE
  /\ UNCHANGED <<jobVars, poolVars, open, request, answer, approvalVars>>

DetectServed ==
  /\ detect
  /\ LoopFree
  /\ detect' = FALSE
  /\ UNCHANGED <<jobVars, poolVars, open, request, answer, approvalVars>>

-----------------------------------------------------------------------------
RequestStep == EnterPool \/ RefusedByPool \/ StopPolling \/ Answer

WorkerStep(w) == WorkerTakes(w) \/ StopWaiting(w) \/ Settle(w)

Next ==
  \/ \E j \in Jobs : RefuseFull(j) \/ CreateJob(j) \/ AgentEnds(j)
  \/ RequestStep
  \/ \E w \in Workers : WorkerStep(w)
  \/ PoolCloses
  \/ \E a \in Previews : Preview(a)
  \/ \E a \in Drafts, approved \in BOOLEAN, by \in {"somebody", None} :
       Execute(a, approved, by)
  \/ DetectArrives
  \/ DetectServed

Spec == Init /\ [][Next]_vars

\* Pool threads run, both timeouts pass, the event loop goes on.  The agents
\* owe nothing: a call to a language model may never return.
Fairness ==
  /\ WF_vars(RequestStep)
  /\ \A w \in Workers : WF_vars(WorkerStep(w))
  /\ SF_vars(DetectServed)

FairSpec == Spec /\ Fairness

(***************************************************************************)
(* Safety.                                                                 *)
(***************************************************************************)
\* jobs.py:7-8, "Total queued+running is capped": _PENDING counts exactly the
\* jobs that are being submitted, queued or run, through refusals, timeouts and
\* evictions; a place that was not given back would be lost for ever.
CountExact ==
  /\ count = Len(queue) + Cardinality({w \in Workers : working[w] # None})
               + (IF request.pc = "submit" THEN 1 ELSE 0)
  /\ count <= QueueMax

\* An outcome never changes, whatever an abandoned agent still does.
OutcomeFinal ==
  [][\A j \in Jobs :
       status[j] \in {"done", "error"} => status'[j] \in {status[j], "gone"}]_vars

\* What can be approved was answered to the client as a draft, and it is the
\* draft of a job that succeeded: none of a failed or timed-out job is.
OnlyOfferedDrafts ==
  \A j \in Jobs \cap (ToSet(store) \cup executed) :
    answer[j] = "draft" /\ status[j] \in {"done", "gone"} /\ agent[j] = "value"

(***************************************************************************)
(* What the proofs of these add: where a job is says what its status is.   *)
(***************************************************************************)
\* No thread and no store has heard of the job.
Untouched(j) ==
  /\ status[j] = "none" /\ agent[j] = "none"
  /\ j \notin ToSet(queue) /\ j \notin ToSet(stored)
  /\ \A w \in Workers : working[w] # j

\* The loop waits for a job it has not answered for; a job nobody has waited for or
\* refused is untouched.
LoopWaits ==
  /\ request.pc = "idle" => request = NoRequest
  /\ request.pc # "idle" => request.job # None /\ answer[request.job] = "none"
  /\ \A j \in Jobs : answer[j] = "none" /\ request.job # j => Untouched(j)

\* A job is submitted, queued, or run by one thread; it is settled after that.
JobsMoveOn ==
  /\ request.pc = "submit" =>
       /\ status[request.job] \in {"queued", "gone"} /\ agent[request.job] = "none"
       /\ request.job \notin ToSet(queue)
  /\ \A i \in DOMAIN queue :
       status[queue[i]] \in {"queued", "gone"} /\ agent[queue[i]] = "none"
  /\ \A i, k \in DOMAIN queue : queue[i] = queue[k] => i = k
  /\ \A w \in Workers : working[w] # None =>
       status[working[w]] \in {"running", "gone"} /\ agent[working[w]] # "none"
  /\ \A v, w \in Workers : working[v] = working[w] /\ working[v] # None => v = w

\* A job succeeds by what its agent returned.
SuccessIsTheAgents ==
  /\ \A w \in Workers :
       /\ verdict[w] # "waits" => working[w] # None
       /\ verdict[w] = "value" => agent[working[w]] = "value"
  /\ \A j \in Jobs : status[j] = "done" => agent[j] = "value"

Invariant ==
  TypeOK /\ LoopWaits /\ JobsMoveOn /\ SuccessIsTheAgents /\ CountExact
    /\ OnlyOfferedDrafts

(***************************************************************************)
(* Each draft request implements the abstract ticket.                      *)
(***************************************************************************)
Outcome(j) == IF status[j] \in {"queued", "running"} THEN "open" ELSE status[j]

Ticket(j) == INSTANCE DraftTicket
               WITH outcome <- Outcome(j), told <- answer[j],
                    offered <- j \in ToSet(store), executed <- j \in executed

\* Behind queue, pool threads, abandoned agents and evictions, each request ends
\* once, its client is told once and the truth, and no draft but one the client was
\* told of can be approved or executed ("On timeout the thread is abandoned and the
\* job is marked timed out", jobs.py:81-84).
EveryJobIsATicket ==
  /\ \A j \in Jobs : Ticket(j)!TicketInit
  /\ [][\A j \in Jobs : [Ticket(j)!TicketNext]_(Ticket(j)!ticketVars)]_vars

(***************************************************************************)
(* Liveness, under FairSpec.                                               *)
(***************************************************************************)
\* jobs.py:9-10, "Each job has a hard timeout": a job in the pool ends although
\* its agent never does.
JobsEnd ==
  \A j \in Jobs :
    j \in ToSet(queue) ~> status[j] \in {"done", "error", "gone"}

\* A detection request is served, however long the agents take.
DetectIsServed == detect ~> ~detect
=============================================================================
