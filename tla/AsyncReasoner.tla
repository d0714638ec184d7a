--------------------------- MODULE AsyncReasoner ---------------------------
(***************************************************************************)
(* The background reasoning jobs of temporal_reasoning/async_reasoning.py: *)
(* admission under _LOCK, the latest-wins pending frame of each session,   *)
(* the bounded thread pool, the GPU slot of gpu_vision/concurrency.py and  *)
(* the reasoner state of temporal_reasoning/session_memory.py.             *)
(*                                                                         *)
(* maybe_trigger() is called by POST /detect on the event loop, one call   *)
(* at a time; the pool threads interleave with it at every lock.           *)
(***************************************************************************)
EXTENDS Naturals, FiniteSetsExt, SequencesExt

CONSTANTS
  Sessions,   \* session ids
  Workers,    \* the pool: TEMPORAL_REASONING_MAX_ASYNC_JOBS threads
  GpuSlots,   \* GPU_REASONER_MAX_INFLIGHT
  LatestWins, \* REASONER_LATEST_WINS
  MayExit,    \* bound: whether the process may begin to exit
  None        \* no session

ASSUME NoneAssumption == None \notin Sessions
ASSUME BoundsAssumption ==
  /\ IsFiniteSet(Workers)
  /\ Workers # {}
  /\ GpuSlots \in Nat \ {0}
  /\ LatestWins \in BOOLEAN /\ MayExit \in BOOLEAN

MaxJobs == Cardinality(Workers)

VARIABLES
  inflight,   \* _INFLIGHT
  pending,    \* _PENDING: no frame, a fresh one, or one past its maximal age
  recent,     \* the last trigger is less than the minimal interval ago
  queue,      \* jobs submitted to the pool and not begun
  job,        \* the session whose job a worker runs, or None
  at,         \* where the worker is in _run_job()
  slots,      \* gpu_vision _INFLIGHT["n"]
  state,      \* pending_reasoner_state of the session's memory record
  caller,     \* the call of maybe_trigger() in progress
  poolOpen    \* the executor accepts jobs: the process is not exiting

poolVars == <<queue, job, at, slots>>
vars == <<inflight, pending, recent, queue, job, at, slots, state,
          caller, poolOpen>>

(***************************************************************************)
(* Types.                                                                  *)
(***************************************************************************)
\* "failed": one of _TERMINAL_FAILURE_STATES, younger than the cache TTL;
\* "queued": or queued_latest; "settled": no record, or a state that announces
\* no work and stops none (idle, ready, throttled, unavailable, an old failure).
ReasonerState == {"settled", "queued", "running", "failed"}

\* "slot": takes a GPU slot; "mark": sets "running"; "infer": mock or model;
\* "exit": gives the slot back; "final": the finally clause; "again": submits
\* the pending frame.
WorkerPc == {"idle", "slot", "throttle", "mark", "infer", "exit", "final", "again"}

\* "check": reads the cached state; "admit": wants _LOCK; "mark": sets
\* "queued"; "submit": hands the job to the pool.
CallerPc == {"idle", "check", "admit", "mark", "submit"}

TypeOK ==
  /\ inflight \in SUBSET Sessions
  /\ pending \in [Sessions -> {"no", "fresh", "stale"}]
  /\ recent \in [Sessions -> BOOLEAN]
  /\ queue \in Seq(Sessions)
  /\ job \in [Workers -> Sessions \cup {None}]
  /\ at \in [Workers -> WorkerPc]
  /\ slots \in Nat
  /\ state \in [Sessions -> ReasonerState]
  /\ caller \in [pc : CallerPc, session : Sessions \cup {None}, force : BOOLEAN]
  /\ poolOpen \in BOOLEAN

NoCall == [pc |-> "idle", session |-> None, force |-> FALSE]

Init ==
  /\ inflight = {}
  /\ pending = [s \in Sessions |-> "no"]
  /\ recent = [s \in Sessions |-> FALSE]
  /\ queue = << >>
  /\ job = [w \in Workers |-> None]
  /\ at = [w \in Workers |-> "idle"]
  /\ slots = 0
  /\ state = [s \in Sessions |-> "settled"]
  /\ caller = NoCall
  /\ poolOpen = TRUE

\* session_memory.set_reasoner_state(), which makes a record if there is none.
SetState(s, to) == state' = [state EXCEPT ![s] = to]

(***************************************************************************)
(* maybe_trigger().                                                        *)
(***************************************************************************)
\* A frame with a reason to reason arrives.
FrameArrives(s) ==
  /\ caller = NoCall
  /\ \E force \in BOOLEAN :
       caller' = [pc |-> "check", session |-> s, force |-> force]
  /\ UNCHANGED <<inflight, pending, recent, poolVars, state, poolOpen>>

\* A recent failure is reported again instead of a new try, unless forced.
CheckFailure ==
  /\ caller.pc = "check"
  /\ caller' = IF ~caller.force /\ state[caller.session] = "failed"
                 THEN NoCall ELSE [caller EXCEPT !.pc = "admit"]
  /\ UNCHANGED <<inflight, pending, recent, poolVars, state, poolOpen>>

\* A job of the session is in flight: the frame replaces the pending one.
QueueLatest ==
  /\ caller.pc = "admit"
  /\ caller.session \in inflight
  /\ IF LatestWins
       THEN /\ pending' = [pending EXCEPT ![caller.session] = "fresh"]
            /\ SetState(caller.session, "queued")
       ELSE UNCHANGED <<pending, state>>
  /\ caller' = NoCall
  /\ UNCHANGED <<inflight, recent, poolVars, poolOpen>>

\* The global cap.
Full(jobs) == Cardinality(jobs) >= MaxJobs

Throttle ==
  /\ caller.pc = "admit"
  /\ caller.session \notin inflight
  /\ recent[caller.session] \/ Full(inflight)
  /\ caller' = NoCall
  /\ UNCHANGED <<inflight, pending, recent, poolVars, state, poolOpen>>

Admit ==
  /\ caller.pc = "admit"
  /\ caller.session \notin inflight
  /\ ~recent[caller.session]
  /\ ~Full(inflight)
  /\ inflight' = inflight \cup {caller.session}
  /\ recent' = [recent EXCEPT ![caller.session] = TRUE]
  /\ caller' = [caller EXCEPT !.pc = "mark"]
  /\ UNCHANGED <<pending, poolVars, state, poolOpen>>

MarkQueued ==
  /\ caller.pc = "mark"
  /\ SetState(caller.session, "queued")
  /\ caller' = [caller EXCEPT !.pc = "submit"]
  /\ UNCHANGED <<inflight, pending, recent, poolVars, poolOpen>>

RefusalStaysInFlight(s) ==
  IF poolOpen THEN queue' = Append(queue, s) /\ UNCHANGED inflight
              ELSE UNCHANGED <<inflight, queue>>

\* _submit_job(): a pool that refuses the job takes it out of flight.
SubmitOrDiscard(s) ==
  IF poolOpen
    THEN queue' = Append(queue, s) /\ UNCHANGED inflight
    ELSE inflight' = inflight \ {s} /\ UNCHANGED queue

SubmitJob ==
  /\ caller.pc = "submit"
  /\ SubmitOrDiscard(caller.session)
  /\ caller' = NoCall
  /\ UNCHANGED <<pending, recent, job, at, slots, state, poolOpen>>

(***************************************************************************)
(* _run_job().                                                             *)
(***************************************************************************)
Goto(w, place) == at' = [at EXCEPT ![w] = place]

WorkerTakes(w) ==
  /\ at[w] = "idle"
  /\ queue # << >>
  /\ job' = [job EXCEPT ![w] = Head(queue)]
  /\ queue' = Tail(queue)
  /\ Goto(w, "slot")
  /\ UNCHANGED <<inflight, pending, recent, slots, state, caller, poolOpen>>

\* gpu_reasoner_slot(): a slot, or none and the job is dropped.
EnterSlot(w) ==
  /\ at[w] = "slot"
  /\ IF slots < GpuSlots
       THEN slots' = slots + 1 /\ Goto(w, "mark")
       ELSE Goto(w, "throttle") /\ UNCHANGED slots
  /\ UNCHANGED <<inflight, pending, recent, queue, job, state, caller, poolOpen>>

DropsSilently(w) ==
  /\ at[w] = "throttle"
  /\ Goto(w, "final")
  /\ UNCHANGED <<inflight, pending, recent, queue, job, slots, state, caller,
                 poolOpen>>

DropThrottled(w) ==
  /\ at[w] = "throttle"
  /\ SetState(job[w], "settled")
  /\ Goto(w, "final")
  /\ UNCHANGED <<inflight, pending, recent, queue, job, slots, caller, poolOpen>>

MarkRunning(w) ==
  /\ at[w] = "mark"
  /\ SetState(job[w], "running")
  /\ Goto(w, "infer")
  /\ UNCHANGED <<inflight, pending, recent, queue, job, slots, caller, poolOpen>>

\* The model answers, cannot be parsed, is not there, or raises.
Infer(w) ==
  /\ at[w] = "infer"
  /\ \E result \in {"settled", "failed"} : SetState(job[w], result)
  /\ Goto(w, "exit")
  /\ UNCHANGED <<inflight, pending, recent, queue, job, slots, caller, poolOpen>>

ExitWithoutRelease(w) ==
  /\ at[w] = "exit"
  /\ slots' = IF state[job[w]] = "failed" THEN slots ELSE slots - 1
  /\ Goto(w, "final")
  /\ UNCHANGED <<inflight, pending, recent, queue, job, state, caller, poolOpen>>

ExitSlot(w) ==
  /\ at[w] = "exit"
  /\ slots' = IF slots = 0 THEN 0 ELSE slots - 1
  /\ Goto(w, "final")
  /\ UNCHANGED <<inflight, pending, recent, queue, job, state, caller, poolOpen>>

FinallyKeepsPending(w) ==
  /\ at[w] = "final"
  /\ inflight' = inflight \ {job[w]}
  /\ job' = [job EXCEPT ![w] = None]
  /\ Goto(w, "idle")
  /\ UNCHANGED <<pending, recent, state, queue, slots, caller, poolOpen>>

FinallyAnnouncesStale(w) ==
  LET s == job[w]
  IN  /\ at[w] = "final"
      /\ pending' = [pending EXCEPT ![s] = "no"]
      /\ IF pending[s] = "no" THEN UNCHANGED state ELSE SetState(s, "queued")
      /\ IF pending[s] = "fresh" /\ ~Full(inflight \ {s})
           THEN /\ recent' = [recent EXCEPT ![s] = TRUE]
                /\ Goto(w, "again")
                /\ UNCHANGED <<inflight, job>>
           ELSE /\ inflight' = inflight \ {s}
                /\ job' = [job EXCEPT ![w] = None]
                /\ Goto(w, "idle")
                /\ UNCHANGED recent
      /\ UNCHANGED <<queue, slots, caller, poolOpen>>

\* The pending frame is run after the job, whatever the job's outcome and
\* however short ago the last trigger was; a stale one is forgotten.
Finally(w) ==
  LET s == job[w]
  IN  /\ at[w] = "final"
      /\ pending' = [pending EXCEPT ![s] = "no"]
      /\ IF pending[s] = "fresh" /\ ~Full(inflight \ {s})
           THEN /\ recent' = [recent EXCEPT ![s] = TRUE]
                /\ SetState(s, "queued")
                /\ Goto(w, "again")
                /\ UNCHANGED <<inflight, job>>
           ELSE /\ inflight' = inflight \ {s}
                /\ job' = [job EXCEPT ![w] = None]
                /\ Goto(w, "idle")
                /\ UNCHANGED <<recent, state>>
      /\ UNCHANGED <<queue, slots, caller, poolOpen>>

Resubmit(w) ==
  /\ at[w] = "again"
  /\ SubmitOrDiscard(job[w])
  /\ job' = [job EXCEPT ![w] = None]
  /\ Goto(w, "idle")
  /\ UNCHANGED <<pending, recent, slots, state, caller, poolOpen>>

(***************************************************************************)
(* Time, and the end of the process.                                       *)
(***************************************************************************)
IntervalPasses(s) ==
  /\ recent[s]
  /\ recent' = [recent EXCEPT ![s] = FALSE]
  /\ UNCHANGED <<inflight, pending, poolVars, state, caller, poolOpen>>

FailureAges(s) ==
  /\ state[s] = "failed"
  /\ SetState(s, "settled")
  /\ UNCHANGED <<inflight, pending, recent, poolVars, caller, poolOpen>>

\* Only waiting for a worker or for the model takes that long.
PendingAges(s) ==
  /\ pending[s] = "fresh"
  /\ s \in ToSet(queue) \/ \E w \in Workers : job[w] = s /\ at[w] = "infer"
  /\ pending' = [pending EXCEPT ![s] = "stale"]
  /\ UNCHANGED <<inflight, recent, poolVars, state, caller, poolOpen>>

\* The record expires, or another session evicts it.
MemoryForgets(s) ==
  /\ state[s] \in {"queued", "running"}
  /\ caller.session # s
  /\ SetState(s, "settled")
  /\ UNCHANGED <<inflight, pending, recent, poolVars, caller, poolOpen>>

PoolCloses ==
  /\ MayExit
  /\ poolOpen
  /\ poolOpen' = FALSE
  /\ UNCHANGED <<inflight, pending, recent, poolVars, state, caller>>

-----------------------------------------------------------------------------
CallerStep ==
  CheckFailure \/ QueueLatest \/ Throttle \/ Admit \/ MarkQueued \/ SubmitJob

WorkerStep(w) ==
  \/ WorkerTakes(w)
  \/ EnterSlot(w)
  \/ DropThrottled(w)
  \/ MarkRunning(w)
  \/ Infer(w)
  \/ ExitSlot(w)
  \/ Finally(w)
  \/ Resubmit(w)

Next ==
  \/ \E s \in Sessions : FrameArrives(s)
  \/ CallerStep
  \/ \E w \in Workers : WorkerStep(w)
  \/ \E s \in Sessions :
       IntervalPasses(s) \/ FailureAges(s) \/ PendingAges(s) \/ MemoryForgets(s)
  \/ PoolCloses

Spec == Init /\ [][Next]_vars

\* Pool threads run, the model answers or raises, and maybe_trigger() awaits
\* nothing; frames, time and memory owe nothing.
Fairness ==
  /\ \A w \in Workers : WF_vars(WorkerStep(w))
  /\ WF_vars(CallerStep)

FairSpec == Spec /\ Fairness

(***************************************************************************)
(* Safety.                                                                 *)
(***************************************************************************)
\* A worker that still counts for the session in _INFLIGHT.
Works(w, s) == job[w] = s

Admitted(s) == caller.session = s /\ caller.pc \in {"mark", "submit"}

\* "one in-flight reasoner job per session" and "global concurrency cap"
\* (async_reasoning.py:10-12): a session is in _INFLIGHT exactly while one job of
\* it is being submitted, queued or run, through failures, refusals and
\* resubmissions, and all sessions together keep within the pool; otherwise a
\* session would never be reasoned about again, or twice at once.
JobsAccounted ==
  /\ \A s \in Sessions :
       LET jobs == Cardinality({i \in DOMAIN queue : queue[i] = s})
                     + Cardinality({w \in Workers : Works(w, s)})
                     + (IF Admitted(s) THEN 1 ELSE 0)
       IN  jobs = IF s \in inflight THEN 1 ELSE 0
  /\ Cardinality(inflight) <= MaxJobs

\* A GPU slot is taken exactly while a worker uses it, whatever its job does.
SlotsExact ==
  /\ slots = Cardinality({w \in Workers : at[w] \in {"mark", "infer", "exit"}})
  /\ slots <= GpuSlots

\* reasoner_status tells the client the truth: work that is announced exists.
StateTruthful ==
  poolOpen =>
    \A s \in Sessions :
      state[s] \in {"queued", "running"} => s \in inflight

(***************************************************************************)
(* What the proofs of these add.                                           *)
(***************************************************************************)
\* A call is about a session; a worker is idle exactly while it has no job.
CallsAndWorkers ==
  /\ caller.pc # "idle" => caller.session \in Sessions
  /\ \A w \in Workers : at[w] = "idle" <=> job[w] = None

\* A session in flight is in one place: being submitted, queued or run.
OnePlaceEach ==
  /\ \A s \in Sessions :
       s \in inflight <=> \/ Admitted(s)
                          \/ s \in ToSet(queue)
                          \/ \E w \in Workers : job[w] = s
  /\ \A i, j \in DOMAIN queue : queue[i] = queue[j] => i = j
  /\ \A v, w \in Workers : job[v] = job[w] /\ job[v] # None => v = w
  /\ \A w \in Workers : job[w] \notin ToSet(queue)
  /\ \A s \in Sessions :
       Admitted(s) => s \notin ToSet(queue) /\ \A w \in Workers : job[w] # s

CapKept == IsFiniteSet(inflight) /\ Cardinality(inflight) <= MaxJobs

\* After its model a job leaves work announced only if a newer frame is pending.
AnnouncedIsPending ==
  \A w \in Workers :
    at[w] \in {"exit", "final"} /\ state[job[w]] \in {"queued", "running"} =>
      pending[job[w]] = "fresh"

Invariant ==
  TypeOK /\ CallsAndWorkers /\ OnePlaceEach /\ CapKept /\ SlotsExact /\ AnnouncedIsPending
    /\ StateTruthful

(***************************************************************************)
(* Liveness, under FairSpec.                                               *)
(***************************************************************************)
\* A pending frame is run or forgotten.
PendingSettles ==
  \A s \in Sessions : pending[s] # "no" ~> pending[s] = "no" \/ ~poolOpen

\* Work that is announced to the client comes to an end that is announced too,
\* also when the GPU is saturated and when newer frames keep coming.
AnnouncedWorkEnds ==
  \A s \in Sessions :
    state[s] \in {"queued", "running"} ~>
      state[s] \in {"settled", "failed"} \/ ~poolOpen
=============================================================================
