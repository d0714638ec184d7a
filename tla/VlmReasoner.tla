---------------------------- MODULE VlmReasoner ----------------------------
(***************************************************************************)
(* The rate-limited VLM reasoner of risk/vlm_reasoner.py: maybe_trigger()  *)
(* serves the draft a session has in the cache and may start the next job, *)
(* and _run_and_cache() runs it in a bounded pool under a hard timeout.    *)
(*                                                                         *)
(* maybe_trigger() is called by POST /detect on the event loop, one call   *)
(* at a time.  Between its lock and the submission no other call runs and  *)
(* no thread works for the session, so a call is one action.  Time stamps  *)
(* are ages, each up to the limit the code compares it with.               *)
(***************************************************************************)
EXTENDS Naturals, FiniteSetsExt, SequencesExt

CONSTANTS
  Sessions,    \* session ids
  Workers,     \* the pool: REASONER_MAX_WORKERS threads
  MaxSessions, \* REASONER_MAX_SESSIONS
  MinInterval, \* REASONER_MIN_INTERVAL_MS, in ticks
  CacheTtl,    \* REASONER_CACHE_TTL_MS, in ticks
  Backoff,     \* REASONER_ERROR_BACKOFF_MS, in ticks
  MaxJobs,     \* bound: jobs started per session
  None         \* no draft, no job

ASSUME NoneAssumption ==
  /\ None \notin [session : Sessions, no : Nat]
  /\ None \notin [ok : BOOLEAN, no : Nat, age : Nat]
  /\ None \notin [ok : BOOLEAN, no : Nat]
ASSUME BoundsAssumption ==
  /\ IsFiniteSet(Sessions)
  /\ MaxSessions \in Nat \ {0}
  /\ MinInterval \in Nat /\ CacheTtl \in Nat /\ Backoff \in Nat
  /\ MaxJobs \in Nat

VARIABLES
  cache,     \* _CACHE: a draft and its age, or None
  runAge,    \* age of _LAST_RUN_MS, MinInterval when it does not matter
  errorAge,  \* age of _LAST_ERROR_MS, Backoff when it does not matter
  inflight,  \* _INFLIGHT
  queue,     \* jobs submitted to the pool and not begun
  job,       \* the job of a pool thread, or None
  at,        \* where it is in _run_and_cache()
  reply,     \* what it will store
  poolOpen,  \* the executor accepts jobs: the process is not exiting
  \* history, read by no guard of the code
  started,   \* jobs started for the session; a job is known by its number
  failedAge, \* age of the last failure, Backoff when that is long ago
  forgotten  \* sessions swept since their last failure

limitVars   == <<runAge, errorAge>>
poolVars    == <<queue, job, at, reply, poolOpen>>
historyVars == <<started, failedAge, forgotten>>
vars == <<cache, limitVars, inflight, poolVars, historyVars>>

\* _sweep() forgets a session this long after its draft.
Horizon == 4 * Max({CacheTtl, MinInterval})

Drafts == [ok : BOOLEAN, no : Nat, age : 0..(Horizon + 1)]
Jobs   == [session : Sessions, no : Nat]

TypeOK ==
  /\ cache \in [Sessions -> Drafts \cup {None}]
  /\ runAge \in [Sessions -> 0..MinInterval]
  /\ errorAge \in [Sessions -> 0..Backoff]
  /\ inflight \in SUBSET Sessions
  /\ queue \in Seq(Jobs)
  /\ job \in [Workers -> Jobs \cup {None}]
  /\ at \in [Workers -> {"idle", "wait", "store", "final"}]
  /\ reply \in [Workers -> {"ok", "failed"}]
  /\ poolOpen \in BOOLEAN
  /\ started \in [Sessions -> Nat]
  /\ failedAge \in [Sessions -> 0..Backoff]
  /\ forgotten \in SUBSET Sessions

Init ==
  /\ cache = [s \in Sessions |-> None]
  /\ runAge = [s \in Sessions |-> MinInterval]
  /\ errorAge = [s \in Sessions |-> Backoff]
  /\ inflight = {}
  /\ queue = << >>
  /\ job = [w \in Workers |-> None]
  /\ at = [w \in Workers |-> "idle"]
  /\ reply = [w \in Workers |-> "ok"]
  /\ poolOpen = TRUE
  /\ started = [s \in Sessions |-> 0]
  /\ failedAge = [s \in Sessions |-> Backoff]
  /\ forgotten = {}

(***************************************************************************)
(* maybe_trigger().                                                        *)
(***************************************************************************)
Cached == {s \in Sessions : cache[s] # None}

\* The sets _sweep() may forget: every session whose draft is past the horizon
\* and, while more than MaxSessions are left, those with the oldest drafts.
Swept ==
  LET old  == {s \in Cached : cache[s].age > Horizon}
      left == Cached \ old
      more == IF Cardinality(left) > MaxSessions
                THEN Cardinality(left) - MaxSessions ELSE 0
      eldest == {X \in kSubset(more, left) :
                   \A s \in X, t \in left \ X : cache[s].age >= cache[t].age}
  IN  {old \cup X : X \in eldest}

\* The draft that is still served, and blocks a retry if it is a failure.
Fresh(s, gone)    == s \in Cached \ gone /\ cache[s].age <= CacheTtl
ShowsFailure(s, gone) == Fresh(s, gone) /\ ~cache[s].ok

RateForgetsErrors(s, gone) == s \in gone \/ runAge[s] >= MinInterval

\* The interval since the last run and the wait after a failure are over;
\* what the sweep has forgotten limits nothing.
RateAllows(s, gone) ==
  \/ s \in gone
  \/ runAge[s] >= MinInterval /\ errorAge[s] >= Backoff

TriggersTwice(s, gone, force) ==
  /\ force \/ ~ShowsFailure(s, gone)
  /\ RateAllows(s, gone)

MayTrigger(s, gone, force) ==
  /\ force \/ ~ShowsFailure(s, gone)
  /\ s \notin inflight
  /\ RateAllows(s, gone)

Forget(gone) ==
  /\ cache' = [s \in Sessions |-> IF s \in gone THEN None ELSE cache[s]]
  /\ errorAge' = [s \in Sessions |-> IF s \in gone THEN Backoff ELSE errorAge[s]]
  /\ forgotten' = forgotten \cup gone

\* The level is too low, or a limit holds: only the sweep has an effect.
ServeOnly ==
  /\ \E gone \in Swept :
       /\ Forget(gone)
       /\ runAge' = [s \in Sessions |-> IF s \in gone THEN MinInterval ELSE runAge[s]]
  /\ UNCHANGED <<inflight, poolVars, started, failedAge>>

\* A pool that refuses the job takes it out of flight.
Submit(s) ==
  IF poolOpen
    THEN /\ queue' = Append(queue, [session |-> s, no |-> started[s] + 1])
         /\ inflight' = inflight \cup {s}
    ELSE UNCHANGED <<queue, inflight>>

Trigger(s, force) ==
  /\ started[s] < MaxJobs
  /\ \E gone \in Swept :
       /\ MayTrigger(s, gone, force)
       /\ Forget(gone)
       /\ runAge' = [t \in Sessions |->
                       IF t = s THEN 0
                       ELSE IF t \in gone THEN MinInterval ELSE runAge[t]]
  /\ Submit(s)
  /\ started' = [started EXCEPT ![s] = @ + 1]
  /\ UNCHANGED <<job, at, reply, poolOpen, failedAge>>

(***************************************************************************)
(* _run_and_cache().                                                       *)
(***************************************************************************)
Goto(w, place) == at' = [at EXCEPT ![w] = place]

WorkerTakes(w) ==
  /\ at[w] = "idle"
  /\ queue # << >>
  /\ job' = [job EXCEPT ![w] = Head(queue)]
  /\ queue' = Tail(queue)
  /\ Goto(w, "wait")
  /\ UNCHANGED <<cache, limitVars, inflight, reply, poolOpen, historyVars>>

\* reason_sync() answers in its one-shot thread, well or with a failure status.
Answer(w) ==
  /\ at[w] = "wait"
  /\ \E result \in {"ok", "failed"} : reply' = [reply EXCEPT ![w] = result]
  /\ Goto(w, "store")
  /\ UNCHANGED <<cache, limitVars, inflight, queue, job, poolOpen, historyVars>>

WaitsForever(w) == FALSE

\* It does not in time: the thread is left to itself and its answer is dropped.
TimeOut(w) ==
  /\ at[w] = "wait"
  /\ reply' = [reply EXCEPT ![w] = "failed"]
  /\ Goto(w, "store")
  /\ UNCHANGED <<cache, limitVars, inflight, queue, job, poolOpen, historyVars>>

Overwrites(s) == TRUE

\* A failure takes the place of a failure or of nothing.
FailureStored(s) == cache[s] = None \/ ~cache[s].ok

\* _cache_terminal_response().
Store(w) ==
  LET s      == job[w].session
      failed == reply[w] = "failed"
  IN  /\ at[w] = "store"
      /\ cache' = IF failed /\ ~FailureStored(s) THEN cache
                  ELSE [cache EXCEPT ![s] =
                          [ok |-> ~failed, no |-> job[w].no, age |-> 0]]
      /\ IF failed
           THEN /\ errorAge' = [errorAge EXCEPT ![s] = 0]
                /\ failedAge' = [failedAge EXCEPT ![s] = 0]
                /\ forgotten' = forgotten \ {s}
           ELSE UNCHANGED <<errorAge, failedAge, forgotten>>
      /\ Goto(w, "final")
      /\ UNCHANGED <<runAge, inflight, queue, job, reply, poolOpen, started>>

\* The finally clause.
Final(w) ==
  /\ at[w] = "final"
  /\ inflight' = inflight \ {job[w].session}
  /\ job' = [job EXCEPT ![w] = None]
  /\ reply' = [reply EXCEPT ![w] = "ok"]
  /\ Goto(w, "idle")
  /\ UNCHANGED <<cache, limitVars, queue, poolOpen, historyVars>>

(***************************************************************************)
(* Time, and the end of the process.                                       *)
(***************************************************************************)

Older(ages, limit) == [s \in Sessions |-> Min({ages[s] + 1, limit})]

Tick ==
  /\ cache' = [s \in Sessions |->
                 IF cache[s] = None THEN None
                 ELSE [cache[s] EXCEPT !.age = Min({@ + 1, Horizon + 1})]]
  /\ runAge' = Older(runAge, MinInterval)
  /\ errorAge' = Older(errorAge, Backoff)
  /\ failedAge' = Older(failedAge, Backoff)
  /\ UNCHANGED <<inflight, poolVars, started, forgotten>>

PoolCloses ==
  /\ poolOpen
  /\ poolOpen' = FALSE
  /\ UNCHANGED <<cache, limitVars, inflight, queue, job, at, reply, historyVars>>

-----------------------------------------------------------------------------
\* What a pool thread does whether or not the model ever answers.
Progress(w) == WorkerTakes(w) \/ TimeOut(w) \/ Store(w) \/ Final(w)

Next ==
  \/ ServeOnly
  \/ \E s \in Sessions, force \in BOOLEAN : Trigger(s, force)
  \/ \E w \in Workers : Progress(w) \/ Answer(w)
  \/ Tick
  \/ PoolCloses

Spec == Init /\ [][Next]_vars

\* Pool threads run and the timeout passes.  The model owes no answer.
FairSpec == Spec /\ \A w \in Workers : WF_vars(Progress(w))

(***************************************************************************)
(* Properties.                                                             *)
(***************************************************************************)
JobsOf(s) ==
  Cardinality({i \in DOMAIN queue : queue[i].session = s})
    + Cardinality({w \in Workers : job[w] # None /\ job[w].session = s})

\* A session is in _INFLIGHT exactly while one job of it is queued or run, and
\* that job is its newest, whatever is refused, fails, times out or is swept
\* meanwhile: otherwise it would never be reasoned about again, or twice.
InflightExact ==
  \A s \in Sessions : JobsOf(s) = IF s \in inflight THEN 1 ELSE 0

\* What makes it inductive: every job in the pool is of a session in flight and is
\* the newest started for it, and no two are of the same session.
JobsInFlight ==
  /\ \A w \in Workers : job[w] = None <=> at[w] = "idle"
  /\ \A i \in DOMAIN queue :
       queue[i].session \in inflight /\ queue[i].no = started[queue[i].session]
  /\ \A w \in Workers : job[w] # None =>
       job[w].session \in inflight /\ job[w].no = started[job[w].session]

JobsDistinct ==
  /\ \A i, j \in DOMAIN queue : queue[i].session = queue[j].session => i = j
  /\ \A w \in Workers : job[w] # None =>
       /\ \A i \in DOMAIN queue : queue[i].session # job[w].session
       /\ \A v \in Workers : job[v] # None /\ job[v].session = job[w].session => v = w

InFlightHasJob ==
  \A s \in inflight :
    \/ \E i \in DOMAIN queue : queue[i].session = s
    \/ \E w \in Workers : job[w] # None /\ job[w].session = s

\* What the code remembers of a failure is its age, until a sweep.
ErrorsRemembered ==
  \A s \in Sessions \ forgotten : errorAge[s] = failedAge[s]

Invariant == TypeOK /\ JobsInFlight /\ JobsDistinct /\ ErrorsRemembered

\* What a session is served comes from the newest question asked for it, and a
\* good draft is never replaced by a failure.
DraftsAdvance ==
  [][\A s \in Sessions :
       cache'[s] # None /\ (cache[s] = None \/ cache'[s].age < cache[s].age
                              \/ cache'[s].no # cache[s].no) =>
         /\ cache'[s].no = started[s]
         /\ cache[s] # None /\ cache[s].ok => cache'[s].ok]_vars

(***************************************************************************)
(* Each session implements the abstract box.                               *)
(***************************************************************************)
BoxPhase(s) ==
  IF s \notin inflight THEN "idle"
  ELSE IF \E w \in Workers : at[w] = "final" /\ job[w].session = s THEN "told"
  ELSE "asked"

Shown(s) ==
  IF cache[s] = None THEN None ELSE [ok |-> cache[s].ok, no |-> cache[s].no]

Box(s) == INSTANCE AnswerBox
            WITH asked <- started[s], phase <- BoxPhase(s), shown <- Shown(s)

\* Through pool, timeouts, late answers, sweeps and refusals, each session has one
\* question at a time, answered once, to which what is shown is the newest answer
\* ("Failure statuses that should not overwrite a previously successful cached
\* result", vlm_reasoner.py:132).
EverySessionIsABox ==
  /\ \A s \in Sessions : Box(s)!BoxInit
  /\ [][\A s \in Sessions : [Box(s)!BoxNext]_(Box(s)!boxVars)]_vars

\* A session that failed is not asked about again during the back-off, forced or
\* not, as long as no sweep has forgotten it.
BackoffUnlessForgotten ==
  [][\A s \in Sessions :
       started'[s] > started[s] =>
         failedAge[s] >= Backoff \/ s \in forgotten']_vars

\* A job leaves the pool, also when the model never answers: the session can be
\* asked about again.
InflightSettles ==
  \A s \in Sessions : s \in inflight ~> s \notin inflight
=============================================================================
