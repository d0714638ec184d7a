----------------------------- MODULE YoloLoader -----------------------------
(***************************************************************************)
(* The model cache of the yolo26 backend (src/yolo26_loader.py): load(),   *)
(* which the warmup thread and POST /debug/model-load may run at the same  *)
(* time and which takes no lock for "det", and ensure_task(), which the    *)
(* inference threads call for the lazy tasks under _LOAD_LOCK.  A bare     *)
(* model id is downloaded into the current working directory, and the      *)
(* working directory belongs to the process.                               *)
(***************************************************************************)
EXTENDS Naturals, FiniteSets

CONSTANTS
  Loads,      \* callers of load()
  Users,      \* threads that call ensure_task()
  LazyTasks,  \* "seg", "pose": loaded on first use
  LiveTasks,  \* the tasks load() asks for: mode_tasks("live")
  Det,        \* the required task
  NoOne       \* _LOAD_LOCK is free

Threads == Loads \cup Users
Tasks   == LazyTasks \cup {Det}

ASSUME ThreadsAssumption == Loads \cap Users = {} /\ NoOne \notin Threads
ASSUME TasksAssumption == LiveTasks \subseteq Tasks /\ Det \notin LazyTasks

VARIABLES
  models,   \* keys of _STATE.models
  failed,   \* keys of _STATE.failed
  loaded,   \* _STATE.loaded
  lock,     \* holder of _LOAD_LOCK
  cwd,      \* working directory of the process
  onDisk,   \* tasks whose weights are in the cache (or baked) directory
  pc,       \* where each thread is
  task,     \* the task it loads
  bare,     \* resolve_weights() returned the bare id: the thread chdirs
  oldCwd,   \* the directory it will go back to
  outcome,  \* how its YOLO(...) ended
  todo,     \* live tasks load() has still to ask for
  \* history, read by no action
  tries,    \* how often a lazy task was constructed
  stray,    \* tasks downloaded outside the cache directory
  overlap   \* two threads have been between getcwd() and their finally at once

stateVars == <<models, failed, loaded, lock>>
dirVars   == <<cwd, onDisk, stray, overlap>>
localVars == <<task, bare, oldCwd, outcome, todo>>
vars == <<models, failed, loaded, lock, cwd, onDisk, pc, task, bare, oldCwd,
          outcome, todo, tries, stray, overlap>>

Dirs == {"app", "cache"}
Pcs  == {"idle", "next", "wait", "resolve", "getcwd", "chdir", "construct",
         "restore", "finish"}

TypeOK ==
  /\ models \in SUBSET Tasks
  /\ failed \in SUBSET LazyTasks
  /\ loaded \in BOOLEAN
  /\ lock \in Threads \cup {NoOne}
  /\ cwd \in Dirs
  /\ onDisk \in SUBSET Tasks
  /\ pc \in [Threads -> Pcs]
  /\ task \in [Threads -> Tasks]
  /\ bare \in [Threads -> BOOLEAN]
  /\ oldCwd \in [Threads -> Dirs]
  /\ outcome \in [Threads -> {"ok", "raised"}]
  /\ todo \in [Threads -> SUBSET LiveTasks]
  /\ tries \in [LazyTasks -> Nat]
  /\ stray \in SUBSET Tasks
  /\ overlap \in BOOLEAN

\* Some weights are baked into the image or cached on the volume.
Init ==
  /\ models = {}
  /\ failed = {}
  /\ loaded = FALSE
  /\ lock = NoOne
  /\ cwd = "app"
  /\ onDisk \in SUBSET Tasks
  /\ pc = [t \in Threads |-> "idle"]
  /\ task = [t \in Threads |-> Det]
  /\ bare = [t \in Threads |-> FALSE]
  /\ oldCwd = [t \in Threads |-> "app"]
  /\ outcome = [t \in Threads |-> "ok"]
  /\ todo = [t \in Threads |-> {}]
  /\ tries = [k \in LazyTasks |-> 0]
  /\ stray = {}
  /\ overlap = FALSE

Goto(t, place) == pc' = [pc EXCEPT ![t] = place]

(***************************************************************************)
(* load().                                                                 *)
(***************************************************************************)
\* Idempotent: a no-op once a load has completed.
LoadBegins(t) ==
  /\ pc[t] = "idle"
  /\ ~loaded
  /\ Goto(t, "next")
  /\ todo' = [todo EXCEPT ![t] = LiveTasks]
  /\ UNCHANGED <<stateVars, dirVars, task, bare, oldCwd, outcome, tries>>

\* The live tasks, in whatever order they are listed; without "det" in the end, however
\* they are listed, load() raises.
LoadContinues(t) ==
  /\ pc[t] = "next"
  /\ \/ /\ todo[t] = {}
        /\ loaded' = (loaded \/ Det \in models)
        /\ Goto(t, "idle")
        /\ UNCHANGED <<task, todo>>
     \/ \E k \in todo[t] :
          /\ task' = [task EXCEPT ![t] = k]
          /\ todo' = [todo EXCEPT ![t] = @ \ {k}]
          /\ Goto(t, IF k = Det THEN "resolve"
                     ELSE IF k \in models \cup failed THEN "next" ELSE "wait")
          /\ UNCHANGED loaded
  /\ UNCHANGED <<models, failed, lock, dirVars, bare, oldCwd, outcome, tries>>

(***************************************************************************)
(* ensure_task().                                                          *)
(***************************************************************************)
\* Where a thread goes on when ensure_task() returns.
AfterEnsure(t) == IF t \in Loads THEN "next" ELSE "idle"

\* The first look, without the lock.  Inference and crop analysis run on a
\* loaded backend only.
EnsureTask(t, k) ==
  /\ pc[t] = "idle"
  /\ loaded
  /\ k \notin models \cup failed
  /\ task' = [task EXCEPT ![t] = k]
  /\ Goto(t, "wait")
  /\ UNCHANGED <<stateVars, dirVars, bare, oldCwd, outcome, todo, tries>>

FailedUnknown(k) == k \in models

\* The outcome of task k is recorded.
Known(k) == k \in models \cup failed

\* The second look, under the lock.
LockTaken(t) ==
  /\ pc[t] = "wait"
  /\ lock = NoOne
  /\ IF Known(task[t])
       THEN Goto(t, AfterEnsure(t)) /\ UNCHANGED lock
       ELSE Goto(t, "resolve") /\ lock' = t
  /\ UNCHANGED <<models, failed, loaded, dirVars, localVars, tries>>

(***************************************************************************)
(* _load_one().                                                            *)
(***************************************************************************)
Resolve(t) ==
  /\ pc[t] = "resolve"
  /\ bare' = [bare EXCEPT ![t] = task[t] \notin onDisk]
  /\ Goto(t, IF bare'[t] THEN "getcwd" ELSE "construct")
  /\ UNCHANGED <<stateVars, dirVars, task, oldCwd, outcome, todo, tries>>

\* Between getcwd() and the end of the finally clause.
Moved(t) == pc[t] = "chdir" \/ (bare[t] /\ pc[t] \in {"construct", "restore"})

GetCwd(t) ==
  /\ pc[t] = "getcwd"
  /\ oldCwd' = [oldCwd EXCEPT ![t] = cwd]
  /\ Goto(t, "chdir")
  /\ overlap' = (overlap \/ \E u \in Threads : Moved(u))
  /\ UNCHANGED <<stateVars, cwd, onDisk, stray, task, bare, outcome, todo, tries>>

Chdir(t) ==
  /\ pc[t] = "chdir"
  /\ cwd' = "cache"
  /\ Goto(t, "construct")
  /\ UNCHANGED <<stateVars, onDisk, stray, overlap, localVars, tries>>

\* YOLO(...) downloads a bare id into the working directory, then builds the
\* model; either may raise.
Construct(t) ==
  /\ pc[t] = "construct"
  /\ \E end \in {"ok", "raised"} :
       /\ outcome' = [outcome EXCEPT ![t] = end]
       /\ IF bare[t] /\ end = "ok"
            THEN IF cwd = "cache"
                   THEN onDisk' = onDisk \cup {task[t]} /\ UNCHANGED stray
                   ELSE stray' = stray \cup {task[t]} /\ UNCHANGED onDisk
            ELSE UNCHANGED <<onDisk, stray>>
  /\ tries' = IF task[t] \in LazyTasks THEN [tries EXCEPT ![task[t]] = @ + 1]
              ELSE tries
  /\ Goto(t, IF bare[t] THEN "restore" ELSE "finish")
  /\ UNCHANGED <<stateVars, cwd, overlap, task, bare, oldCwd, todo>>

\* An exception skips os.chdir(old_cwd).
RestoreOnlyOnSuccess(t) ==
  /\ pc[t] = "restore"
  /\ cwd' = IF outcome[t] = "ok" THEN oldCwd[t] ELSE cwd
  /\ Goto(t, "finish")
  /\ UNCHANGED <<stateVars, onDisk, stray, overlap, localVars, tries>>

\* The finally clause.
Restore(t) ==
  /\ pc[t] = "restore"
  /\ cwd' = oldCwd[t]
  /\ Goto(t, "finish")
  /\ UNCHANGED <<stateVars, onDisk, stray, overlap, localVars, tries>>

\* The required task: a failure ends load() with an exception.
FinishDet(t) ==
  /\ pc[t] = "finish"
  /\ task[t] = Det
  /\ models' = IF outcome[t] = "ok" THEN models \cup {Det} ELSE models
  /\ Goto(t, IF outcome[t] = "ok" THEN "next" ELSE "idle")
  /\ UNCHANGED <<failed, loaded, lock, dirVars, localVars, tries>>

FinishLazyKeepsLock(t) ==
  /\ pc[t] = "finish"
  /\ task[t] # Det
  /\ IF outcome[t] = "ok"
       THEN models' = models \cup {task[t]} /\ lock' = NoOne /\ UNCHANGED failed
       ELSE failed' = failed \cup {task[t]} /\ UNCHANGED <<models, lock>>
  /\ Goto(t, AfterEnsure(t))
  /\ UNCHANGED <<loaded, dirVars, localVars, tries>>

\* A lazy task: success and failure are both remembered; the lock is released.
FinishLazy(t) ==
  /\ pc[t] = "finish"
  /\ task[t] # Det
  /\ IF outcome[t] = "ok"
       THEN models' = models \cup {task[t]} /\ UNCHANGED failed
       ELSE failed' = failed \cup {task[t]} /\ UNCHANGED models
  /\ lock' = NoOne
  /\ Goto(t, AfterEnsure(t))
  /\ UNCHANGED <<loaded, dirVars, localVars, tries>>

-----------------------------------------------------------------------------
LoadOneStep(t) ==
  \/ Resolve(t)
  \/ GetCwd(t)
  \/ Chdir(t)
  \/ Construct(t)
  \/ Restore(t)
  \/ FinishDet(t)
  \/ FinishLazy(t)

\* Every step of a thread that is inside load() or ensure_task().
ThreadStep(t) == LoadContinues(t) \/ LockTaken(t) \/ LoadOneStep(t)

Next ==
  \/ \E t \in Loads : LoadBegins(t)
  \/ \E t \in Users, k \in LazyTasks : EnsureTask(t, k)
  \/ \E t \in Threads : ThreadStep(t)

Spec == Init /\ [][Next]_vars

\* Threads are preemptive; a lock that is released again and again is given to
\* every waiter.
Fairness == \A t \in Threads : SF_vars(ThreadStep(t))

FairSpec == Spec /\ Fairness

(***************************************************************************)
(* Safety.                                                                 *)
(***************************************************************************)
\* yolo26_loader.py:279-283, "Failures are recorded once and not retried per
\* frame": whatever threads need a lazy task at once, it is constructed once,
\* by the holder of the lock, and its outcome stays; and a backend that calls
\* itself loaded has its required model, whichever of two loads said so.
ModelsLoadedOnce ==
  /\ \A k \in LazyTasks :
       /\ tries[k] <= 1
       /\ k \in models \/ k \in failed => tries[k] = 1
       /\ ~(k \in models /\ k \in failed)
  /\ loaded => Det \in models

\* Weights are downloaded into the cache directory, and the working directory of the
\* process is back in place when no thread has moved it, whether the constructors succeed
\* or raise, as long as threads have never moved it under each other: load() takes no lock
\* for that (yolo26_loader.py:259-279).
WorkingDirRestored ==
  ~overlap => stray = {} /\ ((\A t \in Threads : ~Moved(t)) => cwd = "app")

(***************************************************************************)
(* What the proofs of these add.                                           *)
(***************************************************************************)
\* Inside _load_one() for a lazy task, which is so under the lock only.
LoadsLazy(t) ==
  /\ task[t] # Det
  /\ pc[t] \in {"resolve", "getcwd", "chdir", "construct", "restore", "finish"}

\* Who holds the lock, and who may wait for it.
LockHeld ==
  /\ \A t \in Threads : LoadsLazy(t) <=> lock = t
  /\ \A t \in Threads : pc[t] = "wait" => task[t] # Det
  /\ \A t \in Users : pc[t] # "next" /\ (pc[t] # "idle" => task[t] # Det)

\* The required model, once in place, stays.
DetInPlace == loaded => Det \in models

\* A lazy task was constructed iff its outcome is known or about to be.
TriesExact ==
  /\ models \cap failed = {}
  /\ \A k \in LazyTasks :
       /\ Known(k) => tries[k] = 1
       /\ ~Known(k) /\ (\A t \in Threads : LoadsLazy(t) => task[t] # k) => tries[k] = 0
  /\ \A t \in Threads :
       LoadsLazy(t) =>
         /\ ~Known(task[t])
         /\ tries[task[t]] = IF pc[t] \in {"restore", "finish"} THEN 1 ELSE 0

\* The one thread that has moved the process will bring it back.
OneMover ==
  /\ \A t \in Threads : pc[t] \in {"getcwd", "chdir", "restore"} => bare[t]
  /\ ~overlap =>
       /\ stray = {}
       /\ \A t, u \in Threads : Moved(t) /\ Moved(u) => t = u
       /\ \A t \in Threads :
            Moved(t) => oldCwd[t] = "app" /\ (cwd = "app" <=> pc[t] = "chdir")
       /\ (\A t \in Threads : ~Moved(t)) => cwd = "app"

Invariant == TypeOK /\ LockHeld /\ DetInPlace /\ TriesExact /\ OneMover

(***************************************************************************)
(* Liveness, under FairSpec.                                               *)
(***************************************************************************)
\* ensure_task() returns: nobody keeps _LOAD_LOCK.
EnsureReturns == \A t \in Threads : pc[t] = "wait" ~> pc[t] \in {"idle", "next"}

=============================================================================
