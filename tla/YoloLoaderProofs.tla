-------------------------- MODULE YoloLoaderProofs --------------------------
(***************************************************************************)
(* Safety of YoloLoader for any threads and tasks.  That a lazy task is    *)
(* constructed once needs that the lock is held exactly inside _load_one() *)
(* for a lazy task (LockHeld) and how often its holder has constructed it  *)
(* (TriesExact); that the working directory comes back needs where the one *)
(* thread that moved the process goes back to (OneMover).                  *)
(***************************************************************************)
EXTENDS YoloLoader, TLAPS

\* The initial states satisfy the invariant.
LEMMA InvariantInit == Init => Invariant
<1> SUFFICES ASSUME Init PROVE Invariant
  OBVIOUS
<1>1. TypeOK
  BY DEF Init, TypeOK, Tasks, Dirs, Pcs
<1>2. LockHeld
  BY ThreadsAssumption DEF Init, LockHeld, LoadsLazy, Threads
<1>3. DetInPlace
  BY DEF Init, DetInPlace, Threads
<1>4. TriesExact
  BY DEF Init, TriesExact, LoadsLazy, Known
<1>5. OneMover
  BY DEF Init, OneMover, Moved
<1> QED
  BY <1>1, <1>2, <1>3, <1>4, <1>5 DEF Invariant

\* Threads outside their own step are where they were.
LEMMA StepOfThread ==
  ASSUME TypeOK, NEW t \in Threads, NEW place, Goto(t, place)
  PROVE  pc'[t] = place /\ \A u \in Threads : u # t => pc'[u] = pc[u]
BY DEF TypeOK, Goto

\* Where a returning ensure_task() leads.
LEMMA AfterEnsureCases ==
  ASSUME NEW t \in Threads
  PROVE  /\ AfterEnsure(t) \in {"next", "idle"}
         /\ t \in Users => AfterEnsure(t) = "idle"
         /\ AfterEnsure(t) = "next" => t \in Loads
BY ThreadsAssumption DEF AfterEnsure, Threads

(***************************************************************************)
(* Types.                                                                  *)
(***************************************************************************)
\* A step keeps the types.
LEMMA TypeStep ==
  ASSUME Invariant, [Next]_vars
  PROVE  TypeOK'
<1>types. TypeOK /\ LockHeld
  BY DEF Invariant
<1>lazy. LiveTasks \subseteq Tasks /\ LazyTasks \subseteq Tasks /\ Det \in Tasks
  BY TasksAssumption DEF Tasks
<1>1. ASSUME NEW t \in Loads, LoadBegins(t) PROVE TypeOK'
  BY <1>1, <1>types, <1>lazy
    DEF LoadBegins, TypeOK, Goto, Pcs, Threads, stateVars, dirVars
<1>2. ASSUME NEW t \in Users, NEW k \in LazyTasks, EnsureTask(t, k) PROVE TypeOK'
  BY <1>2, <1>types, <1>lazy
    DEF EnsureTask, TypeOK, Goto, Pcs, Threads, stateVars, dirVars
<1>3. ASSUME NEW t \in Threads, LoadContinues(t) PROVE TypeOK'
  <2>1. CASE UNCHANGED <<task, todo>>
    BY <1>3, <2>1, <1>types DEF LoadContinues, TypeOK, Goto, Pcs, dirVars
  <2>2. ASSUME NEW k \in todo[t],
               task' = [task EXCEPT ![t] = k], todo' = [todo EXCEPT ![t] = @ \ {k}],
               Goto(t, IF k = Det THEN "resolve"
                       ELSE IF k \in models \cup failed THEN "next" ELSE "wait"),
               UNCHANGED loaded
        PROVE  TypeOK'
    <3>1. k \in Tasks /\ todo[t] \ {k} \in SUBSET LiveTasks
      BY <1>types, <1>lazy DEF TypeOK
    <3>2. task' \in [Threads -> Tasks] /\ todo' \in [Threads -> SUBSET LiveTasks]
      BY <1>types, <2>2, <3>1 DEF TypeOK
    <3>3. pc' \in [Threads -> Pcs]
      BY <1>types, <2>2 DEF TypeOK, Goto, Pcs
    <3>4. UNCHANGED <<models, failed, loaded, lock, dirVars, bare, oldCwd, outcome, tries>>
      BY <1>3, <2>2 DEF LoadContinues
    <3> QED
      BY <1>types, <3>2, <3>3, <3>4 DEF TypeOK, dirVars
  <2> QED
    BY <1>3, <2>1, <2>2 DEF LoadContinues
<1>4. ASSUME NEW t \in Threads, LockTaken(t) PROVE TypeOK'
  BY <1>4, <1>types, AfterEnsureCases
    DEF LockTaken, TypeOK, Goto, Pcs, dirVars, localVars
<1>5. ASSUME NEW t \in Threads, Resolve(t) PROVE TypeOK'
  BY <1>5, <1>types DEF Resolve, TypeOK, Goto, Pcs, dirVars, stateVars
<1>6. ASSUME NEW t \in Threads, GetCwd(t) PROVE TypeOK'
  <2>1. overlap' \in BOOLEAN
    BY <1>6, <1>types DEF GetCwd, TypeOK
  <2>2. oldCwd' \in [Threads -> Dirs] /\ pc' \in [Threads -> Pcs]
    BY <1>6, <1>types DEF GetCwd, TypeOK, Goto, Pcs
  <2> QED
    BY <1>6, <1>types, <2>1, <2>2 DEF GetCwd, TypeOK, stateVars
<1>7. ASSUME NEW t \in Threads, Chdir(t) PROVE TypeOK'
  BY <1>7, <1>types DEF Chdir, TypeOK, Goto, Pcs, Dirs, stateVars, localVars
<1>8. ASSUME NEW t \in Threads, Construct(t) PROVE TypeOK'
  <2>1. onDisk' \in SUBSET Tasks /\ stray' \in SUBSET Tasks
    BY <1>8, <1>types DEF Construct, TypeOK
  <2>2. tries' \in [LazyTasks -> Nat]
    BY <1>8, <1>types DEF Construct, TypeOK
  <2>3. outcome' \in [Threads -> {"ok", "raised"}] /\ pc' \in [Threads -> Pcs]
    BY <1>8, <1>types DEF Construct, TypeOK, Goto, Pcs
  <2> QED
    BY <1>8, <1>types, <2>1, <2>2, <2>3 DEF Construct, TypeOK, stateVars
<1>9. ASSUME NEW t \in Threads, Restore(t) PROVE TypeOK'
  BY <1>9, <1>types DEF Restore, TypeOK, Goto, Pcs, stateVars, localVars
<1>10. ASSUME NEW t \in Threads, FinishDet(t) PROVE TypeOK'
  BY <1>10, <1>types, <1>lazy DEF FinishDet, TypeOK, Goto, Pcs, dirVars, localVars
<1>11. ASSUME NEW t \in Threads, FinishLazy(t) PROVE TypeOK'
  <2>1. task[t] \in LazyTasks
    BY <1>11, <1>types DEF FinishLazy, TypeOK, Tasks
  <2>2. models' \in SUBSET Tasks /\ failed' \in SUBSET LazyTasks
    BY <1>11, <1>types, <1>lazy, <2>1 DEF FinishLazy, TypeOK
  <2>3. pc' \in [Threads -> Pcs]
    BY <1>11, <1>types, AfterEnsureCases DEF FinishLazy, TypeOK, Goto, Pcs
  <2> QED
    BY <1>11, <1>types, <2>2, <2>3 DEF FinishLazy, TypeOK, dirVars, localVars
<1>12. ASSUME UNCHANGED vars PROVE TypeOK'
  BY <1>12, <1>types DEF TypeOK, vars
<1> QED
  BY <1>1, <1>2, <1>3, <1>4, <1>5, <1>6, <1>7, <1>8, <1>9, <1>10, <1>11, <1>12
    DEF Next, ThreadStep, LoadOneStep

(***************************************************************************)
(* The lock.                                                               *)
(***************************************************************************)
\* After a step the lock is held exactly inside the load of a lazy task.
LEMMA LockStep ==
  ASSUME Invariant, [Next]_vars
  PROVE  LockHeld'
<1>types. TypeOK /\ LockHeld
  BY DEF Invariant
<1>free. NoOne \notin Threads /\ Loads \cap Users = {} /\ Users \subseteq Threads
  BY ThreadsAssumption DEF Threads
<1>lazy. LiveTasks \subseteq LazyTasks \cup {Det} /\ Det \notin LazyTasks
  BY TasksAssumption DEF Tasks
<1> DEFINE Others(t) == \A u \in Threads : u # t => pc'[u] = pc[u] /\ task'[u] = task[u]
<1>1. ASSUME NEW t \in Threads, Others(t),
             LoadsLazy(t)' <=> lock' = t,
             \A u \in Threads : u # t => (lock' = u <=> lock = u),
             pc'[t] = "wait" => task'[t] # Det,
             t \in Users => pc'[t] # "next" /\ (pc'[t] # "idle" => task'[t] # Det)
      PROVE  LockHeld'
  BY <1>1, <1>types, <1>free DEF LockHeld, LoadsLazy
<1>2. ASSUME NEW t \in Loads, LoadBegins(t) PROVE LockHeld'
  <2>1. /\ pc'[t] = "next" /\ Others(t)
        /\ pc[t] = "idle" /\ UNCHANGED lock /\ t \in Threads /\ t \notin Users
    BY <1>2, <1>types, <1>free DEF LoadBegins, TypeOK, Goto, Threads, stateVars
  <2> QED
    BY <1>1, <1>types, <2>1 DEF LockHeld, LoadsLazy
<1>3. ASSUME NEW t \in Users, NEW k \in LazyTasks, EnsureTask(t, k) PROVE LockHeld'
  <2>1. /\ pc'[t] = "wait" /\ task'[t] # Det /\ Others(t)
        /\ pc[t] = "idle" /\ UNCHANGED lock /\ t \in Threads
    BY <1>3, <1>types, <1>lazy DEF EnsureTask, TypeOK, Goto, Threads, stateVars
  <2> QED
    BY <1>1, <1>types, <2>1 DEF LockHeld, LoadsLazy
<1>4. ASSUME NEW t \in Threads, LoadContinues(t) PROVE LockHeld'
  <2>1. pc[t] = "next" /\ UNCHANGED lock /\ t \notin Users
    BY <1>4, <1>types DEF LoadContinues, LockHeld
  <2>2. /\ Others(t)
        /\ \/ pc'[t] \in {"idle", "next"}
           \/ pc'[t] = "resolve" /\ task'[t] = Det
           \/ pc'[t] = "wait" /\ task'[t] \in LazyTasks
    BY <1>4, <1>types, <1>lazy DEF LoadContinues, TypeOK, Goto
  <2> QED
    BY <1>1, <1>types, <1>lazy, <2>1, <2>2 DEF LockHeld, LoadsLazy
<1>5. ASSUME NEW t \in Threads, LockTaken(t) PROVE LockHeld'
  <2>1. pc[t] = "wait" /\ lock = NoOne /\ UNCHANGED task /\ task[t] # Det
    BY <1>5, <1>types DEF LockTaken, LockHeld, localVars
  <2>2. CASE Known(task[t])
    <3>1. Others(t) /\ pc'[t] = AfterEnsure(t) /\ UNCHANGED lock
      BY <1>5, <1>types, <2>1, <2>2 DEF LockTaken, TypeOK, Goto
    <3> QED
      BY <1>1, <1>types, <1>free, <2>1, <3>1, AfterEnsureCases DEF LockHeld, LoadsLazy
  <2>3. CASE ~Known(task[t])
    <3>1. Others(t) /\ pc'[t] = "resolve" /\ lock' = t
      BY <1>5, <1>types, <2>1, <2>3 DEF LockTaken, TypeOK, Goto
    <3> QED
      BY <1>1, <1>types, <1>free, <2>1, <3>1 DEF LockHeld, LoadsLazy
  <2> QED
    BY <2>2, <2>3
<1>6. ASSUME NEW t \in Threads, Resolve(t) \/ GetCwd(t) \/ Chdir(t) \/ Construct(t) \/ Restore(t)
      PROVE  LockHeld'
  <2> DEFINE Inside == {"resolve", "getcwd", "chdir", "construct", "restore", "finish"}
  <2>1. UNCHANGED <<task, lock>> /\ pc[t] \in Inside
    BY <1>6 DEF Resolve, GetCwd, Chdir, Construct, Restore, stateVars, localVars
  <2>2. PICK place \in Inside : Goto(t, place)
    BY <1>6 DEF Resolve, GetCwd, Chdir, Construct, Restore
  <2>3. pc'[t] = place /\ Others(t)
    BY <1>types, <2>1, <2>2, StepOfThread
  <2> QED
    BY <1>1, <1>types, <2>1, <2>2, <2>3 DEF LockHeld, LoadsLazy
<1>7. ASSUME NEW t \in Threads, FinishDet(t) PROVE LockHeld'
  <2>1. /\ pc[t] = "finish" /\ task[t] = Det /\ UNCHANGED <<task, lock>>
        /\ Others(t) /\ pc'[t] \in {"next", "idle"}
    BY <1>7, <1>types DEF FinishDet, TypeOK, Goto, localVars
  <2> QED
    BY <1>1, <1>types, <2>1 DEF LockHeld, LoadsLazy
<1>8. ASSUME NEW t \in Threads, FinishLazy(t) PROVE LockHeld'
  <2>1. /\ pc[t] = "finish" /\ task[t] # Det /\ UNCHANGED task /\ lock' = NoOne
        /\ Others(t) /\ pc'[t] = AfterEnsure(t)
    BY <1>8, <1>types DEF FinishLazy, TypeOK, Goto, localVars
  <2>2. lock = t
    BY <1>types, <2>1 DEF LockHeld, LoadsLazy
  <2> QED
    BY <1>1, <1>types, <1>free, <2>1, <2>2, AfterEnsureCases DEF LockHeld, LoadsLazy
<1>9. ASSUME UNCHANGED vars PROVE LockHeld'
  BY <1>9, <1>types DEF LockHeld, LoadsLazy, vars
<1> QED
  BY <1>2, <1>3, <1>4, <1>5, <1>6, <1>7, <1>8, <1>9 DEF Next, ThreadStep, LoadOneStep

(***************************************************************************)
(* The required model.                                                     *)
(***************************************************************************)
\* A load says it has loaded with the required task in place, and no task goes again.
LEMMA DetStep ==
  ASSUME Invariant, [Next]_vars
  PROVE  DetInPlace'
<1>types. TypeOK /\ DetInPlace
  BY DEF Invariant
<1>grow. models \subseteq models'
  BY DEF Next, ThreadStep, LoadOneStep, LoadBegins, LoadContinues, EnsureTask, LockTaken, Resolve,
         GetCwd, Chdir, Construct, Restore, FinishDet, FinishLazy, stateVars, vars
<1>1. loaded' => loaded \/ Det \in models
  BY <1>types DEF Next, ThreadStep, LoadOneStep, LoadBegins, LoadContinues, EnsureTask, LockTaken,
         Resolve, GetCwd, Chdir, Construct, Restore, FinishDet, FinishLazy, stateVars, vars
<1> QED
  BY <1>types, <1>grow, <1>1 DEF DetInPlace

(***************************************************************************)
(* The lazy tasks.                                                         *)
(***************************************************************************)
\* A step keeps count of the constructions.
LEMMA TriesStep ==
  ASSUME Invariant, [Next]_vars
  PROVE  TriesExact'
<1> DEFINE Built(place) == place \in {"restore", "finish"}
<1>types. TypeOK /\ LockHeld /\ TriesExact
  BY DEF Invariant
<1>free. NoOne \notin Threads /\ Loads \subseteq Threads /\ Users \subseteq Threads
  BY ThreadsAssumption DEF Threads
<1>lazy. Det \notin LazyTasks /\ Tasks = LazyTasks \cup {Det}
  BY TasksAssumption DEF Tasks
<1>one. \A t, u \in Threads : LoadsLazy(t) /\ LoadsLazy(u) => t = u
  BY <1>types DEF LockHeld
<1>task. \A t \in Threads : LoadsLazy(t) => task[t] \in LazyTasks
  BY <1>types, <1>lazy DEF TypeOK, LoadsLazy
<1>1. ASSUME UNCHANGED <<models, failed, tries>>,
             \A u \in Threads :
               /\ LoadsLazy(u)' <=> LoadsLazy(u)
               /\ LoadsLazy(u) => task'[u] = task[u] /\ (Built(pc'[u]) <=> Built(pc[u]))
      PROVE  TriesExact'
  BY <1>1, <1>types DEF TriesExact, Known
<1>2. ASSUME NEW t \in Threads, UNCHANGED <<models, failed, tries>>,
             \A u \in Threads : u # t => pc'[u] = pc[u] /\ task'[u] = task[u],
             LoadsLazy(t)' <=> LoadsLazy(t),
             LoadsLazy(t) => task'[t] = task[t] /\ (Built(pc'[t]) <=> Built(pc[t]))
      PROVE  TriesExact'
  <2>1. \A u \in Threads : u # t => (LoadsLazy(u)' <=> LoadsLazy(u))
    BY <1>2 DEF LoadsLazy
  <2>2. \A u \in Threads :
          /\ LoadsLazy(u)' <=> LoadsLazy(u)
          /\ LoadsLazy(u) => task'[u] = task[u] /\ (Built(pc'[u]) <=> Built(pc[u]))
    BY <1>2, <2>1
  <2> QED
    BY <1>1, <1>2, <2>2
<1>3. ASSUME NEW t \in Loads, LoadBegins(t) PROVE TriesExact'
  <2>1. /\ pc'[t] = "next" /\ pc[t] = "idle"
        /\ \A u \in Threads : u # t => pc'[u] = pc[u] /\ task'[u] = task[u]
        /\ UNCHANGED <<models, failed, tries>> /\ t \in Threads
    BY <1>3, <1>types, <1>free DEF LoadBegins, TypeOK, Goto, stateVars
  <2> QED
    BY <1>2, <2>1 DEF LoadsLazy
<1>4. ASSUME NEW t \in Users, NEW k \in LazyTasks, EnsureTask(t, k) PROVE TriesExact'
  <2>1. /\ pc'[t] = "wait" /\ pc[t] = "idle"
        /\ \A u \in Threads : u # t => pc'[u] = pc[u] /\ task'[u] = task[u]
        /\ UNCHANGED <<models, failed, tries>> /\ t \in Threads
    BY <1>4, <1>types, <1>free DEF EnsureTask, TypeOK, Goto, stateVars
  <2> QED
    BY <1>2, <2>1 DEF LoadsLazy
<1>5. ASSUME NEW t \in Threads, LoadContinues(t) PROVE TriesExact'
  <2>1. /\ pc'[t] \in {"idle", "next", "wait", "resolve"} /\ pc[t] = "next"
        /\ pc'[t] = "resolve" => task'[t] = Det
        /\ \A u \in Threads : u # t => pc'[u] = pc[u] /\ task'[u] = task[u]
        /\ UNCHANGED <<models, failed, tries>>
    BY <1>5, <1>types DEF LoadContinues, TypeOK, Goto
  <2> QED
    BY <1>2, <2>1 DEF LoadsLazy
<1>6. ASSUME NEW t \in Threads, LockTaken(t) PROVE TriesExact'
  <2>1. /\ pc[t] = "wait" /\ lock = NoOne /\ task[t] # Det
        /\ UNCHANGED <<models, failed, tries, task>>
    BY <1>6, <1>types DEF LockTaken, LockHeld, localVars
  <2>2. CASE Known(task[t])
    <3>1. pc'[t] \in {"next", "idle"} /\ \A u \in Threads : u # t => pc'[u] = pc[u]
      BY <1>6, <1>types, <2>2, StepOfThread, AfterEnsureCases DEF LockTaken
    <3> QED
      BY <1>2, <2>1, <3>1 DEF LoadsLazy
  <2>3. CASE ~Known(task[t])
    <3>1. pc'[t] = "resolve" /\ \A u \in Threads : u # t => pc'[u] = pc[u]
      BY <1>6, <1>types, <2>3, StepOfThread DEF LockTaken
    <3>2. \A u \in Threads : ~LoadsLazy(u)
      BY <1>types, <1>free, <2>1 DEF LockHeld
    <3>3. \A u \in Threads : LoadsLazy(u)' <=> u = t
      BY <2>1, <3>1, <3>2 DEF LoadsLazy
    <3>4. task[t] \in LazyTasks
      BY <1>types, <1>lazy, <2>1 DEF TypeOK
    <3>5. tries[task[t]] = 0
      BY <1>types, <2>3, <3>2, <3>4 DEF TriesExact
    <3>6. \A k \in LazyTasks : Known(k)' <=> Known(k)
      BY <2>1 DEF Known
    <3>7. ASSUME NEW k \in LazyTasks
          PROVE  /\ Known(k) => tries[k] = 1
                 /\ ~Known(k) => tries[k] = 0
      BY <1>types, <3>2 DEF TriesExact
    <3>8. ~Known(task[t])' /\ tries'[task'[t]] = 0 /\ ~Built(pc'[t])
      BY <2>1, <2>3, <3>1, <3>5 DEF Known
    <3> QED
      BY <1>types, <2>1, <3>3, <3>6, <3>7, <3>8 DEF TriesExact
  <2> QED
    BY <2>2, <2>3
<1>7. ASSUME NEW t \in Threads, Resolve(t) \/ GetCwd(t) \/ Chdir(t) \/ Restore(t)
      PROVE  TriesExact'
  <2>1. UNCHANGED <<models, failed, tries, task>>
    BY <1>7 DEF Resolve, GetCwd, Chdir, Restore, stateVars, localVars
  <2>2. PICK place \in {"getcwd", "construct", "chdir", "finish"} :
          /\ Goto(t, place)
          /\ pc[t] \in {"resolve", "getcwd", "chdir", "restore"}
          /\ Built(place) <=> Built(pc[t])
    BY <1>7 DEF Resolve, GetCwd, Chdir, Restore
  <2>3. pc'[t] = place /\ \A u \in Threads : u # t => pc'[u] = pc[u]
    BY <1>types, <2>2, StepOfThread
  <2> QED
    BY <1>2, <2>1, <2>2, <2>3 DEF LoadsLazy
<1>8. ASSUME NEW t \in Threads, Construct(t) PROVE TriesExact'
  <2>1. /\ UNCHANGED <<models, failed, task>> /\ pc[t] = "construct"
        /\ pc'[t] \in {"restore", "finish"}
        /\ \A u \in Threads : u # t => pc'[u] = pc[u]
    BY <1>8, <1>types, StepOfThread DEF Construct, stateVars
  <2>2. \A u \in Threads : LoadsLazy(u)' <=> LoadsLazy(u)
    BY <2>1 DEF LoadsLazy
  <2>3. \A k \in LazyTasks : Known(k)' <=> Known(k)
    BY <2>1 DEF Known
  <2>4. CASE task[t] = Det
    <3>1. UNCHANGED tries /\ ~LoadsLazy(t)
      BY <1>8, <1>lazy, <2>4 DEF Construct, LoadsLazy
    <3> QED
      BY <1>2, <2>1, <2>2, <3>1
  <2>5. CASE task[t] # Det
    <3> DEFINE k == task[t]
    <3>1. LoadsLazy(t) /\ k \in LazyTasks
      BY <1>task, <2>1, <2>5 DEF LoadsLazy
    <3>2. tries[k] = 0 /\ ~Known(k)
      BY <1>types, <2>1, <3>1 DEF TriesExact
    <3>3. tries' = [tries EXCEPT ![k] = @ + 1]
      BY <1>8, <3>1 DEF Construct
    <3>4. tries'[k] = 1 /\ \A j \in LazyTasks : j # k => tries'[j] = tries[j]
      BY <1>types, <3>1, <3>2, <3>3 DEF TypeOK
    <3>5. \A u \in Threads : LoadsLazy(u)' <=> u = t
      BY <1>one, <2>2, <3>1
    <3> HIDE DEF k
    <3>6. ASSUME NEW j \in LazyTasks
          PROVE  /\ Known(j)' => tries'[j] = 1
                 /\ ~Known(j)' /\ j # k => tries'[j] = 0
      <4>1. j # k => \A u \in Threads : LoadsLazy(u) => task[u] # j
        BY <1>one, <3>1 DEF k
      <4> QED
        BY <1>types, <2>3, <3>2, <3>4, <4>1 DEF TriesExact
    <3>7. task'[t] = k /\ ~Known(k)'
      BY <2>1, <3>2 DEF k, Known
    <3>8. ASSUME NEW j \in LazyTasks, ~Known(j)', \A u \in Threads : LoadsLazy(u)' => task'[u] # j
          PROVE  tries'[j] = 0
      BY <3>5, <3>6, <3>7, <3>8
    <3>9. ASSUME NEW u \in Threads, LoadsLazy(u)'
          PROVE  /\ ~Known(task[u])'
                 /\ tries'[task'[u]] = IF pc'[u] \in {"restore", "finish"} THEN 1 ELSE 0
      <4>1. u = t
        BY <3>5, <3>9
      <4> QED
        BY <2>1, <3>4, <3>7, <4>1 DEF Known, k
    <3>10. models' \cap failed' = {}
      BY <1>types, <2>1 DEF TriesExact
    <3> QED
      BY <3>6, <3>8, <3>9, <3>10 DEF TriesExact
  <2> QED
    BY <2>4, <2>5
<1>9. ASSUME NEW t \in Threads, FinishDet(t) PROVE TriesExact'
  <2>1. /\ UNCHANGED <<failed, tries, task>> /\ task[t] = Det /\ models' \in {models, models \cup {Det}}
        /\ \A u \in Threads : u # t => pc'[u] = pc[u]
    BY <1>9, <1>types DEF FinishDet, localVars, TypeOK, Goto
  <2>2. \A u \in Threads : LoadsLazy(u)' <=> LoadsLazy(u)
    BY <2>1 DEF LoadsLazy
  <2>3. \A k \in LazyTasks : Known(k)' <=> Known(k)
    BY <1>lazy, <2>1 DEF Known
  <2>4. models' \cap failed' = {}
    BY <1>types, <1>lazy, <2>1 DEF TriesExact, TypeOK
  <2>5. ASSUME NEW u \in Threads, LoadsLazy(u)
        PROVE  ~Known(task[u])' /\ tries'[task'[u]] = IF Built(pc'[u]) THEN 1 ELSE 0
    <3>1. u # t /\ task[u] \in LazyTasks
      BY <1>task, <2>1, <2>5 DEF LoadsLazy
    <3>2. ~Known(task[u])'
      BY <1>types, <2>1, <2>3, <2>5, <3>1 DEF TriesExact
    <3> QED
      BY <1>types, <2>1, <2>5, <3>1, <3>2 DEF TriesExact
  <2> QED
    BY <1>types, <2>1, <2>2, <2>3, <2>4, <2>5 DEF TriesExact
<1>10. ASSUME NEW t \in Threads, FinishLazy(t) PROVE TriesExact'
  <2> DEFINE k == task[t]
  <2>1. /\ pc[t] = "finish" /\ k # Det /\ UNCHANGED <<tries, task>>
        /\ \/ models' = models \cup {k} /\ failed' = failed
           \/ failed' = failed \cup {k} /\ models' = models
    BY <1>10 DEF FinishLazy, localVars
  <2>2. LoadsLazy(t) /\ k \in LazyTasks
    BY <1>task, <2>1 DEF LoadsLazy
  <2>3. ~Known(k) /\ tries[k] = 1
    BY <1>types, <2>1, <2>2 DEF TriesExact
  <2>4. pc'[t] \in {"next", "idle"} /\ \A u \in Threads : u # t => pc'[u] = pc[u]
    BY <1>10, <1>types, StepOfThread, AfterEnsureCases DEF FinishLazy
  <2>5. \A u \in Threads : ~LoadsLazy(u)'
    BY <1>one, <2>1, <2>2, <2>4 DEF LoadsLazy
  <2>6. \A u \in Threads : LoadsLazy(u) => task[u] = k
    BY <1>one, <2>2
  <2> HIDE DEF k
  <2>7. \A j \in LazyTasks : Known(j)' <=> Known(j) \/ j = k
    BY <2>1 DEF Known
  <2>8. \A j \in LazyTasks : j # k =>
          (Known(j) => tries[j] = 1) /\ (~Known(j) => tries[j] = 0)
    BY <1>types, <2>6 DEF TriesExact
  <2>9. models' \cap failed' = {}
    BY <1>types, <2>1, <2>3 DEF TriesExact, Known
  <2> QED
    BY <2>1, <2>3, <2>5, <2>7, <2>8, <2>9 DEF TriesExact
<1>11. ASSUME UNCHANGED vars PROVE TriesExact'
  BY <1>11, <1>types DEF TriesExact, Known, LoadsLazy, vars
<1> QED
  BY <1>3, <1>4, <1>5, <1>6, <1>7, <1>8, <1>9, <1>10, <1>11 DEF Next, ThreadStep, LoadOneStep

(***************************************************************************)
(* The working directory.                                                  *)
(***************************************************************************)
\* A step leaves at most one thread that has moved the process.
LEMMA MoverStep ==
  ASSUME Invariant, [Next]_vars
  PROVE  OneMover'
<1>types. TypeOK /\ OneMover
  BY DEF Invariant
<1>free. Loads \subseteq Threads /\ Users \subseteq Threads
  BY DEF Threads
<1> DEFINE Alone(t) == \A u \in Threads : u # t => pc'[u] = pc[u] /\ bare'[u] = bare[u]
                                                   /\ oldCwd'[u] = oldCwd[u]
           NeedsBare(t) == pc[t] \in {"getcwd", "chdir", "restore"} => bare[t]
<1>bare. ASSUME NEW t \in Threads, Alone(t), NeedsBare(t)'
         PROVE  \A u \in Threads : NeedsBare(u)'
  BY <1>bare, <1>types DEF OneMover
<1>1. ASSUME NEW t \in Threads, Alone(t), NeedsBare(t)', ~Moved(t), ~Moved(t)',
             UNCHANGED <<cwd, stray, overlap>>
      PROVE  OneMover'
  <2>1. \A u \in Threads : Moved(u)' <=> Moved(u)
    BY <1>1 DEF Moved
  <2>2. \A u \in Threads : Moved(u) => oldCwd'[u] = oldCwd[u] /\ pc'[u] = pc[u]
    BY <1>1
  <2> QED
    BY <1>1, <1>types, <1>bare, <2>1, <2>2 DEF OneMover
<1>2. ASSUME NEW t \in Loads, LoadBegins(t) PROVE OneMover'
  <2>1. /\ pc[t] = "idle" /\ pc'[t] = "next" /\ t \in Threads /\ Alone(t)
        /\ UNCHANGED <<cwd, stray, overlap>>
    BY <1>2, <1>types, <1>free DEF LoadBegins, TypeOK, Goto, dirVars
  <2> QED
    BY <1>1, <2>1 DEF Moved
<1>3. ASSUME NEW t \in Users, NEW k \in LazyTasks, EnsureTask(t, k) PROVE OneMover'
  <2>1. /\ pc[t] = "idle" /\ pc'[t] = "wait" /\ t \in Threads /\ Alone(t)
        /\ UNCHANGED <<cwd, stray, overlap>>
    BY <1>3, <1>types, <1>free DEF EnsureTask, TypeOK, Goto, dirVars
  <2> QED
    BY <1>1, <2>1 DEF Moved
<1>4. ASSUME NEW t \in Threads, LoadContinues(t) PROVE OneMover'
  <2>1. /\ pc[t] = "next" /\ pc'[t] \in {"idle", "next", "wait", "resolve"} /\ Alone(t)
        /\ UNCHANGED <<cwd, stray, overlap>>
    BY <1>4, <1>types DEF LoadContinues, TypeOK, Goto, dirVars
  <2> QED
    BY <1>1, <2>1 DEF Moved
<1>5. ASSUME NEW t \in Threads, LockTaken(t) \/ FinishDet(t) \/ FinishLazy(t) PROVE OneMover'
  <2>1. PICK place \in {"idle", "next", "resolve"} : Goto(t, place)
    BY <1>5, AfterEnsureCases DEF LockTaken, FinishDet, FinishLazy
  <2>2. pc'[t] = place /\ \A u \in Threads : u # t => pc'[u] = pc[u]
    BY <1>types, <2>1, StepOfThread
  <2>3. /\ pc[t] \in {"wait", "finish"}
        /\ UNCHANGED <<cwd, stray, overlap, bare, oldCwd>>
    BY <1>5 DEF LockTaken, FinishDet, FinishLazy, dirVars, localVars
  <2> QED
    BY <1>1, <2>2, <2>3 DEF Moved
<1>6. ASSUME NEW t \in Threads, Resolve(t) PROVE OneMover'
  <2>1. /\ bare'[t] \in BOOLEAN /\ pc'[t] = IF bare'[t] THEN "getcwd" ELSE "construct"
        /\ pc[t] = "resolve" /\ Alone(t) /\ UNCHANGED <<cwd, stray, overlap>>
    BY <1>6, <1>types DEF Resolve, TypeOK, Goto, dirVars
  <2> QED
    BY <1>1, <2>1 DEF Moved
<1>7. ASSUME NEW t \in Threads, GetCwd(t) PROVE OneMover'
  <2>1. /\ pc[t] = "getcwd" /\ pc'[t] = "chdir" /\ UNCHANGED <<cwd, stray, bare>>
        /\ oldCwd'[t] = cwd /\ Alone(t)
    BY <1>7, <1>types DEF GetCwd, TypeOK, Goto
  <2>2. NeedsBare(t)'
    BY <1>types, <2>1 DEF OneMover
  <2>3. ASSUME ~overlap'
        PROVE  ~overlap /\ \A u \in Threads : ~Moved(u)
    BY <1>7, <2>3 DEF GetCwd
  <2>4. ASSUME ~overlap'
        PROVE  cwd = "app" /\ stray = {} /\ \A u \in Threads : Moved(u)' <=> u = t
    <3>1. cwd = "app" /\ stray = {}
      BY <1>types, <2>3, <2>4 DEF OneMover
    <3>2. \A u \in Threads : Moved(u)' <=> u = t
      BY <2>1, <2>3, <2>4 DEF Moved
    <3> QED
      BY <3>1, <3>2
  <2> QED
    BY <1>bare, <2>1, <2>2, <2>4 DEF OneMover
<1>8. ASSUME NEW t \in Threads, Chdir(t) PROVE OneMover'
  <2>1. /\ pc[t] = "chdir" /\ pc'[t] = "construct" /\ cwd' = "cache" /\ bare[t]
        /\ UNCHANGED <<stray, overlap, bare, oldCwd>> /\ Alone(t)
    BY <1>8, <1>types DEF Chdir, TypeOK, Goto, localVars, OneMover
  <2>2. \A u \in Threads : Moved(u)' <=> Moved(u)
    BY <2>1 DEF Moved
  <2>3. Moved(t)
    BY <2>1 DEF Moved
  <2> QED
    BY <1>bare, <1>types, <2>1, <2>2, <2>3 DEF OneMover
<1>9. ASSUME NEW t \in Threads, Construct(t) PROVE OneMover'
  <2>1. /\ pc[t] = "construct" /\ pc'[t] = IF bare[t] THEN "restore" ELSE "finish"
        /\ UNCHANGED <<cwd, overlap, bare, oldCwd>> /\ Alone(t)
    BY <1>9, <1>types DEF Construct, TypeOK, Goto
  <2>2. \A u \in Threads : Moved(u)' <=> Moved(u)
    BY <2>1 DEF Moved
  <2>3. ASSUME ~overlap PROVE stray' = {}
    <3>1. CASE bare[t]
      <4>1. stray = {} /\ cwd # "app"
        BY <1>types, <2>1, <2>3, <3>1 DEF OneMover, Moved
      <4>2. cwd = "cache"
        BY <1>types, <4>1 DEF TypeOK, Dirs
      <4> QED
        BY <1>9, <4>1, <4>2 DEF Construct
    <3>2. CASE ~bare[t]
      BY <1>9, <1>types, <2>3, <3>2 DEF Construct, OneMover
    <3> QED
      BY <3>1, <3>2
  <2>4. NeedsBare(t)'
    BY <2>1
  <2>5. \A u \in Threads : pc'[u] = "chdir" <=> pc[u] = "chdir"
    BY <2>1
  <2> QED
    BY <1>bare, <1>types, <2>1, <2>2, <2>3, <2>4, <2>5 DEF OneMover
<1>10. ASSUME NEW t \in Threads, Restore(t) PROVE OneMover'
  <2>1. /\ pc[t] = "restore" /\ pc'[t] = "finish" /\ cwd' = oldCwd[t] /\ bare[t]
        /\ UNCHANGED <<stray, overlap, bare, oldCwd>> /\ Alone(t)
    BY <1>10, <1>types DEF Restore, TypeOK, Goto, localVars, OneMover
  <2>2. Moved(t) /\ ~Moved(t)'
    BY <2>1 DEF Moved
  <2>3. \A u \in Threads : u # t => (Moved(u)' <=> Moved(u))
    BY <2>1 DEF Moved
  <2>4. ASSUME ~overlap
        PROVE  cwd' = "app" /\ \A u \in Threads : ~Moved(u)'
    BY <1>types, <2>1, <2>2, <2>3, <2>4 DEF OneMover
  <2> QED
    BY <1>bare, <1>types, <2>1, <2>4 DEF OneMover
<1>11. ASSUME UNCHANGED vars PROVE OneMover'
  BY <1>11, <1>types DEF OneMover, Moved, vars
<1> QED
  BY <1>2, <1>3, <1>4, <1>5, <1>6, <1>7, <1>8, <1>9, <1>10, <1>11
    DEF Next, ThreadStep, LoadOneStep

(***************************************************************************)
(* The theorems.                                                           *)
(***************************************************************************)
\* The inductive invariant holds in every reachable state.
THEOREM InvariantHolds == Spec => []Invariant
<1>1. Invariant /\ [Next]_vars => Invariant'
  BY TypeStep, LockStep, DetStep, TriesStep, MoverStep DEF Invariant
<1> QED
  BY InvariantInit, <1>1, PTL DEF Spec

\* The state is well typed.
THEOREM TypeCorrect == Spec => []TypeOK
<1>1. Invariant => TypeOK
  BY DEF Invariant
<1> QED
  BY <1>1, InvariantHolds, PTL

\* A lazy task is constructed once, by the holder of _LOAD_LOCK, its outcome stays, and a
\* backend that calls itself loaded has its required model (yolo26_loader.py:279-283).
THEOREM LoadedOnceCorrect == Spec => []ModelsLoadedOnce
<1>1. ASSUME Invariant PROVE ModelsLoadedOnce
  <2>1. TypeOK /\ LockHeld /\ DetInPlace /\ TriesExact
    BY <1>1 DEF Invariant
  <2>2. ASSUME NEW k \in LazyTasks PROVE tries[k] <= 1
    <3>1. CASE Known(k)
      BY <2>1, <3>1 DEF TriesExact
    <3>2. CASE ~Known(k) /\ \A t \in Threads : LoadsLazy(t) => task[t] # k
      BY <2>1, <3>2 DEF TriesExact
    <3>3. CASE \E t \in Threads : LoadsLazy(t) /\ task[t] = k
      BY <2>1, <3>3 DEF TriesExact
    <3> QED
      BY <3>1, <3>2, <3>3
  <2>3. ASSUME NEW k \in LazyTasks
        PROVE  (k \in models \/ k \in failed => tries[k] = 1) /\ ~(k \in models /\ k \in failed)
    BY <2>1 DEF TriesExact, Known
  <2> QED
    BY <2>1, <2>2, <2>3 DEF ModelsLoadedOnce, DetInPlace
<1> QED
  BY <1>1, InvariantHolds, PTL

\* Unless threads moved it under each other, the working directory of the process comes
\* back, and nothing is downloaded outside the cache (yolo26_loader.py:259-279).
THEOREM WorkingDirCorrect == Spec => []WorkingDirRestored
<1>1. Invariant => WorkingDirRestored
  BY DEF Invariant, OneMover, WorkingDirRestored
<1> QED
  BY <1>1, InvariantHolds, PTL

=============================================================================
