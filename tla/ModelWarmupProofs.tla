------------------------- MODULE ModelWarmupProofs -------------------------
(***************************************************************************)
(* Safety of ModelWarmup for any number of warmup threads and pollers.     *)
(* OneWarmupLoads is not inductive: a second thread is kept out because a  *)
(* load under way shows in the status (LoadIsAnnounced).  ReadyServes is   *)
(* not either: that a ready worker has a backend follows from what every   *)
(* finished load leaves behind (LoadLeavesBackend).                        *)
(***************************************************************************)
EXTENDS ModelWarmup, TLAPS

\* The initial states satisfy the invariant.
LEMMA InvariantInit == Init => Invariant
<1> SUFFICES ASSUME Init PROVE Invariant
  OBVIOUS
<1>1. \A l \in Loaders : loader[l] \in {"none", "spawned"}
  BY DEF Init
<1>2. loader \in [Loaders -> LoaderState]
  BY <1>1 DEF Init, LoaderState
<1>3. TypeOK
  <2>1. Patience \in 0..Patience
    BY BoundsAssumption
  <2>2. patience \in [Pollers -> 0..Patience]
    BY <2>1 DEF Init
  <2>3. poller \in [Pollers -> PollerState]
    BY DEF Init, PollerState
  <2> QED
    BY <1>2, <2>2, <2>3 DEF Init, TypeOK, Status
<1>4. OneWarmupLoads /\ ReadyServes /\ LoadIsAnnounced /\ LoadLeavesBackend
  BY <1>1 DEF Init, OneWarmupLoads, ReadyServes, LoadIsAnnounced, LoadLeavesBackend,
     Loading, Loaders
<1> QED
  BY <1>3, <1>4 DEF Invariant

\* A trigger spawns one thread or none, and no thread it spawns is loading.
LEMMA TriggerSpawns ==
  ASSUME TypeOK, Trigger
  PROVE  /\ loader' \in [Loaders -> LoaderState]
         /\ \A l \in Loaders :
              (loader'[l] = loader[l]) \/ (loader[l] = "none" /\ loader'[l] = "spawned")
<1>1. CASE UNCHANGED loader
  BY <1>1 DEF TypeOK
<1>2. ASSUME NEW w \in Warmers, loader[w] = "none",
             loader' = [loader EXCEPT ![w] = "spawned"]
      PROVE  /\ loader' \in [Loaders -> LoaderState]
             /\ \A l \in Loaders :
                  (loader'[l] = loader[l]) \/ (loader[l] = "none" /\ loader'[l] = "spawned")
  BY <1>2 DEF TypeOK, Loaders, LoaderState
<1> QED
  BY <1>1, <1>2 DEF Trigger

\* Every step, and every stutter, keeps the invariant.
LEMMA InvariantStep == Invariant /\ [Next]_vars => Invariant'
<1> SUFFICES ASSUME Invariant, [Next]_vars PROVE Invariant'
  OBVIOUS
<1> USE LoadersAssumption, PollersAssumption, BoundsAssumption
<1>types. TypeOK
  BY DEF Invariant
<1>1. ASSUME NEW w \in Warmers, ThreadEnters(w) PROVE Invariant'
  BY <1>1
  DEF ThreadEnters, NothingToDo, BeginLoad, pollerVars, Invariant, TypeOK,
      OneWarmupLoads, ReadyServes, LoadIsAnnounced, LoadLeavesBackend, Status, LoaderState, PollerState,
      Loading, Loaders, Pollers
<1>2. ASSUME NEW l \in Loaders, LoadOk(l) PROVE Invariant'
  <2>1. PICK b \in {"requested", "fallback"} : Serve(b)
    BY <1>2 DEF LoadOk
  <2>2. loader[l] \in Loading \ {"loaded", "failed"}
    BY <1>2 DEF LoadOk, Loading
  <2>3. TypeOK'
    BY <1>2, <2>1, <1>types DEF LoadOk, Serve, TypeOK, LoaderState, pollerVars
  <2>4. \A k \in Loaders : loader'[k] = IF k = l THEN "loaded" ELSE loader[k]
    BY <1>2, <1>types DEF LoadOk, TypeOK
  <2>5. \A k \in Loaders : loader'[k] \in Loading <=> loader[k] \in Loading
    BY <2>2, <2>4 DEF Loading
  <2>6. OneWarmupLoads' /\ LoadIsAnnounced'
    BY <1>2, <2>5 DEF LoadOk, Invariant, OneWarmupLoads, LoadIsAnnounced, Loaders
  <2>7. ReadyServes' /\ LoadLeavesBackend'
    BY <2>1 DEF Serve, ReadyServes, LoadLeavesBackend
  <2> QED
    BY <2>3, <2>6, <2>7 DEF Invariant
<1>3. ASSUME NEW l \in Loaders, LoadRaises(l) PROVE Invariant'
  BY <1>3
  DEF LoadRaises, BeginFallback, pollerVars, Invariant, TypeOK,
      OneWarmupLoads, ReadyServes, LoadIsAnnounced, LoadLeavesBackend, Status, LoaderState, PollerState,
      Loading, Loaders, Pollers
<1>4. ASSUME NEW w \in Warmers, ThreadReady(w) PROVE Invariant'
  BY <1>4
  DEF ThreadReady, pollerVars, Invariant, TypeOK,
      OneWarmupLoads, ReadyServes, LoadIsAnnounced, LoadLeavesBackend, Status, LoaderState, PollerState,
      Loading, Loaders, Pollers
<1>5. ASSUME NEW w \in Warmers, ThreadFails(w) PROVE Invariant'
  BY <1>5
  DEF ThreadFails, pollerVars, Invariant, TypeOK,
      OneWarmupLoads, ReadyServes, LoadIsAnnounced, LoadLeavesBackend, Status, LoaderState, PollerState,
      Loading, Loaders, Pollers
<1>6. ASSUME DebugBegin PROVE Invariant'
  BY <1>6
  DEF DebugBegin, BeginLoad, pollerVars, Invariant, TypeOK,
      OneWarmupLoads, ReadyServes, LoadIsAnnounced, LoadLeavesBackend, Status, LoaderState, PollerState,
      Loading, Loaders, Pollers
<1>7. ASSUME DebugEnd PROVE Invariant'
  BY <1>7
  DEF DebugEnd, pollerVars, Invariant, TypeOK,
      OneWarmupLoads, ReadyServes, LoadIsAnnounced, LoadLeavesBackend, Status, LoaderState, PollerState,
      Loading, Loaders, Pollers
<1>8. ASSUME RequestTrigger PROVE Invariant'
  BY <1>8, TriggerSpawns, <1>types
  DEF RequestTrigger, pollerVars, Invariant, TypeOK,
      OneWarmupLoads, ReadyServes, LoadIsAnnounced, LoadLeavesBackend, Status, LoaderState, PollerState,
      Loading, Loaders, Pollers
<1>9. ASSUME NEW p \in Watchers, WatcherStarts(p) PROVE Invariant'
  BY <1>9
  DEF WatcherStarts, loadVars, Invariant, TypeOK,
      OneWarmupLoads, ReadyServes, LoadIsAnnounced, LoadLeavesBackend, Status, LoaderState, PollerState,
      Loading, Loaders, Pollers
<1>10. ASSUME NEW p \in Pollers, TriggerAndPoll(p) PROVE Invariant'
  BY <1>10, TriggerSpawns, <1>types
  DEF TriggerAndPoll, Invariant, TypeOK,
      OneWarmupLoads, ReadyServes, LoadIsAnnounced, LoadLeavesBackend, Status, LoaderState, PollerState,
      Loading, Loaders, Pollers
<1>11. ASSUME NEW p \in Watchers, WatcherCloses(p) PROVE Invariant'
  BY <1>11
  DEF WatcherCloses, loadVars, Invariant, TypeOK,
      OneWarmupLoads, ReadyServes, LoadIsAnnounced, LoadLeavesBackend, Status, LoaderState, PollerState,
      Loading, Loaders, Pollers
<1>12. ASSUME NEW p \in Pollers, Poll(p) PROVE Invariant'
  BY <1>12
  DEF Poll, loadVars, Invariant, TypeOK,
      OneWarmupLoads, ReadyServes, LoadIsAnnounced, LoadLeavesBackend, Status, LoaderState, PollerState,
      Loading, Loaders, Pollers
<1>13. CASE UNCHANGED vars
  BY <1>13 DEF vars, Invariant, TypeOK,
      OneWarmupLoads, ReadyServes, LoadIsAnnounced, LoadLeavesBackend, Status, LoaderState, PollerState,
      Loading, Loaders, Pollers
<1> QED
  BY <1>1, <1>2, <1>3, <1>4, <1>5, <1>6, <1>7, <1>8, <1>9, <1>10, <1>11, <1>12, <1>13
  DEF Next, ThreadStep, LoadStep, WatcherTriggers, WaiterArrives, Loaders, Pollers

\* The invariant holds in every reachable state.
THEOREM InvariantHolds == Spec => []Invariant
  BY InvariantInit, InvariantStep, PTL DEF Spec

\* Type correctness of the model life cycle (server.py:203-211, vision_backend.py:41-46).
THEOREM TypeCorrect == Spec => []TypeOK
<1>1. Invariant => TypeOK
  BY DEF Invariant
<1> QED
  BY <1>1, InvariantHolds, PTL

\* However many threads the triggers spawn, at most one loads, and "loading" is
\* never left without a thread (server.py:264-297).
THEOREM OneLoadCorrect == Spec => []OneWarmupLoads
<1>1. Invariant => OneWarmupLoads
  BY DEF Invariant
<1> QED
  BY <1>1, InvariantHolds, PTL

\* A ready worker serves a backend that is in memory (vision_backend.py:84-133).
THEOREM ReadyCorrect == Spec => []ReadyServes
<1>1. Invariant => ReadyServes
  BY DEF Invariant
<1> QED
  BY <1>1, InvariantHolds, PTL

\* Only a warmup thread that fails takes the worker out of "ready", and the
\* backend still serves then (server.py:285-288).
THEOREM NoReloadCorrect == Spec => ReadyNeverReloads
<1>1. ASSUME Invariant, [Next]_vars, status = "ready", status' # "ready"
      PROVE  /\ status' = "error"
             /\ active \in loaded
             /\ \E w \in Warmers : loader[w] = "failed" /\ loader'[w] = "none"
  <2>1. active \in loaded
    BY <1>1 DEF Invariant, ReadyServes
  <2>2. PICK w \in Warmers : ThreadFails(w)
    BY <1>1 DEF Next, vars, ThreadStep, LoadStep, ThreadEnters, NothingToDo, LoadOk,
       LoadRaises, ThreadReady, DebugBegin, DebugEnd, RequestTrigger, WatcherStarts,
       WatcherTriggers, WaiterArrives, TriggerAndPoll, WatcherCloses, Poll, loadVars
  <2>3. loader'[w] = "none"
    BY <1>1, <2>2 DEF ThreadFails, Invariant, TypeOK, Loaders
  <2> QED
    BY <2>1, <2>2, <2>3 DEF ThreadFails
<1> QED
  BY <1>1, InvariantHolds, PTL DEF Spec, ReadyNeverReloads
=============================================================================
