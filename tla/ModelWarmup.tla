---------------------------- MODULE ModelWarmup ----------------------------
(***************************************************************************)
(* The life of the model (src/server.py, src/vision_backend.py): the       *)
(* status under _STATE_LOCK, the warmup threads, the backend fallback, the *)
(* diagnostic route that loads on the event loop, and the two pollers that *)
(* wait for the outcome: ready_watcher() of a WebSocket session and        *)
(* POST /warmup?wait=true.                                                 *)
(*                                                                         *)
(* Warmup threads interleave with everything; handlers run one at a time   *)
(* on the event loop, whose holder is the variable "loop".                 *)
(***************************************************************************)
EXTENDS Naturals

CONSTANTS
  Warmers,      \* bound: warmup threads alive at the same time
  DebugRoute,   \* POST /debug/model-load, a load on the event loop
  Watchers,     \* ready_watcher() tasks
  Waiters,      \* POST /warmup?wait=true requests
  Patience,     \* bound: polls before a poller gives up (WARMUP_TIMEOUT_S)
  Fallback      \* AUTO_BACKEND_FALLBACK, and a second backend is configured

Loaders == Warmers \cup {DebugRoute}
Pollers == Watchers \cup Waiters

ASSUME LoadersAssumption == DebugRoute \notin Warmers
ASSUME PollersAssumption ==
  /\ Watchers \cap Waiters = {}
  /\ "free" \notin Pollers \cup {DebugRoute}
  /\ DebugRoute \notin Pollers
ASSUME BoundsAssumption == Patience \in Nat /\ Fallback \in BOOLEAN

VARIABLES
  status,     \* _STATE["status"]
  loader,     \* where each load is
  loaded,     \* the backends whose module-level model is in memory
  active,     \* _BACKEND_STATE["active"]
  fallbackOn, \* _BACKEND_STATE["fallback_active"]
  poller,     \* where each poller is, then the answer it gave
  patience,   \* polls left
  loop        \* what the event loop is executing: "free" between handlers

loadVars   == <<status, loader, loaded, active, fallbackOn>>
pollerVars == <<poller, patience>>
vars == <<status, loader, loaded, active, fallbackOn, poller, patience, loop>>

Status == {"cold", "loading", "ready", "error"}

\* "none": no such load; "spawned": the thread is started and has not taken
\* the lock; "cached", "requested": in _load_backend(requested), which returns
\* at once in the first case; "cachedFallback", "fallback": the same for the
\* second backend; "loaded", "failed": load_models() is over, the status is not
\* written yet.
LoaderState == {"none", "spawned", "cached", "requested", "cachedFallback",
                "fallback", "loaded", "failed"}

Loading == {"cached", "requested", "cachedFallback", "fallback", "loaded",
            "failed"}

\* "start": accepted, "warming" not sent; "warming": in its send; "triggered":
\* the warmup is triggered and the state not read yet; "polling": asleep.
\* The rest are answers.
PollerState == {"start", "warming", "triggered", "polling",
                "ready", "failed", "timeout", "closed"}

Answers == {"ready", "failed", "timeout", "closed"}

TypeOK ==
  /\ status \in Status
  /\ loader \in [Loaders -> LoaderState]
  /\ loaded \in SUBSET {"requested", "fallback"}
  /\ active \in {"none", "requested", "fallback"}
  /\ fallbackOn \in BOOLEAN
  /\ poller \in [Pollers -> PollerState]
  /\ patience \in [Pollers -> 0..Patience]
  /\ loop \in {"free", DebugRoute} \cup Pollers

\* The worker has booted.  With AUTO_WARMUP lifespan() has already spawned one
\* warmup thread.
Init ==
  /\ status = "cold"
  /\ \E booted \in SUBSET Warmers :
       /\ \A v, w \in booted : v = w
       /\ loader = [l \in Loaders |-> IF l \in booted THEN "spawned" ELSE "none"]
  /\ loaded = {}
  /\ active = "none"
  /\ fallbackOn = FALSE
  /\ poller = [p \in Pollers |-> "start"]
  /\ patience = [p \in Pollers |-> Patience]
  /\ loop = "free"

(***************************************************************************)
(* Triggering: _start_warmup_background().                                 *)
(***************************************************************************)
\* The check and the start of the thread are two steps for the lock: several
\* threads may be spawned before the first one sets "loading".
Trigger ==
  IF status \in {"loading", "ready"}
    THEN UNCHANGED loader
    ELSE \E w \in Warmers :
           /\ loader[w] = "none"
           /\ loader' = [loader EXCEPT ![w] = "spawned"]

\* POST /warmup without wait, or a /detect that finds the model not ready.
RequestTrigger ==
  /\ loop = "free"
  /\ Trigger
  /\ UNCHANGED <<status, loaded, active, fallbackOn, pollerVars, loop>>

(***************************************************************************)
(* Loading: _warmup_blocking() and load_models().                          *)
(***************************************************************************)
\* What _load_backend() finds: a backend loads once per process.
BeginLoad == IF "requested" \in loaded THEN "cached" ELSE "requested"
BeginFallback == IF "fallback" \in loaded THEN "cachedFallback" ELSE "fallback"

NoRecheck(st)     == FALSE
RechecksOnly(st)  == st = "loading"

\* The thread has _STATE_LOCK and looks at the status again.
NothingToDo(st) == st \in {"loading", "ready"}

ThreadEnters(w) ==
  /\ loader[w] = "spawned"
  /\ IF NothingToDo(status)
       THEN /\ loader' = [loader EXCEPT ![w] = "none"]
            /\ UNCHANGED status
       ELSE /\ loader' = [loader EXCEPT ![w] = BeginLoad]
            /\ status' = "loading"
  /\ UNCHANGED <<loaded, active, fallbackOn, pollerVars, loop>>

\* The backend that is now in memory serves.
ServeUnloaded(b) == active' = b /\ fallbackOn' = (b = "fallback") /\ UNCHANGED loaded
Serve(b) ==
  /\ loaded' = loaded \cup {b}
  /\ active' = b
  /\ fallbackOn' = (b = "fallback")

LoadOk(l) ==
  /\ \/ loader[l] \in {"cached", "requested"} /\ Serve("requested")
     \/ loader[l] \in {"cachedFallback", "fallback"} /\ Serve("fallback")
  /\ loader' = [loader EXCEPT ![l] = "loaded"]
  /\ UNCHANGED <<status, pollerVars, loop>>

\* A download or a constructor raises.
LoadRaises(l) ==
  /\ \/ /\ loader[l] = "requested"
        /\ loader' = [loader EXCEPT ![l] = IF Fallback THEN BeginFallback
                                           ELSE "failed"]
     \/ /\ loader[l] = "fallback"
        /\ loader' = [loader EXCEPT ![l] = "failed"]
  /\ UNCHANGED <<status, loaded, active, fallbackOn, pollerVars, loop>>

ThreadReady(w) ==
  /\ loader[w] = "loaded"
  /\ status' = "ready"
  /\ loader' = [loader EXCEPT ![w] = "none"]
  /\ UNCHANGED <<loaded, active, fallbackOn, pollerVars, loop>>

ThreadDiesSilently(w) ==
  /\ loader[w] = "failed"
  /\ loader' = [loader EXCEPT ![w] = "none"]
  /\ UNCHANGED <<status, loaded, active, fallbackOn, pollerVars, loop>>

\* The status becomes "error" whatever it is by now.
ThreadFails(w) ==
  /\ loader[w] = "failed"
  /\ status' = "error"
  /\ loader' = [loader EXCEPT ![w] = "none"]
  /\ UNCHANGED <<loaded, active, fallbackOn, pollerVars, loop>>

(***************************************************************************)
(* POST /debug/model-load: load_models() on the event loop, next to any    *)
(* warmup thread.                                                          *)
(***************************************************************************)
DebugBegin ==
  /\ loop = "free"
  /\ loop' = DebugRoute
  /\ loader' = [loader EXCEPT ![DebugRoute] = BeginLoad]
  /\ UNCHANGED <<status, loaded, active, fallbackOn, pollerVars>>

\* Success makes the worker ready; a failure is only reported to the caller.
DebugEnd ==
  /\ loader[DebugRoute] \in {"loaded", "failed"}
  /\ status' = IF loader[DebugRoute] = "loaded" THEN "ready" ELSE status
  /\ loader' = [loader EXCEPT ![DebugRoute] = "none"]
  /\ loop' = "free"
  /\ UNCHANGED <<loaded, active, fallbackOn, pollerVars>>

(***************************************************************************)
(* The pollers.                                                            *)
(***************************************************************************)
\* ready_watcher() starts: a ready model is announced at once.
WatcherStarts(p) ==
  /\ loop = "free"
  /\ poller[p] = "start"
  /\ poller' = [poller EXCEPT ![p] = IF status = "ready" THEN "ready"
                                     ELSE "warming"]
  /\ UNCHANGED <<loadVars, patience, loop>>

\* No await separates the trigger from the first look at the state, but the
\* warmup threads do not wait for the loop.
TriggerAndPoll(p) ==
  /\ loop = "free"
  /\ Trigger
  /\ poller' = [poller EXCEPT ![p] = "triggered"]
  /\ loop' = p
  /\ UNCHANGED <<status, loaded, active, fallbackOn, patience>>

\* "warming" is sent.
WatcherTriggers(p) == poller[p] = "warming" /\ TriggerAndPoll(p)

WaiterArrives(p) == poller[p] = "start" /\ TriggerAndPoll(p)

PollsUntilReady(p) ==
  /\ \/ poller[p] = "triggered" /\ loop = p
     \/ poller[p] = "polling" /\ loop = "free"
  /\ poller' = [poller EXCEPT ![p] = IF status = "ready" THEN "ready"
                                     ELSE "polling"]
  /\ loop' = "free"
  /\ UNCHANGED <<loadVars, patience>>

\* One look at the state: an outcome is passed on; after the last one the
\* poller gives up.
Poll(p) ==
  /\ \/ poller[p] = "triggered" /\ loop = p
     \/ poller[p] = "polling" /\ loop = "free"
  /\ loop' = "free"
  /\ \/ /\ status = "ready"
        /\ poller' = [poller EXCEPT ![p] = "ready"]
        /\ UNCHANGED patience
     \/ /\ status = "error"
        /\ poller' = [poller EXCEPT ![p] = "failed"]
        /\ UNCHANGED patience
     \/ /\ status \in {"cold", "loading"}
        /\ patience[p] > 0
        /\ patience' = [patience EXCEPT ![p] = @ - 1]
        /\ poller' = [poller EXCEPT ![p] = "polling"]
     \/ /\ status \in {"cold", "loading"}
        /\ patience[p] = 0
        /\ poller' = [poller EXCEPT ![p] = "timeout"]
        /\ UNCHANGED patience
  /\ UNCHANGED <<loadVars>>

\* The session is closed: its watcher is cancelled, or leaves its loop.
WatcherCloses(p) ==
  /\ loop = "free"
  /\ poller[p] \in {"start", "warming", "polling"}
  /\ poller' = [poller EXCEPT ![p] = "closed"]
  /\ UNCHANGED <<loadVars, patience, loop>>

-----------------------------------------------------------------------------
LoadStep(l) == LoadOk(l) \/ LoadRaises(l)

ThreadStep(w) ==
  ThreadEnters(w) \/ LoadStep(w) \/ ThreadReady(w) \/ ThreadFails(w)

Next ==
  \/ \E w \in Warmers : ThreadStep(w)
  \/ LoadStep(DebugRoute)
  \/ DebugBegin
  \/ DebugEnd
  \/ RequestTrigger
  \/ \E p \in Watchers : WatcherStarts(p) \/ WatcherTriggers(p) \/ WatcherCloses(p)
  \/ \E p \in Waiters : WaiterArrives(p)
  \/ \E p \in Pollers : Poll(p)

Spec == Init /\ [][Next]_vars

\* A thread that can run runs, a load ends, the event loop comes back to every
\* sleeping poller between two loads of the diagnostic route.
Fairness ==
  /\ \A w \in Warmers : WF_vars(ThreadStep(w))
  /\ WF_vars(LoadStep(DebugRoute)) /\ WF_vars(DebugEnd)
  /\ \A p \in Pollers : SF_vars(Poll(p))

FairSpec == Spec /\ Fairness

(***************************************************************************)
(* Safety.                                                                 *)
(***************************************************************************)
\* However many threads the triggers spawn, one at most gets past the second
\* check and loads; and "loading" always has a thread behind it that will
\* overwrite it, or no trigger would ever start a load again
\* (server.py:264-297).
OneWarmupLoads ==
  /\ \A v, w \in Warmers :
       loader[v] \in Loading /\ loader[w] \in Loading => v = w
  /\ status = "loading" => \E w \in Warmers : loader[w] \in Loading

\* A ready worker serves a backend that is in memory and says truthfully
\* whether it is the fallback, although a warmup thread and the diagnostic
\* route may update _BACKEND_STATE in either order.
ReadyServes ==
  /\ status = "ready" => active \in loaded
  /\ fallbackOn <=> active = "fallback"

\* A ready worker never goes back to loading: a thread spawned while it was
\* cold does nothing.  What remains is server.py:285-288: a warmup that the
\* diagnostic route has overtaken still writes "error".
ReadyNeverReloads ==
  [][status = "ready" /\ status' # "ready" =>
       /\ status' = "error"
       /\ active \in loaded
       /\ \E w \in Warmers : loader[w] = "failed" /\ loader'[w] = "none"]_vars

(***************************************************************************)
(* The inductive invariant.                                                *)
(***************************************************************************)
\* A load under way keeps the status at "loading", unless the diagnostic route
\* has made the worker ready meanwhile.
LoadIsAnnounced ==
  (\E w \in Warmers : loader[w] \in Loading) => status \in {"loading", "ready"}

\* A load that ended well, or a ready worker, has left an active backend.
LoadLeavesBackend ==
  /\ active # "none" => active \in loaded
  /\ \A l \in Loaders : loader[l] = "loaded" => active # "none"
  /\ status = "ready" => active # "none"

Invariant ==
  TypeOK /\ OneWarmupLoads /\ ReadyServes /\ LoadIsAnnounced /\ LoadLeavesBackend

(***************************************************************************)
(* Liveness, under FairSpec.                                               *)
(***************************************************************************)
\* "loading" ends.
LoadingEnds == status = "loading" ~> status # "loading"

\* Every poller answers: with the outcome, or by giving up.
PollersAnswer ==
  \A p \in Pollers : poller[p] = "triggered" ~> poller[p] \in Answers
=============================================================================
