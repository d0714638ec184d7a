---------------------------- MODULE TemporalMemory ----------------------------
(***************************************************************************)
(* The temporal layer of a frame: the per-session histories                *)
(* (session_memory.py), the risk of an object near an edge (edge_risk.py), *)
(* the triggers of the background reasoner (triggers.py) and the           *)
(* perception corrections (semantic_corrections.py, scene_context.py), all *)
(* under temporal_reasoning/.                                              *)
(*                                                                         *)
(* A memory is [hist, context, corrections, idle]; hist maps an id to the  *)
(* recent rows of that id.  Rows are the tracks of the frame, or the       *)
(* entities under the ids e0, e1, ... (here 0, -1, ...) when it has no     *)
(* track.  The code keeps three deques per id, each with its own length:   *)
(* here one of Window rows, of which each reader takes its own suffix.     *)
(***************************************************************************)
EXTENDS Tracker

LOCAL INSTANCE FiniteSetsExt
LOCAL INSTANCE SequencesExt

CONSTANTS
  Window,       \* TEMPORAL_MEMORY_WINDOW_FRAMES
  FlipWindow,   \* TEMPORAL_LABEL_FLIP_WINDOW_FRAMES
  EdgeFrames,   \* OBJECT_EDGE_HISTORY_FRAMES
  MaxMemories,  \* TEMPORAL_MAX_ACTIVE_SESSIONS
  MemoryTTL,    \* TEMPORAL_MEMORY_TTL_MS, in ticks: when it is not set, SESSION_TTL_MS
  RefreshTTL,   \* SCENE_CONTEXT_REFRESH_MS, in ticks
  Indoor        \* the scene hint or site context of the requests names an indoor place

ASSUME MemoryAssumption ==
  /\ {Window, FlipWindow, EdgeFrames} \subseteq Nat \ {0, 1}
  /\ MaxMemories \in Nat \ {0}
  /\ {MemoryTTL, RefreshTTL} \subseteq Nat
  /\ Indoor \in BOOLEAN

------------------------------------------------------------------------------
(* The histories *)

\* context is the age of the scene context, or None before the first.
NewMemory == [hist |-> <<>>, context |-> None, corrections |-> {}, idle |-> 0]

Suffix(seq, n) == SubSeq(seq, IF Len(seq) > n THEN Len(seq) - n + 1 ELSE 1, Len(seq))

Rows(E, tracks) ==
  IF tracks # <<>> THEN tracks
  ELSE [i \in DOMAIN E |-> [id |-> 1 - i, class |-> E[i].class, box |-> E[i].box, low |-> E[i].low]]

\* One more row per id of the frame.  Nothing is ever dropped: the loop at the end of
\* update looks for empty histories, and a history is never empty.
Remembered(m, rows) ==
  LET ids == {rows[k].id : k \in DOMAIN rows}
      past(t) == IF t \in DOMAIN m.hist THEN m.hist[t] ELSE <<>>
      row(t) == rows[CHOOSE k \in DOMAIN rows : rows[k].id = t]
  IN [m EXCEPT !.idle = 0,
               !.hist = [t \in DOMAIN m.hist \cup ids |->
                           IF t \in ids THEN Suffix(Append(past(t), row(t)), Window) ELSE past(t)]]

------------------------------------------------------------------------------
(* Objects near an edge *)

NonPortable == {"person", "bus"}
SurfaceClasses == {"table"}

Surfaces(E) == {E[i].box : i \in {i \in DOMAIN E : E[i].class \in SurfaceClasses}}

\* Near: at most 0.10 from the lip of the surface below, or from the frame when none is.
\* Approaching: more than 0.01 nearer than in the oldest of the recent rows.
EdgeRow(hist, row, surfaces) ==
  LET onto == SurfaceGaps(row.box, surfaces)
      gap == IF onto # {} THEN Min(onto) ELSE FrameGap(row.box)
      oldest == Head(Suffix(hist, EdgeFrames)).box
      before == IF onto = {} THEN {FrameGap(oldest)} ELSE SurfaceGaps(oldest, surfaces)
      near == gap <= 10
      approaching == Len(hist) >= 2 /\ before # {} /\ Min(before) - gap > 1
  IN row.class \notin NonPortable /\ (near \/ approaching)

EdgeRisks(m, E, rows) ==
  LET edge == {k \in DOMAIN rows : EdgeRow(m.hist[rows[k].id], rows[k], Surfaces(E))}
  IN {Risk("object_near_edge", "latent", "YELLOW", FALSE, {rows[k].id}, None, "temporal") : k \in edge}

------------------------------------------------------------------------------
(* The triggers *)

OutdoorVehicle == {"bus"}

Unstable(hist) == Cardinality({r.class : r \in ToSet(Suffix(hist, FlipWindow))}) > 1
LowStable(hist) == Len(hist) >= 3 /\ \A r \in ToSet(Suffix(hist, 5)) : r.low

\* risks are those the engine gave; level counts the edge risks too.
Reasons(m, E, risks, edges, level, force) ==
  {reason \in {"user_request", "risk_escalation", "object_near_edge", "scene_mismatch",
               "person_in_danger_zone", "label_instability", "low_conf_stable",
               "periodic_refresh"} :
     CASE reason = "user_request" -> force
       [] reason = "risk_escalation" -> Rank(level) >= Rank("ORANGE")
       [] reason = "object_near_edge" -> edges # {}
       [] reason = "scene_mismatch" -> Indoor /\ \E i \in DOMAIN E : E[i].class \in OutdoorVehicle
       [] reason = "person_in_danger_zone" ->
            \E r \in risks : /\ Rank(r.level) >= Rank("ORANGE") /\ r.state = "active"
                             /\ r.hazard \in {"person_forklift_proximity", "person_vehicle_proximity"}
       [] reason = "label_instability" -> \E t \in DOMAIN m.hist : Unstable(m.hist[t])
       [] reason = "low_conf_stable" -> \E t \in DOMAIN m.hist : LowStable(m.hist[t])
       [] reason = "periodic_refresh" -> m.context = None \/ m.context.age >= RefreshTTL}

------------------------------------------------------------------------------
(* Perception corrections *)

Protected == {"person", "fire", "smoke", "forklift", "spill"}
FalsePositives == {"bus"}
IndoorClasses == {"item", "table"}
OutdoorClasses == {"bus"}

\* The scene as the mock reads it: the hint, else the majority of the classes.
MockIndoor(E) ==
  LET count(classes) == Cardinality({i \in DOMAIN E : E[i].class \in classes})
  IN Indoor \/ count(IndoorClasses) >= count(OutdoorClasses)

\* tids has the corrected track, or nothing.
Correction(tids, class) == [tids |-> tids, class |-> class]

\* Entity i is corrected under the id of the i-th track of the frame's list, which is
\* by track id and not by entity.
TrackByIndex(tracks, i) == IF i \in DOMAIN tracks THEN {tracks[i].id} ELSE {}

MockCorrections(E, tracks) ==
  IF ~MockIndoor(E) THEN {}
  ELSE {Correction(TrackByIndex(tracks, i), E[i].class) :
          i \in {i \in DOMAIN E : E[i].class \in FalsePositives \ Protected}}

\* What is kept of the model's own list: any id, any class but the protected ones.
KeptCorrections(said) == {c \in said : c.class \notin Protected}

\* A mutant: a stored result keeps the session alive.
StoredResultTouches(m, corrections) ==
  [m EXCEPT !.context = [age |-> 0], !.corrections = corrections, !.idle = 0]

\* Stored in the session's memory, which is made anew when it has gone.
StoredResult(m, corrections) == [m EXCEPT !.context = [age |-> 0], !.corrections = corrections]
===============================================================================
