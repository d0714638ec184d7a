---------------------------- MODULE BuildSession ----------------------------
(***************************************************************************)
(* The Build Mode sessions of src/build_blueprint.py: start, lock, frame,  *)
(* finish and replay, the caps, the TTL, and the plan that a pinch moves   *)
(* on.  Handlers run on the event loop; process_frame_async() leaves it    *)
(* while a thread segments the crop, and keeps the session object it found *)
(* even if the session is evicted meanwhile.                               *)
(***************************************************************************)
EXTENDS Naturals, FiniteSets, SequencesExt

CONSTANTS
  Sessions,    \* bound: sessions that are ever started
  Requests,    \* bound: keyframes that are ever sent
  MaxSessions, \* MAX_SESSIONS
  MaxFrames,   \* MAX_FRAMES_PER_SESSION
  EveryN,      \* YOLO26_SEG_EVERY_N, not 0
  Tasks,       \* bound: plan keys of confirmed tasks
  Steps,       \* rows of a table of _steps_for(): 3 in every one
  Patient,     \* sessions whose client waits for each answer; others overlap
  Malformed,   \* a client may send bad images and what BlueprintFrame rejects
  None         \* no session, no mask

ASSUME NamesAssumption == None \notin Sessions \cup Requests \cup Tasks /\ "ask" \notin Tasks
ASSUME BoundsAssumption ==
  /\ MaxSessions \in Nat \ {0}
  /\ MaxFrames \in Nat \ {0}
  /\ EveryN \in Nat \ {0}
  /\ Steps \in Nat \ {0}
  /\ Patient \subseteq Sessions
  /\ Malformed \in BOOLEAN

VARIABLES
  live,      \* the keys of BUILD_SESSIONS
  aged,      \* sessions older than SESSION_TTL_SECONDS
  created,   \* sess["created_at"], as the order of starts; 0 before it
  selected,  \* sessions with a selected region
  finished,  \* sess["finished"], which the replay reports
  frames,    \* sess["frames"]: the default id and the mask of each
  asset,     \* sess["source_asset"]["id"]: the request it is named after
  plan,      \* sess["plan_key"], ["plan_index"] and ["pinch_prev"]
  request,   \* where each keyframe is
  \* history, read by no action
  gestures   \* what the plan frames of a session showed, in order

sessionVars == <<live, aged, created, selected, finished>>
frameVars   == <<frames, asset, plan, gestures>>
vars == <<live, aged, created, selected, finished, frames, asset, plan, request,
          gestures>>

\* "ask": no task is confirmed and the plan has one step; a task has those of a table.
PlanKeys == Tasks \cup {"ask"}

ASSUME NoKeyAssumption == None \notin PlanKeys

StepsOf(key) == IF key = "ask" THEN 1 ELSE Steps

NoPlan == [key |-> None, index |-> 0, pinch |-> FALSE]

RequestPc == {"new", "segments", "ok", "refused", "failed"}

TypeOK ==
  /\ live \in SUBSET Sessions
  /\ aged \in SUBSET Sessions
  /\ created \in [Sessions -> Nat]
  /\ selected \in SUBSET Sessions
  /\ finished \in SUBSET Sessions
  /\ frames \in [Sessions -> Seq([id : Nat, mask : Requests])]
  /\ asset \in [Sessions -> Requests \cup {None}]
  /\ plan \in [Sessions -> [key : PlanKeys \cup {None}, index : 0..(Steps - 1),
                            pinch : BOOLEAN]]
  /\ request \in [Requests -> [pc : RequestPc, session : Sessions \cup {None},
                               index : Nat, prior : Requests \cup {None}]]
  /\ gestures \in [Sessions -> Seq([key : PlanKeys, active : BOOLEAN])]

NewRequest == [pc |-> "new", session |-> None, index |-> 0, prior |-> None]

Init ==
  /\ live = {}
  /\ aged = {}
  /\ created = [s \in Sessions |-> 0]
  /\ selected = {}
  /\ finished = {}
  /\ frames = [s \in Sessions |-> << >>]
  /\ asset = [s \in Sessions |-> None]
  /\ plan = [s \in Sessions |-> NoPlan]
  /\ request = [r \in Requests |-> NewRequest]
  /\ gestures = [s \in Sessions |-> << >>]

(***************************************************************************)
(* Session life.                                                           *)
(***************************************************************************)
Started == {s \in Sessions : created[s] > 0}

\* _cleanup_expired(): what it leaves of BUILD_SESSIONS.
Cleaned == live \ aged

Oldest == {s \in Cleaned : \A t \in Cleaned : created[s] <= created[t]}

\* What _evict_oldest() may leave, when a new session needs the place.
Evicted == IF Cardinality(Cleaned) >= MaxSessions THEN {Cleaned \ {s} : s \in Oldest}
           ELSE {Cleaned}

StartSession(s) ==
  /\ s \notin Started
  /\ \E left \in Evicted : live' = left \cup {s}
  /\ created' = [created EXCEPT ![s] = Cardinality(Started) + 1]
  /\ \E region \in BOOLEAN :
       selected' = IF region THEN selected \cup {s} ELSE selected
  /\ UNCHANGED <<aged, finished, frameVars, request>>

LockSession(s) ==
  /\ s \in live
  /\ selected' = selected \cup {s}
  /\ UNCHANGED <<live, aged, created, finished, frameVars, request>>

FinishSession(s) ==
  /\ s \in live
  /\ finished' = finished \cup {s}
  /\ UNCHANGED <<live, aged, created, selected, frameVars, request>>

\* Reading a replay cleans up first.
Replay ==
  /\ live' = Cleaned
  /\ UNCHANGED <<aged, created, selected, finished, frameVars, request>>

\* The TTL counts from the start of the session, used or not.
SessionAges(s) ==
  /\ s \in Started
  /\ aged' = aged \cup {s}
  /\ UNCHANGED <<live, created, selected, finished, frameVars, request>>

(***************************************************************************)
(* _resolve_plan_steps().                                                  *)
(***************************************************************************)
\* A plan for another task begins anew.
PlanFor(p, key) ==
  IF p.key = key THEN p ELSE [key |-> key, index |-> 0, pinch |-> FALSE]

Least(a, b) == IF a < b THEN a ELSE b

AdvanceWhilePinched(p, key, active) ==
  LET q == PlanFor(p, key)
      i == IF key # "ask" /\ active THEN Least(q.index + 1, StepsOf(key) - 1)
           ELSE q.index
  IN  [key |-> key, index |-> i, pinch |-> active]

\* The index advances when a pinch begins, up to the last step.
Advance(p, key, active) ==
  LET q == PlanFor(p, key)
      i == IF key # "ask" /\ active /\ ~q.pinch
             THEN Least(q.index + 1, StepsOf(key) - 1)
             ELSE q.index
  IN  [key |-> key, index |-> i, pinch |-> active]

(***************************************************************************)
(* process_frame_async().                                                  *)
(***************************************************************************)
CapReachedByOne(s) == Len(frames[s]) > MaxFrames
CapReached(s) == Len(frames[s]) >= MaxFrames

NextIndex(s) == Len(frames[s])

\* The mask keeps the name of the one it replaces, as found before the await.
NamedAnew(r, prior) == r
NamedAfter(r, prior) == IF prior = None THEN r ELSE prior

\* Everything after the await: the mask, the plan, and the frame itself unless
\* BlueprintFrame rejects it, when mask and plan have moved on already.
Record(r, s, index, mask) ==
  /\ asset' = [asset EXCEPT ![s] = mask]
  /\ \/ UNCHANGED <<plan, gestures>>
     \/ \E key \in PlanKeys, active \in BOOLEAN :
          /\ plan' = [plan EXCEPT ![s] = Advance(@, key, active)]
          /\ gestures' = [gestures EXCEPT
                            ![s] = Append(@, [key |-> key, active |-> active])]
  /\ \/ /\ frames' = [frames EXCEPT
                         ![s] = Append(@, [id |-> index, mask |-> mask])]
        /\ request' = [request EXCEPT ![r].pc = "ok"]
     \/ /\ Malformed
        /\ request' = [request EXCEPT ![r].pc = "failed"]
        /\ UNCHANGED frames

InFlight(s) ==
  \E r \in Requests : request[r].pc = "segments" /\ request[r].session = s

\* 404, 409, or 400 and 413 when the region or the image is missing or bad.
FrameRefused(r, s) ==
  /\ request[r].pc = "new"
  /\ live' = Cleaned
  /\ \/ s \notin Cleaned
     \/ CapReached(s)
     \/ s \notin selected
     \/ Malformed
  /\ request' = [request EXCEPT ![r].pc = "refused"]
  /\ UNCHANGED <<aged, created, selected, finished, frameVars>>

MaskIsDue(s) == asset[s] = None \/ NextIndex(s) % EveryN = 0

\* The frame needs a mask: the crop is segmented off the event loop.
FrameSegments(r, s) ==
  /\ request[r].pc = "new"
  /\ live' = Cleaned
  /\ s \in Cleaned
  /\ ~CapReached(s)
  /\ s \in Patient => ~InFlight(s)
  /\ request' = [request EXCEPT ![r] =
                   [pc |-> "segments", session |-> s,
                    index |-> NextIndex(s), prior |-> asset[s]]]
  /\ UNCHANGED <<aged, created, selected, finished, frameVars>>

\* The frame reuses the last mask: no await.
FrameReuses(r, s) ==
  /\ request[r].pc = "new"
  /\ live' = Cleaned
  /\ s \in Cleaned
  /\ ~CapReached(s)
  /\ s \in Patient => ~InFlight(s)
  /\ ~MaskIsDue(s)
  /\ Record(r, s, NextIndex(s), asset[s])
  /\ UNCHANGED <<aged, created, selected, finished>>

SegmentationEnds(r) ==
  /\ request[r].pc = "segments"
  /\ Record(r, request[r].session, request[r].index,
            NamedAfter(r, request[r].prior))
  /\ UNCHANGED sessionVars

\* The crop cannot be decoded: the session is as it was.
SegmentationFails(r) ==
  /\ request[r].pc = "segments"
  /\ request' = [request EXCEPT ![r].pc = "failed"]
  /\ UNCHANGED <<sessionVars, frameVars>>

-----------------------------------------------------------------------------
Next ==
  \/ \E s \in Sessions :
       StartSession(s) \/ LockSession(s) \/ FinishSession(s) \/ SessionAges(s)
  \/ Replay
  \/ \E r \in Requests, s \in Sessions :
       FrameRefused(r, s) \/ FrameSegments(r, s) \/ FrameReuses(r, s)
  \/ \E r \in Requests : SegmentationEnds(r) \/ SegmentationFails(r)

Spec == Init /\ [][Next]_vars

(***************************************************************************)
(* Safety.                                                                 *)
(***************************************************************************)
\* The gestures from the i-th on were about the task of the last one.
SameTask(g, i) == \A k \in i..Len(g) : g[k].key = g[Len(g)].key

\* A pinch begins: the frame before shows none, or belongs to another task.
Begins(g, i) == g[i].active /\ (i > 1 /\ SameTask(g, i - 1) => ~g[i - 1].active)

Pinches(g) == {i \in 1..Len(g) : SameTask(g, i) /\ Begins(g, i)}

\* The plan index, kept frame by frame, is what the gestures so far say: the
\* pinches that began since the task was last changed, up to the last step
\* (build_blueprint.py:932-953), in the order in which frames complete.
PlanFollowsGestures ==
  \A s \in Sessions :
    LET g == gestures[s]
    IN  g # << >> =>
          plan[s].index = Least(Cardinality(Pinches(g)), StepsOf(g[Len(g)].key) - 1)

\* A client that sends a keyframe after the answer to the last keeps within the
\* "per-session cap (240 frames)" of README.md:162-163, and its default frame ids
\* number the replay from 0 (build_blueprint.py:241-242).
FramesCappedInOrder ==
  \A s \in Patient :
    /\ Len(frames[s]) <= MaxFrames
    /\ \A i \in DOMAIN frames[s] : frames[s][i].id = i - 1

\* Every frame of a session shows the same object.
OneAssetPerSession ==
  \A s \in Patient : \A i \in DOMAIN frames[s] : frames[s][i].mask = asset[s]

(***************************************************************************)
(* What the proofs of these add.                                           *)
(***************************************************************************)
\* A frame that waits for its mask belongs to a session.  Of a client that waits it is
\* the only one, and finds the session as it left it.
OneInFlight ==
  /\ \A r \in Requests : request[r].pc = "segments" => request[r].session \in Sessions
  /\ \A q, r \in Requests :
       /\ request[q].pc = "segments" /\ request[r].pc = "segments"
       /\ request[q].session = request[r].session /\ request[r].session \in Patient
       => q = r
  /\ \A r \in Requests :
       request[r].pc = "segments" /\ request[r].session \in Patient =>
         LET s == request[r].session
         IN  /\ request[r].index = NextIndex(s) /\ ~CapReached(s)
             /\ request[r].prior = asset[s]

\* The plan remembers the task and the hand of the last gesture.
PlanRemembers ==
  \A s \in Sessions :
    LET g == gestures[s]
    IN  IF g = << >> THEN plan[s] = NoPlan
        ELSE plan[s].key = g[Len(g)].key /\ plan[s].pinch = g[Len(g)].active

\* "MAX_SESSIONS" (build_blueprint.py:100): never more sessions are kept.
SessionsCapped ==
  IsFiniteSet(Started) /\ IsFiniteSet(live) /\ Cardinality(live) <= MaxSessions

Invariant ==
  TypeOK /\ OneInFlight /\ FramesCappedInOrder /\ OneAssetPerSession
    /\ PlanRemembers /\ PlanFollowsGestures /\ SessionsCapped

(***************************************************************************)
(* The session of a client that waits implements the abstract recording.   *)
(***************************************************************************)
Tape(s) == INSTANCE Recording
             WITH Names <- Requests, tape <- frames[s], object <- asset[s]

\* sourceAssetId names the selected object (build_blueprint.py:277): across masks
\* made off the loop, failures, evictions and frames after finish, the frames a
\* session has recorded never change, and all of them show the one object.
EveryWaitingClientRecords ==
  /\ \A s \in Patient : Tape(s)!RecordingInit
  /\ [][\A s \in Patient : [Tape(s)!RecordingNext]_(Tape(s)!recordingVars)]_vars
=============================================================================
