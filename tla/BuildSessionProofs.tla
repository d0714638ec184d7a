------------------------- MODULE BuildSessionProofs -------------------------
(***************************************************************************)
(* Safety of BuildSession for any sessions, keyframes, caps and plans.     *)
(* What a client that waits sees needs that its one keyframe in flight     *)
(* finds the session as it left it (OneInFlight); that the plan counts the *)
(* pinches needs what the plan remembers of the last gesture               *)
(* (PlanRemembers), and how one more gesture changes the pinches.          *)
(***************************************************************************)
EXTENDS BuildSession, FiniteSetTheorems, SequenceTheorems, TLAPS

(***************************************************************************)
(* Operators.                                                              *)
(***************************************************************************)
\* Appending adds one element at the end.
LEMMA AppendAdds ==
  ASSUME NEW S, NEW q \in Seq(S), NEW e \in S
  PROVE  /\ Append(q, e) \in Seq(S) /\ Append(q, e) # << >>
         /\ Len(Append(q, e)) = Len(q) + 1 /\ Len(q) \in Nat
         /\ DOMAIN Append(q, e) = 1..(Len(q) + 1) /\ DOMAIN q = 1..Len(q)
         /\ \A i \in 1..Len(q) : Append(q, e)[i] = q[i]
         /\ Append(q, e)[Len(q) + 1] = e
<1>1. /\ Append(q, e) \in Seq(S) /\ Len(Append(q, e)) = Len(q) + 1
      /\ \A i \in 1..Len(q) : Append(q, e)[i] = q[i]
      /\ Append(q, e)[Len(q) + 1] = e
  BY AppendProperties
<1> DEFINE a == Append(q, e)
<1> HIDE DEF a
<1>2. DOMAIN a = 1..(Len(q) + 1) /\ DOMAIN q = 1..Len(q) /\ Len(q) \in Nat
  BY <1>1 DEF a
<1>3. a # << >>
  <2>1. Len(<< >>) = 0 /\ Len(a) # 0
    BY <1>1, <1>2 DEF a
  <2> QED
    BY <2>1
<1> QED
  BY <1>1, <1>2, <1>3 DEF a

\* The number of steps is positive, and one for a question.
LEMMA StepsAreCounted ==
  ASSUME NEW key \in PlanKeys
  PROVE  /\ StepsOf(key) - 1 \in 0..(Steps - 1) /\ StepsOf("ask") = 1
         /\ key # "ask" => StepsOf(key) = Steps
BY BoundsAssumption DEF StepsOf, PlanKeys

\* What a frame does to a well-typed plan.
LEMMA AdvanceGives ==
  ASSUME NEW p \in [key : PlanKeys \cup {None}, index : 0..(Steps - 1), pinch : BOOLEAN],
         NEW key \in PlanKeys, NEW active \in BOOLEAN
  PROVE  /\ Advance(p, key, active) \in
              [key : PlanKeys \cup {None}, index : 0..(Steps - 1), pinch : BOOLEAN]
         /\ Advance(p, key, active).key = key /\ Advance(p, key, active).pinch = active
         /\ Advance(p, key, active).index =
              LET q == PlanFor(p, key)
              IN  IF key # "ask" /\ active /\ ~q.pinch
                    THEN Least(q.index + 1, StepsOf(key) - 1) ELSE q.index
<1> DEFINE q == PlanFor(p, key)
           i == IF key # "ask" /\ active /\ ~q.pinch
                  THEN Least(q.index + 1, StepsOf(key) - 1) ELSE q.index
<1>1. q \in [key : PlanKeys \cup {None}, index : 0..(Steps - 1), pinch : BOOLEAN]
  BY BoundsAssumption DEF PlanFor
<1>2. Least(q.index + 1, StepsOf(key) - 1) \in 0..(Steps - 1)
  BY <1>1, StepsAreCounted DEF Least
<1>3. i \in 0..(Steps - 1)
  BY <1>1, <1>2
<1>4. Advance(p, key, active) = [key |-> key, index |-> i, pinch |-> active]
  BY DEF Advance
<1> HIDE DEF i, q
<1>5. [key |-> key, index |-> i, pinch |-> active] \in
        [key : PlanKeys \cup {None}, index : 0..(Steps - 1), pinch : BOOLEAN]
  BY <1>3
<1> QED
  BY <1>4, <1>5 DEF i, q

(***************************************************************************)
(* Initial states and types.                                               *)
(***************************************************************************)
\* The initial states satisfy the invariant.
LEMMA InvariantInit == Init => Invariant
<1> SUFFICES ASSUME Init PROVE Invariant
  OBVIOUS
<1>1. TypeOK
  <2>1. frames \in [Sessions -> Seq([id : Nat, mask : Requests])]
    BY DEF Init
  <2>2. gestures \in [Sessions -> Seq([key : PlanKeys, active : BOOLEAN])]
    BY DEF Init
  <2>3. plan \in [Sessions -> [key : PlanKeys \cup {None}, index : 0..(Steps - 1),
                               pinch : BOOLEAN]]
    BY BoundsAssumption DEF Init, NoPlan
  <2>4. request \in [Requests -> [pc : RequestPc, session : Sessions \cup {None},
                                  index : Nat, prior : Requests \cup {None}]]
    BY DEF Init, NewRequest, RequestPc
  <2> QED
    BY <2>1, <2>2, <2>3, <2>4 DEF Init, TypeOK
<1>2. OneInFlight
  BY DEF Init, OneInFlight, NewRequest
<1>3. FramesCappedInOrder /\ OneAssetPerSession
  <2>1. \A s \in Patient : s \in Sessions /\ frames[s] = << >>
    BY BoundsAssumption DEF Init
  <2>2. Len(<< >>) = 0 /\ DOMAIN << >> = {} /\ 0 <= MaxFrames
    BY BoundsAssumption
  <2> QED
    BY <2>1, <2>2 DEF FramesCappedInOrder, OneAssetPerSession
<1>4. PlanRemembers /\ PlanFollowsGestures
  BY DEF Init, PlanRemembers, PlanFollowsGestures
<1>5. SessionsCapped
  <2>1. Started = {} /\ live = {}
    BY DEF Init, Started
  <2> QED
    BY <2>1, FS_EmptySet, BoundsAssumption DEF SessionsCapped
<1> QED
  BY <1>1, <1>2, <1>3, <1>4, <1>5 DEF Invariant

\* What a recorded frame leaves of a session.
RecordLeaves(r, s, index, mask) ==
  /\ asset' = [asset EXCEPT ![s] = mask]
  /\ \/ UNCHANGED frames
     \/ frames' = [frames EXCEPT ![s] = Append(frames[s], [id |-> index, mask |-> mask])]
  /\ \/ UNCHANGED <<plan, gestures>>
     \/ \E key \in PlanKeys, active \in BOOLEAN :
          /\ plan' = [plan EXCEPT ![s] = Advance(plan[s], key, active)]
          /\ gestures' = [gestures EXCEPT
                            ![s] = Append(gestures[s], [key |-> key, active |-> active])]
  /\ request' \in [Requests -> [pc : RequestPc, session : Sessions \cup {None},
                                index : Nat, prior : Requests \cup {None}]]
  /\ request'[r].pc # "segments" /\ \A q \in Requests : q # r => request'[q] = request[q]

\* A frame is recorded that way.
LEMMA RecordGives ==
  ASSUME TypeOK, NEW r \in Requests, NEW s \in Sessions, NEW index \in Nat, NEW mask \in Requests,
         Record(r, s, index, mask)
  PROVE  RecordLeaves(r, s, index, mask)
<1>1. asset' = [asset EXCEPT ![s] = mask]
  BY DEF Record
<1>2. \/ UNCHANGED frames
      \/ frames' = [frames EXCEPT ![s] = Append(frames[s], [id |-> index, mask |-> mask])]
  BY DEF Record
<1>3. \/ UNCHANGED <<plan, gestures>>
      \/ \E key \in PlanKeys, active \in BOOLEAN :
           /\ plan' = [plan EXCEPT ![s] = Advance(plan[s], key, active)]
           /\ gestures' = [gestures EXCEPT
                             ![s] = Append(gestures[s], [key |-> key, active |-> active])]
  BY DEF Record
<1>4. PICK end \in {"ok", "failed"} : request' = [request EXCEPT ![r].pc = end]
  BY DEF Record
<1>5. end \in RequestPc
  BY DEF RequestPc
<1>6. /\ request' \in [Requests -> [pc : RequestPc, session : Sessions \cup {None},
                                    index : Nat, prior : Requests \cup {None}]]
      /\ request'[r].pc = end /\ \A q \in Requests : q # r => request'[q] = request[q]
  BY <1>4, <1>5 DEF TypeOK
<1> QED
  BY <1>1, <1>2, <1>3, <1>6 DEF RecordLeaves

\* A recorded frame is well typed.
LEMMA RecordTypes ==
  ASSUME TypeOK, NEW r \in Requests, NEW s \in Sessions, NEW index \in Nat, NEW mask \in Requests,
         Record(r, s, index, mask), live' \in SUBSET Sessions,
         UNCHANGED <<aged, created, selected, finished>>
  PROVE  TypeOK'
<1>leaves. RecordLeaves(r, s, index, mask)
  BY RecordGives
<1>1. frames' \in [Sessions -> Seq([id : Nat, mask : Requests])]
  <2>1. [id |-> index, mask |-> mask] \in [id : Nat, mask : Requests]
    OBVIOUS
  <2>2. Append(frames[s], [id |-> index, mask |-> mask]) \in Seq([id : Nat, mask : Requests])
    BY <2>1, AppendProperties DEF TypeOK
  <2> QED
    BY <1>leaves, <2>2 DEF TypeOK, RecordLeaves
<1>2. asset' \in [Sessions -> Requests \cup {None}]
  BY <1>leaves DEF TypeOK, RecordLeaves
<1>3. /\ plan' \in [Sessions -> [key : PlanKeys \cup {None}, index : 0..(Steps - 1),
                                 pinch : BOOLEAN]]
      /\ gestures' \in [Sessions -> Seq([key : PlanKeys, active : BOOLEAN])]
  <2>1. CASE UNCHANGED <<plan, gestures>>
    BY <2>1 DEF TypeOK
  <2>2. ASSUME NEW key \in PlanKeys, NEW active \in BOOLEAN,
               plan' = [plan EXCEPT ![s] = Advance(plan[s], key, active)],
               gestures' = [gestures EXCEPT
                              ![s] = Append(gestures[s], [key |-> key, active |-> active])]
        PROVE  /\ plan' \in [Sessions -> [key : PlanKeys \cup {None}, index : 0..(Steps - 1),
                                          pinch : BOOLEAN]]
               /\ gestures' \in [Sessions -> Seq([key : PlanKeys, active : BOOLEAN])]
    <3>1. Advance(plan[s], key, active) \in
            [key : PlanKeys \cup {None}, index : 0..(Steps - 1), pinch : BOOLEAN]
      BY AdvanceGives DEF TypeOK
    <3>2. [key |-> key, active |-> active] \in [key : PlanKeys, active : BOOLEAN]
      OBVIOUS
    <3>3. Append(gestures[s], [key |-> key, active |-> active])
            \in Seq([key : PlanKeys, active : BOOLEAN])
      BY <3>2, AppendProperties DEF TypeOK
    <3> HIDE DEF PlanKeys
    <3> QED
      BY <2>2, <3>1, <3>3 DEF TypeOK
  <2> QED
    BY <1>leaves, <2>1, <2>2 DEF RecordLeaves
<1> QED
  BY <1>leaves, <1>1, <1>2, <1>3 DEF TypeOK, RecordLeaves

\* The mask of a frame that was segmented is named, the one of a frame that was not too.
LEMMA MaskIsNamed ==
  ASSUME TypeOK
  PROVE  /\ \A r \in Requests : /\ request[r].index \in Nat
                                /\ NamedAfter(r, request[r].prior) \in Requests
         /\ \A s \in Sessions : NextIndex(s) \in Nat /\ (~MaskIsDue(s) => asset[s] \in Requests)
<1>1. \A r \in Requests : request[r].index \in Nat /\ request[r].prior \in Requests \cup {None}
  BY DEF TypeOK
<1>2. \A s \in Sessions : NextIndex(s) \in Nat
  BY DEF TypeOK, NextIndex
<1>3. \A s \in Sessions : ~MaskIsDue(s) => asset[s] \in Requests
  BY DEF TypeOK, MaskIsDue
<1> QED
  BY <1>1, <1>2, <1>3 DEF NamedAfter

\* A step keeps the types.
LEMMA TypeStep ==
  ASSUME Invariant, [Next]_vars
  PROVE  TypeOK'
<1>types. TypeOK /\ OneInFlight /\ SessionsCapped
  BY DEF Invariant
<1>clean. Cleaned \in SUBSET Sessions
  BY <1>types DEF Cleaned, TypeOK
<1>1. ASSUME NEW s \in Sessions, StartSession(s) PROVE TypeOK'
  <2>1. Evicted \subseteq SUBSET Sessions
    BY <1>clean DEF Evicted
  <2>2. Cardinality(Started) + 1 \in Nat
    BY <1>types, FS_CardinalityType DEF SessionsCapped
  <2>3. created' \in [Sessions -> Nat] /\ live' \in SUBSET Sessions
    BY <1>1, <1>types, <2>1, <2>2 DEF StartSession, TypeOK
  <2>4. selected' \in SUBSET Sessions
    BY <1>1, <1>types DEF StartSession, TypeOK
  <2> QED
    BY <1>1, <1>types, <2>3, <2>4 DEF StartSession, TypeOK, frameVars
<1>2. ASSUME NEW s \in Sessions, LockSession(s) \/ FinishSession(s) \/ SessionAges(s) PROVE TypeOK'
  BY <1>2, <1>types DEF LockSession, FinishSession, SessionAges, TypeOK, frameVars
<1>3. ASSUME Replay PROVE TypeOK'
  BY <1>3, <1>types, <1>clean DEF Replay, TypeOK, frameVars
<1>4. ASSUME NEW r \in Requests, NEW s \in Sessions, FrameRefused(r, s) PROVE TypeOK'
  <2>1. "refused" \in RequestPc
    BY DEF RequestPc
  <2>2. request' \in [Requests -> [pc : RequestPc, session : Sessions \cup {None},
                                   index : Nat, prior : Requests \cup {None}]]
    BY <1>4, <1>types, <2>1 DEF FrameRefused, TypeOK
  <2> QED
    BY <1>4, <1>types, <1>clean, <2>2 DEF FrameRefused, TypeOK, frameVars
<1>5. ASSUME NEW r \in Requests, NEW s \in Sessions, FrameSegments(r, s) PROVE TypeOK'
  <2>1. [pc |-> "segments", session |-> s, index |-> NextIndex(s), prior |-> asset[s]] \in
          [pc : RequestPc, session : Sessions \cup {None},
           index : Nat, prior : Requests \cup {None}]
    <3>1. NextIndex(s) \in Nat /\ asset[s] \in Requests \cup {None} /\ "segments" \in RequestPc
      BY <1>types, MaskIsNamed DEF TypeOK, RequestPc
    <3> QED
      BY <3>1
  <2>2. request' \in [Requests -> [pc : RequestPc, session : Sessions \cup {None},
                                   index : Nat, prior : Requests \cup {None}]]
    BY <1>5, <1>types, <2>1 DEF FrameSegments, TypeOK
  <2> QED
    BY <1>5, <1>types, <1>clean, <2>2 DEF FrameSegments, TypeOK, frameVars
<1>6. ASSUME NEW r \in Requests, NEW s \in Sessions, FrameReuses(r, s) PROVE TypeOK'
  <2>1. NextIndex(s) \in Nat /\ asset[s] \in Requests
    BY <1>6, <1>types, MaskIsNamed DEF FrameReuses
  <2>2. /\ Record(r, s, NextIndex(s), asset[s]) /\ live' \in SUBSET Sessions
        /\ UNCHANGED <<aged, created, selected, finished>>
    BY <1>6, <1>clean DEF FrameReuses
  <2> QED
    BY <1>types, <2>1, <2>2, RecordTypes
<1>7. ASSUME NEW r \in Requests, SegmentationEnds(r) PROVE TypeOK'
  <2> DEFINE s == request[r].session
             i == request[r].index
             m == NamedAfter(r, request[r].prior)
  <2>1. s \in Sessions /\ i \in Nat /\ m \in Requests
    BY <1>7, <1>types, MaskIsNamed DEF SegmentationEnds, OneInFlight
  <2>2. /\ Record(r, s, i, m) /\ live' \in SUBSET Sessions
        /\ UNCHANGED <<aged, created, selected, finished>>
    BY <1>7, <1>types DEF SegmentationEnds, sessionVars, TypeOK
  <2> HIDE DEF s, i, m
  <2> QED
    BY <1>types, <2>1, <2>2, RecordTypes
<1>8. ASSUME NEW r \in Requests, SegmentationFails(r) PROVE TypeOK'
  <2>1. "failed" \in RequestPc
    BY DEF RequestPc
  <2>2. request' \in [Requests -> [pc : RequestPc, session : Sessions \cup {None},
                                   index : Nat, prior : Requests \cup {None}]]
    BY <1>8, <1>types, <2>1 DEF SegmentationFails, TypeOK
  <2> QED
    BY <1>8, <1>types, <2>2 DEF SegmentationFails, TypeOK, frameVars, sessionVars
<1>9. ASSUME UNCHANGED vars PROVE TypeOK'
  BY <1>9, <1>types DEF TypeOK, vars
<1> QED
  BY <1>1, <1>2, <1>3, <1>4, <1>5, <1>6, <1>7, <1>8, <1>9 DEF Next

(***************************************************************************)
(* Frames.                                                                 *)
(***************************************************************************)
\* A frame is recorded; the client that waits has no other one in flight.
FrameRecorded(r, s, index, mask) ==
  /\ r \in Requests /\ s \in Sessions /\ index \in Nat /\ mask \in Requests
  /\ RecordLeaves(r, s, index, mask)
  /\ s \in Patient =>
       /\ index = NextIndex(s) /\ ~CapReached(s) /\ asset[s] \in {mask, None}
       /\ \A q \in Requests :
            q # r => ~(request[q].pc = "segments" /\ request[q].session = s)

\* Both ways to complete a frame record it.
LEMMA CompletedIsRecorded ==
  ASSUME Invariant, NEW r \in Requests, NEW s \in Sessions,
         FrameReuses(r, s) \/ SegmentationEnds(r)
  PROVE  \E t, index, mask : FrameRecorded(r, t, index, mask)
<1>types. TypeOK /\ OneInFlight
  BY DEF Invariant
<1>1. ASSUME FrameReuses(r, s) PROVE FrameRecorded(r, s, NextIndex(s), asset[s])
  <2>1. NextIndex(s) \in Nat /\ asset[s] \in Requests
    BY <1>1, <1>types, MaskIsNamed DEF FrameReuses
  <2>2. RecordLeaves(r, s, NextIndex(s), asset[s])
    BY <1>1, <1>types, <2>1, RecordGives DEF FrameReuses
  <2>3. s \in Patient => \A q \in Requests : ~(request[q].pc = "segments" /\ request[q].session = s)
    BY <1>1 DEF FrameReuses, InFlight
  <2>4. ~CapReached(s)
    BY <1>1 DEF FrameReuses
  <2> QED
    BY <2>1, <2>2, <2>3, <2>4 DEF FrameRecorded
<1>2. ASSUME SegmentationEnds(r)
      PROVE  FrameRecorded(r, request[r].session, request[r].index,
                           NamedAfter(r, request[r].prior))
  <2> DEFINE t == request[r].session
             i == request[r].index
             m == NamedAfter(r, request[r].prior)
  <2>1. request[r].pc = "segments" /\ Record(r, t, i, m)
    BY <1>2 DEF SegmentationEnds
  <2>2. t \in Sessions /\ i \in Nat /\ m \in Requests
    BY <1>types, <2>1, MaskIsNamed DEF OneInFlight
  <2>3. t \in Patient => i = NextIndex(t) /\ ~CapReached(t) /\ request[r].prior = asset[t]
    BY <1>types, <2>1 DEF OneInFlight
  <2>4. asset[t] = request[r].prior => asset[t] \in {m, None}
    BY DEF NamedAfter
  <2>5. ASSUME t \in Patient, NEW q \in Requests, q # r
        PROVE  ~(request[q].pc = "segments" /\ request[q].session = t)
    BY <1>types, <2>1, <2>5 DEF OneInFlight
  <2> HIDE DEF t, i, m
  <2>6. RecordLeaves(r, t, i, m)
    BY <1>types, <2>1, <2>2, RecordGives
  <2>7. FrameRecorded(r, t, i, m)
    BY <2>2, <2>3, <2>4, <2>5, <2>6 DEF FrameRecorded
  <2> QED
    BY <2>7 DEF t, i, m
<1> QED
  BY <1>1, <1>2

\* Nothing else changes what a session has recorded.
LEMMA FramesAreRecorded ==
  ASSUME Invariant, [Next]_vars
  PROVE  \/ UNCHANGED frameVars
         \/ \E r, s, index, mask : FrameRecorded(r, s, index, mask)
<1>1. ASSUME NEW r \in Requests, NEW s \in Sessions, FrameReuses(r, s) \/ SegmentationEnds(r)
      PROVE  \E t, index, mask : FrameRecorded(r, t, index, mask)
  BY <1>1, CompletedIsRecorded
<1>2. ASSUME NEW r \in Requests, SegmentationEnds(r)
      PROVE  \E t, index, mask : FrameRecorded(r, t, index, mask)
  <2>1. request[r].session \in Sessions
    BY <1>2 DEF Invariant, OneInFlight, SegmentationEnds
  <2> QED
    BY <1>1, <1>2, <2>1
<1>3. ASSUME NEW s \in Sessions,
             StartSession(s) \/ LockSession(s) \/ FinishSession(s) \/ SessionAges(s)
      PROVE  UNCHANGED frameVars
  BY <1>3 DEF StartSession, LockSession, FinishSession, SessionAges
<1>4. ASSUME NEW r \in Requests, NEW s \in Sessions,
             FrameRefused(r, s) \/ FrameSegments(r, s) \/ SegmentationFails(r)
      PROVE  UNCHANGED frameVars
  BY <1>4 DEF FrameRefused, FrameSegments, SegmentationFails
<1>5. Replay => UNCHANGED frameVars
  BY DEF Replay
<1>7. ASSUME NEW r \in Requests, SegmentationFails(r) PROVE UNCHANGED frameVars
  BY <1>7 DEF SegmentationFails
<1>8. UNCHANGED vars => UNCHANGED frameVars
  BY DEF vars, frameVars
<1> QED
  BY <1>1, <1>2, <1>3, <1>4, <1>5, <1>7, <1>8 DEF Next

\* A step keeps to one frame in flight for a client that waits.
LEMMA InFlightStep ==
  ASSUME Invariant, [Next]_vars
  PROVE  OneInFlight'
<1>types. TypeOK /\ OneInFlight
  BY DEF Invariant
<1>1. ASSUME UNCHANGED <<frames, asset>>,
             \A q \in Requests : request'[q].pc = "segments" => request'[q] = request[q]
      PROVE  OneInFlight'
  BY <1>1, <1>types DEF OneInFlight, NextIndex, CapReached
<1>2. ASSUME NEW r, NEW s, NEW index, NEW mask, FrameRecorded(r, s, index, mask)
      PROVE  OneInFlight'
  <2>1. /\ r \in Requests /\ s \in Sessions
        /\ asset' = [asset EXCEPT ![s] = mask]
        /\ request'[r].pc # "segments" /\ \A q \in Requests : q # r => request'[q] = request[q]
    BY <1>2 DEF FrameRecorded, RecordLeaves
  <2>2. \A t \in Sessions : t # s => frames'[t] = frames[t] /\ asset'[t] = asset[t]
    BY <1>2, <1>types DEF FrameRecorded, RecordLeaves, TypeOK
  <2>3. ASSUME NEW q \in Requests, request'[q].pc = "segments"
        PROVE  /\ request'[q] = request[q] /\ request[q].pc = "segments"
               /\ request[q].session \in Sessions
               /\ request[q].session \in Patient => request[q].session # s
    <3>1. q # r
      BY <2>1, <2>3
    <3>2. request'[q] = request[q] /\ request[q].pc = "segments"
      BY <2>1, <2>3, <3>1
    <3> QED
      BY <1>2, <1>types, <3>1, <3>2 DEF FrameRecorded, OneInFlight
  <2>4. ASSUME NEW q \in Requests, request'[q].pc = "segments", request'[q].session \in Patient
        PROVE  /\ request'[q].index = Len(frames'[request'[q].session])
               /\ ~(Len(frames'[request'[q].session]) >= MaxFrames)
               /\ request'[q].prior = asset'[request'[q].session]
    <3> DEFINE t == request[q].session
    <3>1. /\ request'[q] = request[q] /\ request[q].pc = "segments" /\ t \in Sessions
          /\ t \in Patient /\ t # s
      BY <2>3, <2>4
    <3>2. request[q].index = NextIndex(t) /\ ~CapReached(t) /\ request[q].prior = asset[t]
      BY <1>types, <3>1 DEF OneInFlight
    <3>3. frames'[t] = frames[t] /\ asset'[t] = asset[t]
      BY <2>2, <3>1
    <3> HIDE DEF t
    <3>4. /\ request[q].index = Len(frames'[t]) /\ ~(Len(frames'[t]) >= MaxFrames)
          /\ request[q].prior = asset'[t]
      BY <3>2, <3>3 DEF NextIndex, CapReached
    <3> QED
      BY <3>1, <3>4 DEF t
  <2>5. \A p, q \in Requests :
          /\ request'[p].pc = "segments" /\ request'[q].pc = "segments"
          /\ request'[p].session = request'[q].session /\ request'[q].session \in Patient
          => p = q
    BY <1>types, <2>3 DEF OneInFlight
  <2>6. \A q \in Requests : request'[q].pc = "segments" => request'[q].session \in Sessions
    BY <2>3
  <2> QED
    BY <2>4, <2>5, <2>6 DEF OneInFlight, NextIndex, CapReached
<1>3. ASSUME NEW r \in Requests, NEW s \in Sessions, FrameSegments(r, s) PROVE OneInFlight'
  <2> DEFINE new == [pc |-> "segments", session |-> s,
                     index |-> NextIndex(s), prior |-> asset[s]]
  <2>1. /\ request' = [request EXCEPT ![r] = new] /\ UNCHANGED <<frames, asset>>
        /\ ~CapReached(s)
    BY <1>3 DEF FrameSegments, frameVars
  <2>2. s \in Patient => \A q \in Requests : ~(request[q].pc = "segments" /\ request[q].session = s)
    BY <1>3 DEF FrameSegments, InFlight
  <2>3. request'[r] = new /\ \A q \in Requests : q # r => request'[q] = request[q]
    BY <1>types, <2>1 DEF TypeOK
  <2>4. /\ new.pc = "segments" /\ new.session = s /\ new.index = NextIndex(s)
        /\ new.prior = asset[s]
    OBVIOUS
  <2> HIDE DEF new
  <2>5. \A q \in Requests : request'[q].pc = "segments" => request'[q].session \in Sessions
    BY <1>types, <2>3, <2>4 DEF OneInFlight
  <2>6. \A p, q \in Requests :
          /\ request'[p].pc = "segments" /\ request'[q].pc = "segments"
          /\ request'[p].session = request'[q].session /\ request'[q].session \in Patient
          => p = q
    BY <1>types, <2>2, <2>3, <2>4 DEF OneInFlight
  <2>7. ASSUME NEW q \in Requests, request'[q].pc = "segments", request'[q].session \in Patient
        PROVE  /\ request'[q].index = Len(frames[request'[q].session])
               /\ ~(Len(frames[request'[q].session]) >= MaxFrames)
               /\ request'[q].prior = asset[request'[q].session]
    BY <1>types, <2>1, <2>3, <2>4, <2>7 DEF OneInFlight, NextIndex, CapReached
  <2> QED
    BY <2>1, <2>5, <2>6, <2>7 DEF OneInFlight, NextIndex, CapReached
<1>4. ASSUME NEW s \in Sessions,
             StartSession(s) \/ LockSession(s) \/ FinishSession(s) \/ SessionAges(s)
      PROVE  OneInFlight'
  BY <1>1, <1>4 DEF StartSession, LockSession, FinishSession, SessionAges, frameVars
<1>5. ASSUME Replay \/ UNCHANGED vars PROVE OneInFlight'
  BY <1>1, <1>5 DEF Replay, vars, frameVars
<1>6. ASSUME NEW r \in Requests, NEW s \in Sessions, FrameRefused(r, s) PROVE OneInFlight'
  <2>1. \A q \in Requests : request'[q].pc = "segments" => request'[q] = request[q]
    BY <1>6, <1>types DEF FrameRefused, TypeOK
  <2> QED
    BY <1>1, <1>6, <2>1 DEF FrameRefused, frameVars
<1>7. ASSUME NEW r \in Requests, SegmentationFails(r) PROVE OneInFlight'
  <2>1. \A q \in Requests : request'[q].pc = "segments" => request'[q] = request[q]
    BY <1>7, <1>types DEF SegmentationFails, TypeOK
  <2> QED
    BY <1>1, <1>7, <2>1 DEF SegmentationFails, frameVars
<1>8. ASSUME NEW r \in Requests, NEW s \in Sessions, FrameReuses(r, s) PROVE OneInFlight'
  BY <1>2, <1>8, CompletedIsRecorded
<1>9. ASSUME NEW r \in Requests, SegmentationEnds(r) PROVE OneInFlight'
  <2>1. request[r].session \in Sessions
    BY <1>9, <1>types DEF OneInFlight, SegmentationEnds
  <2> QED
    BY <1>2, <1>9, <2>1, CompletedIsRecorded
<1> QED
  BY <1>3, <1>4, <1>5, <1>6, <1>7, <1>8, <1>9 DEF Next

\* A step keeps the frames of a client that waits within the cap, numbered from 0, and
\* about one asset.
LEMMA FramesStep ==
  ASSUME Invariant, [Next]_vars
  PROVE  FramesCappedInOrder' /\ OneAssetPerSession'
<1>types. TypeOK /\ FramesCappedInOrder /\ OneAssetPerSession /\ Patient \subseteq Sessions
  BY BoundsAssumption DEF Invariant
<1>1. ASSUME UNCHANGED frameVars PROVE FramesCappedInOrder' /\ OneAssetPerSession'
  BY <1>1, <1>types DEF frameVars, FramesCappedInOrder, OneAssetPerSession
<1>2. ASSUME NEW r, NEW s, NEW index, NEW mask, FrameRecorded(r, s, index, mask)
      PROVE  FramesCappedInOrder' /\ OneAssetPerSession'
  <2> DEFINE new == [id |-> index, mask |-> mask]
             old == frames[s]
  <2>1. /\ s \in Sessions /\ index \in Nat /\ mask \in Requests
        /\ asset' = [asset EXCEPT ![s] = mask]
        /\ UNCHANGED frames \/ frames' = [frames EXCEPT ![s] = Append(old, new)]
    BY <1>2 DEF FrameRecorded, RecordLeaves
  <2>2. /\ \A t \in Sessions : t # s => frames'[t] = frames[t] /\ asset'[t] = asset[t]
        /\ asset'[s] = mask /\ frames'[s] \in {old, Append(old, new)}
    BY <1>types, <2>1 DEF TypeOK
  <2>3. new \in [id : Nat, mask : Requests] /\ old \in Seq([id : Nat, mask : Requests])
    BY <1>types, <2>1 DEF TypeOK
  <2>4. /\ Len(old) \in Nat /\ DOMAIN old = 1..Len(old)
        /\ Len(Append(old, new)) = Len(old) + 1
        /\ DOMAIN Append(old, new) = 1..(Len(old) + 1)
        /\ \A i \in 1..Len(old) : Append(old, new)[i] = old[i]
        /\ Append(old, new)[Len(old) + 1] = new
    BY <2>3, AppendAdds
  <2>5. new.id = index /\ new.mask = mask
    OBVIOUS
  <2>6. ASSUME s \in Patient
        PROVE  /\ Len(old) <= MaxFrames /\ Len(old) + 1 <= MaxFrames /\ index = Len(old)
               /\ asset[s] \in {mask, None}
               /\ \A i \in 1..Len(old) : old[i].id = i - 1 /\ old[i].mask = asset[s]
    <3>1. index = Len(old) /\ ~(Len(old) >= MaxFrames) /\ asset[s] \in {mask, None}
      BY <1>2, <2>6 DEF FrameRecorded, NextIndex, CapReached
    <3>2. \A i \in 1..Len(old) : old[i].id = i - 1 /\ old[i].mask = asset[s]
      BY <1>types, <2>4, <2>6 DEF FramesCappedInOrder, OneAssetPerSession
    <3> QED
      BY <2>4, <3>1, <3>2, BoundsAssumption
  <2>7. ASSUME s \in Patient, NEW i \in 1..Len(old) PROVE asset[s] = mask
    <3>1. old[i] \in [id : Nat, mask : Requests]
      BY <2>3, <2>7, ElementOfSeq
    <3> QED
      BY <2>6, <2>7, <3>1, NamesAssumption
  <2> HIDE DEF new
  <2>8. ASSUME s \in Patient
        PROVE  /\ Len(frames'[s]) <= MaxFrames
               /\ \A i \in DOMAIN frames'[s] : frames'[s][i].id = i - 1 /\ frames'[s][i].mask = mask
    <3>1. CASE frames'[s] = old
      BY <2>4, <2>6, <2>7, <2>8, <3>1
    <3>2. CASE frames'[s] = Append(old, new)
      <4> DEFINE q == Append(old, new)
      <4>1. Len(q) <= MaxFrames
        BY <2>4, <2>6, <2>8
      <4>2. ASSUME NEW i \in DOMAIN q PROVE q[i].id = i - 1 /\ q[i].mask = mask
        <5>1. CASE i = Len(old) + 1
          BY <2>4, <2>5, <2>6, <2>8, <5>1
        <5>2. CASE i # Len(old) + 1
          <6>1. i \in 1..Len(old)
            BY <2>4, <4>2, <5>2
          <6> QED
            BY <2>4, <2>6, <2>7, <2>8, <6>1
        <5> QED
          BY <5>1, <5>2
      <4> QED
        BY <3>2, <4>1, <4>2
    <3> QED
      BY <2>2, <3>1, <3>2
  <2>9. ASSUME NEW t \in Patient, t # s
        PROVE  /\ Len(frames'[t]) <= MaxFrames
               /\ \A i \in DOMAIN frames'[t] :
                    frames'[t][i].id = i - 1 /\ frames'[t][i].mask = asset'[t]
    BY <1>types, <2>2, <2>9 DEF FramesCappedInOrder, OneAssetPerSession
  <2>10. \A t \in Patient :
           /\ Len(frames'[t]) <= MaxFrames
           /\ \A i \in DOMAIN frames'[t] :
                frames'[t][i].id = i - 1 /\ frames'[t][i].mask = asset'[t]
    BY <2>2, <2>8, <2>9
  <2> QED
    BY <2>10 DEF FramesCappedInOrder, OneAssetPerSession
<1> QED
  BY <1>1, <1>2, FramesAreRecorded

(***************************************************************************)
(* The plan.                                                               *)
(***************************************************************************)
\* The pinches are among finitely many gestures.
LEMMA PinchesAreFinite ==
  ASSUME NEW S, NEW g \in Seq(S)
  PROVE  IsFiniteSet(Pinches(g)) /\ Cardinality(Pinches(g)) \in Nat
<1>1. Len(g) \in Nat /\ Pinches(g) \subseteq 1..Len(g)
  BY DEF Pinches
<1>2. IsFiniteSet(1..Len(g))
  BY <1>1, FS_Interval
<1> QED
  BY <1>1, <1>2, FS_Subset, FS_CardinalityType

\* One more gesture about the same task adds a pinch if it begins one; the first one
\* about another task is the only one that counts.
LEMMA PinchesOfMore ==
  ASSUME NEW g \in Seq([key : PlanKeys, active : BOOLEAN]),
         NEW e \in [key : PlanKeys, active : BOOLEAN]
  PROVE  LET n == Len(g)
             more == IF e.active THEN {n + 1} ELSE {}
         IN  /\ g = << >> \/ g[n].key # e.key => Pinches(Append(g, e)) = more
             /\ g # << >> /\ g[n].key = e.key =>
                  Pinches(Append(g, e)) = Pinches(g) \cup (IF g[n].active THEN {} ELSE more)
<1> DEFINE n == Len(g)
           h == Append(g, e)
           more == IF e.active THEN {n + 1} ELSE {}
<1>1. /\ n \in Nat /\ Len(h) = n + 1 /\ h[n + 1] = e /\ \A i \in 1..n : h[i] = g[i]
      /\ n > 0 <=> g # << >>
  BY AppendAdds
<1> HIDE DEF n, h
<1>2. SameTask(h, n + 1)
  BY <1>1 DEF SameTask
<1>3. ASSUME NEW i \in 1..n, g[n].key # e.key PROVE ~SameTask(h, i)
  <2>1. n \in i..(n + 1) /\ h[n] = g[n]
    BY <1>1
  <2> QED
    BY <1>1, <1>3, <2>1 DEF SameTask
<1>4. ASSUME NEW i \in 1..n, g[n].key = e.key PROVE SameTask(h, i) <=> SameTask(g, i)
  <2>1. ASSUME SameTask(g, i) PROVE SameTask(h, i)
    <3>1. ASSUME NEW k \in i..(n + 1) PROVE h[k].key = e.key
      <4>1. CASE k = n + 1
        BY <1>1, <4>1
      <4>2. CASE k # n + 1
        <5>1. k \in i..n /\ k \in 1..n
          BY <1>1, <3>1, <4>2
        <5> QED
          BY <1>1, <1>4, <2>1, <5>1 DEF SameTask, n
      <4> QED
        BY <4>1, <4>2
    <3> QED
      BY <1>1, <3>1 DEF SameTask
  <2>2. ASSUME SameTask(h, i) PROVE SameTask(g, i)
    <3>1. ASSUME NEW k \in i..n PROVE g[k].key = g[n].key
      <4>1. k \in i..(n + 1) /\ k \in 1..n
        BY <1>1, <3>1
      <4>2. h[k].key = e.key /\ h[k] = g[k]
        BY <1>1, <2>2, <4>1 DEF SameTask
      <4> QED
        BY <1>4, <4>2
    <3> QED
      BY <3>1 DEF SameTask, n
  <2> QED
    BY <2>1, <2>2
<1>5. CASE g = << >> \/ g[n].key # e.key
  <2>1. \A i \in 1..n : ~SameTask(h, i)
    BY <1>1, <1>3, <1>5
  <2>2. Begins(h, n + 1) <=> e.active
    <3>1. n + 1 > 1 => n \in 1..n /\ (n + 1) - 1 = n
      BY <1>1
    <3>2. n + 1 > 1 => ~SameTask(h, (n + 1) - 1)
      BY <2>1, <3>1
    <3> QED
      BY <1>1, <3>2 DEF Begins
  <2>3. Pinches(h) = more
    <3>1. \A i \in 1..(n + 1) : i \in 1..n \/ i = n + 1
      BY <1>1
    <3>2. n + 1 \in 1..(n + 1)
      BY <1>1
    <3> QED
      BY <1>1, <1>2, <2>1, <2>2, <3>1, <3>2 DEF Pinches
  <2> QED
    BY <1>1, <1>5, <2>3 DEF n, h
<1>6. CASE g # << >> /\ g[n].key = e.key
  <2>1. n \in 1..n /\ n + 1 > 1 /\ (n + 1) - 1 = n /\ h[n] = g[n]
    BY <1>1, <1>6
  <2>2. SameTask(h, n)
    <3>1. SameTask(g, n)
      BY <1>1 DEF SameTask, n
    <3> QED
      BY <1>4, <1>6, <2>1, <3>1
  <2>3. Begins(h, n + 1) <=> e.active /\ ~g[n].active
    BY <1>1, <2>1, <2>2 DEF Begins
  <2>4. ASSUME NEW i \in 1..n PROVE Begins(h, i) <=> Begins(g, i)
    <3>1. h[i] = g[i]
      BY <1>1
    <3>2. i > 1 => /\ i - 1 \in 1..n /\ h[i - 1] = g[i - 1]
                   /\ SameTask(h, i - 1) <=> SameTask(g, i - 1)
      BY <1>1, <1>4, <1>6
    <3> QED
      BY <3>1, <3>2 DEF Begins
  <2>5. Pinches(g) = {i \in 1..n : SameTask(g, i) /\ Begins(g, i)}
    BY DEF Pinches, n
  <2>6. Pinches(h) = {i \in 1..(n + 1) : SameTask(h, i) /\ Begins(h, i)}
    BY <1>1 DEF Pinches
  <2>7. \A i \in 1..n : i \in Pinches(h) <=> i \in Pinches(g)
    <3>1. \A i \in 1..n : i \in 1..(n + 1)
      BY <1>1
    <3> QED
      BY <1>4, <1>6, <2>4, <2>5, <2>6, <3>1
  <2>8. n + 1 \in Pinches(h) <=> e.active /\ ~g[n].active
    <3>1. n + 1 \in 1..(n + 1)
      BY <1>1
    <3> QED
      BY <1>2, <2>3, <2>6, <3>1
  <2>9. \A i \in Pinches(h) : i \in 1..n \/ i = n + 1
    BY <1>1, <2>6
  <2>10. \A i \in Pinches(g) : i \in 1..n
    BY <2>5
  <2>11. Pinches(h) = Pinches(g) \cup (IF g[n].active THEN {} ELSE more)
    BY <2>7, <2>8, <2>9, <2>10
  <2> QED
    BY <1>6, <2>11 DEF n, h
<1> QED
  BY <1>5, <1>6 DEF n, h

\* One more gesture moves the plan as it adds to the pinches.
LEMMA GestureMovesPlan ==
  ASSUME NEW g \in Seq([key : PlanKeys, active : BOOLEAN]),
         NEW p \in [key : PlanKeys \cup {None}, index : 0..(Steps - 1), pinch : BOOLEAN],
         NEW e \in [key : PlanKeys, active : BOOLEAN],
         g = << >> => p = NoPlan,
         g # << >> => /\ p.key = g[Len(g)].key /\ p.pinch = g[Len(g)].active
                      /\ p.index = Least(Cardinality(Pinches(g)), StepsOf(g[Len(g)].key) - 1)
  PROVE  Advance(p, e.key, e.active).index =
           Least(Cardinality(Pinches(Append(g, e))), StepsOf(e.key) - 1)
<1> DEFINE key == e.key
           active == e.active
           n == Len(g)
           more == IF active THEN {n + 1} ELSE {}
           count == Cardinality(Pinches(g))
           top == StepsOf(key) - 1
           q == PlanFor(p, key)
<1>1. key \in PlanKeys /\ active \in BOOLEAN /\ n \in Nat
  OBVIOUS
<1>2. /\ Advance(p, key, active).index =
           IF key # "ask" /\ active /\ ~q.pinch THEN Least(q.index + 1, top) ELSE q.index
  BY <1>1, AdvanceGives
<1>3. top \in Nat /\ (key = "ask" => top = 0)
  BY <1>1, StepsAreCounted
<1>4. count \in Nat /\ IsFiniteSet(Pinches(g))
  BY PinchesAreFinite
<1>5. Cardinality(more) = IF active THEN 1 ELSE 0
  BY FS_EmptySet, FS_Singleton
<1>6. CASE g = << >> \/ g[n].key # key
  <2>1. Pinches(Append(g, e)) = more
    BY <1>1, <1>6, PinchesOfMore
  <2>2. q = [key |-> key, index |-> 0, pinch |-> FALSE]
    <3>1. p.key # key
      BY <1>1, <1>6, NoKeyAssumption DEF NoPlan
    <3> QED
      BY <3>1 DEF PlanFor
  <2>3. q.index = 0 /\ q.pinch = FALSE
    BY <2>2
  <2> HIDE DEF key, active, more, top, q
  <2>4. Advance(p, key, active).index = Least(Cardinality(Pinches(Append(g, e))), top)
    BY <1>2, <1>3, <1>5, <2>1, <2>3 DEF Least
  <2> QED
    BY <2>4 DEF key, active, top
<1>7. CASE g # << >> /\ g[n].key = key
  <2>1. Pinches(Append(g, e)) = Pinches(g) \cup (IF g[n].active THEN {} ELSE more)
    BY <1>1, <1>7, PinchesOfMore
  <2>2. q = p /\ p.index = Least(count, top) /\ p.pinch = g[n].active
    BY <1>7 DEF PlanFor
  <2>3. n + 1 \notin Pinches(g)
    BY <1>1 DEF Pinches
  <2>4. Cardinality(Pinches(g) \cup {n + 1}) = count + 1
    BY <1>4, <2>3, FS_AddElement
  <2>5. CASE active /\ ~p.pinch
    <3>1. Pinches(Append(g, e)) = Pinches(g) \cup {n + 1}
      BY <2>1, <2>2, <2>5
    <3> HIDE DEF key, active, top, q, count
    <3>2. Advance(p, key, active).index = Least(Cardinality(Pinches(Append(g, e))), top)
      BY <1>2, <1>3, <1>4, <2>2, <2>4, <2>5, <3>1 DEF Least
    <3> QED
      BY <3>2 DEF key, active, top
  <2>6. CASE ~(active /\ ~p.pinch)
    <3>1. Pinches(Append(g, e)) = Pinches(g)
      BY <2>1, <2>2, <2>6
    <3> HIDE DEF key, active, top, q, count
    <3>2. Advance(p, key, active).index = Least(Cardinality(Pinches(Append(g, e))), top)
      BY <1>2, <2>2, <2>6, <3>1 DEF count
    <3> QED
      BY <3>2 DEF key, active, top
  <2> QED
    BY <2>5, <2>6
<1> QED
  BY <1>6, <1>7

\* A step keeps the plan and the gestures in agreement.
LEMMA PlanStep ==
  ASSUME Invariant, [Next]_vars
  PROVE  PlanRemembers' /\ PlanFollowsGestures'
<1>types. TypeOK /\ PlanRemembers /\ PlanFollowsGestures
  BY DEF Invariant
<1>1. ASSUME UNCHANGED <<plan, gestures>> PROVE PlanRemembers' /\ PlanFollowsGestures'
  BY <1>1, <1>types DEF PlanRemembers, PlanFollowsGestures
<1>2. ASSUME NEW r, NEW s, NEW index, NEW mask, FrameRecorded(r, s, index, mask),
             NEW key \in PlanKeys, NEW active \in BOOLEAN,
             plan' = [plan EXCEPT ![s] = Advance(plan[s], key, active)],
             gestures' = [gestures EXCEPT
                            ![s] = Append(gestures[s], [key |-> key, active |-> active])]
      PROVE  PlanRemembers' /\ PlanFollowsGestures'
  <2> DEFINE g == gestures[s]
             p == plan[s]
             e == [key |-> key, active |-> active]
             h == Append(g, e)
             a == Advance(p, key, active)
  <2>1. s \in Sessions
    BY <1>2 DEF FrameRecorded
  <2>2. /\ g \in Seq([key : PlanKeys, active : BOOLEAN])
        /\ p \in [key : PlanKeys \cup {None}, index : 0..(Steps - 1), pinch : BOOLEAN]
        /\ e \in [key : PlanKeys, active : BOOLEAN] /\ e.key = key /\ e.active = active
    BY <1>types, <2>1 DEF TypeOK
  <2>3. /\ plan'[s] = a /\ gestures'[s] = h
        /\ \A t \in Sessions : t # s => plan'[t] = plan[t] /\ gestures'[t] = gestures[t]
    BY <1>2, <1>types, <2>1 DEF TypeOK
  <2>4. h # << >> /\ h[Len(h)] = e
    BY <2>2, AppendAdds
  <2>6. /\ g = << >> => p = NoPlan
        /\ g # << >> => p.key = g[Len(g)].key /\ p.pinch = g[Len(g)].active
    BY <1>types, <2>1 DEF PlanRemembers
  <2>7. g # << >> => p.index = Least(Cardinality(Pinches(g)), StepsOf(g[Len(g)].key) - 1)
    BY <1>types, <2>1 DEF PlanFollowsGestures
  <2> HIDE DEF g, p, e
  <2>5. a.key = key /\ a.pinch = active
    BY <2>2, AdvanceGives
  <2>8. Advance(p, e.key, e.active).index =
          Least(Cardinality(Pinches(Append(g, e))), StepsOf(e.key) - 1)
    BY <2>2, <2>6, <2>7, GestureMovesPlan
  <2> HIDE DEF h, a
  <2>9. PlanRemembers'
    BY <1>types, <2>2, <2>3, <2>4, <2>5 DEF PlanRemembers
  <2>10. PlanFollowsGestures'
    BY <1>types, <2>2, <2>3, <2>4, <2>8 DEF PlanFollowsGestures, a, h
  <2> QED
    BY <2>9, <2>10
<1>3. ASSUME NEW r, NEW s, NEW index, NEW mask, FrameRecorded(r, s, index, mask)
      PROVE  PlanRemembers' /\ PlanFollowsGestures'
  <2>1. \/ UNCHANGED <<plan, gestures>>
        \/ \E key \in PlanKeys, active \in BOOLEAN :
             /\ plan' = [plan EXCEPT ![s] = Advance(plan[s], key, active)]
             /\ gestures' = [gestures EXCEPT
                               ![s] = Append(gestures[s], [key |-> key, active |-> active])]
    BY <1>3 DEF FrameRecorded, RecordLeaves
  <2> QED
    BY <1>1, <1>2, <1>3, <2>1
<1>4. UNCHANGED frameVars => UNCHANGED <<plan, gestures>>
  BY DEF frameVars
<1> QED
  BY <1>1, <1>3, <1>4, FramesAreRecorded

(***************************************************************************)
(* Sessions.                                                               *)
(***************************************************************************)
\* A step keeps the sessions within the cap.
LEMMA SessionsStep ==
  ASSUME Invariant, [Next]_vars
  PROVE  SessionsCapped'
<1>types. TypeOK /\ SessionsCapped
  BY DEF Invariant
<1>max. MaxSessions \in Nat /\ MaxSessions >= 1
  BY BoundsAssumption
<1>clean. IsFiniteSet(Cleaned) /\ Cardinality(Cleaned) <= MaxSessions /\ Cardinality(Cleaned) \in Nat
  <2>1. Cleaned \subseteq live /\ IsFiniteSet(live)
    BY <1>types DEF Cleaned, SessionsCapped
  <2>2. IsFiniteSet(Cleaned) /\ Cardinality(Cleaned) <= Cardinality(live)
    BY <2>1, FS_Subset
  <2>3. Cardinality(Cleaned) \in Nat /\ Cardinality(live) \in Nat
    BY <2>1, <2>2, FS_CardinalityType
  <2> QED
    BY <1>types, <1>max, <2>2, <2>3 DEF SessionsCapped
<1>1. ASSUME UNCHANGED created, live' = live \/ live' = Cleaned PROVE SessionsCapped'
  BY <1>1, <1>types, <1>clean DEF SessionsCapped, Started
<1>2. ASSUME NEW s \in Sessions, StartSession(s) PROVE SessionsCapped'
  <2>1. Started' = Started \cup {s}
    <3>1. Cardinality(Started) \in Nat
      BY <1>types, FS_CardinalityType DEF SessionsCapped
    <3>2. created' = [created EXCEPT ![s] = Cardinality(Started) + 1]
      BY <1>2 DEF StartSession
    <3>3. \A t \in Sessions : created'[t] > 0 <=> created[t] > 0 \/ t = s
      BY <1>types, <3>1, <3>2 DEF TypeOK
    <3> QED
      BY <3>3 DEF Started
  <2>2. IsFiniteSet(Started')
    BY <1>types, <2>1, FS_AddElement DEF SessionsCapped
  <2>3. PICK left \in Evicted : live' = left \cup {s}
    BY <1>2 DEF StartSession
  <2>4. IsFiniteSet(left) /\ Cardinality(left) \in Nat /\ Cardinality(left) + 1 <= MaxSessions
    <3>1. CASE Cardinality(Cleaned) >= MaxSessions
      <4>1. PICK old \in Oldest : left = Cleaned \ {old}
        BY <2>3, <3>1 DEF Evicted
      <4>2. old \in Cleaned
        BY DEF Oldest
      <4>3. IsFiniteSet(left) /\ Cardinality(left) = Cardinality(Cleaned) - 1
        BY <1>clean, <4>1, <4>2, FS_RemoveElement
      <4>4. Cardinality(left) \in Nat
        BY <4>3, FS_CardinalityType
      <4> QED
        BY <1>clean, <1>max, <4>3, <4>4
    <3>2. CASE ~(Cardinality(Cleaned) >= MaxSessions)
      <4>1. left = Cleaned
        BY <2>3, <3>2 DEF Evicted
      <4> QED
        BY <1>clean, <1>max, <3>2, <4>1
    <3> QED
      BY <3>1, <3>2
  <2>5. IsFiniteSet(live') /\ Cardinality(live') <= Cardinality(left) + 1
    BY <2>3, <2>4, FS_AddElement
  <2>6. Cardinality(live') \in Nat
    BY <2>5, FS_CardinalityType
  <2> QED
    BY <1>max, <2>2, <2>4, <2>5, <2>6 DEF SessionsCapped
<1>3. ASSUME NEW s \in Sessions, LockSession(s) \/ FinishSession(s) \/ SessionAges(s)
      PROVE  SessionsCapped'
  BY <1>1, <1>3 DEF LockSession, FinishSession, SessionAges
<1>4. ASSUME NEW r \in Requests, NEW s \in Sessions,
             FrameRefused(r, s) \/ FrameSegments(r, s) \/ FrameReuses(r, s)
      PROVE  SessionsCapped'
  BY <1>1, <1>4 DEF FrameRefused, FrameSegments, FrameReuses
<1>5. ASSUME NEW r \in Requests, SegmentationEnds(r) \/ SegmentationFails(r)
      PROVE  SessionsCapped'
  BY <1>1, <1>5 DEF SegmentationEnds, SegmentationFails, sessionVars
<1>6. ASSUME Replay \/ UNCHANGED vars PROVE SessionsCapped'
  BY <1>1, <1>6 DEF Replay, vars
<1> QED
  BY <1>2, <1>3, <1>4, <1>5, <1>6 DEF Next

(***************************************************************************)
(* The session of a client that waits is a Recording.                      *)
(***************************************************************************)
\* Every step is a step or a stutter of the recording of each such session.
LEMMA RecordingStep ==
  ASSUME Invariant, [Next]_vars, NEW p \in Patient
  PROVE  [Tape(p)!RecordingNext]_(Tape(p)!recordingVars)
<1>types. TypeOK /\ p \in Sessions
  BY BoundsAssumption DEF Invariant
<1>1. ASSUME frames'[p] = frames[p], asset'[p] = asset[p]
      PROVE  [Tape(p)!RecordingNext]_(Tape(p)!recordingVars)
  BY <1>1 DEF Tape!recordingVars
<1>2. ASSUME NEW r, NEW s, NEW index, NEW mask, FrameRecorded(r, s, index, mask)
      PROVE  [Tape(p)!RecordingNext]_(Tape(p)!recordingVars)
  <2> DEFINE new == [id |-> index, mask |-> mask]
  <2>1. /\ s \in Sessions /\ mask \in Requests
        /\ asset' = [asset EXCEPT ![s] = mask]
        /\ UNCHANGED frames \/ frames' = [frames EXCEPT ![s] = Append(@, new)]
    BY <1>2 DEF FrameRecorded, RecordLeaves
  <2> HIDE DEF new
  <2>2. CASE s # p
    <3>1. frames'[p] = frames[p] /\ asset'[p] = asset[p]
      BY <1>types, <2>1, <2>2 DEF TypeOK
    <3> QED
      BY <1>1, <3>1
  <2>3. CASE s = p
    <3>1. asset'[p] = mask /\ frames'[p] \in {frames[p], Append(frames[p], new)}
      BY <1>types, <2>1, <2>3 DEF TypeOK
    <3>2. index = Len(frames[p]) /\ ~CapReached(p) /\ asset[p] \in {mask, None}
      BY <1>2, <2>3 DEF FrameRecorded, NextIndex
    <3>3. Tape(p)!Named
      BY <2>1, <3>1, <3>2 DEF Tape!Named
    <3>4. CASE frames'[p] = frames[p]
      <4>1. Tape(p)!NameOnly
        BY <3>3, <3>4 DEF Tape!NameOnly
      <4> QED
        BY <4>1 DEF Tape!RecordingNext
    <3>5. CASE frames'[p] = Append(frames[p], new)
      <4>1. Len(frames[p]) < MaxFrames
        <5>1. Len(frames[p]) \in Nat /\ MaxFrames \in Nat
          BY <1>types, BoundsAssumption DEF TypeOK
        <5> QED
          BY <3>2, <5>1 DEF CapReached
      <4>2. new = [id |-> Len(frames[p]), mask |-> asset'[p]]
        BY <3>1, <3>2 DEF new
      <4>3. Tape(p)!RecordFrame
        BY <3>3, <3>5, <4>1, <4>2 DEF Tape!RecordFrame
      <4> QED
        BY <4>3 DEF Tape!RecordingNext
    <3> QED
      BY <3>1, <3>4, <3>5
  <2> QED
    BY <2>2, <2>3
<1>3. ASSUME UNCHANGED frameVars PROVE [Tape(p)!RecordingNext]_(Tape(p)!recordingVars)
  BY <1>1, <1>3 DEF frameVars
<1> QED
  BY <1>2, <1>3, FramesAreRecorded

(***************************************************************************)
(* The theorems.                                                           *)
(***************************************************************************)
\* The inductive invariant holds in every reachable state.
THEOREM InvariantHolds == Spec => []Invariant
<1>1. Invariant /\ [Next]_vars => Invariant'
  BY TypeStep, InFlightStep, FramesStep, PlanStep, SessionsStep DEF Invariant
<1> QED
  BY InvariantInit, <1>1, PTL DEF Spec

\* The state is well typed, and never more sessions are kept than MAX_SESSIONS
\* (build_blueprint.py:100).
THEOREM TypeCorrect == Spec => [](TypeOK /\ SessionsCapped)
<1>1. Invariant => TypeOK /\ SessionsCapped
  BY DEF Invariant
<1> QED
  BY <1>1, InvariantHolds, PTL

\* A client that waits keeps within "per-session cap (240 frames)" (README.md:162-163),
\* and its default frame ids number the replay from 0.
THEOREM FramesCorrect == Spec => []FramesCappedInOrder
<1>1. Invariant => FramesCappedInOrder
  BY DEF Invariant
<1> QED
  BY <1>1, InvariantHolds, PTL

\* Every frame of such a client shows the object that the session is about
\* (build_blueprint.py:277).
THEOREM AssetCorrect == Spec => []OneAssetPerSession
<1>1. Invariant => OneAssetPerSession
  BY DEF Invariant
<1> QED
  BY <1>1, InvariantHolds, PTL

\* The plan index of a session counts the pinches of its task, up to the last step, in
\* the order in which frames complete (build_blueprint.py:932-953).
THEOREM PlanCorrect == Spec => []PlanFollowsGestures
<1>1. Invariant => PlanFollowsGestures
  BY DEF Invariant
<1> QED
  BY <1>1, InvariantHolds, PTL

\* What a client that waits has recorded only grows, in order, up to the cap, and
\* shows one object: its session implements the abstract recording.
THEOREM RecordingsImplemented == Spec => EveryWaitingClientRecords
<1>1. Init => \A s \in Patient : Tape(s)!RecordingInit
  BY BoundsAssumption DEF Init, Tape!RecordingInit
<1>2. Invariant /\ [Next]_vars
        => [\A s \in Patient : [Tape(s)!RecordingNext]_(Tape(s)!recordingVars)]_vars
  BY RecordingStep
<1> QED
  BY InvariantHolds, <1>1, <1>2, PTL DEF Spec, EveryWaitingClientRecords

=============================================================================
