----------------------------- MODULE DetectProofs -----------------------------
(***************************************************************************)
(* What the pipeline of /detect promises, for any sessions, frames, limits *)
(* and configurations.                                                     *)
(*                                                                         *)
(* The tracker: an id is never given to a second object while the session  *)
(* lives, and every store keeps its cap, through sweeps and evictions in   *)
(* the middle of a frame.  An id is new because it is at least the next    *)
(* one, and every id given out lies below (GivenBelowNext); the next one   *)
(* moves on by as many places as the frame has new tracks, because the     *)
(* places of the entities that got room are the first ones (NewbornPlaces).*)
(*                                                                         *)
(* The stores that name tracks: each entry was said of the tracks of one   *)
(* life of the tracker.  The entry and the tracker age alike, so as long   *)
(* as the entry is young the life has not ended (Current, Said), unless    *)
(* the session is marked as mixed; every step carries that over (Carried). *)
(* What a frame then shows is of the tracks it is shown on, when no entry  *)
(* may outlive an idle tracker (AnswersExpire, MemoriesExpire).  No alert  *)
(* is hidden, without any such condition.                                  *)
(*                                                                         *)
(* And the rules without state, for every input: the bands of a profile    *)
(* part the scores, one more object never lowers a frame's level, a        *)
(* request without the secret stays outside, and the EdgeCrafter models    *)
(* come out of failing loads whole, if not always of their own engine.     *)
(***************************************************************************)
EXTENDS DetectPipeline, Detectors, FiniteSetTheorems, TLAPS

LOCAL INSTANCE FiniteSetsExt
LOCAL INSTANCE SequencesExt

\* What the tracker keeps of a session: ids below the next one, and not too many tracks.
IsTracker(k) ==
  /\ k = [tracks |-> k.tracks, next |-> k.next, idle |-> k.idle]
  /\ k.next \in Nat \ {0}
  /\ k.idle \in 0..(SessionTTL + 1)
  /\ DOMAIN k.tracks \subseteq 1..(k.next - 1)
  /\ Cardinality(DOMAIN k.tracks) <= MaxTracks

\* The tracker's stores: a session has a tracker or none.
StoresMade ==
  /\ tracker = [s \in Sessions |-> tracker[s]]
  /\ life \in [Sessions -> Nat]
  /\ given = [s \in Sessions |-> given[s]]

\* Every id a session has given out in this life is below its next one.
GivenBelowNext ==
  \A s \in Sessions : tracker[s] # None =>
    IsTracker(tracker[s]) /\ given[s] \subseteq 1..(tracker[s].next - 1)

\* The tracker keeps its caps: the tracks of a session, and the sessions
\* (tracking.py:67-89, 146-160).
CapsKept ==
  /\ IsFiniteSet(Live(tracker)) /\ Cardinality(Live(tracker)) <= MaxActive
  /\ \A s \in Sessions : tracker[s] # None => Cardinality(DOMAIN tracker[s].tracks) <= MaxTracks

Invariant == StoresMade /\ GivenBelowNext /\ CapsKept

------------------------------------------------------------------------------
(* New tracks *)

\* What comes before one entity comes before every later one.
LEMMA BelowGrows ==
  ASSUME NEW fresh \in SUBSET Nat, NEW i \in fresh, NEW j \in fresh, j <= i
  PROVE  {l \in fresh : l <= j} \in SUBSET {l \in fresh : l <= i}
<1>1. ASSUME NEW l \in fresh, l <= j PROVE l <= i
  <2>1. i \in Nat /\ j \in Nat /\ l \in Nat
    OBVIOUS
  <2> QED
    BY <2>1, <1>1
<1> QED
  BY <1>1

\* The places of the entities that got room in a session are the first ones, and they end
\* where the session is full.
LEMMA NewbornPlaces ==
  ASSUME NEW fresh \in SUBSET Nat, NEW n \in Nat, \A i \in fresh : i <= n,
         NEW k, Cardinality(DOMAIN k.tracks) \in Nat
  PROVE  /\ Cardinality(Newborn(fresh, k)) \in Nat
         /\ \A i \in Newborn(fresh, k) : Place(fresh, i) \in 1..Cardinality(Newborn(fresh, k))
         /\ Cardinality(DOMAIN k.tracks) <= MaxTracks
              => Cardinality(DOMAIN k.tracks) + Cardinality(Newborn(fresh, k)) <= MaxTracks
<1> DEFINE below(i) == {j \in fresh : j <= i}
           newborn == Newborn(fresh, k)
           size == Cardinality(DOMAIN k.tracks)
<1>1. IsFiniteSet(fresh)
  BY FS_BoundedSetOfNaturals
<1>2. newborn \subseteq fresh /\ IsFiniteSet(newborn) /\ Cardinality(newborn) \in Nat
  <2>1. newborn \in SUBSET fresh
    BY DEF Newborn
  <2> QED
    BY <2>1, <1>1, FS_Subset, FS_CardinalityType
<1>3. ASSUME NEW i \in fresh
      PROVE  IsFiniteSet(below(i)) /\ Place(fresh, i) = Cardinality(below(i)) /\ Place(fresh, i) \in Nat
  <2>1. below(i) \in SUBSET fresh
    OBVIOUS
  <2>2. IsFiniteSet(below(i))
    BY <2>1, <1>1, FS_Subset
  <2> QED
    BY <2>2, FS_CardinalityType DEF Place
<1>4. ASSUME NEW i \in newborn PROVE below(i) \subseteq newborn
  <2>1. ASSUME NEW j \in below(i) PROVE j \in newborn
    <3> i \in fresh /\ j \in fresh
      BY <1>2
    <3> i \in Nat /\ j \in Nat /\ j <= i
      OBVIOUS
    <3>1. below(j) \in SUBSET below(i)
      BY BelowGrows
    <3>2. /\ Place(fresh, j) <= Place(fresh, i)
          /\ Place(fresh, j) \in Nat /\ Place(fresh, i) \in Nat
      <4>1. IsFiniteSet(below(i)) /\ Place(fresh, i) = Cardinality(below(i)) /\ Place(fresh, i) \in Nat
        BY <1>3
      <4>2. Place(fresh, j) = Cardinality(below(j)) /\ Place(fresh, j) \in Nat
        BY <1>3
      <4>3. Cardinality(below(j)) <= Cardinality(below(i))
        <5> HIDE DEF below
        <5> QED
          BY <3>1, <4>1, FS_Subset
      <4> QED
        BY <4>1, <4>2, <4>3
    <3>3. size + Place(fresh, i) <= MaxTracks
      BY DEF Newborn
    <3>4. size + Place(fresh, j) <= MaxTracks
      BY <3>2, <3>3, TrackerAssumption
    <3> QED
      BY <3>4 DEF Newborn
  <2> QED
    BY <2>1
<1>5. ASSUME NEW i \in newborn PROVE Place(fresh, i) \in 1..Cardinality(newborn)
  <2> i \in fresh
    BY <1>2
  <2> i \in Nat
    OBVIOUS
  <2>1. i \in fresh /\ i \in below(i)
    OBVIOUS
  <2>2. Cardinality({i}) = 1 /\ {i} \in SUBSET below(i)
    BY <2>1, FS_Singleton
  <2>3. 1 <= Cardinality(below(i))
    BY <2>1, <2>2, <1>3, FS_Subset
  <2>4. Cardinality(below(i)) <= Cardinality(newborn)
    <3>1. below(i) \in SUBSET newborn
      BY <1>4
    <3> QED
      BY <3>1, <1>2, FS_Subset
  <2> QED
    BY <2>1, <2>3, <2>4, <1>2, <1>3
<1>6. ASSUME NEW x \in newborn, NEW y \in newborn, Place(fresh, x) = Place(fresh, y), x < y
      PROVE  FALSE
  <2>1. x \in fresh /\ y \in fresh /\ x \in Nat /\ y \in Nat
    BY <1>2
  <2>2. below(x) \in SUBSET below(y)
    BY <2>1, <1>6, BelowGrows
  <2>3. Cardinality(below(x)) = Cardinality(below(y)) /\ IsFiniteSet(below(y))
    BY <2>1, <1>3, <1>6
  <2>4. below(x) = below(y)
    BY <2>2, <2>3, FS_Subset
  <2> QED
    BY <2>1, <2>4, <1>6
<1>7. ASSUME size <= MaxTracks PROVE size + Cardinality(newborn) <= MaxTracks
  <2> DEFINE places == [i \in newborn |-> Place(fresh, i)]
             room == MaxTracks - size
  <2>1. room \in Nat /\ IsFiniteSet(1..room) /\ Cardinality(1..room) = room
    <3>1. room \in Nat
      BY <1>7, TrackerAssumption
    <3>2. 1 \in Int /\ room \in Int
      BY <3>1
    <3>3. IsFiniteSet(1..room) /\ Cardinality(1..room) = IF 1 > room THEN 0 ELSE room - 1 + 1
      <4> HIDE DEF room
      <4> QED
        BY <3>2, FS_Interval
    <3> QED
      BY <3>1, <3>3
  <2>2. ASSUME NEW i \in newborn PROVE Place(fresh, i) \in 1..room
    <3>1. i \in fresh /\ Place(fresh, i) \in Nat /\ 1 <= Place(fresh, i)
      BY <1>2, <1>3, <1>5
    <3>2. size + Place(fresh, i) <= MaxTracks
      BY DEF Newborn
    <3> QED
      BY <3>1, <3>2, <2>1, TrackerAssumption
  <2>3. places \in [newborn -> 1..room]
    BY <2>2
  <2>4. SUFFICES ASSUME room < Cardinality(newborn) PROVE FALSE
    BY <2>1, <1>2, TrackerAssumption
  <2>5. PICK x \in newborn, y \in newborn : x # y /\ places[x] = places[y]
    <3> HIDE DEF places, room, newborn
    <3> QED
      BY <2>1, <2>3, <2>4, <1>2, FS_PigeonHole
  <2>6. Place(fresh, x) = Place(fresh, y)
    BY <2>5
  <2>7. x \in Nat /\ y \in Nat /\ (x < y \/ y < x)
    BY <2>5, <1>2
  <2> QED
    BY <2>6, <2>7, <1>6
<1> QED
  BY <1>2, <1>5, <1>7
------------------------------------------------------------------------------
(* A frame in one session *)

Entities == [class : STRING, box : [x : Int, y : Int, w : Int, h : Int], low : BOOLEAN]

\* The candidate pairs are of tracks the session has.
LEMMA CandidatesAreTracks ==
  ASSUME NEW E, NEW tracks, NEW c \in Candidates(E, tracks)
  PROVE  c.t \in DOMAIN tracks
<1>1. PICK p \in (DOMAIN E) \X (DOMAIN tracks) : c = Pair(E, tracks, p[1], p[2])
  BY DEF Candidates
<1>2. c.t = p[2]
  BY <1>1 DEF Pair
<1> QED
  BY <1>2

\* The tracker matches candidates only.
LEMMA MatchIsOfCandidates ==
  ASSUME NEW candidates
  PROVE  Match(candidates) \subseteq candidates
BY DEF Match

\* A frame leaves a session as a tracker keeps it: its tracks are earlier ones or bear ids
\* from the next one on, below the new next one, and they are not too many.
LEMMA FrameTracked ==
  ASSUME NEW E \in Seq(Entities), NEW k, IsTracker(k),
         NEW matched, matched \subseteq Candidates(E, k.tracks)
  PROVE  LET l == Tracked(E, k, matched, Assigned(E, k, matched))
         IN /\ IsTracker(l)
            /\ k.next <= l.next
            /\ DOMAIN l.tracks \subseteq DOMAIN k.tracks \cup k.next..(l.next - 1)
<1> DEFINE old == DOMAIN k.tracks
           fresh == Fresh(E, matched)
           new == Cardinality(Newborn(fresh, k))
           of == Assigned(E, k, matched)
           l == Tracked(E, k, matched, of)
           ids == k.next..(k.next + new - 1)
<1>1. k.next \in Nat \ {0} /\ old \subseteq 1..(k.next - 1) /\ Cardinality(old) <= MaxTracks
  BY DEF IsTracker
<1>2. IsFiniteSet(old) /\ Cardinality(old) \in Nat
  <2>1. IsFiniteSet(1..(k.next - 1))
    <3>1. 1 \in Int /\ k.next - 1 \in Int
      BY <1>1
    <3> QED
      BY <3>1, FS_Interval
  <2>2. old \in SUBSET (1..(k.next - 1))
    BY <1>1
  <2> HIDE DEF old
  <2> QED
    BY <2>1, <2>2, FS_Subset, FS_CardinalityType
<1>3. fresh \in SUBSET Nat /\ Len(E) \in Nat /\ \A i \in fresh : i <= Len(E)
  <2>1. DOMAIN E = 1..Len(E) /\ Len(E) \in Nat
    OBVIOUS
  <2>2. fresh \subseteq 1..Len(E)
    BY <2>1 DEF Fresh
  <2> QED
    BY <2>1, <2>2
<1>4. /\ new \in Nat
      /\ \A i \in Newborn(fresh, k) : Place(fresh, i) \in 1..new
      /\ Cardinality(old) + new <= MaxTracks
  <2> HIDE DEF fresh
  <2> QED
    BY <1>1, <1>2, <1>3, NewbornPlaces
<1>5. ASSUME NEW c \in of PROVE c.t \in old \cup ids
  <2>1. CASE \E d \in matched : c = [e |-> d.e, t |-> d.t]
    BY <2>1, CandidatesAreTracks
  <2>2. CASE \E i \in Newborn(fresh, k) : c = [e |-> i, t |-> k.next + Place(fresh, i) - 1]
    <3>1. PICK i \in Newborn(fresh, k) : c = [e |-> i, t |-> k.next + Place(fresh, i) - 1]
      BY <2>2
    <3>2. Place(fresh, i) \in 1..new
      BY <1>4
    <3>3. c.t = k.next + Place(fresh, i) - 1
      BY <3>1
    <3> QED
      BY <3>2, <3>3, <1>1, <1>4
  <2> QED
    BY <2>1, <2>2 DEF Assigned
<1>6. l.next = k.next + new /\ DOMAIN l.tracks \subseteq old \cup ids
  <2>1. l.next = k.next + new
    BY DEF Tracked
  <2>2. DOMAIN l.tracks = {c.t : c \in of} \cup
          {t \in old \ {c.t : c \in of} : k.tracks[t].missed < MaxMissed}
    BY DEF Tracked
  <2>3. {c.t : c \in of} \subseteq old \cup ids
    <3> HIDE DEF of, ids, old
    <3> QED
      BY <1>5
  <2> QED
    BY <2>1, <2>2, <2>3
<1>7. l = [tracks |-> l.tracks, next |-> l.next, idle |-> l.idle] /\ l.idle \in 0..(SessionTTL + 1)
  <2>1. l = [tracks |-> l.tracks, next |-> l.next, idle |-> l.idle] /\ l.idle = 0
    BY DEF Tracked
  <2>2. 0 \in 0..(SessionTTL + 1)
    BY TrackerAssumption
  <2> HIDE DEF l
  <2> QED
    BY <2>1, <2>2
<1>8. Cardinality(DOMAIN l.tracks) <= MaxTracks
  <2>1. IsFiniteSet(ids) /\ Cardinality(ids) = new
    <3> DEFINE last == k.next + new - 1
    <3>1. k.next \in Int /\ last \in Int
      BY <1>1, <1>4
    <3>2. /\ IsFiniteSet(k.next..last)
          /\ Cardinality(k.next..last) = IF k.next > last THEN 0 ELSE last - k.next + 1
      <4> HIDE DEF last
      <4> QED
        BY <3>1, FS_Interval
    <3> QED
      BY <3>2, <1>1, <1>4
  <2>2. /\ IsFiniteSet(old \cup ids)
        /\ Cardinality(old \cup ids) = Cardinality(old) + Cardinality(ids) - Cardinality(old \cap ids)
    BY <2>1, <1>2, FS_Union
  <2>3. Cardinality(old \cap ids) \in Nat
    <3>1. old \cap ids \in SUBSET old
      OBVIOUS
    <3> HIDE DEF old, ids
    <3> QED
      BY <3>1, <1>2, FS_Subset, FS_CardinalityType
  <2>4. /\ Cardinality(DOMAIN l.tracks) <= Cardinality(old \cup ids)
        /\ Cardinality(DOMAIN l.tracks) \in Nat
    <3>1. DOMAIN l.tracks \in SUBSET (old \cup ids)
      BY <1>6
    <3> HIDE DEF l, old, ids
    <3> QED
      BY <3>1, <2>2, FS_Subset, FS_CardinalityType
  <2> HIDE DEF l, old, ids, new
  <2> QED
    BY <2>1, <2>2, <2>3, <2>4, <1>2, <1>4, TrackerAssumption
<1>9. DOMAIN l.tracks \subseteq 1..(l.next - 1)
  <2> HIDE DEF l, old, new
  <2> QED
    BY <1>1, <1>4, <1>6
<1>10. l.next \in Nat \ {0} /\ k.next <= l.next /\ ids = k.next..(l.next - 1)
  <2> HIDE DEF l, new
  <2> QED
    BY <1>1, <1>4, <1>6
<1> QED
  <2> HIDE DEF l, old, new, ids
  <2>1. IsTracker(l)
    BY <1>7, <1>8, <1>9, <1>10 DEF IsTracker
  <2> QED
    BY <2>1, <1>6, <1>10 DEF l, old
------------------------------------------------------------------------------
(* A frame in the store *)

\* What IdsNeverReused says of one step.
NewIdsOnly ==
  \A s \in Sessions :
    tracker[s] # None /\ tracker'[s] # None /\ life'[s] = life[s] =>
      DOMAIN tracker'[s].tracks \cap given[s] \subseteq DOMAIN tracker[s].tracks

\* A frame finds the tracker the session has, or a new one at the start of a life.
LEMMA KnownTracker ==
  ASSUME Invariant, NEW s \in Sessions
  PROVE  /\ IsTracker(Known(s))
         /\ LifeOf(s) \in Nat
         /\ LifeOf(s) = life[s] => tracker[s] # None /\ Known(s) = tracker[s]
<1> DEFINE swept == SweptStore(tracker, SessionTTL)
<1>1. DOMAIN tracker = Sessions
  BY DEF Invariant, StoresMade
<1>2. swept[s] # None => swept[s] = tracker[s]
  BY <1>1 DEF SweptStore
<1>3. life[s] \in Nat
  BY DEF Invariant, StoresMade
<1>4. CASE swept[s] = None
  <2>1. Known(s) = NewTracker /\ LifeOf(s) = life[s] + 1
    BY <1>4 DEF Known, Begun, LifeOf
  <2>2. IsTracker(NewTracker)
    <3>1. DOMAIN NewTracker.tracks = {}
      BY DEF NewTracker
    <3>2. Cardinality({}) = 0
      BY FS_EmptySet
    <3>3. 0 <= MaxTracks
      BY TrackerAssumption
    <3>4. NewTracker.next = 1 /\ NewTracker.idle = 0 /\ 0 \in 0..(SessionTTL + 1)
      BY TrackerAssumption DEF NewTracker
    <3>5. NewTracker = [tracks |-> NewTracker.tracks, next |-> NewTracker.next, idle |-> NewTracker.idle]
      BY DEF NewTracker
    <3> QED
      BY <3>1, <3>2, <3>3, <3>4, <3>5 DEF IsTracker
  <2> QED
    BY <2>1, <2>2, <1>3
<1>5. CASE swept[s] # None
  <2>1. Known(s) = tracker[s] /\ LifeOf(s) = life[s] /\ tracker[s] # None
    BY <1>2, <1>5 DEF Known, Begun, LifeOf
  <2> QED
    BY <2>1, <1>3 DEF Invariant, GivenBelowNext
<1> QED
  BY <1>4, <1>5

\* Sweep and eviction take sessions away whole, and leave room for the one that comes.
LEMMA RoomIsMade ==
  ASSUME NEW store, DOMAIN store = Sessions, NEW ttl, NEW cap \in Nat \ {0},
         IsFiniteSet(Live(store)), Cardinality(Live(store)) <= cap,
         NEW s \in Sessions, NEW room \in Rooms(store, s, ttl, cap)
  PROVE  /\ DOMAIN room = Sessions /\ room = [o \in Sessions |-> room[o]]
         /\ \A o \in Sessions : room[o] # None => room[o] = store[o]
         /\ IsFiniteSet(Live(room) \cup {s})
         /\ Cardinality(Live(room) \cup {s}) <= cap
<1> DEFINE swept == SweptStore(store, ttl)
<1>2. /\ swept = [o \in Sessions |-> swept[o]]
      /\ \A o \in Sessions : swept[o] # None => swept[o] = store[o]
  BY DEF SweptStore
<1>3. DOMAIN swept = Sessions
  BY DEF SweptStore
<1>4. /\ IsFiniteSet(Live(swept)) /\ Cardinality(Live(swept)) \in Nat
      /\ Cardinality(Live(swept)) <= cap
  <2>1. Live(swept) \in SUBSET Live(store)
    <3> HIDE DEF swept
    <3> QED
      BY <1>2, <1>3 DEF Live
  <2>3. Cardinality(Live(store)) \in Nat
    BY FS_CardinalityType
  <2>4. /\ IsFiniteSet(Live(swept))
        /\ Cardinality(Live(swept)) <= Cardinality(Live(store))
    BY <2>1, FS_Subset
  <2>5. Cardinality(Live(swept)) \in Nat
    BY <2>4, FS_CardinalityType
  <2> QED
    BY <2>3, <2>4, <2>5
<1>5. room \in WithRoom(swept, s, cap)
  BY DEF Rooms
<1> HIDE DEF swept
<1>6. CASE swept[s] # None
  <2>1. room = swept
    BY <1>5, <1>6 DEF WithRoom
  <2>2. Live(room) \cup {s} = Live(swept)
    BY <2>1, <1>3, <1>6 DEF Live
  <2> QED
    BY <2>1, <2>2, <1>2, <1>3, <1>4
<1>7. CASE swept[s] = None /\ Cardinality(Live(swept)) < cap
  <2>1. room = swept
    BY <1>5, <1>7 DEF WithRoom
  <2>2. /\ IsFiniteSet(Live(room) \cup {s})
        /\ Cardinality(Live(room) \cup {s}) =
             IF s \in Live(room) THEN Cardinality(Live(room)) ELSE Cardinality(Live(room)) + 1
    BY <2>1, <1>4, FS_AddElement
  <2>3. Cardinality(Live(room) \cup {s}) <= cap
    BY <2>1, <2>2, <1>4, <1>7
  <2> QED
    BY <2>1, <2>2, <2>3, <1>2, <1>3
<1>8. CASE swept[s] = None /\ ~(Cardinality(Live(swept)) < cap)
  <2>1. PICK o \in Live(swept) : room = [swept EXCEPT ![o] = None]
    BY <1>5, <1>8 DEF WithRoom
  <2>2. o \in Sessions /\ DOMAIN room = Sessions /\ room = [p \in Sessions |-> room[p]]
    BY <2>1, <1>2, <1>3 DEF Live
  <2>3. \A p \in Sessions : room[p] = IF p = o THEN None ELSE swept[p]
    BY <2>1, <1>3
  <2>4. Live(room) = Live(swept) \ {o}
    BY <2>1, <2>2, <2>3, <1>3 DEF Live
  <2>5. IsFiniteSet(Live(room)) /\ Cardinality(Live(room)) = Cardinality(Live(swept)) - 1
    <3>1. /\ IsFiniteSet(Live(swept) \ {o})
          /\ Cardinality(Live(swept) \ {o}) =
               IF o \in Live(swept) THEN Cardinality(Live(swept)) - 1 ELSE Cardinality(Live(swept))
      BY <1>4, FS_RemoveElement
    <3> QED
      BY <3>1, <2>1, <2>4
  <2>6. /\ IsFiniteSet(Live(room) \cup {s})
        /\ Cardinality(Live(room) \cup {s}) =
             IF s \in Live(room) THEN Cardinality(Live(room)) ELSE Cardinality(Live(room)) + 1
    BY <2>5, FS_AddElement
  <2>7. Cardinality(Live(room) \cup {s}) <= cap
    BY <2>5, <2>6, <1>4
  <2>8. \A p \in Sessions : room[p] # None => room[p] = store[p]
    BY <2>3, <1>2
  <2> QED
    BY <2>2, <2>6, <2>7, <2>8
<1> QED
  BY <1>6, <1>7, <1>8
------------------------------------------------------------------------------
(* The steps *)

\* The tracker takes a frame, or is switched off.
LEMMA FrameStep ==
  ASSUME Invariant, NEW s \in Sessions, NEW E \in FrameSet,
         NEW matched, matched = Match(Candidates(E, Known(s).tracks)),
         NEW of, of = Pairings(s, E, matched),
         NEW over, TrackFrame(s, E, matched, of, over)
  PROVE  Invariant' /\ NewIdsOnly
<1>1. CASE setup.risk = "off"
  <2>1. UNCHANGED <<tracker, ghosts>>
    BY <1>1 DEF TrackFrame
  <2>2. UNCHANGED <<tracker, life, given>>
    BY <2>1 DEF ghosts
  <2> QED
    BY <2>2 DEF Invariant, StoresMade, GivenBelowNext, CapsKept, NewIdsOnly, IsTracker, Live
<1>2. CASE setup.risk # "off"
  <2> DEFINE k == Known(s)
             l == Tracked(E, k, matched, of)
  <2>1. PICK room \in Rooms(tracker, s, SessionTTL, MaxActive) : Track(s, room, l, over)
    BY <1>2 DEF TrackFrame
  <2>2. /\ DOMAIN room = Sessions /\ room = [o \in Sessions |-> room[o]]
        /\ \A o \in Sessions : room[o] # None => room[o] = tracker[o]
        /\ IsFiniteSet(Live(room) \cup {s})
        /\ Cardinality(Live(room) \cup {s}) <= MaxActive
    <3>1. /\ DOMAIN tracker = Sessions
          /\ IsFiniteSet(Live(tracker)) /\ Cardinality(Live(tracker)) <= MaxActive
      BY DEF Invariant, StoresMade, CapsKept
    <3>2. MaxActive \in Nat \ {0} /\ SessionTTL \in Nat
      BY TrackerAssumption
    <3> QED
      BY <2>1, <3>1, <3>2, RoomIsMade
  <2>3. /\ IsTracker(k) /\ LifeOf(s) \in Nat
        /\ LifeOf(s) = life[s] => tracker[s] # None /\ k = tracker[s]
    BY KnownTracker
  <2>4. IsTracker(l) /\ k.next <= l.next /\ DOMAIN l.tracks \subseteq DOMAIN k.tracks \cup k.next..(l.next - 1)
    <3>1. E \in Seq(Entities)
      BY PipelineAssumption DEF Entities
    <3>2. matched \subseteq Candidates(E, k.tracks)
      BY MatchIsOfCandidates
    <3>3. of = Assigned(E, k, matched)
      BY DEF Pairings
    <3> HIDE DEF k
    <3> QED
      BY <2>3, <3>1, <3>2, <3>3, FrameTracked
  <2> HIDE DEF k, l
  <2>5. /\ tracker' = [room EXCEPT ![s] = l]
        /\ life' = [life EXCEPT ![s] = LifeOf(s)]
        /\ given' = [given EXCEPT ![s] = DOMAIN l.tracks \cup IF LifeOf(s) # life[s] THEN {} ELSE given[s]]
    <3>1. given' = [given EXCEPT ![s] = DOMAIN l.tracks \cup IF LifeOf(s) # life[s] THEN {} ELSE @]
      BY <2>1 DEF Track
    <3> QED
      BY <2>1, <3>1 DEF Track
  <2>6. StoresMade'
    BY <2>2, <2>3, <2>5 DEF Invariant, StoresMade
  <2>7. /\ tracker'[s] = l /\ life'[s] = LifeOf(s)
        /\ given'[s] = DOMAIN l.tracks \cup IF LifeOf(s) # life[s] THEN {} ELSE given[s]
        /\ \A o \in Sessions \ {s} : tracker'[o] = room[o] /\ given'[o] = given[o]
    BY <2>2, <2>5 DEF Invariant, StoresMade
  <2>8. k.next \in Nat /\ l.next \in Nat /\ DOMAIN k.tracks \subseteq 1..(k.next - 1)
    BY <2>3, <2>4 DEF IsTracker
  <2>9. LifeOf(s) = life[s] => given[s] \subseteq 1..(k.next - 1)
    BY <2>3 DEF Invariant, GivenBelowNext
  <2>10. DOMAIN l.tracks \subseteq 1..(l.next - 1)
    BY <2>4 DEF IsTracker
  <2>11. given'[s] \subseteq 1..(l.next - 1)
    <3>1. LifeOf(s) = life[s] => given[s] \subseteq 1..(l.next - 1)
      BY <2>4, <2>8, <2>9
    <3> QED
      BY <2>7, <2>10, <3>1
  <2>12. GivenBelowNext'
    <3>1. IsTracker(tracker'[s]) /\ given'[s] \subseteq 1..(tracker'[s].next - 1)
      BY <2>4, <2>7, <2>11
    <3>2. ASSUME NEW o \in Sessions \ {s}, tracker'[o] # None
          PROVE  IsTracker(tracker'[o]) /\ given'[o] \subseteq 1..(tracker'[o].next - 1)
      <4>1. tracker'[o] = tracker[o] /\ tracker[o] # None /\ given'[o] = given[o]
        BY <2>2, <2>7, <3>2
      <4> QED
        BY <4>1 DEF Invariant, GivenBelowNext
    <3> QED
      BY <3>1, <3>2 DEF GivenBelowNext, IsTracker
  <2>13. CapsKept'
    <3>1. DOMAIN tracker' = Sessions
      BY <2>2, <2>5
    <3>2. Live(tracker') \in SUBSET (Live(room) \cup {s})
      BY <3>1, <2>2, <2>7 DEF Live
    <3>3. IsFiniteSet(Live(tracker')) /\ Cardinality(Live(tracker')) <= Cardinality(Live(room) \cup {s})
      BY <3>2, <2>2, FS_Subset
    <3>4. Cardinality(Live(tracker')) \in Nat /\ Cardinality(Live(room) \cup {s}) \in Nat
      BY <3>3, <2>2, FS_CardinalityType
    <3>5. Cardinality(Live(tracker')) <= MaxActive
      BY <3>3, <3>4, <2>2, TrackerAssumption
    <3>6. \A o \in Sessions : tracker'[o] # None => Cardinality(DOMAIN tracker'[o].tracks) <= MaxTracks
      BY <2>12 DEF GivenBelowNext, IsTracker
    <3> QED
      BY <3>3, <3>5, <3>6 DEF CapsKept, Live
  <2>14. NewIdsOnly
    <3>1. ASSUME life'[s] = life[s]
          PROVE  DOMAIN tracker'[s].tracks \cap given[s] \subseteq DOMAIN tracker[s].tracks
      <4>1. k = tracker[s] /\ given[s] \subseteq 1..(k.next - 1)
        BY <3>1, <2>3, <2>7, <2>9
      <4>2. DOMAIN l.tracks \cap given[s] \subseteq DOMAIN k.tracks
        BY <4>1, <2>4, <2>8
      <4> QED
        BY <4>1, <4>2, <2>7
    <3>2. ASSUME NEW o \in Sessions \ {s}, tracker'[o] # None
          PROVE  DOMAIN tracker'[o].tracks \cap given[o] \subseteq DOMAIN tracker[o].tracks
      <4>1. tracker'[o] = tracker[o]
        BY <2>2, <2>7, <3>2
      <4> QED
        BY <4>1
    <3> QED
      BY <3>1, <3>2 DEF NewIdsOnly
  <2> QED
    BY <2>6, <2>12, <2>13, <2>14 DEF Invariant
<1> QED
  BY <1>1, <1>2

\* Time ages the trackers and leaves their tracks.
LEMMA TickStep ==
  ASSUME Invariant, Tick
  PROVE  Invariant' /\ NewIdsOnly
<1>1. /\ tracker' = [s \in Sessions |-> IF tracker[s] = None THEN None
                       ELSE [tracker[s] EXCEPT !.idle = Older(@, SessionTTL + 1)]]
      /\ life' = life /\ given' = given
  BY DEF Tick, ghosts
<1>2. ASSUME NEW s \in Sessions, tracker[s] # None
      PROVE  /\ tracker'[s].tracks = tracker[s].tracks /\ tracker'[s].next = tracker[s].next
             /\ tracker'[s] = [tracks |-> tracker'[s].tracks, next |-> tracker'[s].next,
                               idle |-> tracker'[s].idle]
             /\ tracker'[s].idle \in 0..(SessionTTL + 1)
  <2> DEFINE old == tracker[s]
  <2>1. /\ old = [tracks |-> old.tracks, next |-> old.next, idle |-> old.idle]
        /\ old.idle \in 0..(SessionTTL + 1)
    BY <1>2 DEF Invariant, GivenBelowNext, IsTracker
  <2>2. tracker'[s] = [old EXCEPT !.idle = Older(old.idle, SessionTTL + 1)]
    BY <1>1, <1>2
  <2>3. tracker'[s] = [tracks |-> old.tracks, next |-> old.next, idle |-> Older(old.idle, SessionTTL + 1)]
    <3> HIDE DEF old
    <3> QED
      BY <2>1, <2>2
  <2>4. Older(old.idle, SessionTTL + 1) \in 0..(SessionTTL + 1)
    <3> HIDE DEF old
    <3> QED
      BY <2>1, TrackerAssumption DEF Older
  <2> QED
    BY <2>3, <2>4
<1>3. \A s \in Sessions : tracker'[s] # None => tracker[s] # None
  BY <1>1
<1>4. StoresMade'
  BY <1>1 DEF Invariant, StoresMade
<1>5. GivenBelowNext'
  BY <1>1, <1>2, <1>3 DEF Invariant, GivenBelowNext, IsTracker
<1>6. CapsKept'
  <2>1. IsFiniteSet(Live(tracker)) /\ Cardinality(Live(tracker)) <= MaxActive
    BY DEF Invariant, CapsKept
  <2>2. Live(tracker') \in SUBSET Live(tracker)
    <3>1. DOMAIN tracker = Sessions /\ DOMAIN tracker' = Sessions
      BY <1>1 DEF Invariant, StoresMade
    <3> QED
      BY <3>1, <1>3 DEF Live
  <2>3. /\ IsFiniteSet(Live(tracker'))
        /\ Cardinality(Live(tracker')) <= Cardinality(Live(tracker))
    BY <2>1, <2>2, FS_Subset
  <2>4. Cardinality(Live(tracker')) \in Nat /\ Cardinality(Live(tracker)) \in Nat
    BY <2>1, <2>3, FS_CardinalityType
  <2>5. \A s \in Sessions : tracker'[s] # None => Cardinality(DOMAIN tracker'[s].tracks) <= MaxTracks
    BY <1>2, <1>3 DEF Invariant, CapsKept
  <2>6. Cardinality(Live(tracker')) <= MaxActive
    BY <2>1, <2>3, <2>4, TrackerAssumption
  <2> QED
    BY <2>3, <2>5, <2>6 DEF CapsKept, Live
<1>7. NewIdsOnly
  BY <1>2, <1>3 DEF NewIdsOnly
<1> QED
  BY <1>4, <1>5, <1>6, <1>7 DEF Invariant

\* The initial state has no session.
LEMMA InvariantInit == Init => Invariant
<1> SUFFICES ASSUME Init PROVE Invariant
  OBVIOUS
<1>1. StoresMade
  BY DEF Init, StoresMade
<1>2. \A s \in Sessions : tracker[s] = None
  BY DEF Init
<1>3. Live(tracker) = {}
  BY DEF Init, Live
<1>4. IsFiniteSet({}) /\ Cardinality({}) = 0 /\ 0 <= MaxActive
  BY FS_EmptySet, TrackerAssumption
<1> QED
  BY <1>1, <1>2, <1>3, <1>4 DEF Invariant, GivenBelowNext, CapsKept

\* No step breaks the invariant or gives an old id to a new track.
LEMMA InvariantStep ==
  ASSUME Invariant, [Next]_vars
  PROVE  Invariant' /\ NewIdsOnly
<1>1. ASSUME NEW s \in Callers, NEW E \in FrameSet, NEW kind \in Kinds, Detect(s, E, kind)
      PROVE  Invariant' /\ NewIdsOnly
  <2>1. s \in Sessions
    BY PipelineAssumption
  <2>2. PICK matched \in {Match(Candidates(E, Known(s).tracks))} :
               \E of \in {Pairings(s, E, matched)} : \E over : TrackFrame(s, E, matched, of, over)
    BY <1>1, Zenon DEF Detect
  <2>3. PICK of \in {Pairings(s, E, matched)} : \E over : TrackFrame(s, E, matched, of, over)
    BY <2>2
  <2> QED
    BY <2>1, <2>2, <2>3, FrameStep
<1>2. ASSUME NEW s \in Streams, NEW E \in FrameSet, StreamFrame(s, E)
      PROVE  Invariant' /\ NewIdsOnly
  <2>1. s \in Sessions
    BY PipelineAssumption
  <2>2. PICK matched \in {Match(Candidates(E, Known(s).tracks))} :
               TrackFrame(s, E, matched, Pairings(s, E, matched), FALSE)
    BY <1>2 DEF StreamFrame
  <2> QED
    BY <2>1, <2>2, FrameStep
<1>3. ASSUME UNCHANGED <<tracker, life, given>> PROVE Invariant' /\ NewIdsOnly
  BY <1>3 DEF Invariant, StoresMade, GivenBelowNext, CapsKept, NewIdsOnly, IsTracker, Live
<1>4. ASSUME NEW s \in Callers, Answer(s) PROVE Invariant' /\ NewIdsOnly
  BY <1>3, <1>4 DEF Answer, Answered
<1>5. ASSUME NEW s \in Callers, GiveUp(s) PROVE Invariant' /\ NewIdsOnly
  BY <1>3, <1>5 DEF GiveUp, stores, ghosts
<1>6. ASSUME NEW s \in Callers, JobEnds(s) PROVE Invariant' /\ NewIdsOnly
  BY <1>3, <1>6 DEF JobEnds, ghosts
<1>10. ASSUME NEW s \in Callers, JobStarts(s) PROVE Invariant' /\ NewIdsOnly
  BY <1>3, <1>10 DEF JobStarts, ghosts
<1>7. ASSUME NEW p \in late, LateAnswer(p) PROVE Invariant' /\ NewIdsOnly
  BY <1>3, <1>7 DEF LateAnswer, Answered
<1>8. ASSUME Tick PROVE Invariant' /\ NewIdsOnly
  BY <1>8, TickStep
<1>9. ASSUME UNCHANGED vars PROVE Invariant' /\ NewIdsOnly
  BY <1>3, <1>9 DEF vars, stores, ghosts
<1> QED
  BY <1>1, <1>2, <1>4, <1>5, <1>6, <1>7, <1>8, <1>9, <1>10 DEF Next

------------------------------------------------------------------------------
(* The other stores *)

\* A history is a sequence of at most Window rows.
IsHistory(h) == h = [i \in 1..Len(h) |-> h[i]] /\ Len(h) \in 1..Window

\* What the temporal memory keeps of a session.
IsMemory(m) ==
  /\ m = [hist |-> m.hist, context |-> m.context, corrections |-> m.corrections, idle |-> m.idle]
  /\ \A t \in DOMAIN m.hist : IsHistory(m.hist[t])

MemoriesKept ==
  /\ memory = [s \in Sessions |-> memory[s]]
  /\ \A s \in Sessions : memory[s] # None => IsMemory(memory[s])
  /\ IsFiniteSet(Live(memory)) /\ Cardinality(Live(memory)) <= MaxMemories

LabelsKept ==
  labels = [s \in Sessions |-> labels[s]]
    /\ \A s \in Sessions : Cardinality(DOMAIN labels[s]) <= MaxLabels

\* One job runs and at most one frame waits behind it.
IsQueue(q) == q = <<>> \/ (\E a : q = <<a>>) \/ (\E a, b : q = <<a, b>>)
JobsKept ==
  jobs = [s \in Sessions |-> jobs[s]] /\ \A s \in Sessions : IsQueue(jobs[s])

BoundsKept ==
  /\ setup \in Setups
  /\ used \in [frames : 0..setup.frames, ticks : 0..MaxTicks]
  /\ mixed \in [Sessions -> BOOLEAN]

StoresKept == MemoriesKept /\ LabelsKept /\ JobsKept /\ BoundsKept

\* The last rows of a sequence are a history again.
LEMMA SuffixIsHistory ==
  ASSUME NEW S, NEW h \in Seq(S), h # <<>>
  PROVE  IsHistory(Suffix(h, Window))
<1> DEFINE first == IF Len(h) > Window THEN Len(h) - Window + 1 ELSE 1
<1>1. Window \in Nat \ {0} /\ Len(h) \in Nat \ {0}
  BY MemoryAssumption
<1>2. first \in 1..Len(h)
  BY <1>1
<1>3. Suffix(h, Window) = SubSeq(h, first, Len(h))
  BY DEF Suffix
<1>4. SubSeq(h, first, Len(h)) = [i \in 1..(Len(h) - first + 1) |-> h[i + first - 1]]
  <2> HIDE DEF first
  <2> QED
    BY <1>1, <1>2
<1>5. Len(h) - first + 1 \in 1..Window
  BY <1>1
<1> HIDE DEF first
<1>6. Len(SubSeq(h, first, Len(h))) = Len(h) - first + 1
  BY <1>1, <1>2, <1>4
<1>7. SubSeq(h, first, Len(h)) = [i \in 1..(Len(h) - first + 1) |-> SubSeq(h, first, Len(h))[i]]
  BY <1>4
<1> QED
  BY <1>3, <1>5, <1>6, <1>7 DEF IsHistory

\* One more row leaves a history.
LEMMA HistoryGrows ==
  ASSUME NEW h, h = <<>> \/ IsHistory(h), NEW row
  PROVE  IsHistory(Suffix(Append(h, row), Window))
<1> DEFINE S == {h[i] : i \in 1..Len(h)} \cup {row}
<1>1. h \in Seq(S)
  <2>1. CASE h = <<>>
    BY <2>1
  <2>2. CASE IsHistory(h)
    <3>1. h = [i \in 1..Len(h) |-> h[i]] /\ Len(h) \in Nat
      BY <2>2, MemoryAssumption DEF IsHistory
    <3>2. \A i \in 1..Len(h) : h[i] \in S
      OBVIOUS
    <3> HIDE DEF S
    <3> QED
      BY <3>1, <3>2
  <2> QED
    BY <2>1, <2>2
<1>2. row \in S
  OBVIOUS
<1> HIDE DEF S
<1>3. Append(h, row) \in Seq(S) /\ Append(h, row) # <<>>
  BY <1>1, <1>2
<1> QED
  BY <1>3, SuffixIsHistory

\* A frame, a new session and a result leave a memory.
LEMMA MemoryRemembers ==
  ASSUME NEW m, IsMemory(m), NEW rows
  PROVE  IsMemory(Remembered(m, rows))
<1> DEFINE ids == {rows[k].id : k \in DOMAIN rows}
           past(t) == IF t \in DOMAIN m.hist THEN m.hist[t] ELSE <<>>
           row(t) == rows[CHOOSE k \in DOMAIN rows : rows[k].id = t]
           hist == [t \in DOMAIN m.hist \cup ids |->
                      IF t \in ids THEN Suffix(Append(past(t), row(t)), Window) ELSE past(t)]
           n == Remembered(m, rows)
<1>1. m = [hist |-> m.hist, context |-> m.context, corrections |-> m.corrections, idle |-> m.idle]
  BY DEF IsMemory
<1>2. n = [m EXCEPT !.idle = 0, !.hist = hist]
  BY DEF Remembered
<1>3. n = [hist |-> hist, context |-> m.context, corrections |-> m.corrections, idle |-> 0]
  <2> HIDE DEF hist, n
  <2> QED
    BY <1>1, <1>2
<1>4. ASSUME NEW t \in DOMAIN m.hist \cup ids PROVE IsHistory(hist[t])
  <2>1. past(t) = <<>> \/ IsHistory(past(t))
    BY DEF IsMemory
  <2>2. CASE t \in ids
    <3>1. hist[t] = Suffix(Append(past(t), row(t)), Window)
      BY <2>2
    <3> HIDE DEF past, row, hist
    <3> QED
      BY <2>1, <3>1, HistoryGrows
  <2>3. CASE t \notin ids
    BY <2>3 DEF IsMemory
  <2> QED
    BY <2>2, <2>3
<1>5. DOMAIN hist = DOMAIN m.hist \cup ids
  OBVIOUS
<1> QED
  <2> HIDE DEF hist, n, ids
  <2>1. n.hist = hist /\ n = [hist |-> n.hist, context |-> n.context, corrections |-> n.corrections, idle |-> n.idle]
    BY <1>3
  <2>2. \A t \in DOMAIN n.hist : IsHistory(n.hist[t])
    BY <1>4, <1>5, <2>1
  <2>3. IsMemory(n)
    BY <2>1, <2>2 DEF IsMemory
  <2> QED
    BY <2>3 DEF n

\* A memory that is found or begun is one.
LEMMA MemoryBegins ==
  ASSUME NEW m, m # None => IsMemory(m)
  PROVE  IsMemory(Begun(m, NewMemory))
<1>1. IsMemory(NewMemory)
  <2>1. NewMemory.hist = <<>> /\ DOMAIN <<>> = {}
    BY DEF NewMemory
  <2>2. NewMemory = [hist |-> NewMemory.hist, context |-> NewMemory.context,
                     corrections |-> NewMemory.corrections, idle |-> NewMemory.idle]
    BY DEF NewMemory
  <2> QED
    BY <2>1, <2>2 DEF IsMemory
<1> QED
  BY <1>1 DEF Begun

\* A result leaves the histories alone.
LEMMA MemoryStoresResult ==
  ASSUME NEW m, IsMemory(m), NEW r
  PROVE  IsMemory(StoredResult(m, r))
<1>1. m = [hist |-> m.hist, context |-> m.context, corrections |-> m.corrections, idle |-> m.idle]
  BY DEF IsMemory
<1>2. StoredResult(m, r) = [m EXCEPT !.context = [age |-> 0], !.corrections = r]
  BY DEF StoredResult
<1>3. StoredResult(m, r) = [hist |-> m.hist, context |-> [age |-> 0], corrections |-> r, idle |-> m.idle]
  BY <1>1, <1>2
<1> QED
  BY <1>3 DEF IsMemory

\* A memory put in the room that was made for it.
LEMMA MemoryPut ==
  ASSUME MemoriesKept, NEW s \in Sessions, NEW ttl, NEW room \in Rooms(memory, s, ttl, MaxMemories),
         NEW m, IsMemory(m), memory' = [room EXCEPT ![s] = m]
  PROVE  MemoriesKept'
<1>1. /\ DOMAIN room = Sessions /\ room = [o \in Sessions |-> room[o]]
      /\ \A o \in Sessions : room[o] # None => room[o] = memory[o]
      /\ IsFiniteSet(Live(room) \cup {s})
      /\ Cardinality(Live(room) \cup {s}) <= MaxMemories
  <2>1. /\ DOMAIN memory = Sessions
        /\ IsFiniteSet(Live(memory)) /\ Cardinality(Live(memory)) <= MaxMemories
    BY DEF MemoriesKept
  <2>2. MaxMemories \in Nat \ {0} /\ MemoryTTL \in Nat
    BY MemoryAssumption
  <2> QED
    BY <2>1, <2>2, RoomIsMade
<1>2. /\ memory' = [o \in Sessions |-> memory'[o]] /\ DOMAIN memory' = Sessions
      /\ \A o \in Sessions : memory'[o] = IF o = s THEN m ELSE room[o]
  BY <1>1
<1>3. \A o \in Sessions : memory'[o] # None => IsMemory(memory'[o])
  BY <1>1, <1>2 DEF MemoriesKept
<1>4. Live(memory') \in SUBSET (Live(room) \cup {s})
  BY <1>1, <1>2 DEF Live
<1>5. IsFiniteSet(Live(memory')) /\ Cardinality(Live(memory')) <= Cardinality(Live(room) \cup {s})
  BY <1>1, <1>4, FS_Subset
<1>6. Cardinality(Live(memory')) \in Nat /\ Cardinality(Live(room) \cup {s}) \in Nat
  BY <1>1, <1>5, FS_CardinalityType
<1>7. Cardinality(Live(memory')) <= MaxMemories
  BY <1>1, <1>5, <1>6, MemoryAssumption
<1> QED
  BY <1>2, <1>3, <1>5, <1>7 DEF MemoriesKept, IsMemory, IsHistory, Live

\* The memory that is found or begun in a room.
LEMMA MemoryFound ==
  ASSUME MemoriesKept, NEW s \in Sessions, NEW ttl, NEW room \in Rooms(memory, s, ttl, MaxMemories)
  PROVE  IsMemory(Begun(room[s], NewMemory))
<1>1. \A o \in Sessions : room[o] # None => room[o] = memory[o]
  <2>1. /\ DOMAIN memory = Sessions
        /\ IsFiniteSet(Live(memory)) /\ Cardinality(Live(memory)) <= MaxMemories
    BY DEF MemoriesKept
  <2>2. MaxMemories \in Nat \ {0} /\ MemoryTTL \in Nat
    BY MemoryAssumption
  <2>3. /\ DOMAIN room = Sessions /\ room = [o \in Sessions |-> room[o]]
        /\ \A o \in Sessions : room[o] # None => room[o] = memory[o]
        /\ IsFiniteSet(Live(room) \cup {s})
        /\ Cardinality(Live(room) \cup {s}) <= MaxMemories
    BY <2>1, <2>2, RoomIsMade
  <2> QED
    BY <2>3
<1>2. room[s] # None => IsMemory(room[s])
  BY <1>1 DEF MemoriesKept
<1> QED
  BY <1>2, MemoryBegins

\* The frame a job takes along or leaves waiting, and a job that ends.
LEMMA QueuesStayShort ==
  ASSUME NEW q, IsQueue(q), NEW ctx
  PROVE  IsQueue(Submitted(q, ctx)) /\ (q # <<>> => IsQueue(Tail(q))) /\ IsQueue(<<>>)
<1>1. CASE q = <<>>
  BY <1>1 DEF IsQueue, Submitted
<1>2. CASE \E a : q = <<a>>
  <2>1. PICK a : q = <<a>>
    BY <1>2
  <2>2. Tail(q) = <<>> /\ Submitted(q, ctx) = <<a, ctx>>
    BY <2>1 DEF Submitted
  <2> QED
    BY <2>2 DEF IsQueue
<1>3. CASE \E a, b : q = <<a, b>>
  <2>1. PICK a, b : q = <<a, b>>
    BY <1>3
  <2>2. Tail(q) = <<b>> /\ Submitted(q, ctx) = <<a, ctx>>
    BY <2>1 DEF Submitted
  <2> QED
    BY <2>2 DEF IsQueue
<1> QED
  BY <1>1, <1>2, <1>3 DEF IsQueue

\* Jobs of one session change to a queue.
LEMMA JobsPut ==
  ASSUME JobsKept, NEW s \in Sessions, NEW q, IsQueue(q), jobs' = [jobs EXCEPT ![s] = q]
  PROVE  JobsKept'
<1>1. /\ jobs' = [o \in Sessions |-> jobs'[o]]
      /\ \A o \in Sessions : jobs'[o] = IF o = s THEN q ELSE jobs[o]
  BY DEF JobsKept
<1> QED
  BY <1>1 DEF JobsKept, IsQueue

\* A frame marks only what it evicts.
LEMMA MarksStayBoolean ==
  ASSUME mixed \in [Sessions -> BOOLEAN], NEW s, NEW E, NEW matched, NEW of,
         NEW over, TrackFrame(s, E, matched, of, over)
  PROVE  mixed' \in [Sessions -> BOOLEAN]
<1>1. CASE setup.risk = "off"
  BY <1>1 DEF TrackFrame, ghosts
<1>2. CASE setup.risk # "off"
  <2>1. PICK room \in Rooms(tracker, s, SessionTTL, MaxActive) : Track(s, room, Tracked(E, Known(s), matched, of), over)
    BY <1>2 DEF TrackFrame
  <2> DEFINE lost(o) == tracker[o] # None /\ tracker[o].idle <= SessionTTL /\ room[o] = None
  <2>2. mixed' = [o \in Sessions |-> mixed[o] \/ lost(o) \/ (o = s /\ over)]
    BY <2>1 DEF Track
  <2>3. \A o \in Sessions : (mixed[o] \/ lost(o) \/ (o = s /\ over)) \in BOOLEAN
    BY Zenon
  <2> HIDE DEF lost
  <2> QED
    BY <2>2, <2>3
<1> QED
  BY <1>1, <1>2

\* One frame more, within the bound.
LEMMA FrameCounted ==
  ASSUME BoundsKept, UNCHANGED setup, used.frames < setup.frames,
         used' = [used EXCEPT !.frames = @ + 1], mixed' \in [Sessions -> BOOLEAN]
  PROVE  BoundsKept'
<1>1. setup.frames \in Nat
  BY PipelineAssumption DEF BoundsKept
<1> QED
  BY <1>1 DEF BoundsKept

\* What /detect does to the memory, the jobs and the bounds.
LEMMA DetectStores ==
  ASSUME StoresKept, NEW s \in Sessions, NEW E, NEW kind, Detect(s, E, kind)
  PROVE  StoresKept'
<1>1. \E room \in MemoryRooms(s) : \E tracks : Compose(s, E, kind, tracks, room)
  BY DEF Detect
<1>room. PICK room, tracks : room \in MemoryRooms(s) /\ Compose(s, E, kind, tracks, room)
  BY <1>1
<1>ttl. PICK ttl : room \in Rooms(memory, s, ttl, MaxMemories)
  BY <1>room DEF MemoryRooms
<1>2. PICK rows \in {Rows(E, tracks)} :
        \E m \in {Remembered(Begun(room[s], NewMemory), rows)} :
        \E edges \in {EdgeRisks(m, E, rows)} : Judge(s, E, kind, tracks, room, m, edges)
  BY <1>room DEF Compose
<1>3. PICK m \in {Remembered(Begun(room[s], NewMemory), rows)} :
        \E edges : Judge(s, E, kind, tracks, room, m, edges)
  BY <1>2
<1>4. PICK edges : Judge(s, E, kind, tracks, room, m, edges)
  BY <1>3
<1>5. \E risks, level : Remember(s, E, kind, tracks, risks, room, m, edges, level)
  BY <1>4, Zenon DEF Judge
<1>6. PICK risks, level : Remember(s, E, kind, tracks, risks, room, m, edges, level)
  BY <1>5
<1>7. MemoriesKept'
  <2>1. memory' = [room EXCEPT ![s] = m]
    BY <1>6 DEF Remember
  <2>2. IsMemory(m)
    BY <1>ttl, MemoryFound, MemoryRemembers DEF StoresKept
  <2> QED
    BY <1>ttl, <2>1, <2>2, MemoryPut DEF StoresKept
<1>8. JobsKept'
  <2>1. CASE UNCHANGED jobs
    BY <2>1 DEF StoresKept, JobsKept, IsQueue
  <2>2. CASE jobs' = [jobs EXCEPT ![s] = Submitted(@, [E |-> E, tracks |-> tracks])]
    <3>1. jobs' = [jobs EXCEPT ![s] = Submitted(jobs[s], [E |-> E, tracks |-> tracks])]
      BY <2>2
    <3>2. IsQueue(Submitted(jobs[s], [E |-> E, tracks |-> tracks]))
      BY QueuesStayShort DEF StoresKept, JobsKept
    <3> QED
      BY <3>1, <3>2, JobsPut DEF StoresKept
  <2> QED
    BY <1>6, <2>1, <2>2 DEF Remember
<1>9. UNCHANGED <<setup, labels>> /\ used' = [used EXCEPT !.frames = @ + 1] /\ used.frames < setup.frames
  BY DEF Detect
<1>10. PICK matched, of, over : TrackFrame(s, E, matched, of, over)
  BY Zenon DEF Detect
<1>11. mixed' \in [Sessions -> BOOLEAN]
  BY <1>10, MarksStayBoolean DEF StoresKept, BoundsKept
<1>12. BoundsKept'
  BY <1>9, <1>11, FrameCounted DEF StoresKept
<1>13. LabelsKept'
  BY <1>9 DEF StoresKept, LabelsKept
<1> QED
  BY <1>7, <1>8, <1>12, <1>13 DEF StoresKept

\* What an opinion leaves in the labels.
LEMMA OpinionKeepsLabels ==
  ASSUME LabelsKept, NEW s, NEW q, NEW v, Opinion(s, q, v)
  PROVE  LabelsKept'
<1> DEFINE tids == UNION {id \in DOMAIN v : v[id].label}
<1>1. PICK kept \in LabelStored(labels[s], tids, q.of) : labels' = [labels EXCEPT ![s] = kept]
  BY DEF Opinion
<1> HIDE DEF tids
<1>2. Cardinality(DOMAIN kept) <= MaxLabels
  <2>1. PICK k : Cardinality(k) <= MaxLabels /\ DOMAIN kept = k
    BY <1>1 DEF LabelStored
  <2> QED
    BY <2>1
<1>3. /\ labels' = [o \in Sessions |-> labels'[o]]
      /\ \A o \in Sessions : labels'[o] = IF o = s THEN kept ELSE labels[o]
  BY <1>1 DEF LabelsKept
<1> QED
  BY <1>2, <1>3 DEF LabelsKept

\* A slow answer marks its session.
LEMMA AnswersMark ==
  ASSUME mixed \in [Sessions -> BOOLEAN], NEW s, NEW q, Answered(s, q)
  PROVE  mixed' \in [Sessions -> BOOLEAN]
<1> DEFINE mark == mixed[s] \/ q.age >= SlowAnswer
<1>1. mixed' = [mixed EXCEPT ![s] = mark]
  BY DEF Answered
<1>2. mark \in BOOLEAN
  BY Zenon
<1> HIDE DEF mark
<1> QED
  BY <1>1, <1>2

\* The end of a job.
LEMMA JobEndStores ==
  ASSUME StoresKept, NEW s \in Sessions, JobEnds(s)
  PROVE  StoresKept'
<1>1. JobsKept'
  <2>1. IsQueue(jobs[s]) /\ jobs[s] # <<>>
    BY DEF StoresKept, JobsKept, JobEnds
  <2>2. PICK q \in {Tail(jobs[s]), <<>>} : jobs' = [jobs EXCEPT ![s] = q]
    BY DEF JobEnds
  <2>3. IsQueue(q)
    BY <2>1, <2>2, QueuesStayShort
  <2> QED
    BY <2>2, <2>3, JobsPut DEF StoresKept
<1>2. MemoriesKept'
  <2>1. PICK room \in Rooms(memory, s, MemoryTTL, MaxMemories) :
          LET m == Begun(room[s], NewMemory)
          IN memory' \in {[room EXCEPT ![s] = m]} \cup
                         {[room EXCEPT ![s] = StoredResult(m, r)] : r \in Results(Head(jobs[s]))}
    BY DEF JobEnds
  <2>2. PICK m : IsMemory(m) /\ memory' = [room EXCEPT ![s] = m]
    <3>1. IsMemory(Begun(room[s], NewMemory))
      BY MemoryFound DEF StoresKept
    <3>2. \A r : IsMemory(StoredResult(Begun(room[s], NewMemory), r))
      BY <3>1, MemoryStoresResult
    <3> QED
      BY <2>1, <3>1, <3>2
  <2> QED
    BY <2>2, MemoryPut DEF StoresKept
<1> QED
  BY <1>1, <1>2 DEF JobEnds, ghosts, StoresKept, LabelsKept, BoundsKept

\* The start of one.
LEMMA JobStartStores ==
  ASSUME StoresKept, NEW s \in Sessions, JobStarts(s)
  PROVE  StoresKept'
<1>1. PICK room \in Rooms(memory, s, MemoryTTL, MaxMemories) :
        memory' = [room EXCEPT ![s] = Begun(room[s], NewMemory)]
  BY DEF JobStarts
<1>2. IsMemory(Begun(room[s], NewMemory))
  BY MemoryFound DEF StoresKept
<1>3. MemoriesKept'
  BY <1>1, <1>2, MemoryPut DEF StoresKept
<1> QED
  BY <1>3 DEF JobStarts, ghosts, StoresKept, LabelsKept, JobsKept, IsQueue, BoundsKept

\* Time ages what the stores keep.
LEMMA TickStores ==
  ASSUME StoresKept, Tick
  PROVE  StoresKept'
<1>1. MemoriesKept'
  <2>1. memory' = [s \in Sessions |-> IF memory[s] = None THEN None ELSE AgedMemory(memory[s])]
    BY DEF Tick
  <2>2. ASSUME NEW s \in Sessions, memory[s] # None PROVE IsMemory(memory'[s])
    <3> DEFINE m == memory[s]
               idle == Older(m.idle, MemoryTTL + 2)
               context == AgedContext(m.context)
    <3>1. m = [hist |-> m.hist, context |-> m.context, corrections |-> m.corrections, idle |-> m.idle]
      BY <2>2 DEF StoresKept, MemoriesKept, IsMemory
    <3>2. \A t \in DOMAIN m.hist : IsHistory(m.hist[t])
      BY <2>2 DEF StoresKept, MemoriesKept, IsMemory
    <3>3. memory'[s] = [m EXCEPT !.idle = idle, !.context = context]
      <4>1. memory'[s] = AgedMemory(m)
        BY <2>1, <2>2
      <4> HIDE DEF m
      <4> QED
        BY <4>1 DEF AgedMemory
    <3> HIDE DEF m, idle, context
    <3>4. memory'[s] = [hist |-> m.hist, context |-> context, corrections |-> m.corrections, idle |-> idle]
      BY <3>1, <3>3
    <3> QED
      BY <3>2, <3>4 DEF IsMemory
  <2>3. memory' = [s \in Sessions |-> memory'[s]]
    BY <2>1
  <2>4. \A s \in Sessions : memory'[s] # None => memory[s] # None
    BY <2>1
  <2>5. DOMAIN memory = Sessions /\ DOMAIN memory' = Sessions
    BY <2>1 DEF StoresKept, MemoriesKept
  <2>6. Live(memory') \in SUBSET Live(memory)
    BY <2>4, <2>5 DEF Live
  <2>7. IsFiniteSet(Live(memory)) /\ Cardinality(Live(memory)) <= MaxMemories
    BY DEF StoresKept, MemoriesKept
  <2>8. IsFiniteSet(Live(memory')) /\ Cardinality(Live(memory')) <= Cardinality(Live(memory))
    BY <2>6, <2>7, FS_Subset
  <2>9. Cardinality(Live(memory')) \in Nat /\ Cardinality(Live(memory)) \in Nat
    BY <2>7, <2>8, FS_CardinalityType
  <2>10. Cardinality(Live(memory')) <= MaxMemories
    BY <2>7, <2>8, <2>9, MemoryAssumption
  <2>11. \A s \in Sessions : memory'[s] # None => IsMemory(memory'[s])
    BY <2>2, <2>4
  <2> QED
    BY <2>3, <2>8, <2>10, <2>11 DEF MemoriesKept, IsMemory, IsHistory, Live
<1>2. LabelsKept'
  <2>1. labels' = [s \in Sessions |->
                     [t \in DOMAIN labels[s] |->
                        [labels[s][t] EXCEPT !.age = Older(@, LabelTTL)]]]
    BY DEF Tick
  <2>2. /\ labels' = [s \in Sessions |-> labels'[s]]
        /\ \A s \in Sessions : DOMAIN labels'[s] = DOMAIN labels[s]
    BY <2>1
  <2> QED
    BY <2>2 DEF StoresKept, LabelsKept
<1>3. JobsKept'
  BY DEF Tick, StoresKept, JobsKept, IsQueue
<1>4. BoundsKept'
  <2>1. UNCHANGED <<setup, mixed>> /\ used' = [used EXCEPT !.ticks = @ + 1] /\ used.ticks < MaxTicks
    BY DEF Tick, ghosts
  <2>2. setup.frames \in Nat /\ MaxTicks \in Nat
    BY PipelineAssumption DEF StoresKept, BoundsKept
  <2> QED
    BY <2>1, <2>2 DEF StoresKept, BoundsKept
<1> QED
  BY <1>1, <1>2, <1>3, <1>4 DEF StoresKept

\* The stores begin empty.
LEMMA StoresInit == Init => StoresKept
<1> SUFFICES ASSUME Init PROVE StoresKept
  OBVIOUS
<1>1. /\ memory = [s \in Sessions |-> None] /\ labels = [s \in Sessions |-> <<>>]
      /\ jobs = [s \in Sessions |-> <<>>] /\ mixed = [s \in Sessions |-> FALSE]
      /\ setup \in Setups /\ used = [frames |-> 0, ticks |-> 0]
  BY DEF Init
<1>2. Cardinality({}) = 0 /\ IsFiniteSet({}) /\ DOMAIN <<>> = {}
  BY FS_EmptySet
<1>3. MemoriesKept
  <2>1. Live(memory) = {}
    BY <1>1 DEF Live
  <2>2. \A s \in Sessions : memory[s] = None
    BY <1>1
  <2>3. memory = [s \in Sessions |-> memory[s]]
    BY <1>1
  <2>4. Cardinality({}) <= MaxMemories
    BY <1>2, MemoryAssumption
  <2>5. \A s \in Sessions : memory[s] # None => IsMemory(memory[s])
    BY <2>2
  <2> QED
    BY <1>2, <2>1, <2>3, <2>4, <2>5 DEF MemoriesKept
<1>4. LabelsKept
  BY <1>1, <1>2, SceneAssumption DEF LabelsKept
<1>5. JobsKept
  BY <1>1 DEF JobsKept, IsQueue
<1>6. BoundsKept
  <2>1. setup.frames \in Nat /\ MaxTicks \in Nat
    BY <1>1, PipelineAssumption
  <2> QED
    BY <1>1, <2>1 DEF BoundsKept
<1> QED
  BY <1>3, <1>4, <1>5, <1>6 DEF StoresKept

\* No step breaks the stores.
LEMMA StoresStep ==
  ASSUME StoresKept, [Next]_vars
  PROVE  StoresKept'
<1>1. ASSUME NEW s \in Callers, NEW E \in FrameSet, NEW kind \in Kinds, Detect(s, E, kind)
      PROVE  StoresKept'
  <2>1. s \in Sessions
    BY PipelineAssumption
  <2> QED
    BY <1>1, <2>1, DetectStores
<1>2. ASSUME NEW s \in Streams, NEW E \in FrameSet, StreamFrame(s, E)
      PROVE  StoresKept'
  <2>1. PICK matched, of : TrackFrame(s, E, matched, of, FALSE)
    BY <1>2 DEF StreamFrame
  <2>2. mixed' \in [Sessions -> BOOLEAN]
    BY <2>1, MarksStayBoolean DEF StoresKept, BoundsKept
  <2>3. /\ UNCHANGED <<setup, memory, labels, jobs>>
        /\ used.frames < setup.frames /\ used' = [used EXCEPT !.frames = @ + 1]
    BY <1>2 DEF StreamFrame
  <2>4. BoundsKept'
    BY <2>2, <2>3, FrameCounted DEF StoresKept
  <2> QED
    BY <2>3, <2>4 DEF StoresKept, MemoriesKept, LabelsKept, JobsKept, IsMemory, IsHistory, IsQueue, Live
<1>3. ASSUME NEW s, NEW q, NEW v, Opinion(s, q, v), Answered(s, q), UNCHANGED <<setup, memory, jobs, used>>
      PROVE  StoresKept'
  <2>1. LabelsKept'
    BY <1>3, OpinionKeepsLabels DEF StoresKept
  <2>2. mixed' \in [Sessions -> BOOLEAN]
    BY <1>3, AnswersMark DEF StoresKept, BoundsKept
  <2> QED
    BY <1>3, <2>1, <2>2 DEF StoresKept, MemoriesKept, JobsKept, BoundsKept, IsMemory, IsHistory, IsQueue, Live
<1>4. ASSUME NEW s \in Callers, Answer(s) PROVE StoresKept'
  <2>1. PICK v : Opinion(s, asked[s], v)
    BY <1>4 DEF Answer
  <2>2. Answered(s, asked[s]) /\ UNCHANGED <<setup, memory, jobs, used>>
    BY <1>4 DEF Answer
  <2> QED
    BY <1>3, <2>1, <2>2
<1>5. ASSUME NEW p \in late, LateAnswer(p) PROVE StoresKept'
  <2>1. PICK v : Opinion(p[1], p[2], v)
    BY <1>5 DEF LateAnswer
  <2>2. Answered(p[1], p[2]) /\ UNCHANGED <<setup, memory, jobs, used>>
    BY <1>5 DEF LateAnswer
  <2> QED
    BY <1>3, <2>1, <2>2
<1>6. ASSUME UNCHANGED <<setup, memory, labels, jobs, used, mixed>> PROVE StoresKept'
  BY <1>6 DEF StoresKept, MemoriesKept, LabelsKept, JobsKept, BoundsKept, IsMemory, IsHistory, IsQueue, Live
<1>7. ASSUME NEW s \in Callers, GiveUp(s) PROVE StoresKept'
  BY <1>6, <1>7 DEF GiveUp, stores, ghosts
<1>8. ASSUME NEW s \in Callers, JobEnds(s) PROVE StoresKept'
  <2>1. s \in Sessions
    BY PipelineAssumption
  <2> QED
    BY <1>8, <2>1, JobEndStores
<1>11. ASSUME NEW s \in Callers, JobStarts(s) PROVE StoresKept'
  <2>1. s \in Sessions
    BY PipelineAssumption
  <2> QED
    BY <1>11, <2>1, JobStartStores
<1>9. ASSUME Tick PROVE StoresKept'
  BY <1>9, TickStores
<1>10. ASSUME UNCHANGED vars PROVE StoresKept'
  BY <1>6, <1>10 DEF vars, stores, ghosts
<1> QED
  BY <1>1, <1>2, <1>4, <1>5, <1>7, <1>8, <1>9, <1>10, <1>11 DEF Next

\* The invariant has the type and every cap.
LEMMA TypeFollows == Invariant /\ StoresKept => TypeOK
<1> SUFFICES ASSUME Invariant, StoresKept PROVE TypeOK
  OBVIOUS
<1>1. setup \in Setups /\ used.frames \in 0..setup.frames /\ used.ticks \in 0..MaxTicks
  BY DEF StoresKept, BoundsKept
<1>2. Cardinality(Live(tracker)) <= MaxActive /\ Cardinality(Live(memory)) <= MaxMemories
  BY DEF Invariant, CapsKept, StoresKept, MemoriesKept
<1>3. ASSUME NEW s \in Sessions
      PROVE  tracker[s] = None \/ (/\ tracker[s].next \in Nat \ {0}
                                   /\ Cardinality(DOMAIN tracker[s].tracks) <= MaxTracks
                                   /\ tracker[s].idle <= SessionTTL + 1)
  <2>1. CASE tracker[s] # None
    <3>1. IsTracker(tracker[s])
      BY <2>1 DEF Invariant, GivenBelowNext
    <3> QED
      BY <3>1 DEF IsTracker
  <2> QED
    BY <2>1
<1>4. ASSUME NEW s \in Sessions
      PROVE  memory[s] = None \/ \A t \in DOMAIN memory[s].hist : Len(memory[s].hist[t]) \in 1..Window
  BY DEF StoresKept, MemoriesKept, IsMemory, IsHistory
<1>5. ASSUME NEW s \in Sessions PROVE Cardinality(DOMAIN labels[s]) <= MaxLabels
  BY DEF StoresKept, LabelsKept
<1>6. ASSUME NEW s \in Sessions PROVE Len(jobs[s]) <= 2
  <2>1. IsQueue(jobs[s])
    BY DEF StoresKept, JobsKept
  <2>2. ASSUME NEW q, IsQueue(q) PROVE Len(q) <= 2
    <3>1. CASE q = <<>>
      BY <3>1
    <3>2. CASE \E a : q = <<a>>
      BY <3>2
    <3>3. CASE \E a, b : q = <<a, b>>
      BY <3>3
    <3> QED
      BY <2>2, <3>1, <3>2, <3>3 DEF IsQueue
  <2> QED
    BY <2>1, <2>2
<1>7. ASSUME NEW s \in Sessions PROVE life[s] \in Nat /\ mixed[s] \in BOOLEAN
  BY DEF Invariant, StoresMade, StoresKept, BoundsKept
<1> QED
  BY <1>1, <1>2, <1>3, <1>4, <1>5, <1>6, <1>7 DEF TypeOK
------------------------------------------------------------------------------
(* What was said of a track *)

\* The tracks of life n, seen age ticks ago, are those the session has now, or that is
\* longer ago than the tracker keeps a session: k is its tracker, l its life.
Current(k, l, n, age) ==
  age > SessionTTL \/ (n = l /\ k # None /\ k.idle <= age)

\* A session whose tracks are told apart.
Trusted(s) == setup.risk # "off" /\ ~mixed[s]

LevelSet == {"GREEN", "YELLOW", "ORANGE", "RED"}

IsLabel(e) == e = [age |-> e.age, of |-> e.of] /\ e.age \in Nat

IsFocus(f) ==
  f = [hazard |-> f.hazard, tid |-> f.tid, age |-> f.age, of |-> f.of] /\ f.age \in Nat

IsDraft(d) ==
  /\ d = [risks |-> d.risks, age |-> d.age, of |-> d.of] /\ d.age \in Nat
  /\ \A r \in d.risks : r.level \in LevelSet

IsQuestion(q) ==
  /\ q = [of |-> q.of, age |-> q.age, told |-> q.told, boxes |-> q.boxes] /\ q.age \in Nat
  /\ \A r \in q.told : r.level \in LevelSet

\* A question is about the tracks of the frame it was asked in, and what an answer leaves
\* was asked less than SlowAnswer before.
AsksOf(s, q) ==
  IsQuestion(q) /\ (Trusted(s) /\ q.age < SlowAnswer => Current(tracker[s], life[s], q.of, q.age))

SaidOf(s, e) == Trusted(s) => Current(tracker[s], life[s], e.of, e.age + SlowAnswer - 1)

LabelsSaid ==
  \A s \in Sessions : \A t \in DOMAIN labels[s] :
    IsLabel(labels[s][t]) /\ (labels[s][t].age < LabelTTL => SaidOf(s, labels[s][t]))

FocusSaid ==
  /\ focus = [s \in Sessions |-> focus[s]]
  /\ \A s \in Sessions : \A f \in focus[s] : IsFocus(f) /\ (f.age < FocusTTL => SaidOf(s, f))

DraftsSaid ==
  /\ draft = [s \in Sessions |-> draft[s]]
  /\ \A s \in Sessions : draft[s] # None =>
       IsDraft(draft[s]) /\ (draft[s].age <= CacheTTL => SaidOf(s, draft[s]))

AskedSaid ==
  /\ asked = [s \in Sessions |-> asked[s]]
  /\ \A s \in Sessions : asked[s] # None => AsksOf(s, asked[s])

LateSaid == \A p \in late : p = <<p[1], p[2]>> /\ p[1] \in Sessions /\ AsksOf(p[1], p[2])

Said == LabelsSaid /\ FocusSaid /\ DraftsSaid /\ AskedSaid /\ LateSaid

\* No step makes what is current out of date, and none but time makes it older.
Carried(ticks) ==
  \A s \in Sessions : Trusted(s)' =>
    /\ Trusted(s)
    /\ \A n, a : a \in Int /\ Current(tracker[s], life[s], n, a) =>
                   Current(tracker'[s], life'[s], n, a + ticks)

\* A frame carries over what was said: a session whose tracker begins anew was idle for
\* longer than the limit, and one that is evicted is marked.
LEMMA FrameCarries ==
  ASSUME Invariant, BoundsKept, UNCHANGED setup, NEW s \in Sessions, NEW E, NEW matched, NEW of,
         NEW over, TrackFrame(s, E, matched, of, over)
  PROVE  /\ Carried(0)
         /\ Trusted(s)' => /\ tracker'[s] # None /\ tracker'[s].idle = 0
                           /\ life'[s] = LifeOf(s) /\ ~over
<1>1. CASE setup.risk = "off"
  BY <1>1 DEF Carried, Trusted
<1>2. CASE setup.risk # "off"
  <2> DEFINE l == Tracked(E, Known(s), matched, of)
             swept == SweptStore(tracker, SessionTTL)
  <2>1. PICK room \in Rooms(tracker, s, SessionTTL, MaxActive) : Track(s, room, l, over)
    BY <1>2 DEF TrackFrame
  <2>2. DOMAIN tracker = Sessions /\ DOMAIN life = Sessions /\ SessionTTL \in Nat
    BY TrackerAssumption DEF Invariant, StoresMade
  <2>3. /\ DOMAIN room = Sessions
        /\ \A o \in Sessions : room[o] # None => room[o] = tracker[o]
    <3> HIDE DEF l, swept
    <3>1. IsFiniteSet(Live(tracker)) /\ Cardinality(Live(tracker)) <= MaxActive
      BY DEF Invariant, CapsKept
    <3>2. MaxActive \in Nat \ {0} /\ SessionTTL \in Nat
      BY TrackerAssumption
    <3>3. /\ DOMAIN room = Sessions /\ room = [o \in Sessions |-> room[o]]
          /\ \A o \in Sessions : room[o] # None => room[o] = tracker[o]
          /\ IsFiniteSet(Live(room) \cup {s})
          /\ Cardinality(Live(room) \cup {s}) <= MaxActive
      BY <2>1, <2>2, <3>1, <3>2, RoomIsMade
    <3> QED
      BY <3>3
  <2>4. l.idle = 0 /\ l # None
    <3>1. l.idle = 0 /\ DOMAIN l = {"tracks", "next", "idle"}
      BY DEF Tracked
    <3>2. DOMAIN None = {"none"}
      BY DEF None
    <3> QED
      BY <3>1, <3>2
  <2> HIDE DEF l
  <2>5. /\ tracker'[s] = l /\ life'[s] = LifeOf(s)
        /\ \A o \in Sessions \ {s} : tracker'[o] = room[o] /\ life'[o] = life[o]
    BY <2>1, <2>2, <2>3 DEF Track
  <2>6. ASSUME NEW o \in Sessions, Trusted(o)'
        PROVE  /\ Trusted(o) /\ (o = s => ~over)
               /\ ~(tracker[o] # None /\ tracker[o].idle <= SessionTTL /\ room[o] = None)
    <3> DEFINE lost(p) == tracker[p] # None /\ tracker[p].idle <= SessionTTL /\ room[p] = None
    <3>1. mixed' = [p \in Sessions |-> mixed[p] \/ lost(p) \/ (p = s /\ over)]
      BY <2>1 DEF Track
    <3>2. mixed'[o] = (mixed[o] \/ lost(o) \/ (o = s /\ over))
      BY <3>1
    <3> QED
      BY <2>6, <3>2, Zenon DEF Trusted
  <2>7. ASSUME NEW o \in Sessions, Trusted(o)', NEW n, NEW a \in Int,
               Current(tracker[o], life[o], n, a)
        PROVE  Current(tracker'[o], life'[o], n, a)
    <3>1. CASE a > SessionTTL
      BY <3>1 DEF Current
    <3>2. CASE n = life[o] /\ tracker[o] # None /\ tracker[o].idle <= a /\ ~(a > SessionTTL)
      <4>1. tracker[o].idle \in Nat
        <5>1. IsTracker(tracker[o])
          BY <3>2 DEF Invariant, GivenBelowNext
        <5> QED
          BY <5>1, <2>2 DEF IsTracker
      <4>2. tracker[o].idle <= SessionTTL
        BY <4>1, <3>2, <2>2
      <4>3. CASE o = s
        <5>1. swept[s] = tracker[s]
          BY <2>2, <3>2, <4>1, <4>2, <4>3 DEF SweptStore
        <5>2. LifeOf(s) = life[s]
          BY <5>1, <3>2, <4>3 DEF LifeOf
        <5>3. 0 <= a
          BY <3>2, <4>1
        <5> QED
          BY <5>2, <5>3, <2>4, <2>5, <3>2, <4>3 DEF Current
      <4>4. CASE o # s
        <5>1. room[o] # None
          BY <2>6, <2>7, <3>2, <4>2
        <5>2. tracker'[o] = tracker[o] /\ life'[o] = life[o]
          BY <5>1, <2>3, <2>5, <4>4
        <5> QED
          BY <5>2, <3>2 DEF Current
      <4> QED
        BY <4>3, <4>4
    <3> QED
      BY <2>7, <3>1, <3>2 DEF Current
  <2>8. Carried(0)
    BY <2>6, <2>7 DEF Carried
  <2> QED
    BY <2>4, <2>5, <2>6, <2>8
<1> QED
  BY <1>1, <1>2

\* Nor does a step that leaves the tracker alone.
LEMMA StillCarries ==
  ASSUME UNCHANGED <<setup, tracker, life>>, \A s \in Sessions : mixed[s] => mixed'[s]
  PROVE  Carried(0)
<1>1. \A s \in Sessions : Trusted(s)' => Trusted(s)
  BY DEF Trusted
<1>2. \A a \in Int : a + 0 = a
  OBVIOUS
<1> QED
  BY <1>1, <1>2 DEF Carried

\* An answer marks and never unmarks.
LEMMA AnsweredCarries ==
  ASSUME mixed \in [Sessions -> BOOLEAN], NEW s \in Sessions, NEW q, Answered(s, q),
         UNCHANGED <<setup, tracker>>
  PROVE  Carried(0) /\ (Trusted(s)' => ~(q.age >= SlowAnswer))
<1>1. mixed'[s] = (mixed[s] \/ q.age >= SlowAnswer)
  BY DEF Answered
<1>2. \A o \in Sessions \ {s} : mixed'[o] = mixed[o]
  BY DEF Answered
<1>3. \A o \in Sessions : mixed[o] => mixed'[o]
  <2>1. mixed[s] => mixed'[s]
    BY <1>1, Zenon
  <2> QED
    BY <1>2, <2>1
<1>4. Carried(0)
  BY <1>3, StillCarries DEF Answered
<1>5. ~mixed'[s] => ~(q.age >= SlowAnswer)
  BY <1>1, Zenon
<1> QED
  BY <1>4, <1>5 DEF Trusted

\* Time makes everything older alike.
LEMMA TickCarries ==
  ASSUME Invariant, Tick
  PROVE  Carried(1)
<1>1. UNCHANGED <<setup, mixed, life>>
  BY DEF Tick, ghosts
<1>2. \A s \in Sessions : Trusted(s)' => Trusted(s)
  BY <1>1 DEF Trusted
<1>3. ASSUME NEW s \in Sessions, NEW n, NEW a \in Int, Current(tracker[s], life[s], n, a)
      PROVE  Current(tracker'[s], life'[s], n, a + 1)
  <2>0. SessionTTL \in Nat
    BY TrackerAssumption
  <2>1. CASE a > SessionTTL
    BY <2>0, <2>1 DEF Current
  <2>2. CASE n = life[s] /\ tracker[s] # None /\ tracker[s].idle <= a
    <3> DEFINE k == tracker[s]
    <3>1. /\ k = [tracks |-> k.tracks, next |-> k.next, idle |-> k.idle]
          /\ k.idle \in Nat
      <4>1. IsTracker(k)
        BY <2>2 DEF Invariant, GivenBelowNext
      <4> QED
        BY <4>1, <2>0 DEF IsTracker
    <3>2. tracker'[s] = [k EXCEPT !.idle = Older(k.idle, SessionTTL + 1)]
      BY <2>2 DEF Tick
    <3>3. tracker'[s] = [tracks |-> k.tracks, next |-> k.next, idle |-> Older(k.idle, SessionTTL + 1)]
      <4> HIDE DEF k
      <4> QED
        BY <3>1, <3>2
    <3>4. DOMAIN None = {"none"} /\ DOMAIN tracker'[s] = {"tracks", "next", "idle"}
      BY <3>3 DEF None
    <3>5. CASE k.idle < SessionTTL + 1
      <4>1. tracker'[s].idle = k.idle + 1
        BY <3>3, <3>5 DEF Older
      <4> QED
        BY <4>1, <3>1, <3>4, <1>1, <2>2 DEF Current
    <3>6. CASE ~(k.idle < SessionTTL + 1)
      <4>1. a + 1 > SessionTTL
        BY <3>6, <3>1, <2>2, <2>0
      <4> QED
        BY <4>1 DEF Current
    <3> QED
      BY <3>5, <3>6
  <2> QED
    BY <1>3, <2>1, <2>2 DEF Current
<1> QED
  BY <1>2, <1>3 DEF Carried

\* What was said stays said.
LEMMA EntryStays ==
  ASSUME Carried(0), NEW s \in Sessions, NEW e, e.age \in Nat, SaidOf(s, e)
  PROVE  Trusted(s)' => Current(tracker'[s], life'[s], e.of, e.age + SlowAnswer - 1)
<1>1. SlowAnswer \in Nat
  BY PipelineAssumption
<1>2. e.age + SlowAnswer - 1 \in Int /\ e.age + SlowAnswer - 1 + 0 = e.age + SlowAnswer - 1
  BY <1>1
<1> QED
  BY <1>2 DEF Carried, SaidOf

\* A question stays about the tracks it was asked about.
LEMMA QuestionStays ==
  ASSUME Carried(0), NEW s \in Sessions, NEW q, AsksOf(s, q)
  PROVE  AsksOf(s, q)'
<1>1. q.age \in Int /\ q.age + 0 = q.age
  BY DEF AsksOf, IsQuestion
<1> QED
  BY <1>1 DEF AsksOf, Carried, IsQuestion

\* A store that is left alone stays as true as it was.
LEMMA StoresStay ==
  ASSUME Carried(0)
  PROVE  /\ LabelsSaid /\ UNCHANGED labels => LabelsSaid'
         /\ FocusSaid /\ UNCHANGED focus => FocusSaid'
         /\ DraftsSaid /\ UNCHANGED draft => DraftsSaid'
         /\ AskedSaid /\ UNCHANGED asked => AskedSaid'
         /\ LateSaid /\ UNCHANGED late => LateSaid'
<1>1. ASSUME LabelsSaid, UNCHANGED labels PROVE LabelsSaid'
  BY <1>1, EntryStays DEF LabelsSaid, SaidOf, IsLabel
<1>2. ASSUME FocusSaid, UNCHANGED focus PROVE FocusSaid'
  BY <1>2, EntryStays DEF FocusSaid, SaidOf, IsFocus
<1>3. ASSUME DraftsSaid, UNCHANGED draft PROVE DraftsSaid'
  BY <1>3, EntryStays DEF DraftsSaid, SaidOf, IsDraft
<1>4. ASSUME AskedSaid, UNCHANGED asked PROVE AskedSaid'
  <2>1. ASSUME NEW s \in Sessions, asked'[s] # None PROVE AsksOf(s, asked[s])'
    <3>1. AsksOf(s, asked[s])
      BY <1>4, <2>1 DEF AskedSaid
    <3> DEFINE q == asked[s]
    <3>2. q' = q
      BY <1>4
    <3>3. q.age \in Int /\ q.age + 0 = q.age
      BY <3>1 DEF AsksOf, IsQuestion
    <3> QED
      BY <1>4, <3>1, <3>3 DEF AsksOf, Carried, IsQuestion
  <2> QED
    BY <1>4, <2>1 DEF AskedSaid
<1>5. ASSUME LateSaid, UNCHANGED late PROVE LateSaid'
  <2>1. ASSUME NEW p \in late PROVE p = <<p[1], p[2]>> /\ p[1] \in Sessions /\ AsksOf(p[1], p[2])'
    BY <1>5, QuestionStays DEF LateSaid
  <2> QED
    BY <1>5, <2>1 DEF LateSaid
<1> QED
  BY <1>1, <1>2, <1>3, <1>4, <1>5

\* What an answer says was asked less than SlowAnswer before, or marks the session.
LEMMA AnswerIsRecent ==
  ASSUME Invariant, Carried(0), NEW s \in Sessions, NEW q, AsksOf(s, q),
         Trusted(s)' => ~(q.age >= SlowAnswer)
  PROVE  Trusted(s)' => Current(tracker'[s], life'[s], q.of, 0 + SlowAnswer - 1)
<1> SUFFICES ASSUME Trusted(s)' PROVE Current(tracker'[s], life'[s], q.of, 0 + SlowAnswer - 1)
  OBVIOUS
<1>1. SlowAnswer \in Nat /\ SessionTTL \in Nat /\ q.age \in Nat /\ q.age <= SlowAnswer - 1
  BY PipelineAssumption, TrackerAssumption DEF AsksOf, IsQuestion
<1>2. Current(tracker[s], life[s], q.of, q.age)
  BY <1>1 DEF AsksOf, Carried
<1>3. tracker[s] # None => tracker[s].idle \in Nat
  <2>1. tracker[s] # None => IsTracker(tracker[s])
    BY DEF Invariant, GivenBelowNext
  <2> QED
    BY <1>1, <2>1 DEF IsTracker
<1>4. Current(tracker[s], life[s], q.of, SlowAnswer - 1)
  BY <1>1, <1>2, <1>3 DEF Current
<1>5. SlowAnswer - 1 \in Int /\ SlowAnswer - 1 + 0 = 0 + SlowAnswer - 1
  BY <1>1
<1>6. Current(tracker'[s], life'[s], q.of, SlowAnswer - 1 + 0)
  BY <1>4, <1>5 DEF Carried
<1> QED
  BY <1>5, <1>6

\* What an opinion puts into the label and focus memories.
LEMMA OpinionSaid ==
  ASSUME Carried(0), LabelsKept, LabelsSaid, FocusSaid, NEW s \in Sessions, NEW q, NEW v,
         Opinion(s, q, v),
         Trusted(s)' => Current(tracker'[s], life'[s], q.of, 0 + SlowAnswer - 1)
  PROVE  LabelsSaid' /\ FocusSaid'
<1>1. LabelsSaid'
  <2> DEFINE tids == UNION {id \in DOMAIN v : v[id].label}
  <2>1. PICK kept \in LabelStored(labels[s], tids, q.of) : labels' = [labels EXCEPT ![s] = kept]
    BY DEF Opinion
  <2> HIDE DEF tids
  <2>2. \A o \in Sessions : labels'[o] = IF o = s THEN kept ELSE labels[o]
    BY <2>1 DEF LabelsKept
  <2>3. PICK k : /\ kept = [t \in k |-> IF t \in tids THEN [age |-> 0, of |-> q.of] ELSE labels[s][t]]
                 /\ k \subseteq {t \in DOMAIN labels[s] : labels[s][t].age < LabelTTL} \cup tids
    BY <2>1 DEF LabelStored
  <2>4. ASSUME NEW t \in DOMAIN kept
        PROVE  /\ IsLabel(kept[t])
               /\ Trusted(s)' => Current(tracker'[s], life'[s], kept[t].of, kept[t].age + SlowAnswer - 1)
    <3>1. CASE t \in tids
      <4>1. kept[t].age = 0 /\ kept[t].of = q.of /\ IsLabel(kept[t])
        BY <2>3, <3>1 DEF IsLabel
      <4> QED
        BY <4>1
    <3>2. CASE t \notin tids
      <4>1. kept[t] = labels[s][t] /\ t \in DOMAIN labels[s] /\ labels[s][t].age < LabelTTL
        BY <2>3, <3>2
      <4>2. IsLabel(labels[s][t]) /\ SaidOf(s, labels[s][t])
        BY <4>1 DEF LabelsSaid
      <4>3. labels[s][t].age \in Nat
        BY <4>2 DEF IsLabel
      <4> QED
        BY <4>1, <4>2, <4>3, EntryStays
    <3> QED
      BY <3>1, <3>2
  <2>5. ASSUME NEW o \in Sessions \ {s}, NEW t \in DOMAIN labels[o]
        PROVE  /\ IsLabel(labels[o][t])
               /\ labels[o][t].age < LabelTTL /\ Trusted(o)' =>
                    Current(tracker'[o], life'[o], labels[o][t].of, labels[o][t].age + SlowAnswer - 1)
    BY EntryStays DEF LabelsSaid, IsLabel
  <2> QED
    BY <2>2, <2>4, <2>5 DEF LabelsSaid, SaidOf, IsLabel
<1>2. FocusSaid'
  <2>1. PICK news : focus' = [focus EXCEPT ![s] = FocusStored(focus[s], news, q.of)]
    BY DEF Opinion
  <2>2. /\ focus' = [o \in Sessions |-> focus'[o]]
        /\ \A o \in Sessions : focus'[o] = IF o = s THEN FocusStored(focus[s], news, q.of) ELSE focus[o]
    BY <2>1 DEF FocusSaid
  <2>3. ASSUME NEW f \in FocusStored(focus[s], news, q.of)
        PROVE  /\ IsFocus(f)
               /\ Trusted(s)' => Current(tracker'[s], life'[s], f.of, f.age + SlowAnswer - 1)
    <3>1. CASE f \in focus[s] /\ f.age < FocusTTL
      <4>1. IsFocus(f) /\ SaidOf(s, f)
        BY <3>1 DEF FocusSaid
      <4> QED
        BY <4>1, EntryStays DEF IsFocus
    <3>2. CASE \E n : f = [hazard |-> n.hazard, tid |-> n.tid, age |-> 0, of |-> q.of]
      <4>1. f.age = 0 /\ f.of = q.of /\ IsFocus(f)
        BY <3>2 DEF IsFocus
      <4> QED
        BY <4>1
    <3> QED
      BY <3>1, <3>2 DEF FocusStored
  <2>4. ASSUME NEW o \in Sessions \ {s}, NEW f \in focus[o]
        PROVE  /\ IsFocus(f)
               /\ f.age < FocusTTL /\ Trusted(o)' =>
                    Current(tracker'[o], life'[o], f.of, f.age + SlowAnswer - 1)
    <3>1. IsFocus(f) /\ (f.age < FocusTTL => SaidOf(o, f))
      BY DEF FocusSaid
    <3> QED
      BY <3>1, EntryStays DEF IsFocus
  <2> QED
    BY <2>2, <2>3, <2>4 DEF FocusSaid, SaidOf, IsFocus
<1> QED
  BY <1>1, <1>2

\* An age that has not reached its limit is one tick more.
LEMMA AgesByOne ==
  ASSUME NEW age \in Nat, NEW limit \in Nat
  PROVE  /\ Older(age, limit) \in Nat
         /\ Older(age, limit) < limit => Older(age, limit) = age + 1 /\ age < limit
BY DEF Older

\* What was said is one tick older.
LEMMA EntryAges ==
  ASSUME Carried(1), NEW s \in Sessions, NEW e, e.age \in Nat, SaidOf(s, e)
  PROVE  Trusted(s)' => Current(tracker'[s], life'[s], e.of, e.age + 1 + SlowAnswer - 1)
<1>1. SlowAnswer \in Nat
  BY PipelineAssumption
<1>2. e.age + SlowAnswer - 1 \in Int /\ e.age + SlowAnswer - 1 + 1 = e.age + 1 + SlowAnswer - 1
  BY <1>1
<1> QED
  BY <1>2 DEF Carried, SaidOf

\* A question in flight, or abandoned, is one tick older.
LEMMA QuestionAges ==
  ASSUME Carried(1), NEW s \in Sessions, NEW q, AsksOf(s, q)
  PROVE  AsksOf(s, Waiting(q))'
<1> DEFINE age == Older(q.age, SlowAnswer)
           w == Waiting(q)
<1>1. SlowAnswer \in Nat /\ q.age \in Nat
  BY PipelineAssumption DEF AsksOf, IsQuestion
<1>2. age \in Nat /\ (age < SlowAnswer => age = q.age + 1 /\ q.age < SlowAnswer)
  BY <1>1, AgesByOne
<1>3. q = [of |-> q.of, age |-> q.age, told |-> q.told, boxes |-> q.boxes]
  BY DEF AsksOf, IsQuestion
<1>4. w = [q EXCEPT !.age = age]
  BY DEF Waiting
<1>5. w = [of |-> q.of, age |-> age, told |-> q.told, boxes |-> q.boxes]
  <2> HIDE DEF age, w
  <2> QED
    BY <1>3, <1>4
<1> HIDE DEF age
<1>6. IsQuestion(w)
  <2> HIDE DEF w
  <2> QED
    BY <1>2, <1>5 DEF AsksOf, IsQuestion
<1>7. Trusted(s)' /\ w.age < SlowAnswer => Current(tracker'[s], life'[s], w.of, w.age)
  <2> HIDE DEF w
  <2>1. w.age = age /\ w.of = q.of
    BY <1>5
  <2> QED
    BY <1>1, <1>2, <2>1 DEF AsksOf, Carried
<1> QED
  BY <1>6, <1>7 DEF AsksOf

\* With time everything said ages as the tracker does.
LEMMA TickSaid ==
  ASSUME Invariant, LabelsKept, Said, Tick
  PROVE  Said'
<1>1. Carried(1)
  BY TickCarries
<1>2. LabelTTL \in Nat /\ FocusTTL \in Nat /\ CacheTTL \in Nat
  BY SceneAssumption
<1>3. LabelsSaid'
  <2>1. labels' = [s \in Sessions |->
                     [t \in DOMAIN labels[s] |-> [labels[s][t] EXCEPT !.age = Older(@, LabelTTL)]]]
    BY DEF Tick
  <2>2. ASSUME NEW s \in Sessions, NEW t \in DOMAIN labels[s]
        PROVE  /\ IsLabel(labels'[s][t])
               /\ labels'[s][t].age < LabelTTL /\ Trusted(s)' =>
                    Current(tracker'[s], life'[s], labels'[s][t].of, labels'[s][t].age + SlowAnswer - 1)
    <3> DEFINE e == labels[s][t]
               age == Older(e.age, LabelTTL)
    <3>1. IsLabel(e) /\ (e.age < LabelTTL => SaidOf(s, e))
      BY DEF Said, LabelsSaid
    <3>2. labels'[s][t] = [e EXCEPT !.age = age]
      BY <2>1
    <3>3. labels'[s][t] = [age |-> age, of |-> e.of]
      <4> HIDE DEF e, age
      <4> QED
        BY <3>1, <3>2 DEF IsLabel
    <3>4. age \in Nat /\ (age < LabelTTL => age = e.age + 1 /\ e.age < LabelTTL)
      BY <1>2, <3>1, AgesByOne DEF IsLabel
    <3> HIDE DEF age
    <3>5. IsLabel(labels'[s][t]) /\ labels'[s][t].age = age /\ labels'[s][t].of = e.of
      BY <3>3, <3>4 DEF IsLabel
    <3>6. age < LabelTTL /\ Trusted(s)' => Current(tracker'[s], life'[s], e.of, age + SlowAnswer - 1)
      BY <1>1, <3>1, <3>4, EntryAges DEF IsLabel
    <3> QED
      BY <3>5, <3>6
  <2>3. \A s \in Sessions : DOMAIN labels'[s] = DOMAIN labels[s]
    BY <2>1
  <2> QED
    BY <2>2, <2>3 DEF LabelsSaid, SaidOf, IsLabel
<1>4. FocusSaid'
  <2>1. focus' = [s \in Sessions |-> {[f EXCEPT !.age = Older(@, FocusTTL)] : f \in focus[s]}]
    BY DEF Tick
  <2>2. ASSUME NEW s \in Sessions, NEW g \in focus'[s]
        PROVE  /\ IsFocus(g)
               /\ g.age < FocusTTL /\ Trusted(s)' =>
                    Current(tracker'[s], life'[s], g.of, g.age + SlowAnswer - 1)
    <3>1. PICK e \in focus[s] : g = [e EXCEPT !.age = Older(e.age, FocusTTL)]
      BY <2>1
    <3> DEFINE age == Older(e.age, FocusTTL)
    <3>2. IsFocus(e) /\ (e.age < FocusTTL => SaidOf(s, e))
      BY DEF Said, FocusSaid
    <3>3. g = [hazard |-> e.hazard, tid |-> e.tid, age |-> age, of |-> e.of]
      <4> HIDE DEF age
      <4>1. g = [e EXCEPT !.age = age]
        BY <3>1 DEF age
      <4> QED
        BY <3>2, <4>1 DEF IsFocus
    <3>4. age \in Nat /\ (age < FocusTTL => age = e.age + 1 /\ e.age < FocusTTL)
      BY <1>2, <3>2, AgesByOne DEF IsFocus
    <3> HIDE DEF age
    <3>5. IsFocus(g) /\ g.age = age /\ g.of = e.of
      BY <3>3, <3>4 DEF IsFocus
    <3>6. age < FocusTTL /\ Trusted(s)' => Current(tracker'[s], life'[s], e.of, age + SlowAnswer - 1)
      BY <1>1, <3>2, <3>4, EntryAges DEF IsFocus
    <3> QED
      BY <3>5, <3>6
  <2>3. focus' = [s \in Sessions |-> focus'[s]]
    BY <2>1
  <2> QED
    BY <2>2, <2>3 DEF FocusSaid, SaidOf, IsFocus
<1>5. DraftsSaid'
  <2>1. draft' = [s \in Sessions |-> IF draft[s] = None THEN None
                    ELSE [draft[s] EXCEPT !.age = Older(@, CacheTTL + 1)]]
    BY DEF Tick
  <2>2. ASSUME NEW s \in Sessions, draft'[s] # None
        PROVE  /\ IsDraft(draft'[s])
               /\ draft'[s].age <= CacheTTL /\ Trusted(s)' =>
                    Current(tracker'[s], life'[s], draft'[s].of, draft'[s].age + SlowAnswer - 1)
    <3> DEFINE e == draft[s]
               age == Older(e.age, CacheTTL + 1)
    <3>1. IsDraft(e) /\ (e.age <= CacheTTL => SaidOf(s, e)) /\ draft'[s] = [e EXCEPT !.age = age]
      BY <2>1, <2>2 DEF Said, DraftsSaid
    <3>2. draft'[s] = [risks |-> e.risks, age |-> age, of |-> e.of]
      <4> HIDE DEF e, age
      <4> QED
        BY <3>1 DEF IsDraft
    <3>3. age \in Nat /\ (age <= CacheTTL => age = e.age + 1 /\ e.age <= CacheTTL)
      <4>1. CacheTTL + 1 \in Nat /\ e.age \in Nat
        BY <1>2, <3>1 DEF IsDraft
      <4>2. age \in Nat /\ (age < CacheTTL + 1 => age = e.age + 1 /\ e.age < CacheTTL + 1)
        BY <4>1, AgesByOne
      <4> HIDE DEF e, age
      <4> QED
        BY <4>1, <4>2, <1>2
    <3> HIDE DEF age
    <3>4. IsDraft(draft'[s]) /\ draft'[s].age = age /\ draft'[s].of = e.of
      BY <3>1, <3>2, <3>3 DEF IsDraft
    <3>5. age <= CacheTTL /\ Trusted(s)' => Current(tracker'[s], life'[s], e.of, age + SlowAnswer - 1)
      BY <1>1, <3>1, <3>3, EntryAges DEF IsDraft
    <3> QED
      BY <3>4, <3>5
  <2>3. draft' = [s \in Sessions |-> draft'[s]]
    BY <2>1
  <2> QED
    BY <2>2, <2>3 DEF DraftsSaid, SaidOf, IsDraft
<1>6. AskedSaid'
  <2>1. asked' = [s \in Sessions |-> IF asked[s] = None THEN None ELSE Waiting(asked[s])]
    BY DEF Tick
  <2>2. ASSUME NEW s \in Sessions, asked'[s] # None
        PROVE  /\ IsQuestion(asked'[s])
               /\ Trusted(s)' /\ asked'[s].age < SlowAnswer =>
                    Current(tracker'[s], life'[s], asked'[s].of, asked'[s].age)
    <3>1. asked'[s] = Waiting(asked[s]) /\ AsksOf(s, asked[s])
      BY <2>1, <2>2 DEF Said, AskedSaid
    <3>2. \A q : AsksOf(s, q) =>
            /\ IsQuestion(Waiting(q))
            /\ Trusted(s)' /\ Waiting(q).age < SlowAnswer =>
                 Current(tracker'[s], life'[s], Waiting(q).of, Waiting(q).age)
      BY <1>1, QuestionAges DEF AsksOf
    <3> QED
      BY <3>1, <3>2
  <2>3. asked' = [s \in Sessions |-> asked'[s]]
    BY <2>1
  <2> QED
    BY <2>2, <2>3 DEF AskedSaid, AsksOf, IsQuestion
<1>7. LateSaid'
  <2>1. late' = {<<p[1], Waiting(p[2])>> : p \in late}
    BY DEF Tick
  <2>2. ASSUME NEW r \in late'
        PROVE  r = <<r[1], r[2]>> /\ r[1] \in Sessions /\ AsksOf(r[1], r[2])'
    <3>1. PICK p \in late : r = <<p[1], Waiting(p[2])>>
      BY <2>1
    <3>2. p[1] \in Sessions /\ AsksOf(p[1], p[2])
      BY DEF Said, LateSaid
    <3>3. AsksOf(p[1], Waiting(p[2]))'
      BY <1>1, <3>2, QuestionAges
    <3>4. r = <<r[1], r[2]>> /\ r[1] = p[1] /\ r[2] = Waiting(p[2])
      BY <3>1
    <3> QED
      BY <3>2, <3>3, <3>4
  <2> QED
    BY <2>2 DEF LateSaid
<1> QED
  BY <1>3, <1>4, <1>5, <1>6, <1>7 DEF Said
------------------------------------------------------------------------------
(* The risks of a frame *)

IsRisk(r) ==
  /\ r = [hazard |-> r.hazard, state |-> r.state, level |-> r.level, alert |-> r.alert,
          tids |-> r.tids, box |-> r.box, by |-> r.by, review |-> r.review,
          candidate |-> r.candidate]
  /\ r.level \in LevelSet

IsEngineRisk(r) == IsRisk(r) /\ r.by = "engine" /\ ~r.candidate

\* The levels and their order.
LEMMA RanksOfLevels ==
  /\ Rank("GREEN") = 1 /\ Rank("YELLOW") = 2 /\ Rank("ORANGE") = 3 /\ Rank("RED") = 4
  /\ Levels[1] = "GREEN" /\ Levels[2] = "YELLOW" /\ Levels[3] = "ORANGE" /\ Levels[4] = "RED"
  /\ DOMAIN Levels = 1..4
<1>1. DOMAIN Levels = 1..4
  BY DEF Levels
<1>2. Levels[1] = "GREEN" /\ Levels[2] = "YELLOW" /\ Levels[3] = "ORANGE" /\ Levels[4] = "RED"
  BY DEF Levels
<1>3. \A i \in 1..4 : i = 1 \/ i = 2 \/ i = 3 \/ i = 4
  OBVIOUS
<1> QED
  BY <1>1, <1>2, <1>3 DEF Rank

\* Whatever the score, its band is one of the matrix.
LEMMA BandHasLevel ==
  ASSUME NEW score
  PROVE  BandOf(Bands, score).level \in LevelSet
<1> DEFINE hits == {i \in DOMAIN Bands : Bands[i].min <= score /\ score <= Bands[i].max}
<1>1. DOMAIN Bands = 1..4 /\ Len(Bands) = 4
  BY DEF Bands
<1>2. \A i \in 1..4 : Bands[i].level \in LevelSet
  BY DEF Bands, Band, LevelSet
<1>3. hits \subseteq 1..4
  BY <1>1
<1>4. BandOf(Bands, score) = IF hits # {} THEN Bands[CHOOSE i \in hits : \A j \in hits : i <= j]
                             ELSE IF score < Bands[1].min THEN Bands[1] ELSE Bands[Len(Bands)]
  BY DEF BandOf, Min
<1> HIDE DEF hits
<1>5. ASSUME hits # {} PROVE (CHOOSE i \in hits : \A j \in hits : i <= j) \in 1..4
  <2>1. \E i \in hits : \A j \in hits : i <= j
    <3>1. CASE 1 \in hits
      BY <3>1, <1>3
    <3>2. CASE 1 \notin hits /\ 2 \in hits
      BY <3>2, <1>3
    <3>3. CASE 1 \notin hits /\ 2 \notin hits /\ 3 \in hits
      BY <3>3, <1>3
    <3>4. CASE 1 \notin hits /\ 2 \notin hits /\ 3 \notin hits
      <4>1. hits = {4}
        <5>1. \A i \in hits : i = 4
          BY <3>4, <1>3
        <5> QED
          BY <5>1, <1>5
      <4> QED
        BY <4>1
    <3> QED
      BY <3>1, <3>2, <3>3, <3>4
  <2> QED
    BY <2>1, <1>3
<1>6. \E i \in 1..4 : BandOf(Bands, score) = Bands[i]
  <2>1. CASE hits # {}
    BY <2>1, <1>4, <1>5
  <2>2. CASE hits = {} /\ score < Bands[1].min
    BY <2>2, <1>4
  <2>3. CASE hits = {} /\ ~(score < Bands[1].min)
    BY <2>3, <1>1, <1>4
  <2> QED
    BY <2>1, <2>2, <2>3
<1> QED
  BY <1>2, <1>6

\* The engine's risks.
LEMMA EngineRisks ==
  ASSUME NEW E, NEW tracks, NEW r \in Scored(E, tracks)
  PROVE  IsEngineRisk(r)
<1>1. PICK f : \E tids : r =
        Risk(f.hazard, f.state, Evaluate(SL[f.sl][1], SL[f.sl][2]).level,
             Evaluate(SL[f.sl][1], SL[f.sl][2]).alert, tids, E[f.at].box, "engine")
  BY DEF Scored
<1>2. Evaluate(SL[f.sl][1], SL[f.sl][2]).level \in LevelSet
  BY BandHasLevel DEF Evaluate
<1> HIDE DEF Evaluate
<1> QED
  BY <1>1, <1>2 DEF Risk, IsEngineRisk, IsRisk

\* The risk a draft brings into a frame.
DraftRisk(d, tids, box, candidate) ==
  [Risk(d.hazard, d.state, d.level, FALSE, tids, box, "vlm") EXCEPT !.candidate = candidate]

IsDraftRisk(r, box, candidate) ==
  IsRisk(r) /\ r.by = "vlm" /\ r.box = box /\ r.candidate = candidate

\* It is a risk like the engine's.
LEMMA DraftRiskIsRisk ==
  ASSUME NEW d, d.level \in LevelSet, NEW tids, NEW box, NEW candidate \in BOOLEAN
  PROVE  IsDraftRisk(DraftRisk(d, tids, box, candidate), box, candidate)
<1> DEFINE base == Risk(d.hazard, d.state, d.level, FALSE, tids, box, "vlm")
           risk == DraftRisk(d, tids, box, candidate)
<1>1. /\ base = [hazard |-> base.hazard, state |-> base.state, level |-> base.level,
                 alert |-> base.alert, tids |-> base.tids, box |-> base.box, by |-> base.by,
                 review |-> base.review, candidate |-> base.candidate]
      /\ base.level = d.level /\ base.by = "vlm" /\ base.box = box
  BY DEF Risk
<1>2. risk = [base EXCEPT !.candidate = candidate]
  BY DEF DraftRisk
<1> HIDE DEF base, risk
<1>3. IsDraftRisk(risk, box, candidate)
  BY <1>1, <1>2 DEF IsRisk, IsDraftRisk
<1> QED
  BY <1>3 DEF risk

\* It is shown on a track only when it is fresh enough and names a track of the frame, else
\* without a box.
LEMMA DraftRisks ==
  ASSUME NEW d, d.level \in LevelSet, NEW tracks, NEW age, NEW r \in SceneDraft(d, tracks, age)
  PROVE  \/ IsDraftRisk(r, None, TRUE)
         \/ age <= LinkedTTL /\ DOMAIN tracks # {} /\ \E box : IsDraftRisk(r, box, FALSE)
<1> DEFINE links == LinkedTo(d, tracks, age)
<1>1. CASE links # {}
  <2>1. PICK k : r = DraftRisk(d, {tracks[k].id}, tracks[k].box, FALSE)
    BY <1>1 DEF SceneDraft, DraftRisk
  <2>2. age <= LinkedTTL /\ DOMAIN tracks # {}
    BY <1>1 DEF LinkedTo
  <2>3. IsDraftRisk(DraftRisk(d, {tracks[k].id}, tracks[k].box, FALSE), tracks[k].box, FALSE)
    BY DraftRiskIsRisk
  <2> QED
    BY <2>1, <2>2, <2>3
<1>2. CASE links = {}
  <2>1. r = DraftRisk(d, d.tids, None, TRUE)
    BY <1>2 DEF SceneDraft, DraftRisk
  <2>2. IsDraftRisk(DraftRisk(d, d.tids, None, TRUE), None, TRUE)
    BY DraftRiskIsRisk
  <2> QED
    BY <2>1, <2>2
<1> QED
  BY <1>1, <1>2

\* The risks of an object near an edge have a level of the matrix.
LEMMA EdgeLevels ==
  ASSUME NEW m, NEW E, NEW rows, NEW r \in EdgeRisks(m, E, rows)
  PROVE  r.level \in LevelSet
<1>1. PICK k : r = Risk("object_near_edge", "latent", "YELLOW", FALSE, {rows[k].id}, None, "temporal")
  BY DEF EdgeRisks
<1> QED
  BY <1>1 DEF Risk, LevelSet
------------------------------------------------------------------------------
(* The steps of a question *)

\* What /detect asks is about the tracks of the frame.
LEMMA DetectAsks ==
  ASSUME Invariant, BoundsKept, Said, NEW s \in Sessions, NEW E, NEW kind, Detect(s, E, kind)
  PROVE  Carried(0) /\ AskedSaid'
<1>1. PICK matched, of, over : TrackFrame(s, E, matched, of, over)
  BY Zenon DEF Detect
<1>2. UNCHANGED <<setup, labels, focus, draft, late>>
  BY DEF Detect
<1>3. /\ Carried(0)
      /\ Trusted(s)' => tracker'[s] # None /\ tracker'[s].idle = 0 /\ life'[s] = LifeOf(s)
  BY <1>1, <1>2, FrameCarries
<1>4. \E room, tracks : Compose(s, E, kind, tracks, room)
  BY DEF Detect
<1>5. PICK room, tracks : Compose(s, E, kind, tracks, room)
  BY <1>4
<1>6. \E rows, m : \E edges \in {EdgeRisks(m, E, rows)} : Judge(s, E, kind, tracks, room, m, edges)
  BY <1>5 DEF Compose
<1>7. PICK rows, m, edges : edges = EdgeRisks(m, E, rows) /\ Judge(s, E, kind, tracks, room, m, edges)
  BY <1>6
<1>8. \E ids : Ask(s, E, kind, ids, RisksOf(E, tracks), edges)
  BY <1>7 DEF Judge
<1>9. PICK ids : Ask(s, E, kind, ids, RisksOf(E, tracks), edges)
  BY <1>8
<1>10. CASE UNCHANGED asked
  BY <1>3, <1>10, StoresStay DEF Said
<1>11. ASSUME NEW read \in SUBSET (RisksOf(E, tracks) \cup edges),
              asked' = [asked EXCEPT ![s] = Question(E, ids, read, LifeOf(s))]
       PROVE  AskedSaid'
  <2> DEFINE q == Question(E, ids, read, LifeOf(s))
  <2>1. \A r \in read : r.level \in LevelSet
    <3>1. \A r \in RisksOf(E, tracks) : r.level \in LevelSet
      BY EngineRisks DEF RisksOf, IsEngineRisk, IsRisk
    <3>2. \A r \in edges : r.level \in LevelSet
      BY <1>7, EdgeLevels
    <3> QED
      BY <3>1, <3>2
  <2>2. \A r \in MockDrafts(read) : r.level \in LevelSet
    BY <2>1 DEF MockDrafts, Draft
  <2>3. IsQuestion(q) /\ q.of = LifeOf(s) /\ q.age = 0
    <3>1. q.told \in {MockDrafts(read), {}}
      BY DEF Question
    <3>2. \A r \in q.told : r.level \in LevelSet
      BY <3>1, <2>2
    <3>3. q = [of |-> q.of, age |-> q.age, told |-> q.told, boxes |-> q.boxes] /\ q.of = LifeOf(s) /\ q.age = 0
      BY DEF Question
    <3> HIDE DEF q
    <3> QED
      BY <3>2, <3>3 DEF IsQuestion
  <2> HIDE DEF q
  <2>4. /\ asked' = [o \in Sessions |-> asked'[o]]
        /\ asked'[s] = q
        /\ \A o \in Sessions \ {s} : asked'[o] = asked[o]
    BY <1>11 DEF q, Said, AskedSaid
  <2>5. Trusted(s)' => Current(tracker'[s], life'[s], q.of, q.age)
    BY <1>3, <2>3 DEF Current
  <2>6. ASSUME NEW o \in Sessions \ {s}, asked[o] # None
        PROVE  /\ IsQuestion(asked[o])
               /\ Trusted(o)' /\ asked[o].age < SlowAnswer =>
                    Current(tracker'[o], life'[o], asked[o].of, asked[o].age)
    <3>1. \A w : AsksOf(o, w) =>
            /\ IsQuestion(w)
            /\ Trusted(o)' /\ w.age < SlowAnswer => Current(tracker'[o], life'[o], w.of, w.age)
      BY <1>3, QuestionStays DEF AsksOf
    <3> QED
      BY <3>1, <2>6 DEF Said, AskedSaid
  <2>7. ASSUME NEW o \in Sessions, asked'[o] # None
        PROVE  /\ IsQuestion(asked'[o])
               /\ Trusted(o)' /\ asked'[o].age < SlowAnswer =>
                    Current(tracker'[o], life'[o], asked'[o].of, asked'[o].age)
    <3>1. CASE o = s
      BY <2>3, <2>4, <2>5, <3>1
    <3>2. CASE o # s
      BY <2>4, <2>6, <2>7, <3>2
    <3> QED
      BY <3>1, <3>2
  <2> QED
    BY <2>4, <2>7 DEF AskedSaid, AsksOf, IsQuestion
<1>12. UNCHANGED asked \/ \E read \in SUBSET (RisksOf(E, tracks) \cup edges) :
         asked' = [asked EXCEPT ![s] = Question(E, ids, read, LifeOf(s))]
  <2> DEFINE risks == RisksOf(E, tracks)
  <2>1. risks \in SUBSET (risks \cup edges) /\ {} \in SUBSET (risks \cup edges)
        /\ risks \cup edges \in SUBSET (risks \cup edges)
    OBVIOUS
  <2> HIDE DEF risks
  <2>2. Ask(s, E, kind, ids, risks, edges)
    BY <1>9 DEF risks
  <2>3. UNCHANGED asked \/ \E read \in SUBSET (risks \cup edges) :
          asked' = [asked EXCEPT ![s] = Question(E, ids, read, LifeOf(s))]
    BY <2>1, <2>2 DEF Ask
  <2> QED
    BY <2>3 DEF risks
<1> QED
  BY <1>3, <1>10, <1>11, <1>12

\* A question that ends leaves the others as they are.
LEMMA QuestionEnds ==
  ASSUME Carried(0), AskedSaid, NEW s, asked' = [asked EXCEPT ![s] = None]
  PROVE  AskedSaid'
<1>1. asked' = [o \in Sessions |-> asked'[o]]
  BY DEF AskedSaid
<1>2. ASSUME NEW o \in Sessions, asked'[o] # None
      PROVE  /\ IsQuestion(asked'[o])
             /\ Trusted(o)' /\ asked'[o].age < SlowAnswer =>
                  Current(tracker'[o], life'[o], asked'[o].of, asked'[o].age)
  <2>1. asked'[o] = asked[o] /\ AsksOf(o, asked[o])
    BY <1>2 DEF AskedSaid
  <2>2. \A w : AsksOf(o, w) =>
          /\ IsQuestion(w)
          /\ Trusted(o)' /\ w.age < SlowAnswer => Current(tracker'[o], life'[o], w.of, w.age)
    BY QuestionStays DEF AsksOf
  <2> QED
    BY <2>1, <2>2
<1> QED
  BY <1>1, <1>2 DEF AskedSaid, AsksOf, IsQuestion

\* The model answers with levels of the matrix.
LEMMA VerdictLevels ==
  ASSUME NEW q, NEW v \in Verdicts(q), NEW id \in DOMAIN v
  PROVE  v[id].level \in LevelSet
<1>1. v[id] \in Decisions
  BY DEF Verdicts
<1>2. \A k \in DOMAIN Levels : Levels[k] \in LevelSet
  BY RanksOfLevels DEF LevelSet
<1>3. v[id].level \in {Levels[k] : k \in DOMAIN Levels}
  BY <1>1, PipelineAssumption
<1> QED
  BY <1>2, <1>3

\* An answer in time is about the tracks the session has, or marks the session.
LEMMA AnswerSaid ==
  ASSUME Invariant, StoresKept, Said, NEW s \in Sessions, Answer(s)
  PROVE  Said'
<1> DEFINE q == asked[s]
<1>1. AsksOf(s, q)
  BY DEF Answer, Said, AskedSaid
<1>2. Carried(0) /\ (Trusted(s)' => ~(q.age >= SlowAnswer))
  <2>1. Answered(s, q) /\ UNCHANGED <<setup, tracker>> /\ mixed \in [Sessions -> BOOLEAN]
    BY DEF Answer, StoresKept, BoundsKept
  <2> HIDE DEF q
  <2> QED
    BY <2>1, AnsweredCarries
<1>3. Trusted(s)' => Current(tracker'[s], life'[s], q.of, 0 + SlowAnswer - 1)
  <2> HIDE DEF q
  <2> QED
    BY <1>1, <1>2, AnswerIsRecent
<1>4. PICK v \in Verdicts(q) :
        /\ Opinion(s, q, v)
        /\ Cached(s, q, q.told \cup {BoxDraft(v[id].hazard, v[id].level, id) : id \in DOMAIN v})
  BY DEF Answer
<1>5. LabelsSaid' /\ FocusSaid'
  <2> HIDE DEF q
  <2> QED
    BY <1>2, <1>3, <1>4, OpinionSaid DEF Said, StoresKept
<1>6. AskedSaid'
  <2>1. asked' = [asked EXCEPT ![s] = None]
    BY DEF Answer
  <2> QED
    BY <1>2, <2>1, QuestionEnds DEF Said
<1>7. LateSaid'
  BY <1>2, StoresStay DEF Answer, Said
<1>8. DraftsSaid'
  <2> DEFINE risks == q.told \cup {BoxDraft(v[id].hazard, v[id].level, id) : id \in DOMAIN v}
             d == [risks |-> risks, age |-> 0, of |-> q.of]
  <2>1. \A r \in risks : r.level \in LevelSet
    <3>1. \A r \in q.told : r.level \in LevelSet
      BY <1>1 DEF AsksOf, IsQuestion
    <3>2. \A id \in DOMAIN v : BoxDraft(v[id].hazard, v[id].level, id).level \in LevelSet
      BY VerdictLevels DEF BoxDraft, Draft
    <3> QED
      BY <3>1, <3>2
  <2>2. draft' = [draft EXCEPT ![s] = d]
    BY <1>4 DEF Cached
  <2> HIDE DEF risks
  <2>3. IsDraft(d) /\ d.age = 0 /\ d.of = q.of
    BY <2>1 DEF IsDraft
  <2> HIDE DEF d, q
  <2>4. /\ draft' = [o \in Sessions |-> draft'[o]]
        /\ draft'[s] = d /\ \A o \in Sessions \ {s} : draft'[o] = draft[o]
    BY <2>2 DEF Said, DraftsSaid
  <2>5. ASSUME NEW o \in Sessions \ {s}, draft[o] # None
        PROVE  /\ IsDraft(draft[o])
               /\ draft[o].age <= CacheTTL /\ Trusted(o)' =>
                    Current(tracker'[o], life'[o], draft[o].of, draft[o].age + SlowAnswer - 1)
    BY <2>5, <1>2, EntryStays DEF Said, DraftsSaid, IsDraft
  <2> QED
    BY <1>3, <2>3, <2>4, <2>5 DEF DraftsSaid, SaidOf, IsDraft
<1> QED
  BY <1>5, <1>6, <1>7, <1>8 DEF Said

\* So is an answer that comes too late to be waited for.
LEMMA LateAnswerSaid ==
  ASSUME Invariant, StoresKept, Said, NEW p \in late, LateAnswer(p)
  PROVE  Said'
<1>1. p[1] \in Sessions /\ AsksOf(p[1], p[2])
  BY DEF Said, LateSaid
<1>2. Carried(0) /\ (Trusted(p[1])' => ~(p[2].age >= SlowAnswer))
  BY <1>1, AnsweredCarries DEF LateAnswer, StoresKept, BoundsKept
<1>3. Trusted(p[1])' => Current(tracker'[p[1]], life'[p[1]], p[2].of, 0 + SlowAnswer - 1)
  BY <1>1, <1>2, AnswerIsRecent
<1>4. PICK v : Opinion(p[1], p[2], v)
  BY DEF LateAnswer
<1>5. LabelsSaid' /\ FocusSaid'
  BY <1>1, <1>2, <1>3, <1>4, OpinionSaid DEF Said, StoresKept
<1>6. DraftsSaid' /\ AskedSaid'
  BY <1>2, StoresStay DEF LateAnswer, Said
<1>7. LateSaid'
  <2>1. late' \subseteq late
    BY DEF LateAnswer
  <2>2. ASSUME NEW r \in late PROVE r = <<r[1], r[2]>> /\ r[1] \in Sessions /\ AsksOf(r[1], r[2])'
    BY <1>2, QuestionStays DEF Said, LateSaid
  <2> QED
    BY <2>1, <2>2 DEF LateSaid
<1> QED
  BY <1>5, <1>6, <1>7 DEF Said

\* A question that is given up on goes on as an abandoned one.
LEMMA GiveUpSaid ==
  ASSUME Said, NEW s \in Sessions, GiveUp(s)
  PROVE  Said'
<1>1. Carried(0)
  BY StillCarries DEF GiveUp, stores, ghosts
<1>2. LabelsSaid' /\ FocusSaid' /\ DraftsSaid'
  BY <1>1, StoresStay DEF GiveUp, stores, Said
<1>3. AskedSaid'
  <2>1. asked' = [asked EXCEPT ![s] = None]
    BY DEF GiveUp
  <2> QED
    BY <1>1, <2>1, QuestionEnds DEF Said
<1>4. LateSaid'
  <2>1. late' \subseteq late \cup {<<s, asked[s]>>}
    BY DEF GiveUp
  <2>2. ASSUME NEW r \in late PROVE r = <<r[1], r[2]>> /\ r[1] \in Sessions /\ AsksOf(r[1], r[2])'
    BY <1>1, QuestionStays DEF Said, LateSaid
  <2>3. AsksOf(s, asked[s])
    BY DEF GiveUp, Said, AskedSaid
  <2>4. ASSUME NEW r, r = <<s, asked[s]>>
        PROVE  r = <<r[1], r[2]>> /\ r[1] \in Sessions /\ AsksOf(r[1], r[2])'
    <3>1. r = <<r[1], r[2]>> /\ r[1] = s /\ r[2] = asked[s]
      BY <2>4
    <3>2. AsksOf(r[1], r[2])
      BY <3>1, <2>3
    <3> QED
      BY <3>1, <3>2, <1>1, QuestionStays
  <2> QED
    BY <2>1, <2>2, <2>4 DEF LateSaid
<1> QED
  BY <1>2, <1>3, <1>4 DEF Said

\* Nothing has been said at first.
LEMMA SaidInit == Init => Said
<1> SUFFICES ASSUME Init PROVE Said
  OBVIOUS
<1>1. DOMAIN <<>> = {}
  OBVIOUS
<1> QED
  BY <1>1 DEF Init, Said, LabelsSaid, FocusSaid, DraftsSaid, AskedSaid, LateSaid

\* No step breaks what was said.
LEMMA SaidStep ==
  ASSUME Invariant, StoresKept, Said, [Next]_vars
  PROVE  Said'
<1>callers. Callers \subseteq Sessions /\ Streams \subseteq Sessions
  BY PipelineAssumption
<1>1. ASSUME NEW s \in Callers, NEW E \in FrameSet, NEW kind \in Kinds, Detect(s, E, kind)
      PROVE  Said'
  <2>1. Carried(0) /\ AskedSaid'
    BY <1>1, <1>callers, DetectAsks DEF StoresKept
  <2>2. UNCHANGED <<labels, focus, draft, late>>
    BY <1>1 DEF Detect
  <2> QED
    BY <2>1, <2>2, StoresStay DEF Said
<1>2. ASSUME NEW s \in Streams, NEW E \in FrameSet, StreamFrame(s, E) PROVE Said'
  <2>1. PICK matched, of : TrackFrame(s, E, matched, of, FALSE)
    BY <1>2 DEF StreamFrame
  <2>2. UNCHANGED <<setup, labels, focus, draft, asked, late>>
    BY <1>2 DEF StreamFrame
  <2>3. Carried(0)
    BY <2>1, <2>2, <1>callers, FrameCarries DEF StoresKept
  <2> QED
    BY <2>2, <2>3, StoresStay DEF Said
<1>3. ASSUME NEW s \in Callers, Answer(s) PROVE Said'
  BY <1>3, <1>callers, AnswerSaid
<1>4. ASSUME NEW s \in Callers, GiveUp(s) PROVE Said'
  BY <1>4, <1>callers, GiveUpSaid
<1>5. ASSUME NEW p \in late, LateAnswer(p) PROVE Said'
  BY <1>5, LateAnswerSaid
<1>6. ASSUME UNCHANGED <<setup, tracker, life, mixed, labels, focus, draft, asked, late>>
      PROVE  Said'
  <2>1. Carried(0)
    BY <1>6, StillCarries
  <2> QED
    BY <1>6, <2>1, StoresStay DEF Said
<1>7. ASSUME NEW s \in Callers, JobEnds(s) PROVE Said'
  BY <1>6, <1>7 DEF JobEnds, ghosts
<1>10. ASSUME NEW s \in Callers, JobStarts(s) PROVE Said'
  BY <1>6, <1>10 DEF JobStarts, ghosts
<1>8. ASSUME Tick PROVE Said'
  BY <1>8, TickSaid DEF StoresKept
<1>9. ASSUME UNCHANGED vars PROVE Said'
  BY <1>6, <1>9 DEF vars, stores, ghosts
<1> QED
  BY <1>1, <1>2, <1>3, <1>4, <1>5, <1>7, <1>8, <1>9, <1>10 DEF Next
------------------------------------------------------------------------------
(* The answer of a frame *)

\* What the answer says of a frame whose tracks and edge risks are these.
Answers(s, E, kind, tracks, edges) ==
  LET ids == EntityIds(E, tracks)
      risks == RisksOf(E, tracks)
      scene == SceneOf(s, kind, tracks, risks)
  IN /\ reply'.session = s /\ reply'.kind = kind /\ reply'.E = E
     /\ reply'.ids = ids /\ reply'.risks = risks /\ reply'.edges = edges
     /\ reply'.context = Suppressed(s, scene, ids, risks \cup edges)
     /\ reply'.scene = Filtered(scene, reply'.context)
     /\ reply'.colours = Stamped(reply'.scene, E, ids)
     /\ reply'.labels = LabelsOf(s, ids)

\* /detect answers so, and gives tracks only when the engine is on.
LEMMA DetectAnswers ==
  ASSUME NEW s, NEW E, NEW kind, Detect(s, E, kind)
  PROVE  \E tracks, edges :
           Answers(s, E, kind, tracks, edges) /\ (DOMAIN tracks # {} => setup.risk = "on")
<1>1. \E of, room : \E tracks \in {TracksOf(s, E, of)} : Compose(s, E, kind, tracks, room)
  BY DEF Detect
<1>2. PICK of, hall, tracks : tracks = TracksOf(s, E, of) /\ Compose(s, E, kind, tracks, hall)
  BY <1>1
<1>3. \E room, m, edges : Judge(s, E, kind, tracks, room, m, edges)
  BY <1>2 DEF Compose
<1>4. PICK room, m, edges : Judge(s, E, kind, tracks, room, m, edges)
  BY <1>3
<1> DEFINE ids == EntityIds(E, tracks)
           risks == RisksOf(E, tracks)
           scene == SceneOf(s, kind, tracks, risks)
           context == Suppressed(s, scene, ids, risks \cup edges)
<1>5. \E level : Respond(s, E, kind, tracks, ids, risks, edges, level, m, scene, context)
  BY <1>4, Zenon DEF Judge
<1>6. Answers(s, E, kind, tracks, edges)
  <2> HIDE DEF ids, risks, scene, context
  <2>1. PICK level : Respond(s, E, kind, tracks, ids, risks, edges, level, m, scene, context)
    BY <1>5
  <2>2. /\ reply'.session = s /\ reply'.kind = kind /\ reply'.E = E
        /\ reply'.ids = ids /\ reply'.risks = risks /\ reply'.edges = edges
        /\ reply'.context = context
        /\ reply'.scene = Filtered(scene, context)
        /\ reply'.colours = Stamped(Filtered(scene, context), E, ids)
        /\ reply'.labels = LabelsOf(s, ids)
    BY <2>1 DEF Respond
  <2> QED
    BY <2>2 DEF Answers, ids, risks, scene, context
<1>7. DOMAIN tracks # {} => setup.risk = "on"
  <2>1. DOMAIN <<>> = {}
    OBVIOUS
  <2> QED
    BY <1>2, <2>1 DEF TracksOf
<1> QED
  BY <1>6, <1>7

\* An entity has an id only in a frame with tracks.
LEMMA IdsOfTracks ==
  ASSUME NEW E, NEW tracks, NEW i \in DOMAIN EntityIds(E, tracks)
  PROVE  i \in DOMAIN E /\ (EntityIds(E, tracks)[i] # {} => DOMAIN tracks # {})
BY DEF EntityIds

\* A risk of the scene: the engine's, or a draft's.
LEMMA SceneOfFrame ==
  ASSUME DraftsSaid, NEW s \in Sessions, NEW kind, NEW tracks, NEW risks,
         NEW r \in SceneOf(s, kind, tracks, risks)
  PROVE  \/ r \in risks
         \/ IsDraftRisk(r, None, TRUE)
         \/ /\ \E box : IsDraftRisk(r, box, FALSE)
            /\ DOMAIN tracks # {}
            /\ draft[s] # None /\ draft[s].age <= CacheTTL
            /\ PollOnly(kind) \/ draft[s].age <= LinkedTTL
<1> DEFINE d == draft[s]
           served == Served(s, kind)
<1>1. r \in SceneRisks(risks, served, tracks)
  BY DEF SceneOf
<1>2. CASE served = None
  BY <1>1, <1>2 DEF SceneRisks
<1>3. CASE served # None
  <2>1. /\ d # None /\ ~(d.age > CacheTTL)
        /\ served = IF PollOnly(kind) THEN [d EXCEPT !.age = 0] ELSE d
    BY <1>3 DEF Served
  <2>2. IsDraft(d) /\ CacheTTL \in Nat
    BY <2>1, SceneAssumption DEF DraftsSaid
  <2>3. d.age <= CacheTTL
    BY <2>1, <2>2 DEF IsDraft
  <2>4. served.risks = d.risks /\ (PollOnly(kind) \/ served.age = d.age)
    <3> HIDE DEF d, served
    <3> QED
      BY <2>1, <2>2 DEF IsDraft
  <2>5. CASE r \notin risks
    <3> HIDE DEF d, served
    <3>1. PICK e \in d.risks : r \in SceneDraft(e, tracks, served.age)
      BY <1>1, <1>3, <2>4, <2>5 DEF SceneRisks
    <3>2. e.level \in LevelSet
      BY <2>2, <3>1 DEF IsDraft
    <3>3. \/ IsDraftRisk(r, None, TRUE)
          \/ served.age <= LinkedTTL /\ DOMAIN tracks # {} /\ \E box : IsDraftRisk(r, box, FALSE)
      BY <3>1, <3>2, DraftRisks
    <3> QED
      BY <2>1, <2>3, <2>4, <3>3 DEF d
  <2> QED
    BY <2>5
<1> QED
  BY <1>2, <1>3

\* Every risk of the scene is one.
LEMMA SceneIsRisks ==
  ASSUME DraftsSaid, NEW s \in Sessions, NEW E, NEW kind, NEW tracks,
         NEW r \in SceneOf(s, kind, tracks, RisksOf(E, tracks))
  PROVE  IsRisk(r)
<1>1. r \in RisksOf(E, tracks) => IsRisk(r)
  BY EngineRisks DEF RisksOf, IsEngineRisk
<1> QED
  BY <1>1, SceneOfFrame DEF IsDraftRisk

\* What the filter leaves of a scene: a risk as it was, or a context marked as a candidate.
LEMMA FilterMarks ==
  ASSUME NEW scene, \A q \in scene : IsRisk(q), NEW context \in SUBSET scene,
         NEW r \in Filtered(scene, context)
  PROVE  \/ r \in scene \ context
         \/ \E q \in context : /\ IsRisk(r) /\ r.candidate = TRUE
                               /\ r.level = q.level /\ r.box = q.box
<1>1. CASE r \in scene \ context
  BY <1>1
<1>2. CASE \E q \in context : r = [q EXCEPT !.candidate = TRUE]
  <2>1. PICK q \in context : r = [q EXCEPT !.candidate = TRUE]
    BY <1>2
  <2>2. IsRisk(q)
    OBVIOUS
  <2>3. IsRisk(r) /\ r.candidate = TRUE /\ r.level = q.level /\ r.box = q.box
    BY <2>1, <2>2 DEF IsRisk
  <2> QED
    BY <2>3
<1> QED
  BY <1>1, <1>2 DEF Filtered

\* Whatever a label, a focus or a draft says was asked so short ago that the tracker cannot
\* have begun anew since: the life of an entry and the delay of an answer that is not slow
\* add up to no more than the limit of an idle session.
AnswersExpire ==
  /\ LabelTTL + SlowAnswer <= SessionTTL + 2
  /\ FocusTTL + SlowAnswer <= SessionTTL + 2
  /\ CacheTTL + 1 + SlowAnswer <= SessionTTL + 2

\* A label that is shown is of the track it is shown on.
LEMMA LabelsAnswered ==
  ASSUME AnswersExpire, NEW s \in Sessions, NEW E, NEW kind, NEW tracks, NEW edges,
         Answers(s, E, kind, tracks, edges), DOMAIN tracks # {} => setup.risk = "on",
         UNCHANGED <<setup, labels>>, LabelsSaid'
  PROVE  LabelsOfTheirTrack'
<1> DEFINE ids == EntityIds(E, tracks)
           shown(i) == {t \in ids[i] \cap DOMAIN labels[s] : labels[s][t].age < LabelTTL}
<1>1. reply'.session = s /\ reply'.labels \in {Applied(labels[s], ids), <<>>} /\ DOMAIN <<>> = {}
  BY DEF Answers, LabelsOf
<1>2. ASSUME NEW i \in DOMAIN reply'.labels, ~mixed'[s] PROVE reply'.labels[i].of = life'[s]
  <2>1. /\ i \in DOMAIN ids /\ shown(i) # {}
        /\ reply'.labels[i] = labels[s][CHOOSE t \in shown(i) : TRUE]
    <3> HIDE DEF ids
    <3> QED
      BY <1>1, <1>2 DEF Applied
  <2>2. PICK t \in shown(i) : reply'.labels[i] = labels[s][t]
    <3> HIDE DEF shown
    <3> QED
      BY <2>1
  <2>3. setup.risk = "on"
    BY <2>1, <2>2, IdsOfTracks
  <2>4. Trusted(s)'
    BY <1>2, <2>3 DEF Trusted
  <2>5. IsLabel(labels'[s][t]) /\ SaidOf(s, labels[s][t])'
    BY <2>2 DEF LabelsSaid
  <2>6. LabelTTL \in Nat /\ LabelTTL + SlowAnswer <= SessionTTL + 2
    BY SceneAssumption DEF AnswersExpire
  <2>7. SlowAnswer \in Nat /\ SessionTTL \in Nat
    BY PipelineAssumption, TrackerAssumption
  <2> DEFINE e == labels[s][t]
  <2>8. Current(tracker'[s], life'[s], e.of, e.age + SlowAnswer - 1) /\ e.age \in Nat /\ e.age < LabelTTL
    BY <2>2, <2>4, <2>5 DEF SaidOf, IsLabel
  <2> HIDE DEF e
  <2>9. ~(e.age + SlowAnswer - 1 > SessionTTL)
    BY <2>6, <2>7, <2>8
  <2>10. e.of = life'[s]
    BY <2>8, <2>9 DEF Current
  <2> QED
    BY <2>2, <2>10 DEF e
<1> QED
  BY <1>1, <1>2 DEF LabelsOfTheirTrack

\* A context is one of a primary risk whose track the frame shows.
LEMMA SuppressionAnswered ==
  ASSUME AnswersExpire, NEW s \in Sessions, NEW E, NEW kind, NEW tracks, NEW edges,
         Answers(s, E, kind, tracks, edges), DOMAIN tracks # {} => setup.risk = "on",
         UNCHANGED <<setup, focus>>, FocusSaid'
  PROVE  SuppressionJustified'
<1> DEFINE ids == EntityIds(E, tracks)
           risks == RisksOf(E, tracks) \cup edges
           scene == SceneOf(s, kind, tracks, RisksOf(E, tracks))
<1>1. /\ reply'.session = s /\ reply'.E = E /\ reply'.ids = ids
      /\ reply'.risks \cup reply'.edges = risks
      /\ reply'.context \in {Context(scene, focus[s], ids, risks), {}}
  BY DEF Answers, Suppressed
<1> HIDE DEF scene, risks
<1>2. ASSUME NEW r \in reply'.context
      PROVE  \E i \in DOMAIN E, f \in focus[s] :
               /\ f.tid \in ids[i] /\ f.hazard = r.hazard
               /\ mixed'[s] \/ f.of = life'[s]
               /\ \E own \in risks : own.hazard = r.hazard /\ f.tid \in own.tids
  <2>1. PICK f \in focus[s] : FocusValid(f, ids, risks) /\ f.hazard = r.hazard
    BY <1>1, <1>2 DEF Context
  <2>2. f.age < FocusTTL
    BY <2>1 DEF FocusValid
  <2>3. PICK i \in DOMAIN ids : f.tid \in ids[i]
    BY <2>1 DEF FocusValid
  <2>4. \E own \in risks : own.hazard = r.hazard /\ f.tid \in own.tids
    BY <2>1 DEF FocusValid
  <2>5. i \in DOMAIN E /\ setup.risk = "on"
    BY <2>3, IdsOfTracks
  <2>6. ASSUME ~mixed'[s] PROVE f.of = life'[s]
    <3>1. Trusted(s)'
      BY <2>5, <2>6 DEF Trusted
    <3>2. Current(tracker'[s], life'[s], f.of, f.age + SlowAnswer - 1) /\ f.age \in Nat
      BY <2>2, <3>1 DEF FocusSaid, SaidOf, IsFocus
    <3>3. FocusTTL \in Nat /\ FocusTTL + SlowAnswer <= SessionTTL + 2
      BY SceneAssumption DEF AnswersExpire
    <3>4. SlowAnswer \in Nat /\ SessionTTL \in Nat
      BY PipelineAssumption, TrackerAssumption
    <3>5. ~(f.age + SlowAnswer - 1 > SessionTTL)
      BY <2>2, <3>2, <3>3, <3>4
    <3> QED
      BY <3>2, <3>5 DEF Current
  <2> QED
    BY <2>1, <2>3, <2>4, <2>5, <2>6
<1> QED
  BY <1>1, <1>2 DEF SuppressionJustified

\* A draft that is shown on a track is fresh and of that track.
LEMMA DraftsAnswered ==
  ASSUME AnswersExpire, NEW s \in Sessions, NEW E, NEW kind, NEW tracks, NEW edges,
         Answers(s, E, kind, tracks, edges), DOMAIN tracks # {} => setup.risk = "on",
         UNCHANGED <<setup, draft>>, DraftsSaid, DraftsSaid'
  PROVE  LinkedDraftsFresh'
<1> DEFINE risks == RisksOf(E, tracks)
           scene == SceneOf(s, kind, tracks, risks)
<1>1. /\ reply'.session = s /\ reply'.kind = kind
      /\ reply'.scene = Filtered(scene, reply'.context) /\ reply'.context \in SUBSET scene
  <2>1. \A ids, q : Suppressed(s, scene, ids, q) \in SUBSET scene
    <3> HIDE DEF scene
    <3> QED
      BY DEF Suppressed, Context
  <2> QED
    BY <2>1 DEF Answers
<1>2. ASSUME NEW r \in reply'.scene, r.by = "vlm", ~r.candidate
      PROVE  /\ PollOnly(kind) \/ draft'[s].age <= LinkedTTL
             /\ mixed'[s] \/ draft'[s].of = life'[s]
  <2>1. r \in scene
    <3>1. \A q \in scene : IsRisk(q)
      BY SceneIsRisks
    <3>2. r \in scene \ reply'.context \/ r.candidate = TRUE
      <4> DEFINE context == reply'.context
      <4>1. context \in SUBSET scene /\ r \in Filtered(scene, context)
        BY <1>1
      <4> HIDE DEF scene, context
      <4>2. \/ r \in scene \ context
            \/ \E q \in context : /\ IsRisk(r) /\ r.candidate = TRUE
                                  /\ r.level = q.level /\ r.box = q.box
        BY <4>1, <3>1, FilterMarks
      <4>3. r \in scene \ context \/ r.candidate = TRUE
        BY <4>2, Zenon
      <4> QED
        BY <4>3 DEF context
    <3> QED
      BY <1>2, <3>2
  <2>2. r \notin risks
    BY <1>2, EngineRisks DEF RisksOf, IsEngineRisk
  <2>3. ~IsDraftRisk(r, None, TRUE)
    BY <1>2, Zenon DEF IsDraftRisk
  <2>4. /\ DOMAIN tracks # {} /\ draft[s] # None /\ draft[s].age <= CacheTTL
        /\ PollOnly(kind) \/ draft[s].age <= LinkedTTL
    <3> HIDE DEF risks
    <3> QED
      BY <2>1, <2>2, <2>3, SceneOfFrame
  <2>5. ASSUME ~mixed'[s] PROVE draft'[s].of = life'[s]
    <3>1. Trusted(s)'
      BY <2>4, <2>5 DEF Trusted
    <3> DEFINE d == draft[s]
    <3>2. Current(tracker'[s], life'[s], d.of, d.age + SlowAnswer - 1) /\ d.age \in Nat
      BY <2>4, <3>1 DEF DraftsSaid, SaidOf, IsDraft
    <3>3. CacheTTL \in Nat /\ CacheTTL + 1 + SlowAnswer <= SessionTTL + 2
      BY SceneAssumption DEF AnswersExpire
    <3>4. SlowAnswer \in Nat /\ SessionTTL \in Nat
      BY PipelineAssumption, TrackerAssumption
    <3>5. ~(d.age + SlowAnswer - 1 > SessionTTL)
      BY <2>4, <3>2, <3>3, <3>4
    <3> HIDE DEF d
    <3>6. d.of = life'[s]
      BY <3>2, <3>5 DEF Current
    <3> QED
      BY <3>6 DEF d
  <2> QED
    BY <2>4, <2>5
<1> QED
  BY <1>1, <1>2 DEF LinkedDraftsFresh

\* The highest of some levels is as high as each of them.
LEMMA HighestOf ==
  ASSUME NEW levels \in SUBSET LevelSet, NEW l \in levels
  PROVE  Highest(levels) \in {Levels[k] : k \in Rank(l)..4}
<1> DEFINE ranks == {1} \cup {Rank(h) : h \in levels}
           most == CHOOSE m \in ranks : \A x \in ranks : m >= x
<1>1. Highest(levels) = Levels[most]
  BY DEF Highest, Max
<1>2. ranks \subseteq 1..4 /\ Rank(l) \in ranks /\ 1 \in ranks
  BY RanksOfLevels DEF LevelSet
<1> HIDE DEF ranks
<1>3. \E m \in ranks : \A x \in ranks : m >= x
  <2>1. CASE 4 \in ranks
    BY <2>1, <1>2
  <2>2. CASE 4 \notin ranks /\ 3 \in ranks
    BY <2>2, <1>2
  <2>3. CASE 4 \notin ranks /\ 3 \notin ranks /\ 2 \in ranks
    BY <2>3, <1>2
  <2>4. CASE 4 \notin ranks /\ 3 \notin ranks /\ 2 \notin ranks
    BY <2>4, <1>2
  <2> QED
    BY <2>1, <2>2, <2>3, <2>4
<1>4. most \in ranks /\ \A x \in ranks : most >= x
  BY <1>3
<1> HIDE DEF most
<1>5. most \in Rank(l)..4
  <2>1. most \in 1..4 /\ Rank(l) \in 1..4
    BY <1>2, <1>4
  <2>2. most >= Rank(l)
    BY <1>2, <1>4
  <2> QED
    BY <2>1, <2>2
<1> QED
  BY <1>1, <1>5

\* A box is the same as itself.
LEMMA SameBoxAsItself ==
  ASSUME NEW b \in [x : Int, y : Int, w : Int, h : Int]
  PROVE  SameBox(b, b, 12)
<1>1. CentreX(b) \in Int /\ CentreY(b) \in Int
  BY DEF CentreX, CentreY
<1>2. CentreX(b) - CentreX(b) = 0 /\ CentreY(b) - CentreY(b) = 0
  BY <1>1
<1>3. 0 * 0 + 0 * 0 <= 4 * 12 * 12
  OBVIOUS
<1>4. Within(b, b, 12)
  BY <1>2, <1>3 DEF Within
<1> QED
  BY <1>4 DEF SameBox

\* An alert of the answer, or of the engine when there is a scene, is in the scene as it was.
LEMMA AlertsStay ==
  ASSUME DraftsSaid, NEW s \in Sessions, NEW E, NEW kind, NEW tracks, NEW edges,
         Answers(s, E, kind, tracks, edges), reply'.scene # {},
         NEW r \in reply'.scene \cup reply'.risks, Rank(r.level) >= Rank("ORANGE"), r.box # None
  PROVE  r \in reply'.scene /\ ~r.candidate /\ r.level \in LevelSet
<1> DEFINE ids == EntityIds(E, tracks)
           risks == RisksOf(E, tracks)
           scene == SceneOf(s, kind, tracks, risks)
           all == risks \cup edges
           context == Suppressed(s, scene, ids, all)
<1>1. reply'.risks = risks /\ reply'.scene = Filtered(scene, context)
  BY DEF Answers
<1>2. context \in SUBSET scene /\ \A q \in context : Rank(q.level) < Rank("ORANGE")
  <2> HIDE DEF scene, ids, all
  <2> QED
    BY DEF Suppressed, Context
<1>3. \A q \in scene : IsRisk(q)
  BY SceneIsRisks
<1>4. Rank("ORANGE") = 3 /\ \A l \in LevelSet : Rank(l) \in 1..4
  BY RanksOfLevels DEF LevelSet
<1> HIDE DEF context
<1>5. r \in scene
  <2>1. CASE r \in reply'.scene
    <3>0. r \in Filtered(scene, context) /\ context \in SUBSET scene
      BY <1>1, <1>2, <2>1
    <3> HIDE DEF scene
    <3>1. \/ r \in scene \ context
          \/ \E q \in context : /\ IsRisk(r) /\ r.candidate = TRUE
                                /\ r.level = q.level /\ r.box = q.box
      BY <3>0, <1>3, FilterMarks
    <3>2. ASSUME NEW q \in context, r.level = q.level PROVE FALSE
      <4>1. q.level \in LevelSet
        BY <1>2, <1>3 DEF IsRisk
      <4>2. Rank(q.level) \in 1..4 /\ Rank(q.level) < 3 /\ Rank(q.level) >= 3
        BY <4>1, <1>2, <1>4, <3>2
      <4> QED
        BY <4>2
    <3> QED
      BY <3>1, <3>2
  <2>2. CASE r \in risks
    <3>1. scene # {}
      <4> HIDE DEF scene
      <4> QED
        BY <1>1, <1>2 DEF Filtered
    <3>2. TellsScene(kind) /\ scene = SceneRisks(risks, Served(s, kind), tracks)
      <4> HIDE DEF risks
      <4> QED
        BY <3>1 DEF SceneOf
    <3>3. r.level \in LevelSet
      BY <2>2, EngineRisks DEF RisksOf, IsEngineRisk, IsRisk
    <3>4. Rank("YELLOW") = 2 /\ Rank(r.level) >= 2
      BY <3>3, <1>4, RanksOfLevels
    <3>5. SceneVisible(r)
      BY <3>4 DEF SceneVisible
    <3> HIDE DEF scene, risks
    <3> QED
      BY <3>2, <3>5, <2>2 DEF SceneRisks
  <2> QED
    BY <1>1, <2>1, <2>2
<1>6. r.level \in LevelSet
  BY <1>3, <1>5 DEF IsRisk
<1>7. r \notin context
  BY <1>2, <1>4, <1>6
<1>8. ~r.candidate
  <2>1. r \in risks => ~r.candidate
    BY EngineRisks DEF RisksOf, IsEngineRisk
  <2>2. ~IsDraftRisk(r, None, TRUE)
    BY DEF IsDraftRisk
  <2>3. ASSUME NEW box, IsDraftRisk(r, box, FALSE) PROVE ~r.candidate
    BY <2>3, Zenon DEF IsDraftRisk
  <2> HIDE DEF risks
  <2>4. r \in risks \/ \E box : IsDraftRisk(r, box, FALSE)
    BY <1>5, <2>2, SceneOfFrame
  <2> QED
    BY <2>1, <2>3, <2>4
<1>9. r \in reply'.scene
  <2> HIDE DEF scene
  <2> QED
    BY <1>1, <1>5, <1>7 DEF Filtered
<1> QED
  BY <1>6, <1>8, <1>9

\* So the colour of its entity is at least the alert's.
LEMMA AlertsAnswered ==
  ASSUME DraftsSaid, NEW s \in Sessions, NEW E \in Seq(Entities), NEW kind, NEW tracks,
         NEW edges, Answers(s, E, kind, tracks, edges)
  PROVE  AlertsNotHidden'
<1> DEFINE ids == EntityIds(E, tracks)
           told == reply'.scene
<1>1. reply'.E = E /\ reply'.colours = Stamped(told, E, ids)
  BY DEF Answers
<1>2. ASSUME NEW i \in DOMAIN E PROVE E[i].box \in [x : Int, y : Int, w : Int, h : Int]
  <2>1. E[i] \in Entities
    OBVIOUS
  <2> QED
    BY <2>1 DEF Entities
<1>3. \A q \in told : q.level \in LevelSet
  <2> DEFINE scene == SceneOf(s, kind, tracks, RisksOf(E, tracks))
             context == reply'.context
  <2>1. told = Filtered(scene, context) /\ context \in SUBSET scene
    <3>1. \A i, q : Suppressed(s, scene, i, q) \in SUBSET scene
      <4> HIDE DEF scene
      <4> QED
        BY DEF Suppressed, Context
    <3> QED
      BY <3>1 DEF Answers
  <2>2. \A q \in scene : IsRisk(q)
    BY SceneIsRisks
  <2> HIDE DEF scene, context
  <2>3. ASSUME NEW r \in Filtered(scene, context) PROVE r.level \in LevelSet
    <3>1. \/ r \in scene \ context
          \/ \E q \in context : /\ IsRisk(r) /\ r.candidate = TRUE
                                /\ r.level = q.level /\ r.box = q.box
      BY <2>1, <2>2, FilterMarks
    <3> QED
      BY <3>1, <2>2 DEF IsRisk
  <2> QED
    BY <2>1, <2>3
<1>4. ASSUME told # {}, NEW r \in told \cup reply'.risks, Rank(r.level) >= Rank("ORANGE"),
             r.box # None, NEW i \in DOMAIN E, E[i].box = r.box
      PROVE  reply'.colours[i] \in {Levels[k] : k \in Rank(r.level)..4}
  <2>1. r \in told /\ ~r.candidate /\ r.level \in LevelSet
    BY <1>4, AlertsStay
  <2>2. Stamps(r, E[i], ids[i])
    <3>1. SameBox(E[i].box, r.box, 12)
      BY <1>2, <1>4, SameBoxAsItself
    <3> QED
      BY <1>4, <2>1, <3>1 DEF Stamps
  <2> DEFINE hits == {q.level : q \in {q \in told : Stamps(q, E[i], ids[i])}}
  <2>3. hits \in SUBSET LevelSet /\ r.level \in hits
    BY <1>3, <2>1, <2>2
  <2>4. reply'.colours[i] = IF hits = {} THEN "none" ELSE Highest(hits)
    <3> HIDE DEF ids, told
    <3> QED
      BY <1>1 DEF Stamped
  <2> HIDE DEF hits
  <2>5. reply'.colours[i] = Highest(hits)
    BY <2>3, <2>4
  <2> QED
    BY <2>3, <2>5, HighestOf
<1> QED
  BY <1>1, <1>4 DEF AlertsNotHidden

\* Only /detect answers: every other step leaves no answer, or nothing happens.
LEMMA OnlyDetectAnswers ==
  ASSUME [Next]_vars
  PROVE  \/ UNCHANGED vars
         \/ reply' = None
         \/ \E s \in Sessions, E \in Seq(Entities) : \E kind : Detect(s, E, kind)
<1>1. ASSUME NEW s \in Callers, NEW E \in FrameSet, NEW kind \in Kinds, Detect(s, E, kind)
      PROVE  s \in Sessions /\ E \in Seq(Entities)
  BY PipelineAssumption DEF Entities
<1>2. ASSUME NEW s \in Streams, NEW E \in FrameSet, StreamFrame(s, E) PROVE reply' = None
  BY <1>2 DEF StreamFrame
<1>3. ASSUME NEW s \in Callers, Answer(s) \/ GiveUp(s) \/ JobStarts(s) \/ JobEnds(s) PROVE reply' = None
  BY <1>3 DEF Answer, GiveUp, JobStarts, JobEnds
<1>4. ASSUME NEW p \in late, LateAnswer(p) PROVE reply' = None
  BY <1>4 DEF LateAnswer
<1>5. ASSUME Tick PROVE reply' = None
  BY <1>5 DEF Tick
<1> QED
  BY <1>1, <1>2, <1>3, <1>4, <1>5 DEF Next

\* What an answer says is true when it is given, and is said of the state it is given in.
AnswersTrue == LabelsOfTheirTrack /\ SuppressionJustified /\ LinkedDraftsFresh

\* An answer is true when it is given, and stays until the next step.
LEMMA AnswersTrueStep ==
  ASSUME AnswersExpire, Said, Said', AnswersTrue, [Next]_vars
  PROVE  AnswersTrue'
<1>1. CASE UNCHANGED vars
  BY <1>1 DEF AnswersTrue, LabelsOfTheirTrack, SuppressionJustified, LinkedDraftsFresh, vars,
              stores, ghosts
<1>2. CASE reply' = None
  BY <1>2 DEF AnswersTrue, LabelsOfTheirTrack, SuppressionJustified, LinkedDraftsFresh
<1>3. ASSUME NEW s \in Sessions, NEW E, NEW kind, Detect(s, E, kind) PROVE AnswersTrue'
  <2>1. UNCHANGED <<setup, labels, focus, draft>>
    BY <1>3 DEF Detect
  <2>2. PICK tracks, edges : /\ Answers(s, E, kind, tracks, edges)
                             /\ DOMAIN tracks # {} => setup.risk = "on"
    BY <1>3, DetectAnswers
  <2>3. LabelsOfTheirTrack'
    BY <2>1, <2>2, LabelsAnswered DEF Said
  <2>4. SuppressionJustified'
    BY <2>1, <2>2, SuppressionAnswered DEF Said
  <2>5. LinkedDraftsFresh'
    BY <2>1, <2>2, DraftsAnswered DEF Said
  <2> QED
    BY <2>3, <2>4, <2>5 DEF AnswersTrue
<1> QED
  BY <1>1, <1>2, <1>3, OnlyDetectAnswers

\* So is what it says of alerts.
LEMMA AlertsStep ==
  ASSUME Said, AlertsNotHidden, [Next]_vars
  PROVE  AlertsNotHidden'
<1>1. CASE UNCHANGED vars
  BY <1>1 DEF AlertsNotHidden, vars
<1>2. CASE reply' = None
  BY <1>2 DEF AlertsNotHidden
<1>3. ASSUME NEW s \in Sessions, NEW E \in Seq(Entities), NEW kind, Detect(s, E, kind)
      PROVE  AlertsNotHidden'
  BY <1>3, DetectAnswers, AlertsAnswered DEF Said
<1> QED
  BY <1>1, <1>2, <1>3, OnlyDetectAnswers

\* Nothing is answered at first.
LEMMA AnswersInit == Init => AnswersTrue /\ AlertsNotHidden
BY DEF Init, AnswersTrue, LabelsOfTheirTrack, SuppressionJustified, LinkedDraftsFresh, AlertsNotHidden
------------------------------------------------------------------------------
(* The histories *)

\* The rows under a track id are all of one life.
OneTrack(m) ==
  \A t \in DOMAIN m.hist : t > 0 =>
    \A i, j \in DOMAIN m.hist[t] : m.hist[t][i].of = m.hist[t][j].of

\* It is the life the session's tracker has, of which k is the tracker and l the number.
RowsCurrent(k, l, m) ==
  \A t \in DOMAIN m.hist : t > 0 =>
    \A i \in DOMAIN m.hist[t] : Current(k, l, m.hist[t][i].of, m.idle)

\* A history under a track id is of the tracks the session has, or its memory has expired.
MemorySaid(s, m) ==
  /\ m.idle \in Nat
  /\ setup.risk # "on" => \A t \in DOMAIN m.hist : ~(t > 0)
  /\ Trusted(s) => OneTrack(m) /\ (m.idle <= MemoryTTL => RowsCurrent(tracker[s], life[s], m))

MemoriesSaid == \A s \in Sessions : memory[s] # None => MemorySaid(s, memory[s])

\* The memory goes no later than the tracker, as it does when TEMPORAL_MEMORY_TTL_MS is not set.
MemoriesExpire == MemoryTTL <= SessionTTL

\* One more row: the rows of a history are those it had and the new one.
LEMMA HistoryRows ==
  ASSUME NEW h, h = <<>> \/ IsHistory(h), NEW row, NEW i \in DOMAIN Suffix(Append(h, row), Window)
  PROVE  \/ Suffix(Append(h, row), Window)[i] = row
         \/ \E j \in DOMAIN h : Suffix(Append(h, row), Window)[i] = h[j]
<1> DEFINE S == {h[j] : j \in DOMAIN h}
           T == S \cup {row}
           g == Append(h, row)
           first == IF Len(g) > Window THEN Len(g) - Window + 1 ELSE 1
<1>1. h \in Seq(T)
  <2>1. CASE h = <<>>
    BY <2>1
  <2>2. CASE IsHistory(h)
    <3>1. h = [j \in 1..Len(h) |-> h[j]] /\ Len(h) \in Nat
      BY <2>2, MemoryAssumption DEF IsHistory
    <3>2. DOMAIN h = 1..Len(h)
      BY <3>1
    <3>3. \A j \in 1..Len(h) : h[j] \in T
      BY <3>2
    <3> HIDE DEF T
    <3> QED
      BY <3>1, <3>3
  <2> QED
    BY <2>1, <2>2
<1>2. row \in T
  OBVIOUS
<1>3. g \in Seq(T) /\ Len(g) \in Nat \ {0}
  <2> HIDE DEF T
  <2> QED
    BY <1>1, <1>2
<1>4. first \in 1..Len(g) /\ Window \in Nat \ {0}
  <2>1. Window \in Nat \ {0}
    BY MemoryAssumption
  <2> HIDE DEF g
  <2> QED
    BY <1>3, <2>1
<1>5. Suffix(g, Window) = SubSeq(g, first, Len(g))
  BY DEF Suffix
<1>6. SubSeq(g, first, Len(g)) = [j \in 1..(Len(g) - first + 1) |-> g[j + first - 1]]
  <2> HIDE DEF first, g, T
  <2> QED
    BY <1>3, <1>4
<1>7. i \in 1..(Len(g) - first + 1) /\ Suffix(g, Window)[i] = g[i + first - 1]
  <2> HIDE DEF first
  <2> QED
    BY <1>5, <1>6
<1>8. g[i + first - 1] \in T
  <2> HIDE DEF first, g, T
  <2>1. i + first - 1 \in 1..Len(g)
    BY <1>3, <1>4, <1>7
  <2> QED
    BY <1>3, <2>1
<1> QED
  BY <1>7, <1>8

\* The rows of a memory that has a frame more are those it had and the frame's.
LEMMA RememberedRows ==
  ASSUME NEW m, IsMemory(m), NEW rows, NEW n, n = Remembered(m, rows)
  PROVE  /\ n.idle = 0
         /\ \A t \in DOMAIN n.hist : \A i \in DOMAIN n.hist[t] :
              \/ t \in DOMAIN m.hist /\ \E j \in DOMAIN m.hist[t] : n.hist[t][i] = m.hist[t][j]
              \/ \E k \in DOMAIN rows : rows[k].id = t /\ n.hist[t][i] = rows[k]
         /\ DOMAIN n.hist = DOMAIN m.hist \cup {rows[k].id : k \in DOMAIN rows}
<1> DEFINE ids == {rows[k].id : k \in DOMAIN rows}
           past(t) == IF t \in DOMAIN m.hist THEN m.hist[t] ELSE <<>>
           row(t) == rows[CHOOSE k \in DOMAIN rows : rows[k].id = t]
           hist == [t \in DOMAIN m.hist \cup ids |->
                      IF t \in ids THEN Suffix(Append(past(t), row(t)), Window) ELSE past(t)]
<1>1. m = [hist |-> m.hist, context |-> m.context, corrections |-> m.corrections, idle |-> m.idle]
  BY DEF IsMemory
<1>2. n = [m EXCEPT !.idle = 0, !.hist = hist]
  BY DEF Remembered
<1>3. n.hist = hist /\ n.idle = 0
  <2> HIDE DEF hist
  <2> QED
    BY <1>1, <1>2
<1>4. DOMAIN hist = DOMAIN m.hist \cup ids
  OBVIOUS
<1>5. ASSUME NEW t \in DOMAIN hist, NEW i \in DOMAIN hist[t]
      PROVE  \/ t \in DOMAIN m.hist /\ \E j \in DOMAIN m.hist[t] : hist[t][i] = m.hist[t][j]
             \/ \E k \in DOMAIN rows : rows[k].id = t /\ hist[t][i] = rows[k]
  <2>1. CASE t \in ids
    <3>1. \E k \in DOMAIN rows : rows[k].id = t /\ row(t) = rows[k]
      BY <2>1
    <3>2. past(t) = <<>> \/ IsHistory(past(t))
      BY DEF IsMemory
    <3>3. hist[t] = Suffix(Append(past(t), row(t)), Window)
      BY <2>1
    <3>4. hist[t][i] = row(t) \/ \E j \in DOMAIN past(t) : hist[t][i] = past(t)[j]
      <4> HIDE DEF past, row, hist
      <4> QED
        BY <3>2, <3>3, HistoryRows
    <3>5. ASSUME NEW j \in DOMAIN past(t) PROVE t \in DOMAIN m.hist /\ past(t) = m.hist[t]
      <4>1. DOMAIN <<>> = {}
        OBVIOUS
      <4> QED
        BY <4>1
    <3> HIDE DEF past, row, hist, ids
    <3> QED
      BY <3>1, <3>4, <3>5
  <2>2. CASE t \notin ids
    <3>1. t \in DOMAIN m.hist /\ hist[t] = m.hist[t]
      BY <2>2, <1>4
    <3> HIDE DEF hist
    <3> QED
      BY <3>1
  <2> QED
    BY <2>1, <2>2
<1> QED
  <2> HIDE DEF hist
  <2> QED
    BY <1>3, <1>4, <1>5

\* The frame's rows with a track id are of the life the frame belongs to.
LEMMA RowsOfFrame ==
  ASSUME NEW s, NEW E \in Seq(Entities), NEW of, NEW tracks, tracks = TracksOf(s, E, of),
         NEW k \in DOMAIN Rows(E, tracks), Rows(E, tracks)[k].id > 0
  PROVE  setup.risk = "on" /\ Rows(E, tracks)[k].of = LifeOf(s)
<1>1. CASE tracks = <<>>
  <2>1. DOMAIN E = 1..Len(E) /\ Len(E) \in Nat
    OBVIOUS
  <2>2. k \in 1..Len(E) /\ Rows(E, tracks)[k].id = 1 - k
    BY <1>1, <2>1 DEF Rows
  <2> QED
    BY <2>1, <2>2
<1>2. CASE tracks # <<>>
  <2>1. setup.risk = "on" /\ tracks = Visible(E, of, LifeOf(s)) /\ Rows(E, tracks) = tracks
    BY <1>2 DEF TracksOf, Rows
  <2>2. \A j \in DOMAIN Visible(E, of, LifeOf(s)) : Visible(E, of, LifeOf(s))[j].of = LifeOf(s)
    BY DEF Visible
  <2> QED
    BY <2>1, <2>2
<1> QED
  BY <1>1, <1>2

\* What a room keeps has not expired.
LEMMA RoomIsSwept ==
  ASSUME NEW store, DOMAIN store = Sessions, NEW ttl, NEW cap, NEW s, NEW room \in Rooms(store, s, ttl, cap),
         NEW o \in Sessions, room[o] # None
  PROVE  room[o] = store[o] /\ ~(store[o].idle > ttl)
<1> DEFINE swept == SweptStore(store, ttl)
<1>1. DOMAIN swept = Sessions /\ (swept[o] # None => swept[o] = store[o] /\ ~(store[o].idle > ttl))
  BY DEF SweptStore
<1>2. room = swept \/ \E p : room = [swept EXCEPT ![p] = None]
  <2> HIDE DEF swept
  <2> QED
    BY DEF Rooms, WithRoom, swept
<1> HIDE DEF swept
<1>3. room[o] = swept[o]
  BY <1>1, <1>2
<1> QED
  BY <1>1, <1>3

\* Every step but time carries over what was said, and so does time, a tick later.
LEMMA StepCarries ==
  ASSUME Invariant, StoresKept, Said, [Next]_vars
  PROVE  UNCHANGED setup /\ (Carried(0) \/ (Tick /\ Carried(1)))
<1>callers. Callers \subseteq Sessions /\ Streams \subseteq Sessions
  BY PipelineAssumption
<1>1. ASSUME NEW s \in Callers, NEW E \in FrameSet, NEW kind \in Kinds, Detect(s, E, kind)
      PROVE  UNCHANGED setup /\ Carried(0)
  <2>1. UNCHANGED setup
    BY <1>1 DEF Detect
  <2>2. PICK matched, of, over : TrackFrame(s, E, matched, of, over)
    BY <1>1, Zenon DEF Detect
  <2> QED
    BY <1>callers, <2>1, <2>2, FrameCarries DEF StoresKept
<1>2. ASSUME NEW s \in Streams, NEW E \in FrameSet, StreamFrame(s, E)
      PROVE  UNCHANGED setup /\ Carried(0)
  <2>1. PICK matched, of : TrackFrame(s, E, matched, of, FALSE)
    BY <1>2 DEF StreamFrame
  <2>2. UNCHANGED setup
    BY <1>2 DEF StreamFrame
  <2> QED
    BY <1>callers, <2>1, <2>2, FrameCarries DEF StoresKept
<1>3. ASSUME NEW s \in Sessions, NEW q, Answered(s, q), UNCHANGED <<setup, tracker>>
      PROVE  UNCHANGED setup /\ Carried(0)
  BY <1>3, AnsweredCarries DEF StoresKept, BoundsKept
<1>4. ASSUME UNCHANGED <<setup, tracker, ghosts>> PROVE UNCHANGED setup /\ Carried(0)
  BY <1>4, StillCarries DEF ghosts
<1>5. ASSUME NEW s \in Callers, Answer(s) \/ GiveUp(s) \/ JobStarts(s) \/ JobEnds(s)
      PROVE  UNCHANGED setup /\ Carried(0)
  <2>1. CASE Answer(s)
    BY <1>callers, <1>3, <2>1 DEF Answer
  <2>2. CASE GiveUp(s)
    BY <1>4, <2>2 DEF GiveUp, stores
  <2>3. CASE JobEnds(s)
    BY <1>4, <2>3 DEF JobEnds
  <2>4. CASE JobStarts(s)
    BY <1>4, <2>4 DEF JobStarts
  <2> QED
    BY <1>5, <2>1, <2>2, <2>3, <2>4
<1>6. ASSUME NEW p \in late, LateAnswer(p) PROVE UNCHANGED setup /\ Carried(0)
  BY <1>3, <1>6 DEF LateAnswer, Said, LateSaid
<1>7. CASE UNCHANGED vars
  BY <1>4, <1>7 DEF vars, stores
<1>8. CASE Tick
  BY <1>8, TickCarries DEF Tick
<1> QED
  BY <1>1, <1>2, <1>5, <1>6, <1>7, <1>8 DEF Next

\* A memory that is left alone stays as true as it was.
LEMMA MemoryStays ==
  ASSUME Carried(0), UNCHANGED setup, NEW s \in Sessions, NEW m, MemorySaid(s, m)
  PROVE  MemorySaid(s, m)'
<1>1. m.idle \in Int /\ m.idle + 0 = m.idle
  BY DEF MemorySaid
<1>2. ASSUME Trusted(s)'
      PROVE  /\ Trusted(s)
             /\ \A n : Current(tracker[s], life[s], n, m.idle) => Current(tracker'[s], life'[s], n, m.idle)
  BY <1>1, <1>2 DEF Carried
<1> QED
  BY <1>2 DEF MemorySaid, RowsCurrent, OneTrack

\* The memory a frame or a result finds, or begins.
LEMMA MemoryOfRoom ==
  ASSUME MemoriesKept, MemoriesSaid, NEW s \in Sessions, NEW ttl,
         NEW room \in Rooms(memory, s, ttl, MaxMemories),
         NEW m, m = Begun(room[s], NewMemory)
  PROVE  /\ MemorySaid(s, m) /\ (Overstayed(s, room) \/ m.idle <= MemoryTTL)
         /\ \A o \in Sessions : room[o] # None => MemorySaid(o, room[o])
<1>1. MemoryTTL \in Nat
  BY MemoryAssumption
<1>2. ASSUME NEW o \in Sessions, room[o] # None PROVE MemorySaid(o, room[o])
  <2>1. DOMAIN memory = Sessions
    BY DEF MemoriesKept
  <2>2. room[o] = memory[o]
    BY <1>2, <2>1, RoomIsSwept
  <2> QED
    BY <1>2, <2>2 DEF MemoriesSaid
<1>3. CASE room[s] = None
  <2>1. m = NewMemory
    BY <1>3 DEF Begun
  <2>2. m.idle = 0 /\ m.hist = <<>> /\ DOMAIN <<>> = {}
    BY <2>1 DEF NewMemory
  <2>3. MemorySaid(s, m)
    BY <2>2 DEF MemorySaid, OneTrack, RowsCurrent
  <2> QED
    BY <1>1, <1>2, <2>2, <2>3
<1>4. CASE room[s] # None
  <2>1. m = room[s] /\ MemorySaid(s, m)
    BY <1>2, <1>4 DEF Begun
  <2>2. m.idle \in Nat
    BY <2>1 DEF MemorySaid
  <2>3. m.idle > MemoryTTL \/ m.idle <= MemoryTTL
    BY <1>1, <2>2
  <2> QED
    BY <1>2, <1>4, <2>1, <2>3 DEF Overstayed
<1> QED
  BY <1>3, <1>4

\* /detect adds rows of the life its frame belongs to, and finds no others.
LEMMA DetectMemory ==
  ASSUME MemoriesExpire, StoresKept, MemoriesSaid, Invariant, NEW s \in Sessions,
         NEW E \in Seq(Entities), NEW kind, Detect(s, E, kind)
  PROVE  MemoriesSaid'
<1>1. UNCHANGED setup
  BY DEF Detect
<1>2. \E room \in MemoryRooms(s) : \E of :
        /\ \E matched : TrackFrame(s, E, matched, of, Overstayed(s, room))
        /\ \E tracks \in {TracksOf(s, E, of)} : Compose(s, E, kind, tracks, room)
  BY Zenon DEF Detect
<1>3. PICK room, of, matched, tracks :
        /\ room \in MemoryRooms(s)
        /\ TrackFrame(s, E, matched, of, Overstayed(s, room))
        /\ tracks = TracksOf(s, E, of) /\ Compose(s, E, kind, tracks, room)
  BY <1>2
<1>ttl. PICK ttl : room \in Rooms(memory, s, ttl, MaxMemories)
  BY <1>3 DEF MemoryRooms
<1>4. /\ Carried(0)
      /\ Trusted(s)' => /\ tracker'[s] # None /\ tracker'[s].idle = 0 /\ life'[s] = LifeOf(s)
                        /\ ~Overstayed(s, room)
  BY <1>1, <1>3, FrameCarries DEF StoresKept
<1>5. PICK rows \in {Rows(E, tracks)} :
        \E m \in {Remembered(Begun(room[s], NewMemory), rows)} :
        \E edges \in {EdgeRisks(m, E, rows)} : Judge(s, E, kind, tracks, room, m, edges)
  BY <1>3 DEF Compose
<1>6. PICK n : /\ n = Remembered(Begun(room[s], NewMemory), rows)
               /\ \E edges : Judge(s, E, kind, tracks, room, n, edges)
  BY <1>5
<1>7. memory' = [room EXCEPT ![s] = n]
  <2>1. \E risks, edges, level : Remember(s, E, kind, tracks, risks, room, n, edges, level)
    BY <1>6, Zenon DEF Judge
  <2> QED
    BY <2>1 DEF Remember
<1>8. PICK m : m = Begun(room[s], NewMemory)
  OBVIOUS
<1>9. /\ MemorySaid(s, m) /\ (Overstayed(s, room) \/ m.idle <= MemoryTTL) /\ IsMemory(m)
      /\ \A o \in Sessions : room[o] # None => MemorySaid(o, room[o])
  BY <1>ttl, <1>8, MemoryOfRoom, MemoryFound DEF StoresKept
<1>10. /\ n.idle = 0
       /\ \A t \in DOMAIN n.hist : \A i \in DOMAIN n.hist[t] :
            \/ t \in DOMAIN m.hist /\ \E j \in DOMAIN m.hist[t] : n.hist[t][i] = m.hist[t][j]
            \/ \E k \in DOMAIN rows : rows[k].id = t /\ n.hist[t][i] = rows[k]
       /\ DOMAIN n.hist = DOMAIN m.hist \cup {rows[k].id : k \in DOMAIN rows}
  BY <1>6, <1>8, <1>9, RememberedRows
<1>11. \A k \in DOMAIN rows : rows[k].id > 0 => setup.risk = "on" /\ rows[k].of = LifeOf(s)
  BY <1>3, <1>5, RowsOfFrame
<1>12. MemorySaid(s, n)'
  <2>1. MemorySaid(s, m)'
    BY <1>1, <1>4, <1>9, MemoryStays
  <2>2. ASSUME setup'.risk # "on", NEW t \in DOMAIN n.hist PROVE ~(t > 0)
    BY <1>1, <1>10, <1>11, <2>1, <2>2 DEF MemorySaid
  <2>3. ASSUME Trusted(s)', NEW t \in DOMAIN n.hist, t > 0, NEW i \in DOMAIN n.hist[t]
        PROVE  n.hist[t][i].of = life'[s]
    <3>1. CASE t \in DOMAIN m.hist /\ \E j \in DOMAIN m.hist[t] : n.hist[t][i] = m.hist[t][j]
      <4>0. m.idle <= MemoryTTL
        BY <1>4, <1>9, <2>3
      <4>1. Current(tracker'[s], life'[s], n.hist[t][i].of, m.idle)
        BY <4>0, <2>1, <2>3, <3>1 DEF MemorySaid, RowsCurrent
      <4>2. ~(m.idle > SessionTTL)
        <5>1. m.idle \in Nat /\ MemoryTTL \in Nat /\ SessionTTL \in Nat
          BY <1>9, MemoryAssumption, TrackerAssumption DEF MemorySaid
        <5> QED
          BY <5>1, <4>0 DEF MemoriesExpire
      <4> QED
        BY <4>1, <4>2 DEF Current
    <3>2. CASE \E k \in DOMAIN rows : rows[k].id = t /\ n.hist[t][i] = rows[k]
      BY <1>4, <1>11, <2>3, <3>2
    <3> QED
      BY <1>10, <3>1, <3>2
  <2>4. Trusted(s)' => OneTrack(n)
    BY <2>3 DEF OneTrack
  <2>5. Trusted(s)' => RowsCurrent(tracker'[s], life'[s], n)
    <3>1. Trusted(s)' => Current(tracker'[s], life'[s], life'[s], n.idle)
      BY <1>4, <1>10 DEF Current
    <3> QED
      BY <2>3, <3>1 DEF RowsCurrent
  <2> QED
    BY <1>10, <2>2, <2>4, <2>5 DEF MemorySaid
<1>13. ASSUME NEW o \in Sessions \ {s}, room[o] # None PROVE MemorySaid(o, room[o])'
  <2>1. ASSUME NEW r, MemorySaid(o, r) PROVE MemorySaid(o, r)'
    BY <1>1, <1>4, <2>1, MemoryStays
  <2> QED
    BY <1>9, <1>13, <2>1
<1>14. DOMAIN room = Sessions
  <2>1. /\ DOMAIN memory = Sessions
        /\ IsFiniteSet(Live(memory)) /\ Cardinality(Live(memory)) <= MaxMemories
    BY DEF StoresKept, MemoriesKept
  <2>2. MaxMemories \in Nat \ {0}
    BY MemoryAssumption
  <2> QED
    BY <1>ttl, <2>1, <2>2, RoomIsMade
<1>15. /\ memory'[s] = n
       /\ \A o \in Sessions \ {s} : memory'[o] = room[o]
  BY <1>7, <1>14
<1> QED
  BY <1>12, <1>13, <1>15 DEF MemoriesSaid, MemorySaid

\* Nor does the end of a job touch a history.
LEMMA JobMemory ==
  ASSUME StoresKept, MemoriesSaid, NEW s \in Sessions, JobEnds(s), Carried(0)
  PROVE  MemoriesSaid'
<1>1. UNCHANGED setup
  BY DEF JobEnds
<1>2. PICK room \in Rooms(memory, s, MemoryTTL, MaxMemories) :
        LET m == Begun(room[s], NewMemory)
        IN memory' \in {[room EXCEPT ![s] = m]} \cup
                       {[room EXCEPT ![s] = StoredResult(m, r)] : r \in Results(Head(jobs[s]))}
  BY DEF JobEnds
<1>3. PICK m : m = Begun(room[s], NewMemory)
  OBVIOUS
<1>4. /\ MemorySaid(s, m) /\ IsMemory(m)
      /\ \A o \in Sessions : room[o] # None => MemorySaid(o, room[o])
  BY <1>3, MemoryOfRoom, MemoryFound DEF StoresKept
<1>5. PICK n : memory' = [room EXCEPT ![s] = n] /\ (n = m \/ \E r : n = StoredResult(m, r))
  BY <1>2, <1>3
<1>6. n.hist = m.hist /\ n.idle = m.idle
  <2>1. m = [hist |-> m.hist, context |-> m.context, corrections |-> m.corrections, idle |-> m.idle]
    BY <1>4 DEF IsMemory
  <2>2. ASSUME NEW r, n = StoredResult(m, r) PROVE n.hist = m.hist /\ n.idle = m.idle
    <3>1. n = [m EXCEPT !.context = [age |-> 0], !.corrections = r]
      BY <2>2 DEF StoredResult
    <3> QED
      BY <2>1, <3>1
  <2> QED
    BY <1>5, <2>2
<1>7. MemorySaid(s, n)'
  <2>1. MemorySaid(s, m)'
    BY <1>1, <1>4, MemoryStays
  <2> QED
    BY <1>6, <2>1 DEF MemorySaid, OneTrack, RowsCurrent
<1>8. ASSUME NEW o \in Sessions \ {s}, room[o] # None PROVE MemorySaid(o, room[o])'
  <2>1. ASSUME NEW r, MemorySaid(o, r) PROVE MemorySaid(o, r)'
    BY <1>1, <2>1, MemoryStays
  <2> QED
    BY <1>4, <1>8, <2>1
<1>9. DOMAIN room = Sessions
  <2>1. /\ DOMAIN memory = Sessions
        /\ IsFiniteSet(Live(memory)) /\ Cardinality(Live(memory)) <= MaxMemories
    BY DEF StoresKept, MemoriesKept
  <2>2. MaxMemories \in Nat \ {0} /\ MemoryTTL \in Nat
    BY MemoryAssumption
  <2> QED
    BY <1>2, <2>1, <2>2, RoomIsMade
<1>10. memory'[s] = n /\ \A o \in Sessions \ {s} : memory'[o] = room[o]
  BY <1>5, <1>9
<1> QED
  BY <1>7, <1>8, <1>10 DEF MemoriesSaid, MemorySaid

\* Or its start.
LEMMA JobStartMemory ==
  ASSUME StoresKept, MemoriesSaid, NEW s \in Sessions, JobStarts(s), Carried(0)
  PROVE  MemoriesSaid'
<1>1. UNCHANGED setup
  BY DEF JobStarts
<1>2. PICK room \in Rooms(memory, s, MemoryTTL, MaxMemories) :
        memory' = [room EXCEPT ![s] = Begun(room[s], NewMemory)]
  BY DEF JobStarts
<1>3. PICK m : m = Begun(room[s], NewMemory)
  OBVIOUS
<1>4. MemorySaid(s, m) /\ \A o \in Sessions : room[o] # None => MemorySaid(o, room[o])
  BY <1>3, MemoryOfRoom DEF StoresKept
<1>5. ASSUME NEW o \in Sessions, NEW r, MemorySaid(o, r) PROVE MemorySaid(o, r)'
  BY <1>1, <1>5, MemoryStays
<1>6. \A o \in Sessions : (memory'[o] = m /\ o = s) \/ memory'[o] = room[o]
  <2>1. DOMAIN memory = Sessions /\ IsFiniteSet(Live(memory)) /\ Cardinality(Live(memory)) <= MaxMemories
    BY DEF StoresKept, MemoriesKept
  <2>2. MaxMemories \in Nat \ {0}
    BY MemoryAssumption
  <2>3. DOMAIN room = Sessions
    BY <1>2, <2>1, <2>2, RoomIsMade
  <2> QED
    BY <1>2, <1>3, <2>3
<1>7. ASSUME NEW o \in Sessions, NEW n, n = memory'[o], n # None PROVE MemorySaid(o, n)'
  BY <1>4, <1>5, <1>6, <1>7
<1> QED
  BY <1>7 DEF MemoriesSaid, MemorySaid

\* With time a memory ages as the tracker does.
LEMMA TickMemory ==
  ASSUME StoresKept, MemoriesSaid, Tick, Carried(1)
  PROVE  MemoriesSaid'
<1>1. /\ UNCHANGED setup
      /\ memory' = [s \in Sessions |-> IF memory[s] = None THEN None ELSE AgedMemory(memory[s])]
  BY DEF Tick
<1>2. ASSUME NEW s \in Sessions, memory'[s] # None PROVE MemorySaid(s, memory[s]) /\ IsMemory(memory[s])
  BY <1>1, <1>2 DEF MemoriesSaid, StoresKept, MemoriesKept
<1>3. ASSUME NEW s \in Sessions, NEW m, MemorySaid(s, m), IsMemory(m),
             NEW n, n = AgedMemory(m)
      PROVE  MemorySaid(s, n)'
  <2> DEFINE idle == Older(m.idle, MemoryTTL + 2)
  <2>1. m = [hist |-> m.hist, context |-> m.context, corrections |-> m.corrections, idle |-> m.idle]
    BY <1>3 DEF IsMemory
  <2>2. n = [m EXCEPT !.idle = idle, !.context = AgedContext(m.context)]
    BY <1>3 DEF AgedMemory
  <2> HIDE DEF idle
  <2>3. n.hist = m.hist /\ n.idle = idle
    BY <2>1, <2>2
  <2>4. idle \in Nat /\ m.idle \in Nat /\ (idle <= MemoryTTL => idle = m.idle + 1 /\ m.idle <= MemoryTTL)
    <3>1. MemoryTTL \in Nat /\ MemoryTTL + 2 \in Nat /\ m.idle \in Nat
      BY <1>3, MemoryAssumption DEF MemorySaid
    <3>2. idle \in Nat /\ (idle < MemoryTTL + 2 => idle = m.idle + 1 /\ m.idle < MemoryTTL + 2)
      BY <3>1, AgesByOne DEF idle
    <3> QED
      BY <3>1, <3>2
  <2>5. setup'.risk # "on" => \A t \in DOMAIN n.hist : ~(t > 0)
    BY <1>1, <1>3, <2>3 DEF MemorySaid
  <2>6. Trusted(s)' => Trusted(s)
    BY DEF Carried
  <2>7. Trusted(s)' => OneTrack(n)
    BY <1>3, <2>3, <2>6 DEF MemorySaid, OneTrack
  <2>8. ASSUME Trusted(s)', n.idle <= MemoryTTL PROVE RowsCurrent(tracker'[s], life'[s], n)
    <3>1. RowsCurrent(tracker[s], life[s], m) /\ m.idle \in Int /\ n.idle = m.idle + 1
      BY <1>3, <2>3, <2>4, <2>6, <2>8 DEF MemorySaid
    <3>2. \A x : Current(tracker[s], life[s], x, m.idle) => Current(tracker'[s], life'[s], x, m.idle + 1)
      BY <2>8, <3>1 DEF Carried
    <3> QED
      BY <2>3, <3>1, <3>2 DEF RowsCurrent
  <2> QED
    BY <2>3, <2>4, <2>5, <2>7, <2>8 DEF MemorySaid
<1>4. ASSUME NEW s \in Sessions, NEW n, n = memory'[s], n # None PROVE MemorySaid(s, n)'
  <2>1. n = AgedMemory(memory[s])
    BY <1>1, <1>4
  <2> QED
    BY <1>2, <1>3, <1>4, <2>1
<1> QED
  BY <1>4 DEF MemoriesSaid, MemorySaid

\* No step mixes the histories.
LEMMA MemoryStep ==
  ASSUME MemoriesExpire, Invariant, StoresKept, Said, MemoriesSaid, [Next]_vars
  PROVE  MemoriesSaid'
<1>1. UNCHANGED setup /\ (Carried(0) \/ (Tick /\ Carried(1)))
  BY StepCarries
<1>2. CASE Tick /\ Carried(1)
  BY <1>2, TickMemory
<1>3. CASE Carried(0)
  <2>1. CASE UNCHANGED memory
    <3>1. ASSUME NEW s \in Sessions, NEW m, MemorySaid(s, m) PROVE MemorySaid(s, m)'
      BY <1>1, <1>3, <3>1, MemoryStays
    <3>2. ASSUME NEW s \in Sessions, memory[s] # None PROVE MemorySaid(s, memory[s])'
      BY <2>1, <3>1, <3>2 DEF MemoriesSaid
    <3> QED
      BY <2>1, <3>2 DEF MemoriesSaid, MemorySaid
  <2>2. ASSUME NEW s \in Callers, NEW E \in FrameSet, NEW kind \in Kinds, Detect(s, E, kind)
        PROVE  MemoriesSaid'
    <3>1. s \in Sessions /\ E \in Seq(Entities)
      BY PipelineAssumption DEF Entities
    <3> QED
      BY <2>2, <3>1, DetectMemory
  <2>3. ASSUME NEW s \in Callers, JobEnds(s) PROVE MemoriesSaid'
    <3>1. s \in Sessions
      BY PipelineAssumption
    <3> QED
      BY <1>3, <2>3, <3>1, JobMemory
  <2>9. ASSUME NEW s \in Callers, JobStarts(s) PROVE MemoriesSaid'
    <3>1. s \in Sessions
      BY PipelineAssumption
    <3> QED
      BY <1>3, <2>9, <3>1, JobStartMemory
  <2>4. ASSUME NEW s \in Streams, NEW E \in FrameSet, StreamFrame(s, E) PROVE UNCHANGED memory
    BY <2>4 DEF StreamFrame
  <2>5. ASSUME NEW s \in Callers, Answer(s) \/ GiveUp(s) PROVE UNCHANGED memory
    BY <2>5 DEF Answer, GiveUp, stores
  <2>6. ASSUME NEW p \in late, LateAnswer(p) PROVE UNCHANGED memory
    BY <2>6 DEF LateAnswer
  <2>7. CASE Tick
    <3>1. Carried(1)
      BY <2>7, TickCarries
    <3> QED
      BY <2>7, <3>1, TickMemory
  <2>8. CASE UNCHANGED vars
    BY <2>1, <2>8 DEF vars, stores
  <2> QED
    BY <2>1, <2>2, <2>3, <2>4, <2>5, <2>6, <2>7, <2>8, <2>9 DEF Next
<1> QED
  BY <1>1, <1>2, <1>3

\* Nothing is remembered at first.
LEMMA MemoryInit == Init => MemoriesSaid
BY DEF Init, MemoriesSaid

\* A history is of one track when nothing was evicted.
LEMMA HistoriesFollow ==
  ASSUME StoresKept, MemoriesSaid
  PROVE  HistoryOfOneTrack
<1> SUFFICES ASSUME NEW s \in Sessions, memory[s] # None, ~mixed[s]
             PROVE  OneTrack(memory[s])
  BY DEF HistoryOfOneTrack, OneTrack
<1>1. MemorySaid(s, memory[s])
  BY DEF MemoriesSaid
<1>2. CASE setup.risk = "on"
  BY <1>1, <1>2 DEF MemorySaid, Trusted
<1>3. CASE setup.risk # "on"
  BY <1>1, <1>3 DEF MemorySaid, OneTrack
<1> QED
  BY <1>2, <1>3
------------------------------------------------------------------------------
(* The theorems *)

\* The invariant holds in every reachable state, for any sessions, frames, limits and
\* configurations of the worker.
THEOREM InvariantHolds == Spec => [](Invariant /\ StoresKept)
<1>1. Invariant /\ StoresKept /\ [Next]_vars => Invariant' /\ StoresKept'
  BY InvariantStep, StoresStep
<1>2. Init => Invariant /\ StoresKept
  BY InvariantInit, StoresInit
<1> QED
  BY <1>1, <1>2, PTL DEF Spec

\* The state is well typed and every store keeps its cap: tracks, sessions, memories, rows of
\* a history, labels and jobs (tracking.py:67-89, session_memory.py:108-131,
\* semantic_memory.py:210-217, async_reasoning.py:240-256).
THEOREM TypeCorrect == Spec => []TypeOK
<1>1. Invariant /\ StoresKept => TypeOK
  BY TypeFollows
<1> QED
  BY InvariantHolds, <1>1, PTL

\* While the tracker keeps a session, no id it has given out is ever given to another
\* track (tracking.py:114-179).
THEOREM IdsCorrect == Spec => IdsNeverReused
<1>1. Invariant /\ [Next]_vars => [NewIdsOnly]_vars
  BY InvariantStep
<1>2. Spec => [][NewIdsOnly]_vars
  BY InvariantHolds, <1>1, PTL DEF Spec
<1> QED
  BY <1>2, PTL DEF IdsNeverReused, NewIdsOnly

\* What is kept of a model's answer was asked about the tracks the session has now, or longer
\* ago than the tracker keeps an idle session (gemini_reasoner.py, vlm_reasoner.py).
THEOREM SaidHolds == Spec => []Said
<1>1. Invariant /\ StoresKept /\ Said /\ [Next]_vars => Said'
  BY SaidStep
<1>2. Init => Said
  BY SaidInit
<1> QED
  BY InvariantHolds, <1>1, <1>2, PTL DEF Spec

\* No filter hides an alert of the engine or of a linked draft (primary_risk_focus.py:492-494,
\* server.py:1050-1127).
THEOREM AlertsCorrect == Spec => []AlertsNotHidden
<1>1. Said /\ AlertsNotHidden /\ [Next]_vars => AlertsNotHidden'
  BY AlertsStep
<1>2. Init => AlertsNotHidden
  BY AnswersInit
<1> QED
  BY SaidHolds, <1>1, <1>2, PTL DEF Spec

\* When the limits of the memories and the tracker fit each other, labels, contexts and
\* drafts are of the tracks they are shown on.
LEMMA AnswersTrueHolds ==
  ASSUME AnswersExpire
  PROVE  Spec => []AnswersTrue
<1>1. Said /\ Said' /\ AnswersTrue /\ [Next]_vars => AnswersTrue'
  BY AnswersTrueStep
<1>2. Init => AnswersTrue
  BY AnswersInit
<1> QED
  BY SaidHolds, <1>1, <1>2, PTL DEF Spec

\* A label is shown on the track it was said of (semantic_memory.py:379-509).
THEOREM LabelsCorrect ==
  ASSUME AnswersExpire
  PROVE  Spec => []LabelsOfTheirTrack
<1>1. AnswersTrue => LabelsOfTheirTrack
  BY DEF AnswersTrue
<1> QED
  BY AnswersTrueHolds, <1>1, PTL

\* A risk is taken for the context of a primary one only in a frame that shows the very track
\* the model named (primary_risk_focus.py:298-378).
THEOREM SuppressionCorrect ==
  ASSUME AnswersExpire
  PROVE  Spec => []SuppressionJustified
<1>1. AnswersTrue => SuppressionJustified
  BY DEF AnswersTrue
<1> QED
  BY AnswersTrueHolds, <1>1, PTL

\* A draft that is shown on a track was said of that track and is fresh, or a poll asked for
\* it (server.py:916-1004, vlm_reasoner.py:164-172).
THEOREM DraftsFreshCorrect ==
  ASSUME AnswersExpire
  PROVE  Spec => []LinkedDraftsFresh
<1>1. AnswersTrue => LinkedDraftsFresh
  BY DEF AnswersTrue
<1> QED
  BY AnswersTrueHolds, <1>1, PTL

\* A history of the temporal memory is of one track: the memory and the tracker forget a
\* session apart, but the memory no later (session_memory.py:58-60, 108-131,
\* tracking.py:67-89).
THEOREM HistoriesCorrect ==
  ASSUME MemoriesExpire
  PROVE  Spec => []HistoryOfOneTrack
<1>1. Invariant /\ StoresKept /\ Said /\ MemoriesSaid /\ [Next]_vars => MemoriesSaid'
  BY MemoryStep
<1>2. Init => MemoriesSaid
  BY MemoryInit
<1>3. StoresKept /\ MemoriesSaid => HistoryOfOneTrack
  BY HistoriesFollow
<1>4. Spec => [](Invariant /\ StoresKept) /\ []Said
  BY InvariantHolds, SaidHolds
<1>5. Spec => []MemoriesSaid
  BY <1>1, <1>2, <1>4, PTL DEF Spec
<1> QED
  BY <1>3, <1>4, <1>5, PTL

-------------------------------------------------------------------------------
(*****************************************************************************)
(* The rules of a frame, for all inputs.  What is said of every place of a   *)
(* sequence is shown at the least place where it would fail: the natural     *)
(* numbers are well-founded.                                                 *)
(*****************************************************************************)

\* The library's theorems of well-founded relations.
WF == INSTANCE WellFoundedInduction

\* A set of natural numbers that is not empty has a least one.
LEMMA LeastNatural ==
  ASSUME NEW N \in SUBSET Nat, N # {}
  PROVE  \E m \in N : \A n \in N : m <= n
<1> DEFINE R == WF!OpToRel(<, Nat)
<1>1. WF!IsWellFoundedOn(R, Nat)
  BY WF!NatLessThanWellFounded
<1>2. \A x \in Nat, y \in Nat : y < x => <<y, x>> \in R
  BY DEF WF!OpToRel
<1> HIDE DEF R
<1>3. PICK m \in N : \A n \in N : ~ (<<n, m>> \in R)
  BY <1>1, WF!WFMin
<1>4. ASSUME NEW n \in N PROVE m <= n
  <2>1. ~ (n < m)
    BY <1>2, <1>3
  <2> QED
    BY <2>1
<1> QED
  BY <1>4

\* What a band can be, at any words for its level.
BandsOf(Words) == [level : Words, min : Int, max : Int, alert : BOOLEAN]

\* A sequence of bands, place by place.
LEMMA SequenceOfBands ==
  ASSUME NEW Words, NEW bands \in Seq(BandsOf(Words))
  PROVE  /\ DOMAIN bands = 1..Len(bands) /\ Len(bands) \in Nat
         /\ \A k \in DOMAIN bands : bands[k].min \in Int /\ bands[k].max \in Int
<1>1. DOMAIN bands = 1..Len(bands) /\ Len(bands) \in Nat
  OBVIOUS
<1>2. \A k \in DOMAIN bands : bands[k] \in BandsOf(Words)
  OBVIOUS
<1> QED
  BY <1>1, <1>2 DEF BandsOf

\* Bands follow each other: a later one begins above an earlier one.
LEMMA BandsAscend ==
  ASSUME NEW Words, NEW bands \in Seq(BandsOf(Words)), NEW top \in Int,
         ValidProfile(bands, top),
         NEW i \in DOMAIN bands, NEW j \in DOMAIN bands, i < j
  PROVE  bands[i].max < bands[j].min
<1> DEFINE behind == {k \in DOMAIN bands : i < k /\ bands[k].min <= bands[i].max}
<1>0. /\ DOMAIN bands = 1..Len(bands) /\ Len(bands) \in Nat
      /\ \A k \in DOMAIN bands : bands[k].min \in Int /\ bands[k].max \in Int
  BY SequenceOfBands
<1>1. SUFFICES ASSUME behind # {} PROVE FALSE
  BY <1>0
<1>2. PICK k \in behind : \A l \in behind : k <= l
  <2>1. behind \subseteq Nat
    BY <1>0
  <2> QED
    BY <2>1, <1>1, LeastNatural
<1>3. k - 1 \in DOMAIN bands /\ i <= k - 1 /\ k - 1 < k /\ k # 1
  BY <1>0
<1>4. bands[k].min = bands[k - 1].max + 1 /\ bands[k - 1].min <= bands[k - 1].max
  BY <1>0, <1>3 DEF ValidProfile
<1>5. CASE k - 1 = i
  BY <1>0, <1>4, <1>5
<1>6. CASE k - 1 # i
  <2>1. k - 1 \notin behind
    BY <1>0, <1>2, <1>3
  <2>2. bands[i].max < bands[k - 1].min
    BY <2>1, <1>0, <1>3, <1>6
  <2> QED
    BY <2>2, <1>0, <1>3, <1>4
<1> QED
  BY <1>5, <1>6

\* Every score of the scale has a band.
LEMMA ScoreHasBand ==
  ASSUME NEW Words, NEW bands \in Seq(BandsOf(Words)), NEW top \in Int,
         ValidProfile(bands, top), NEW score \in 1..top
  PROVE  \E i \in DOMAIN bands : bands[i].min <= score /\ score <= bands[i].max
<1> DEFINE reach == {k \in DOMAIN bands : score <= bands[k].max}
<1>0. /\ DOMAIN bands = 1..Len(bands) /\ Len(bands) \in Nat /\ Len(bands) # 0
      /\ \A k \in DOMAIN bands : bands[k].min \in Int /\ bands[k].max \in Int
  BY SequenceOfBands DEF ValidProfile
<1>1. Len(bands) \in reach
  BY <1>0 DEF ValidProfile
<1>2. PICK k \in reach : \A l \in reach : k <= l
  <2>1. reach \subseteq Nat
    BY <1>0
  <2> QED
    BY <2>1, <1>1, LeastNatural
<1>3. bands[k].min <= score
  <2>1. CASE k = 1
    BY <2>1, <1>0 DEF ValidProfile
  <2>2. CASE k # 1
    <3>1. k - 1 \in DOMAIN bands /\ k - 1 \notin reach
      BY <2>2, <1>0, <1>2
    <3>2. bands[k].min = bands[k - 1].max + 1
      BY <2>2, <1>0 DEF ValidProfile
    <3> QED
      BY <3>1, <3>2, <1>0
  <2> QED
    BY <2>1, <2>2
<1> QED
  BY <1>2, <1>3

\* The bands of a profile the loader accepts part the scores of its scale: each score is in
\* one band and no other, which is the band it is given (risk_matrix.py:50-70, 83-116).
THEOREM ProfilesPartScores ==
  ASSUME NEW Words, NEW bands \in Seq(BandsOf(Words)), NEW top \in Int,
         ValidProfile(bands, top), NEW score \in 1..top
  PROVE  \E i \in DOMAIN bands :
           /\ {j \in DOMAIN bands : bands[j].min <= score /\ score <= bands[j].max} = {i}
           /\ BandOf(bands, score) = bands[i]
<1> DEFINE hits == {j \in DOMAIN bands : bands[j].min <= score /\ score <= bands[j].max}
<1>0. /\ DOMAIN bands = 1..Len(bands) /\ Len(bands) \in Nat
      /\ \A k \in DOMAIN bands : bands[k].min \in Int /\ bands[k].max \in Int
  BY SequenceOfBands
<1>1. PICK i \in DOMAIN bands : i \in hits
  BY ScoreHasBand
<1>2. ASSUME NEW j \in hits PROVE j = i
  <2>1. ~(i < j)
    BY <1>0, <1>1, BandsAscend
  <2>2. ~(j < i)
    BY <1>0, <1>1, BandsAscend
  <2> QED
    BY <2>1, <2>2, <1>0
<1>3. hits = {i}
  BY <1>1, <1>2
<1>4. BandOf(bands, score) = bands[CHOOSE m \in hits : \A n \in hits : m <= n]
  <2>1. hits # {}
    BY <1>3
  <2> QED
    BY <2>1 DEF BandOf, Min
<1>5. (CHOOSE m \in hits : \A n \in hits : m <= n) = i
  <2>1. i <= i
    BY <1>0
  <2> HIDE DEF hits
  <2>2. \E m \in hits : \A n \in hits : m <= n
    BY <2>1, <1>3
  <2>3. (CHOOSE m \in hits : \A n \in hits : m <= n) \in hits
    BY <2>2
  <2> QED
    BY <2>3, <1>3
<1> QED
  BY <1>3, <1>4, <1>5

\* The built-in matrix is a profile the loader accepts.
LEMMA StandardProfile ==
  Bands \in Seq(BandsOf(LevelSet)) /\ ValidProfile(Bands, 25)
<1>1. DOMAIN Bands = 1..4 /\ Len(Bands) = 4
  BY DEF Bands
<1>2. /\ Bands[1] = Band("GREEN", 1, 3, FALSE) /\ Bands[2] = Band("YELLOW", 4, 8, FALSE)
      /\ Bands[3] = Band("ORANGE", 9, 14, TRUE) /\ Bands[4] = Band("RED", 15, 25, TRUE)
  BY DEF Bands
<1>3. \A i \in 1..4 : i = 1 \/ i = 2 \/ i = 3 \/ i = 4
  OBVIOUS
<1>4. Bands \in Seq(BandsOf(LevelSet))
  <2>1. \A i \in 1..4 : Bands[i] \in BandsOf(LevelSet)
    <3>1. ASSUME NEW level \in LevelSet, NEW lo \in Int, NEW hi \in Int, NEW alert \in BOOLEAN
          PROVE  Band(level, lo, hi, alert) \in BandsOf(LevelSet)
      BY DEF Band, BandsOf
    <3>2. {1, 3, 4, 8, 9, 14, 15, 25} \subseteq Int
      OBVIOUS
    <3>3. /\ Bands[1] \in BandsOf(LevelSet) /\ Bands[2] \in BandsOf(LevelSet)
          /\ Bands[3] \in BandsOf(LevelSet) /\ Bands[4] \in BandsOf(LevelSet)
      BY <1>2, <3>1, <3>2, Zenon DEF LevelSet
    <3> QED
      BY <1>3, <3>3
  <2>2. Bands = [i \in 1..4 |-> Bands[i]]
    BY <1>1 DEF Bands
  <2> QED
    BY <2>1, <2>2
<1>5. \A i \in 1..4 : Bands[i].level \in {Levels[k] : k \in DOMAIN Levels}
  BY <1>2, <1>3, RanksOfLevels DEF Band
<1>6. \A i \in 1..4 : /\ Bands[i].min <= Bands[i].max
                      /\ Bands[i].min = IF i = 1 THEN 1 ELSE Bands[i - 1].max + 1
  BY <1>2, <1>3 DEF Band
<1>7. Bands[Len(Bands)].max = 25 /\ Bands # <<>>
  BY <1>1, <1>2 DEF Band
<1> QED
  BY <1>1, <1>4, <1>5, <1>6, <1>7 DEF ValidProfile

\* A number within the scale is its own clamp.
LEMMA ClampInside ==
  ASSUME NEW top \in Nat, NEW n \in 1..top
  PROVE  Clamp(n, top) = n
<1>1. (CHOOSE x \in {top, n} : \A y \in {top, n} : x <= y) = n
  <2>1. n \in {top, n} /\ \A y \in {top, n} : n <= y
    OBVIOUS
  <2>2. \A x \in {top, n} : (\A y \in {top, n} : x <= y) => x = n
    OBVIOUS
  <2> QED
    BY <2>1, <2>2
<1>2. (CHOOSE x \in {1, n} : \A y \in {1, n} : x >= y) = n
  <2>1. n \in {1, n} /\ \A y \in {1, n} : n >= y
    OBVIOUS
  <2>2. \A x \in {1, n} : (\A y \in {1, n} : x >= y) => x = n
    OBVIOUS
  <2> QED
    BY <2>1, <2>2
<1> QED
  BY <1>1, <1>2 DEF Clamp, Min, Max

\* The level of each score, through the whole scale.
LEMMA LevelByScore ==
  ASSUME NEW score \in 1..25
  PROVE  BandOf(Bands, score).level =
           IF score <= 3 THEN "GREEN" ELSE IF score <= 8 THEN "YELLOW"
           ELSE IF score <= 14 THEN "ORANGE" ELSE "RED"
<1>1. PICK i \in DOMAIN Bands :
        /\ i \in {j \in DOMAIN Bands : Bands[j].min <= score /\ score <= Bands[j].max}
        /\ BandOf(Bands, score) = Bands[i]
  <2>1. PICK i \in DOMAIN Bands :
          /\ {j \in DOMAIN Bands : Bands[j].min <= score /\ score <= Bands[j].max} = {i}
          /\ BandOf(Bands, score) = Bands[i]
    BY StandardProfile, ProfilesPartScores
  <2> QED
    BY <2>1
<1>2. i \in 1..4
  BY DEF Bands
<1>3. /\ Bands[1] = Band("GREEN", 1, 3, FALSE) /\ Bands[2] = Band("YELLOW", 4, 8, FALSE)
      /\ Bands[3] = Band("ORANGE", 9, 14, TRUE) /\ Bands[4] = Band("RED", 15, 25, TRUE)
  BY DEF Bands
<1>4. i = 1 \/ i = 2 \/ i = 3 \/ i = 4
  BY <1>2
<1> QED
  BY <1>1, <1>3, <1>4 DEF Band

\* How grave a finding is.
Gravity(f) == Rank(Evaluate(SL[f.sl][1], SL[f.sl][2]).level)

\* What the rules that withhold a finding put in its place is at least as grave.
LEMMA GraverFindings ==
  ASSUME NEW f, NEW g,
         \/ f.sl = "smoke" /\ g.sl = "fire"
         \/ f.sl = "spill_slip" /\ g.sl = "spill_slip_person"
         \/ f.sl = "electrical_exposed" /\ g.sl = "electrical_exposed_person"
         \/ f.sl = "open_hole_fall" /\ g.sl = "open_hole_fall_person"
  PROVE  Gravity(f) <= Gravity(g)
<1>1. ASSUME NEW a \in 1..5, NEW b \in 1..5
      PROVE  Evaluate(a, b).level = BandOf(Bands, a * b).level
  BY ClampInside DEF Evaluate
<1>2. /\ SL["smoke"] = <<3, 3>> /\ SL["fire"] = <<5, 4>>
      /\ SL["spill_slip"] = <<2, 3>> /\ SL["spill_slip_person"] = <<3, 4>>
      /\ SL["electrical_exposed"] = <<4, 2>> /\ SL["electrical_exposed_person"] = <<4, 3>>
      /\ SL["open_hole_fall"] = <<4, 2>> /\ SL["open_hole_fall_person"] = <<4, 4>>
  BY DEF SL
<1>3. /\ Evaluate(3, 3).level = "ORANGE" /\ Evaluate(5, 4).level = "RED"
      /\ Evaluate(2, 3).level = "YELLOW" /\ Evaluate(3, 4).level = "ORANGE"
      /\ Evaluate(4, 2).level = "YELLOW" /\ Evaluate(4, 3).level = "ORANGE"
      /\ Evaluate(4, 4).level = "RED"
  BY <1>1, LevelByScore
<1>4. CASE f.sl = "smoke" /\ g.sl = "fire"
  BY <1>2, <1>3, <1>4, RanksOfLevels DEF Gravity
<1>5. CASE f.sl = "spill_slip" /\ g.sl = "spill_slip_person"
  BY <1>2, <1>3, <1>5, RanksOfLevels DEF Gravity
<1>6. CASE f.sl = "electrical_exposed" /\ g.sl = "electrical_exposed_person"
  BY <1>2, <1>3, <1>6, RanksOfLevels DEF Gravity
<1>7. CASE f.sl = "open_hole_fall" /\ g.sl = "open_hole_fall_person"
  BY <1>2, <1>3, <1>7, RanksOfLevels DEF Gravity
<1> QED
  BY <1>4, <1>5, <1>6, <1>7

\* A frame that has the entities of another, and perhaps more.
Continues(F, E) == DOMAIN E \subseteq DOMAIN F /\ \A i \in DOMAIN E : F[i] = E[i]

\* One more entity leaves the others what they are.
LEMMA MoreEntities ==
  ASSUME NEW Things, NEW E \in Seq(Things), NEW e \in Things
  PROVE  Continues(Append(E, e), E)
<1>1. DOMAIN E = 1..Len(E) /\ DOMAIN Append(E, e) = 1..(Len(E) + 1) /\ Len(E) \in Nat
  OBVIOUS
<1>2. \A i \in 1..Len(E) : Append(E, e)[i] = E[i]
  OBVIOUS
<1> QED
  BY <1>1, <1>2 DEF Continues

\* So it leaves every pair of a person and a thing near it.
LEMMA MorePairs ==
  ASSUME NEW E, NEW F, Continues(F, E), NEW class
  PROVE  /\ Of(E, class) \subseteq Of(F, class)
         /\ NearPairs(E, class) \subseteq NearPairs(F, class)
         /\ \A p \in NearPairs(E, class) : Overlapping(E, p[1], p[2]) = Overlapping(F, p[1], p[2])
<1>1. \A c : Of(E, c) \subseteq Of(F, c)
  BY DEF Of, Continues
<1>2. \A i, j \in DOMAIN E : Overlapping(E, i, j) = Overlapping(F, i, j)
  BY DEF Overlapping, Continues
<1>3. ASSUME NEW p \in NearPairs(E, class)
      PROVE  /\ p \in NearPairs(F, class)
             /\ Overlapping(E, p[1], p[2]) = Overlapping(F, p[1], p[2])
  <2>1. p \in Of(E, "person") \X Of(E, class) /\ p[1] \in DOMAIN E /\ p[2] \in DOMAIN E
    BY DEF NearPairs, Of
  <2>2. p \in Of(F, "person") \X Of(F, class)
    BY <2>1, <1>1
  <2>3. Overlapping(E, p[1], p[2]) \/ Within(E[p[1]].box, E[p[2]].box, 12)
    BY DEF NearPairs
  <2>4. Overlapping(F, p[1], p[2]) \/ Within(F[p[1]].box, F[p[2]].box, 12)
    BY <2>1, <2>3, <1>2 DEF Continues
  <2> QED
    BY <2>1, <2>2, <2>4, <1>2 DEF NearPairs
<1> QED
  BY <1>1, <1>3

\* What a rule tells of one class alone it still tells.
LEMMA PresentGrows ==
  ASSUME NEW E, NEW F, Continues(F, E),
         NEW class, NEW hazard, NEW state
  PROVE  Present(E, class, hazard, state) \subseteq Present(F, class, hazard, state)
BY MorePairs DEF Present

\* A person near a thing still is, and overlaps it or not as before (risk_engine.py).
LEMMA ProximityGrows ==
  ASSUME NEW E, NEW F, Continues(F, E),
         NEW class, NEW hazard, NEW near, NEW overlap
  PROVE  Proximity(E, class, hazard, near, overlap) \subseteq Proximity(F, class, hazard, near, overlap)
BY MorePairs DEF Proximity

\* A person at the edge of the frame still is.
LEMMA NearEdgeGrows ==
  ASSUME NEW E, NEW F, Continues(F, E)
  PROVE  NearEdge(E) \subseteq NearEdge(F)
BY DEF NearEdge, Continues

\* A load above a person still is.
LEMMA OverheadGrows ==
  ASSUME NEW E, NEW F, Continues(F, E)
  PROVE  Overhead(E) \subseteq Overhead(F)
<1>1. ASSUME NEW p \in Of(E, "suspended") \X Of(E, "person"), Above(E[p[1]].box, E[p[2]].box)
      PROVE  p \in Of(F, "suspended") \X Of(F, "person") /\ Above(F[p[1]].box, F[p[2]].box)
  <2>1. p[1] \in DOMAIN E /\ p[2] \in DOMAIN E
    BY DEF Of
  <2> QED
    BY <2>1, <1>1, MorePairs DEF Continues
<1> QED
  BY <1>1 DEF Overhead

\* The rules that escalate tell of the pairs instead, and those are graver.
LEMMA EscalatingGrows ==
  ASSUME NEW E, NEW F, Continues(F, E),
         NEW class, NEW hazard, NEW escalated
  PROVE  \A f \in Escalating(E, class, hazard, escalated) :
           \E g \in Escalating(F, class, hazard, escalated) :
             g = f \/ (f.sl = hazard /\ g.sl = escalated)
<1> TAKE f \in Escalating(E, class, hazard, escalated)
<1>1. CASE NearPairs(E, class) # {}
  BY <1>1, MorePairs DEF Escalating
<1>2. CASE NearPairs(E, class) = {} /\ NearPairs(F, class) = {}
  BY <1>2, PresentGrows DEF Escalating
<1>3. CASE NearPairs(E, class) = {} /\ NearPairs(F, class) # {}
  <2>1. f \in Present(E, class, hazard, "latent")
    BY <1>3 DEF Escalating
  <2>2. f.sl = hazard
    BY <2>1 DEF Present, Found
  <2>3. PICK p \in NearPairs(F, class) : TRUE
    BY <1>3
  <2>4. Found(hazard, "active", escalated, {p[1], p[2]}, p[2]) \in Escalating(F, class, hazard, escalated)
    BY <1>3, <2>3 DEF Escalating
  <2> QED
    BY <2>2, <2>4 DEF Found
<1> QED
  BY <1>1, <1>2, <1>3

\* Each finding in a frame has one at least as grave in the frame with one more entity.
LEMMA FindingsStay ==
  ASSUME NEW E, NEW F, Continues(F, E),
         NEW f \in RunRules(E)
  PROVE  \E g \in RunRules(F) : g = f \/ Gravity(f) <= Gravity(g)
<1>1. CASE \/ f \in Present(E, "no_hardhat", "ppe_missing_hardhat", "active")
           \/ f \in Present(E, "no_vest", "ppe_missing_vest", "active")
           \/ f \in Present(E, "no_gloves", "ppe_missing_gloves", "active")
           \/ f \in Present(E, "fire", "fire", "active")
           \/ f \in Present(E, "blocked_exit", "blocked_exit", "active")
           \/ f \in NearEdge(E)
           \/ f \in Overhead(E)
  <2>1. f \in RunRules(F)
    BY <1>1, PresentGrows, NearEdgeGrows, OverheadGrows DEF RunRules
  <2> QED
    BY <2>1
<1>2. CASE \/ f \in Proximity(E, "forklift", "person_forklift_proximity",
                             "person_forklift_near", "person_forklift_overlap")
           \/ f \in Proximity(E, "bus", "person_vehicle_proximity",
                             "person_vehicle_near", "person_vehicle_overlap")
           \/ f \in Proximity(E, "ladder", "working_at_height_ladder",
                             "working_at_height_ladder", "working_at_height_ladder")
           \/ f \in Proximity(E, "scaffold", "scaffold_proximity",
                             "scaffold_proximity", "scaffold_proximity")
  <2>1. f \in RunRules(F)
    BY <1>2, ProximityGrows DEF RunRules
  <2> QED
    BY <2>1
<1>3. CASE f \in (IF Of(E, "fire") = {} THEN Present(E, "smoke", "smoke", "active") ELSE {})
  <2>1. f \in Present(E, "smoke", "smoke", "active") /\ f.sl = "smoke"
    BY <1>3 DEF Present, Found
  <2>2. CASE Of(F, "fire") = {}
    <3>1. f \in RunRules(F)
      BY <2>1, <2>2, PresentGrows DEF RunRules
    <3> QED
      BY <3>1
  <2>3. CASE Of(F, "fire") # {}
    <3>1. PICK i \in Of(F, "fire") : TRUE
      BY <2>3
    <3>2. Found("fire", "active", "fire", {i}, i) \in RunRules(F)
      BY <3>1 DEF Present, RunRules
    <3>3. Found("fire", "active", "fire", {i}, i).sl = "fire"
      BY DEF Found
    <3> QED
      BY <2>1, <3>2, <3>3, GraverFindings
  <2> QED
    BY <2>2, <2>3
<1>4. CASE f \in Escalating(E, "spill", "spill_slip", "spill_slip_person")
  <2>1. PICK g \in Escalating(F, "spill", "spill_slip", "spill_slip_person") :
          g = f \/ (f.sl = "spill_slip" /\ g.sl = "spill_slip_person")
    BY <1>4, EscalatingGrows
  <2>2. g \in RunRules(F)
    BY DEF RunRules
  <2>3. g = f \/ Gravity(f) <= Gravity(g)
    BY <2>1, GraverFindings
  <2> QED
    BY <2>2, <2>3
<1>5. CASE f \in Escalating(E, "electrical", "electrical_exposed", "electrical_exposed_person")
  <2>1. PICK g \in Escalating(F, "electrical", "electrical_exposed", "electrical_exposed_person") :
          g = f \/ (f.sl = "electrical_exposed" /\ g.sl = "electrical_exposed_person")
    BY <1>5, EscalatingGrows
  <2>2. g \in RunRules(F)
    BY DEF RunRules
  <2>3. g = f \/ Gravity(f) <= Gravity(g)
    BY <2>1, GraverFindings
  <2> QED
    BY <2>2, <2>3
<1>6. CASE f \in Escalating(E, "hole", "open_hole_fall", "open_hole_fall_person")
  <2>1. PICK g \in Escalating(F, "hole", "open_hole_fall", "open_hole_fall_person") :
          g = f \/ (f.sl = "open_hole_fall" /\ g.sl = "open_hole_fall_person")
    BY <1>6, EscalatingGrows
  <2>2. g \in RunRules(F)
    BY DEF RunRules
  <2>3. g = f \/ Gravity(f) <= Gravity(g)
    BY <2>1, GraverFindings
  <2> QED
    BY <2>2, <2>3
<1> QED
  BY <1>1, <1>2, <1>3, <1>4, <1>5, <1>6 DEF RunRules

\* The highest of some levels is one of them, or the lowest there is.
LEMMA HighestIsOne ==
  ASSUME NEW levels \in SUBSET LevelSet
  PROVE  Highest(levels) = "GREEN" \/ Highest(levels) \in levels
<1> DEFINE ranks == {1} \cup {Rank(h) : h \in levels}
           most == CHOOSE m \in ranks : \A x \in ranks : m >= x
<1>1. Highest(levels) = Levels[most]
  BY DEF Highest, Max
<1>2. most \in ranks
  <2>1. \E m \in ranks : \A x \in ranks : m >= x
    <3>1. ranks \subseteq 1..4 /\ 1 \in ranks
      BY RanksOfLevels DEF LevelSet
    <3> HIDE DEF ranks
    <3>2. CASE 4 \in ranks
      BY <3>2, <3>1
    <3>3. CASE 4 \notin ranks /\ 3 \in ranks
      BY <3>3, <3>1
    <3>4. CASE 4 \notin ranks /\ 3 \notin ranks /\ 2 \in ranks
      BY <3>4, <3>1
    <3>5. CASE 4 \notin ranks /\ 3 \notin ranks /\ 2 \notin ranks
      BY <3>5, <3>1
    <3> QED
      BY <3>2, <3>3, <3>4, <3>5
  <2> QED
    BY <2>1
<1>3. \A h \in levels : Levels[Rank(h)] = h
  BY RanksOfLevels DEF LevelSet
<1> HIDE DEF most
<1> QED
  BY <1>1, <1>2, <1>3, RanksOfLevels

\* One more object in a frame never lowers its level, whatever the frame and the tracks, and
\* although some rules withhold findings: smoke under a fire, the latent ones once a person
\* is near (risk_engine.py:210-285).
THEOREM ObjectsOnlyRaise ==
  ASSUME NEW Things, NEW E \in Seq(Things), NEW e \in Things, NEW tracks, NEW later
  PROVE  Rank(Highest({r.level : r \in Scored(E, tracks)}))
           <= Rank(Highest({r.level : r \in Scored(Append(E, e), later)}))
<1> DEFINE F == Append(E, e)
           before == {r.level : r \in Scored(E, tracks)}
           after == {r.level : r \in Scored(F, later)}
<1>1. before \subseteq LevelSet /\ after \subseteq LevelSet
  BY EngineRisks DEF IsEngineRisk, IsRisk
<1>2. \A f \in RunRules(F) : Evaluate(SL[f.sl][1], SL[f.sl][2]).level \in after
  <2>1. ASSUME NEW f \in RunRules(F)
        PROVE  \E r \in Scored(F, later) : r.level = Evaluate(SL[f.sl][1], SL[f.sl][2]).level
    <3> DEFINE band == Evaluate(SL[f.sl][1], SL[f.sl][2])
               trackOf == EntityTracks(F, later)
               r == Risk(f.hazard, f.state, band.level, band.alert,
                         {trackOf[i] : i \in f.who \cap DOMAIN trackOf}, F[f.at].box, "engine")
    <3>1. r \in Scored(F, later)
      BY DEF Scored
    <3>2. r.level = band.level
      BY DEF Risk
    <3> QED
      BY <3>1, <3>2
  <2> QED
    BY <2>1
<1>3. \A l \in before : \E f \in RunRules(E) : l = Evaluate(SL[f.sl][1], SL[f.sl][2]).level
  BY DEF Scored, Risk
<1>4. Rank(Highest(before)) <= Rank(Highest(after))
  <2>1. \A S \in SUBSET LevelSet : Highest(S) = "GREEN" \/ Highest(S) \in S
    BY HighestIsOne
  <2>2. CASE Highest(before) = "GREEN"
    <3>1. Highest(after) \in LevelSet
      BY <1>1, <2>1 DEF LevelSet
    <3> QED
      BY <2>2, <3>1, RanksOfLevels DEF LevelSet
  <2>3. CASE Highest(before) \in before
    <3>1. PICK f \in RunRules(E) : Highest(before) = Evaluate(SL[f.sl][1], SL[f.sl][2]).level
      BY <2>3, <1>3
    <3>2. PICK g \in RunRules(F) : g = f \/ Gravity(f) <= Gravity(g)
      <4>1. Continues(F, E)
        BY MoreEntities
      <4> HIDE DEF F
      <4> QED
        BY <4>1, FindingsStay
    <3> DEFINE l == Evaluate(SL[g.sl][1], SL[g.sl][2]).level
    <3>3. l \in after /\ l \in LevelSet /\ Highest(before) \in LevelSet
      BY <1>1, <1>2, <2>3
    <3>4. Rank(Highest(before)) <= Rank(l)
      <4>1. Rank(Highest(before)) = Gravity(f) /\ Rank(l) = Gravity(g)
        BY <3>1 DEF Gravity
      <4>2. Rank(l) \in Nat
        BY <3>3, RanksOfLevels DEF LevelSet
      <4> QED
        BY <3>2, <4>1, <4>2
    <3>5. Highest(after) \in {Levels[k] : k \in Rank(l)..4}
      BY <1>1, <3>3, HighestOf
    <3>6. Rank(l) <= Rank(Highest(after)) /\ Rank(Highest(after)) \in 1..4 /\ Rank(l) \in 1..4
      <4>1. Rank(l) \in 1..4
        BY <3>3, RanksOfLevels DEF LevelSet
      <4>2. PICK k \in Rank(l)..4 : Highest(after) = Levels[k]
        BY <3>5
      <4>3. Rank(Levels[k]) = k
        BY <4>1, <4>2, RanksOfLevels
      <4> QED
        BY <4>1, <4>2, <4>3
    <3>7. Rank(Highest(before)) \in 1..4
      BY <3>3, RanksOfLevels DEF LevelSet
    <3> QED
      BY <3>4, <3>6, <3>7
  <2> QED
    BY <1>1, <2>1, <2>2, <2>3
<1> QED
  BY <1>4

-------------------------------------------------------------------------------
(*****************************************************************************)
(* The guard in front of the routes.                                         *)
(*****************************************************************************)

\* What may stand where a request has a credential, at any words.
Credentials(Words) == [set : BOOLEAN, ok : BOOLEAN, value : Words]

\* The case that applies first decides, in a list of any length.
LEMMA FirstCaseDecides ==
  ASSUME NEW cases, NEW otherwise, DOMAIN cases \in SUBSET Nat
  PROVE  \/ FirstOf(cases, otherwise) = otherwise /\ \A i \in DOMAIN cases : ~cases[i].holds
         \/ \E i \in DOMAIN cases : /\ cases[i].holds /\ FirstOf(cases, otherwise) = cases[i].gives
                            /\ \A j \in DOMAIN cases : j < i => ~cases[j].holds
<1> DEFINE hits == {i \in DOMAIN cases : cases[i].holds}
           first == CHOOSE m \in hits : \A k \in hits : m <= k
<1>1. FirstOf(cases, otherwise) = IF hits = {} THEN otherwise ELSE cases[first].gives
  BY DEF FirstOf, Min
<1>2. CASE hits = {}
  BY <1>1, <1>2
<1>3. CASE hits # {}
  <2>1. hits \in SUBSET Nat
    OBVIOUS
  <2>2. \E m \in hits : \A k \in hits : m <= k
    <3> HIDE DEF hits
    <3> QED
      BY <1>3, <2>1, LeastNatural
  <2>3. first \in hits /\ \A k \in hits : first <= k
    BY <2>2
  <2>4. FirstOf(cases, otherwise) = cases[first].gives
    BY <1>1, <1>3
  <2> HIDE DEF first
  <2>5. first \in DOMAIN cases /\ cases[first].holds
    BY <2>3
  <2>6. ASSUME NEW j \in DOMAIN cases, j < first PROVE ~cases[j].holds
    <3>1. j \notin hits
      BY <2>3, <2>5, <2>6
    <3> QED
      BY <3>1
  <2> QED
    BY <2>4, <2>5, <2>6
<1> QED
  BY <1>2, <1>3

\* With a secret set, a request passes only by the first credential it presents, which is the
\* secret: a later one, of a list of any length, does not make up for a wrong one before it
\* (worker_security.py).
LEMMA BearerPresents ==
  ASSUME NEW secret, NEW Words, NEW places \in Seq(Credentials(Words)),
         Matches(Given(secret), Presented(places))
  PROVE  \E i \in DOMAIN places :
           /\ places[i].set /\ places[i].ok /\ places[i].value = secret
           /\ \A j \in DOMAIN places : j < i => ~places[j].set
<1> DEFINE cases == [i \in DOMAIN places |-> Case(places[i].set, places[i])]
<1>1. DOMAIN cases = 1..Len(places) /\ Len(places) \in Nat /\ DOMAIN places = 1..Len(places)
  OBVIOUS
<1>2. Presented(places) = FirstOf(cases, Missing)
  BY DEF Presented
<1>3. \A i \in DOMAIN places : cases[i].holds = places[i].set /\ cases[i].gives = places[i]
  BY DEF Case
<1>4. Presented(places).ok /\ Presented(places).value = secret
  BY Zenon DEF Matches, Given
<1>5. ~Missing.ok
  BY DEF Missing
<1> HIDE DEF cases
<1>6. Presented(places) # Missing
  BY <1>4, <1>5
<1>7. PICK i \in 1..Len(places) :
        /\ cases[i].holds /\ FirstOf(cases, Missing) = cases[i].gives
        /\ \A j \in 1..Len(places) : j < i => ~cases[j].holds
  <2>1. DOMAIN cases \in SUBSET Nat
    BY <1>1
  <2> QED
    BY <2>1, <1>1, <1>2, <1>6, FirstCaseDecides
<1> QED
  BY <1>1, <1>2, <1>3, <1>4, <1>7, Zenon

\* No request but the bearer's gets past the middleware with a secret set, except to a public
\* path; nor one that is too long (worker_security.py, server.py:356-370).
THEOREM SecretGuards ==
  ASSUME NEW secret, NEW Words, NEW own \in Credentials(Words), NEW authorization \in Credentials(Words),
         NEW path, NEW extra, NEW length, NEW cap, path \notin PublicPaths(extra),
         Hardening(path, extra, CheckHttp(Given(secret), own, authorization), length, cap) = 0
  PROVE  /\ \/ own.set /\ own.ok /\ own.value = secret
            \/ ~own.set /\ authorization.set /\ authorization.ok /\ authorization.value = secret
         /\ ~(length.ok /\ length.value > cap)
<1> DEFINE authorized == CheckHttp(Given(secret), own, authorization)
           long == length.ok /\ length.value > cap
           cases == <<Case(path \in PublicPaths(extra), 0), Case(~authorized, 401), Case(long, 413)>>
<1>1. FirstOf(cases, 0) = 0
  BY DEF Hardening
<1>2. DOMAIN cases = 1..3
  OBVIOUS
<1>3. /\ cases[1].holds = (path \in PublicPaths(extra)) /\ cases[1].gives = 0
      /\ cases[2].holds = (~authorized) /\ cases[2].gives = 401
      /\ cases[3].holds = long /\ cases[3].gives = 413
  BY DEF Case
<1> HIDE DEF cases, authorized, long
<1>4. ~cases[2].holds /\ ~cases[3].holds
  <2>1. \/ \A i \in 1..3 : ~cases[i].holds
        \/ \E i \in 1..3 : /\ cases[i].holds /\ 0 = cases[i].gives
                           /\ \A j \in 1..3 : j < i => ~cases[j].holds
    <3>1. \/ FirstOf(cases, 0) = 0 /\ \A i \in DOMAIN cases : ~cases[i].holds
          \/ \E i \in DOMAIN cases : /\ cases[i].holds /\ FirstOf(cases, 0) = cases[i].gives
                                     /\ \A j \in DOMAIN cases : j < i => ~cases[j].holds
      <4>1. DOMAIN cases \in SUBSET Nat
        BY <1>2
      <4> QED
        BY <4>1, FirstCaseDecides
    <3> QED
      BY <1>1, <1>2, <3>1
  <2>2. CASE \A i \in 1..3 : ~cases[i].holds
    BY <2>2
  <2>3. ASSUME NEW i \in 1..3, cases[i].holds, 0 = cases[i].gives PROVE FALSE
    <3>1. i = 1 \/ i = 2 \/ i = 3
      OBVIOUS
    <3>2. ~cases[1].holds
      BY <1>3
    <3> QED
      BY <2>3, <3>1, <3>2, <1>3
  <2> QED
    BY <2>1, <2>2, <2>3
<1>5. authorized /\ ~long
  BY <1>3, <1>4, Zenon
<1>6. Matches(Given(secret), Presented(<<own, authorization>>))
  BY <1>5 DEF authorized, CheckHttp
<1> DEFINE places == <<own, authorization>>
<1>7. /\ places \in Seq(Credentials(Words)) /\ DOMAIN places = 1..2
      /\ places[1] = own /\ places[2] = authorization
  OBVIOUS
<1> HIDE DEF places
<1>8. PICK i \in DOMAIN places :
        /\ places[i].set /\ places[i].ok /\ places[i].value = secret
        /\ \A j \in DOMAIN places : j < i => ~places[j].set
  <2>1. Matches(Given(secret), Presented(places))
    BY <1>6 DEF places
  <2> QED
    BY <1>7, <2>1, BearerPresents
<1>9. i = 1 \/ i = 2
  BY <1>7
<1>10. CASE i = 1
  BY <1>5, <1>7, <1>8, <1>10 DEF long
<1>11. CASE i = 2
  <2>1. ~own.set
    <3>1. 1 \in DOMAIN places /\ 1 < 2
      BY <1>7
    <3> QED
      BY <1>7, <1>8, <1>11, <3>1, Zenon
  <2> QED
    BY <1>5, <1>7, <1>8, <1>11, <2>1, Zenon DEF long
<1> QED
  BY <1>9, <1>10, <1>11

-------------------------------------------------------------------------------
(*****************************************************************************)
(* The loads of the EdgeCrafter models, over any history of them.  What fits *)
(* the first worker and is kept by every load and restart fits all.          *)
(*****************************************************************************)

\* How a download may end, and how those of a worker do: D is a set of them throughout.
Downloads == {"unreachable", "cut", "unseen", "kept", "ok"}

\* What a process may find on the volume: a checkpoint under its name, torn if a download
\* may end short unseen, or none, and whatever an earlier download left beside it.
Checkpoints(D) ==
  [path : {"absent", "empty", "whole"} \cup IF "unseen" \in D THEN {"partial"} ELSE {},
   part : {"absent", "empty", "partial", "whole"}]
Volumes(D) == [{"det", "pose"} -> Checkpoints(D)]

\* How the parts of one load may end.
Ends(D) == [{"det", "pose"} -> [download : D, builds : BOOLEAN]]

\* One worker through loads that end as they may and restarts, in any order.
LoadHistory(D, h) ==
  /\ DOMAIN h = Nat
  /\ \E files \in Volumes(D) : h[0] = NewProcess(files)
  /\ \A n \in Nat : \/ h[n + 1] = Restarted(h[n])
                    \/ \E ends \in Ends(D) : h[n + 1] = Load(h[n], {"det", "pose"}, ends)

\* A load of this process has come to the pose model and failed, and none has ended well since.
PoseFailed(w) == ~w.loaded /\ "ecpose" \in ToSet(w.path)

Paths == {<<>>, <<"ecdetseg">>, <<"ecpose", "ecdetseg">>}

\* The detector's subtree is the first to get on the path, the other then stands before it;
\* the pose model is of its own, and a loaded worker has both.
IsWorker(D, w) ==
  /\ w = [files |-> w.files, path |-> w.path, models |-> w.models, loaded |-> w.loaded]
  /\ w.files \in Volumes(D) /\ w.path \in Paths /\ w.loaded \in BOOLEAN
  /\ w.models = [t \in DOMAIN w.models |-> w.models[t]] /\ DOMAIN w.models \subseteq {"det", "pose"}
  /\ w.loaded => /\ DOMAIN w.models = {"det", "pose"} /\ w.models["pose"] = "ecpose"
                 /\ w.models["det"] \in {"ecdetseg", "ecpose"}

\* A download leaves a file under its name that is whole, or what was there, or ends unseen.
LEMMA CheckpointWhole ==
  ASSUME NEW D \in SUBSET Downloads, NEW file \in Checkpoints(D), NEW download \in D
  PROVE  EnsureCheckpoint(file, download) \in Checkpoints(D)
BY DEF EnsureCheckpoint, OnDisk, Checkpoints, Downloads

\* What stands on the three paths, and first.
LEMMA PathElements ==
  /\ ToSet(<<>>) = {} /\ ToSet(<<"ecdetseg">>) = {"ecdetseg"}
  /\ ToSet(<<"ecpose", "ecdetseg">>) = {"ecpose", "ecdetseg"}
  /\ <<"ecdetseg">> \o <<>> = <<"ecdetseg">>
  /\ <<"ecpose">> \o <<"ecdetseg">> = <<"ecpose", "ecdetseg">>
  /\ Head(<<"ecdetseg">>) = "ecdetseg" /\ Head(<<"ecpose", "ecdetseg">>) = "ecpose"
<1>1. /\ DOMAIN <<>> = {} /\ DOMAIN <<"ecdetseg">> = {1} /\ DOMAIN <<"ecpose", "ecdetseg">> = {1, 2}
  OBVIOUS
<1>2. ToSet(<<>>) = {} /\ ToSet(<<"ecdetseg">>) = {"ecdetseg"}
  BY <1>1 DEF ToSet
<1>3. ToSet(<<"ecpose", "ecdetseg">>) = {"ecpose", "ecdetseg"}
  BY <1>1 DEF ToSet
<1>4. <<"ecdetseg">> \o <<>> = <<"ecdetseg">>
  OBVIOUS
<1>5. <<"ecpose">> \o <<"ecdetseg">> = <<"ecpose", "ecdetseg">>
  <2> DEFINE joined == <<"ecpose">> \o <<"ecdetseg">>
  <2>1. /\ joined \in Seq({"ecpose", "ecdetseg"}) /\ Len(joined) = 2
        /\ joined[1] = "ecpose" /\ joined[2] = "ecdetseg"
    OBVIOUS
  <2> HIDE DEF joined
  <2>2. joined = <<"ecpose", "ecdetseg">>
    BY <2>1
  <2> QED
    BY <2>2 DEF joined
<1>6. Head(<<"ecdetseg">>) = "ecdetseg" /\ Head(<<"ecpose", "ecdetseg">>) = "ecpose"
  OBVIOUS
<1> QED
  BY <1>2, <1>3, <1>4, <1>5, <1>6

\* A build finds its subtree on the path, or puts it first.
LEMMA SubtreeAdded ==
  /\ AddSubtreeToPath(<<>>, Subtree["det"]) = <<"ecdetseg">>
  /\ \A path \in Paths \ {<<>>} :
       /\ AddSubtreeToPath(path, Subtree["det"]) = path
       /\ AddSubtreeToPath(path, Subtree["pose"]) = <<"ecpose", "ecdetseg">>
<1>1. Subtree["det"] = "ecdetseg" /\ Subtree["pose"] = "ecpose"
  BY DEF Subtree
<1>2. "ecdetseg" # "ecpose"
  OBVIOUS
<1>3. ToSet(<<>>) = {} => AddSubtreeToPath(<<>>, "ecdetseg") = <<"ecdetseg">> \o <<>>
  BY DEF AddSubtreeToPath
<1>4. AddSubtreeToPath(<<"ecdetseg">>, "ecdetseg") = <<"ecdetseg">>
  BY PathElements DEF AddSubtreeToPath
<1>5. AddSubtreeToPath(<<"ecdetseg">>, "ecpose") = <<"ecpose", "ecdetseg">>
  BY PathElements, <1>2 DEF AddSubtreeToPath
<1>6. AddSubtreeToPath(<<"ecpose", "ecdetseg">>, "ecdetseg") = <<"ecpose", "ecdetseg">>
  BY PathElements DEF AddSubtreeToPath
<1>7. AddSubtreeToPath(<<"ecpose", "ecdetseg">>, "ecpose") = <<"ecpose", "ecdetseg">>
  BY PathElements DEF AddSubtreeToPath
<1>8. \A path \in Paths \ {<<>>} : path = <<"ecdetseg">> \/ path = <<"ecpose", "ecdetseg">>
  BY DEF Paths
<1> QED
  BY <1>1, <1>3, <1>4, <1>5, <1>6, <1>7, <1>8, PathElements
\* A build that finds a path to stand on leaves a worker, with the model of its first subtree.
LEMMA ModelBuilt ==
  ASSUME NEW D, NEW w, IsWorker(D, w), ~w.loaded,
         NEW t \in {"det", "pose"}, NEW builds \in BOOLEAN,
         t = "det" \/ w.path # <<>>,
         NEW v, v = BuildModel(w, t, builds)
  PROVE  /\ IsWorker(D, v) /\ ~v.loaded /\ v.path # <<>>
         /\ v.path = AddSubtreeToPath(w.path, Subtree[t])
         /\ builds => /\ DOMAIN v.models = DOMAIN w.models \cup {t}
                      /\ v.models[t] = Head(v.path)
                      /\ \A k \in DOMAIN w.models : k # t => v.models[k] = w.models[k]
<1> DEFINE path == AddSubtreeToPath(w.path, Subtree[t])
           models == IF builds THEN [k \in DOMAIN w.models \cup {t} |->
                                       IF k = t THEN Head(path) ELSE w.models[k]]
                     ELSE w.models
<1>1. path \in Paths /\ path # <<>>
  <2>1. w.path \in Paths
    BY DEF IsWorker
  <2>2. <<"ecdetseg">> # <<>> /\ <<"ecpose", "ecdetseg">> # <<>>
    OBVIOUS
  <2>3. <<"ecdetseg">> \in Paths /\ <<"ecpose", "ecdetseg">> \in Paths
    BY DEF Paths
  <2> QED
    BY <2>1, <2>2, <2>3, SubtreeAdded
<1>2. v = [files |-> w.files, path |-> path, models |-> models, loaded |-> w.loaded]
  <2>1. w = [files |-> w.files, path |-> w.path, models |-> w.models, loaded |-> w.loaded]
    BY DEF IsWorker
  <2> HIDE DEF path
  <2>2. v = [[w EXCEPT !.path = path] EXCEPT !.models = models]
    BY <2>1 DEF BuildModel, path
  <2> HIDE DEF models
  <2> QED
    BY <2>1, <2>2
<1> HIDE DEF path
<1>3. models = [k \in DOMAIN models |-> models[k]] /\ DOMAIN models \subseteq {"det", "pose"}
  BY DEF IsWorker
<1>4. builds => /\ DOMAIN models = DOMAIN w.models \cup {t} /\ models[t] = Head(path)
                /\ \A k \in DOMAIN w.models : k # t => models[k] = w.models[k]
  OBVIOUS
<1> HIDE DEF models
<1>5. w.files \in Volumes(D) /\ w.loaded = FALSE
  BY DEF IsWorker
<1>6. /\ v.files = w.files /\ v.path = path /\ v.models = models /\ v.loaded = FALSE
  BY <1>2, <1>5
<1>7. IsWorker(D, v)
  BY <1>1, <1>2, <1>3, <1>5, <1>6 DEF IsWorker
<1> QED
  BY <1>1, <1>4, <1>6, <1>7 DEF path

\* How one task of a load ends.
TaskEnds(D, w, t, r) ==
  /\ IsWorker(D, r.worker) /\ ~r.worker.loaded /\ r.raised \in BOOLEAN
  /\ ~r.raised => /\ r.worker.path = AddSubtreeToPath(w.path, Subtree[t])
                  /\ r.worker.path # <<>>
                  /\ DOMAIN r.worker.models = DOMAIN w.models \cup {t}
                  /\ r.worker.models[t] = Head(r.worker.path)
                  /\ \A k \in DOMAIN w.models : k # t => r.worker.models[k] = w.models[k]

\* A task of a load that has not raised, tried by a worker that is not loaded.
LEMMA TaskTried ==
  ASSUME NEW D \in SUBSET Downloads, NEW w, IsWorker(D, w), ~w.loaded,
         NEW t \in {"det", "pose"}, NEW ends \in Ends(D),
         t = "det" \/ w.path # <<>>
  PROVE  TaskEnds(D, w, t, LoadTask([worker |-> w, raised |-> FALSE], t, ends))
<1> DEFINE r == LoadTask([worker |-> w, raised |-> FALSE], t, ends)
<1> SUFFICES TaskEnds(D, w, t, r)
  OBVIOUS
<1> DEFINE file == EnsureCheckpoint(w.files[t], ends[t].download)
           fetched == [w EXCEPT !.files[t] = file]
           builds == ends[t].builds /\ file.path = "whole"
<1>1. file \in Checkpoints(D) /\ ends[t].builds \in BOOLEAN
  <2>1. w.files[t] \in Checkpoints(D)
    BY DEF IsWorker, Volumes
  <2>2. ends[t].download \in D /\ ends[t].builds \in BOOLEAN
    BY DEF Ends
  <2> QED
    BY <2>1, <2>2, CheckpointWhole
<1>2. r = [worker |-> IF OnDisk(file) THEN BuildModel(fetched, t, builds) ELSE fetched,
           raised |-> ~builds]
  BY DEF LoadTask
<1> HIDE DEF file, r
<1>3. /\ fetched = [files |-> fetched.files, path |-> w.path, models |-> w.models, loaded |-> FALSE]
      /\ fetched.files \in Volumes(D)
  <2>1. /\ w = [files |-> w.files, path |-> w.path, models |-> w.models, loaded |-> w.loaded]
        /\ w.loaded = FALSE /\ w.files \in Volumes(D)
    BY DEF IsWorker
  <2>2. fetched.files = [w.files EXCEPT ![t] = file]
    BY <2>1
  <2>3. fetched.files \in Volumes(D)
    BY <2>1, <2>2, <1>1 DEF Volumes
  <2>4. fetched = [files |-> [w.files EXCEPT ![t] = file], path |-> w.path, models |-> w.models,
                   loaded |-> FALSE]
    <3>1. fetched = [w EXCEPT !.files = [w.files EXCEPT ![t] = file]]
      BY <2>1
    <3> HIDE DEF fetched
    <3> QED
      BY <2>1, <3>1
  <2> QED
    BY <2>2, <2>3, <2>4
<1> HIDE DEF fetched
<1>4. /\ fetched.path = w.path /\ fetched.models = w.models /\ fetched.loaded = FALSE
  BY <1>3
<1>5. IsWorker(D, fetched)
  BY <1>3, <1>4 DEF IsWorker
<1>6. builds \in BOOLEAN /\ (builds => OnDisk(file))
  BY <1>1 DEF OnDisk
<1> HIDE DEF builds
<1>7. CASE OnDisk(file)
  <2>1. r.worker = BuildModel(fetched, t, builds) /\ r.raised = ~builds
    BY <1>2, <1>7
  <2> DEFINE v == BuildModel(fetched, t, builds)
  <2>a. v = BuildModel(fetched, t, builds)
    OBVIOUS
  <2> HIDE DEF v
  <2>2. /\ IsWorker(D, v) /\ ~v.loaded /\ v.path # <<>>
        /\ v.path = AddSubtreeToPath(w.path, Subtree[t])
        /\ builds => /\ DOMAIN v.models = DOMAIN w.models \cup {t}
                     /\ v.models[t] = Head(v.path)
                     /\ \A k \in DOMAIN w.models : k # t => v.models[k] = w.models[k]
    <3>1. ~fetched.loaded /\ (t = "det" \/ fetched.path # <<>>) /\ builds \in BOOLEAN
      BY <1>4, <1>6
    <3>2. /\ IsWorker(D, v) /\ ~v.loaded /\ v.path # <<>>
          /\ v.path = AddSubtreeToPath(fetched.path, Subtree[t])
          /\ builds => /\ DOMAIN v.models = DOMAIN fetched.models \cup {t}
                       /\ v.models[t] = Head(v.path)
                       /\ \A k \in DOMAIN fetched.models : k # t => v.models[k] = fetched.models[k]
      BY <2>a, <3>1, <1>5, ModelBuilt
    <3> QED
      BY <3>2, <1>4
  <2>3. r.worker = v
    BY <2>1, <2>a
  <2> QED
    BY <2>1, <2>2, <2>3, <1>6 DEF TaskEnds
<1>8. CASE ~OnDisk(file)
  <2>0. builds = FALSE
    BY <1>6, <1>8
  <2>1. r.worker = fetched
    BY <1>2, <1>8
  <2>2. r.raised = ~builds
    BY <1>2
  <2> QED
    BY <2>0, <2>1, <2>2, <1>4, <1>5 DEF TaskEnds
<1> QED
  BY <1>7, <1>8

\* A whole load: a worker that becomes loaded has both models, and the detector's is of the
\* wrong subtree exactly when the pose model failed before.
LEMMA LoadEnds ==
  ASSUME NEW D \in SUBSET Downloads, NEW w, IsWorker(D, w), ~w.loaded,
         NEW ends \in Ends(D),
         NEW v, v = Load(w, {"det", "pose"}, ends)
  PROVE  /\ IsWorker(D, v)
         /\ v.loaded => (v.models["det"] = "ecpose" <=> PoseFailed(w))
<1> DEFINE begun == [worker |-> w, raised |-> FALSE]
           det == LoadTask(begun, "det", ends)
           end == LoadTask(det, "pose", ends)
<1>1. v = [end.worker EXCEPT !.loaded = ~end.raised]
  BY DEF Load
<1>2. TaskEnds(D, w, "det", det)
  BY TaskTried
<1>3. CASE det.raised
  <2>1. end = det
    BY <1>3 DEF LoadTask
  <2>2. end.raised = TRUE
    BY <2>1, <1>2, <1>3 DEF TaskEnds
  <2> HIDE DEF end, det
  <2>3. v.loaded = FALSE /\ IsWorker(D, v)
    <3>1. v = [det.worker EXCEPT !.loaded = FALSE]
      BY <1>1, <2>1, <2>2 DEF TaskEnds
    <3>2. /\ det.worker = [files |-> det.worker.files, path |-> det.worker.path,
                           models |-> det.worker.models, loaded |-> det.worker.loaded]
          /\ det.worker.loaded = FALSE
      BY <1>2 DEF IsWorker, TaskEnds
    <3>3. v = det.worker
      BY <3>1, <3>2
    <3> QED
      BY <1>2, <3>2, <3>3 DEF TaskEnds
  <2> QED
    BY <2>3
<1>4. CASE ~det.raised
  <2>1. det = [worker |-> det.worker, raised |-> FALSE]
    <3>1. \E x, y : det = [worker |-> x, raised |-> y]
      BY DEF LoadTask
    <3> HIDE DEF det
    <3> QED
      BY <3>1, <1>2, <1>4 DEF TaskEnds
  <2>2. TaskEnds(D, det.worker, "pose", end)
    <3> HIDE DEF det
    <3>1. "pose" \in {"det", "pose"}
      OBVIOUS
    <3>2. IsWorker(D, det.worker) /\ ~det.worker.loaded /\ det.worker.path # <<>>
      BY <1>2, <1>4 DEF TaskEnds
    <3>3. TaskEnds(D, det.worker, "pose", LoadTask([worker |-> det.worker, raised |-> FALSE], "pose", ends))
      BY <3>1, <3>2, TaskTried
    <3> QED
      BY <2>1, <3>3
  <2> HIDE DEF end, det
  <2>3. /\ v = [files |-> end.worker.files, path |-> end.worker.path,
                models |-> end.worker.models, loaded |-> ~end.raised]
        /\ end.worker.files \in Volumes(D) /\ end.worker.path \in Paths
        /\ end.worker.models = [t \in DOMAIN end.worker.models |-> end.worker.models[t]]
        /\ DOMAIN end.worker.models \subseteq {"det", "pose"}
    BY <1>1, <2>2 DEF IsWorker, TaskEnds
  <2>4. /\ v.files = end.worker.files /\ v.path = end.worker.path
        /\ v.models = end.worker.models /\ v.loaded = ~end.raised
    BY <2>3
  <2>5. det.worker.path = IF w.path = <<>> THEN <<"ecdetseg">> ELSE w.path
    BY <1>2, <1>4, SubtreeAdded DEF IsWorker, TaskEnds
  <2>6. ASSUME ~end.raised
        PROVE  /\ DOMAIN v.models = {"det", "pose"} /\ v.models["pose"] = "ecpose"
               /\ v.models["det"] = Head(det.worker.path)
    <3>1. end.worker.path = <<"ecpose", "ecdetseg">>
      BY <2>2, <2>6, <1>2, <1>4, SubtreeAdded DEF IsWorker, TaskEnds
    <3> QED
      BY <3>1, <2>2, <2>3, <2>4, <2>6, <1>2, <1>4, PathElements DEF TaskEnds
  <2>7. /\ Head(det.worker.path) \in {"ecdetseg", "ecpose"}
        /\ Head(det.worker.path) = "ecpose" <=> "ecpose" \in ToSet(w.path)
    <3>1. CASE w.path = <<>>
      BY <3>1, <2>5, PathElements
    <3>2. CASE w.path = <<"ecdetseg">>
      BY <3>2, <2>5, PathElements
    <3>3. CASE w.path = <<"ecpose", "ecdetseg">>
      BY <3>3, <2>5, PathElements
    <3> QED
      BY <3>1, <3>2, <3>3 DEF IsWorker, Paths
  <2>8. IsWorker(D, v)
    <3>1. v = [files |-> v.files, path |-> v.path, models |-> v.models, loaded |-> v.loaded]
      BY <2>3, <2>4
    <3>2. v.loaded \in BOOLEAN
      BY <2>2, <2>4 DEF TaskEnds
    <3>3. v.loaded => ~end.raised
      BY <2>4
    <3> QED
      BY <3>1, <3>2, <3>3, <2>3, <2>4, <2>6, <2>7 DEF IsWorker
  <2>9. v.loaded => ~end.raised
    BY <2>4
  <2> QED
    BY <2>6, <2>7, <2>8, <2>9 DEF PoseFailed
<1> QED
  BY <1>3, <1>4

\* The load that made the worker loaded began after one that failed on the pose model.
MixedUp(h, n) ==
  \E m \in 0..(n - 1) : PoseFailed(h[m]) /\ \A k \in (m + 1)..n : h[k].loaded

\* Nothing is mixed up at first, nor by a step to a worker that is not loaded; a loaded worker
\* keeps what it is, and one that becomes loaded is mixed up if the pose model had failed.
LEMMA MixedUpMoves ==
  ASSUME NEW h, NEW n \in Nat
  PROVE  /\ h[n].loaded => (MixedUp(h, n + 1) <=> h[n + 1].loaded /\ MixedUp(h, n))
         /\ ~h[n].loaded => (MixedUp(h, n + 1) <=> h[n + 1].loaded /\ PoseFailed(h[n]))
<1>1. ASSUME MixedUp(h, n + 1)
      PROVE  /\ h[n + 1].loaded
             /\ h[n].loaded => MixedUp(h, n)
             /\ ~h[n].loaded => PoseFailed(h[n])
  <2>1. PICK m \in 0..n : PoseFailed(h[m]) /\ \A k \in (m + 1)..(n + 1) : h[k].loaded
    BY <1>1 DEF MixedUp
  <2>2. h[n + 1].loaded
    BY <2>1
  <2>3. CASE m = n
    BY <2>1, <2>2, <2>3 DEF PoseFailed
  <2>4. CASE m # n
    <3>1. m \in 0..(n - 1) /\ h[n].loaded
      BY <2>1, <2>4
    <3>2. \A k \in (m + 1)..n : h[k].loaded
      BY <2>1
    <3> QED
      BY <3>1, <3>2, <2>1, <2>2 DEF MixedUp
  <2> QED
    BY <2>3, <2>4
<1>2. ASSUME h[n + 1].loaded, MixedUp(h, n) PROVE MixedUp(h, n + 1)
  <2>1. PICK m \in 0..(n - 1) : PoseFailed(h[m]) /\ \A k \in (m + 1)..n : h[k].loaded
    BY <1>2 DEF MixedUp
  <2>2. m \in 0..(n + 1 - 1)
    OBVIOUS
  <2>3. \A k \in (m + 1)..(n + 1) : h[k].loaded
    <3>1. \A k \in (m + 1)..(n + 1) : k = n + 1 \/ k \in (m + 1)..n
      OBVIOUS
    <3> QED
      BY <3>1, <2>1, <1>2
  <2> QED
    BY <2>1, <2>2, <2>3 DEF MixedUp
<1>3. ASSUME h[n + 1].loaded, PoseFailed(h[n]) PROVE MixedUp(h, n + 1)
  <2>1. n \in 0..(n + 1 - 1)
    OBVIOUS
  <2>2. \A k \in (n + 1)..(n + 1) : h[k].loaded
    <3>1. \A k \in (n + 1)..(n + 1) : k = n + 1
      OBVIOUS
    <3> QED
      BY <3>1, <1>3
  <2> QED
    BY <2>1, <2>2, <1>3 DEF MixedUp
<1> QED
  BY <1>1, <1>2, <1>3

\* Through any number of loads that end as they may and of restarts, a checkpoint that has
\* its name is never torn unless a download ended short unseen, a loaded worker has every
\* model, the pose model is built by its own engine, and the detector too unless the worker
\* became loaded after a load that had failed on the pose model: then, and only then, by the
\* other's (edgecrafter_loader.py:137-166, 264-288).
THEOREM EdgeCrafterLoads ==
  ASSUME NEW D \in SUBSET Downloads, NEW h, LoadHistory(D, h), NEW n \in Nat
  PROVE  /\ "unseen" \notin D => \A t \in {"det", "pose"} : h[n].files[t].path # "partial"
         /\ h[n].loaded => /\ DOMAIN h[n].models = {"det", "pose"}
                           /\ h[n].models["pose"] = Subtree["pose"]
                           /\ h[n].models["det"] # Subtree["det"] <=> MixedUp(h, n)
<1> DEFINE Fits(k) == /\ IsWorker(D, h[k])
                      /\ h[k].loaded => (h[k].models["det"] = "ecpose" <=> MixedUp(h, k))
           lost == {k \in Nat : ~Fits(k)}
<1>1. Fits(0)
  <2>1. PICK files \in Volumes(D) : h[0] = NewProcess(files)
    BY DEF LoadHistory
  <2> DEFINE none == [t \in {} |-> ""]
  <2>2. none = [t \in DOMAIN none |-> none[t]] /\ DOMAIN none = {}
    OBVIOUS
  <2> HIDE DEF none
  <2>3. h[0] = [files |-> files, path |-> <<>>, models |-> none, loaded |-> FALSE]
    BY <2>1 DEF NewProcess, none
  <2> QED
    BY <2>2, <2>3 DEF IsWorker, Paths
<1>2. ASSUME NEW k \in Nat, Fits(k) PROVE Fits(k + 1)
  <2>1. IsWorker(D, h[k])
    BY <1>2
  <2>2. CASE h[k + 1] = Restarted(h[k])
    <3> DEFINE none == [t \in {} |-> ""]
    <3>1. none = [t \in DOMAIN none |-> none[t]] /\ DOMAIN none = {}
      OBVIOUS
    <3> HIDE DEF none
    <3>2. h[k + 1] = [files |-> h[k].files, path |-> <<>>, models |-> none, loaded |-> FALSE]
      BY <2>2 DEF Restarted, NewProcess, none
    <3> QED
      BY <3>1, <3>2, <2>1 DEF IsWorker, Paths
  <2>3. CASE \E ends \in Ends(D) : h[k + 1] = Load(h[k], {"det", "pose"}, ends)
    <3>1. PICK ends \in Ends(D) : h[k + 1] = Load(h[k], {"det", "pose"}, ends)
      BY <2>3
    <3>2. CASE h[k].loaded
      <4>1. h[k + 1] = h[k]
        BY <3>1, <3>2 DEF Load
      <4>2. MixedUp(h, k + 1) <=> MixedUp(h, k)
        BY <3>2, <4>1, MixedUpMoves
      <4> QED
        BY <1>2, <4>1, <4>2
    <3>3. CASE ~h[k].loaded
      <4>1. /\ IsWorker(D, h[k + 1])
            /\ h[k + 1].loaded => (h[k + 1].models["det"] = "ecpose" <=> PoseFailed(h[k]))
        BY <2>1, <3>1, <3>3, LoadEnds
      <4>2. MixedUp(h, k + 1) <=> h[k + 1].loaded /\ PoseFailed(h[k])
        BY <3>3, MixedUpMoves
      <4> QED
        BY <4>1, <4>2
    <3> QED
      BY <3>2, <3>3
  <2> QED
    BY <2>2, <2>3 DEF LoadHistory
<1> HIDE DEF Fits
<1>3. lost = {}
  <2>1. SUFFICES ASSUME lost # {} PROVE FALSE
    OBVIOUS
  <2>2. lost \in SUBSET Nat
    OBVIOUS
  <2>3. PICK k \in lost : \A l \in lost : k <= l
    <3> HIDE DEF lost
    <3> QED
      BY <2>1, <2>2, LeastNatural
  <2>4. k # 0 /\ k - 1 \in Nat /\ k - 1 \notin lost
    BY <1>1, <2>3
  <2>5. Fits(k - 1)
    BY <2>4
  <2>6. Fits(k - 1 + 1)
    BY <2>4, <2>5, <1>2
  <2> QED
    BY <2>3, <2>4, <2>6
<1>4. Fits(n)
  BY <1>3
<1>5. "unseen" \notin D =>
        \A t \in {"det", "pose"} : h[n].files[t].path \in {"absent", "empty", "whole"}
  BY <1>4 DEF Fits, IsWorker, Volumes, Checkpoints
<1>6. Subtree["det"] = "ecdetseg" /\ Subtree["pose"] = "ecpose"
  BY DEF Subtree
<1>7. h[n].loaded => /\ DOMAIN h[n].models = {"det", "pose"} /\ h[n].models["pose"] = "ecpose"
                     /\ h[n].models["det"] # "ecdetseg" <=> MixedUp(h, n)
  BY <1>4 DEF Fits, IsWorker
<1> QED
  BY <1>5, <1>6, <1>7
===============================================================================
