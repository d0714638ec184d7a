------------------------------- MODULE Tracker --------------------------------
(***************************************************************************)
(* risk/tracking.py: the greedy IoU tracker of one session, and the store  *)
(* of sessions with its idle limit and eviction.                           *)
(*                                                                         *)
(* The tracks of a session are a function from ids to [class, box, missed] *)
(* and the next id: trk_7 is 7, so that the order of the ids is the order  *)
(* of the numbers (of the strings in the code: the same up to trk_9).      *)
(* Velocity, hits and age in frames feed no decision and are left out.     *)
(***************************************************************************)
EXTENDS RiskRules

CONSTANTS
  MaxTracks,    \* TRACK_MAX_PER_SESSION
  MaxMissed,    \* TRACK_MAX_AGE_FRAMES
  MaxActive,    \* SESSION_MAX_ACTIVE
  SessionTTL    \* SESSION_TTL_MS, in ticks

ASSUME TrackerAssumption ==
  /\ {MaxTracks, MaxActive} \subseteq Nat \ {0}
  /\ {MaxMissed, SessionTTL} \subseteq Nat

------------------------------------------------------------------------------
(* One session *)

NewTracker == [tracks |-> <<>>, next |-> 1, idle |-> 0]

\* A pair of an entity and a track may match from IoU 0.3; the same class is worth 0.001
\* more.
Pair(E, tracks, i, t) ==
  [e |-> i, t |-> t,
   score |-> IoU(E[i].box, tracks[t].box)
               + IF E[i].class = tracks[t].class THEN IoUOne \div 1000 ELSE 0]

Candidates(E, tracks) ==
  {Pair(E, tracks, p[1], p[2]) :
     p \in {p \in (DOMAIN E) \X (DOMAIN tracks) :
              10 * IoU(E[p[1]].box, tracks[p[2]].box) >= 3 * IoUOne}}

\* Reverse order of the tuples (score, entity, track).
Better(c, d) ==
  c.score > d.score \/ (c.score = d.score /\ (c.e > d.e \/ (c.e = d.e /\ c.t > d.t)))

\* Best pair first, each entity and each track once: a pair is matched when no better one
\* that is matched shares its entity or its track.
Match(candidates) ==
  LET rivals(c, d) == (c.e = d.e \/ c.t = d.t) /\ Better(d, c)
      greedy(m) == \A c \in candidates : c \in m <=> ~\E d \in m : rivals(c, d)
  IN UNION {m \in SUBSET candidates : greedy(m)}

\* The entities that continue no track, the place of each in their order, and those that
\* start one: the first, as many as the session has room for.
Fresh(E, matched) == DOMAIN E \ {c.e : c \in matched}
Place(fresh, i) == Cardinality({j \in fresh : j <= i})
Newborn(fresh, k) == {i \in fresh : Cardinality(DOMAIN k.tracks) + Place(fresh, i) <= MaxTracks}

\* The entities of the frame with their tracks; an entity past the cap has none.
Assigned(E, k, matched) ==
  {[e |-> c.e, t |-> c.t] : c \in matched}
    \cup {[e |-> i, t |-> k.next + Place(Fresh(E, matched), i) - 1] :
            i \in Newborn(Fresh(E, matched), k)}

\* A mutant: the next id counts the tracks that are left.
TrackedByCount(E, k, matched, of) ==
  LET seen == {c.t : c \in of}
      kept == {t \in DOMAIN k.tracks \ seen : k.tracks[t].missed < MaxMissed}
      entity(t) == E[(CHOOSE c \in of : c.t = t).e]
  IN [tracks |-> [t \in seen \cup kept |->
                    IF t \in seen
                    THEN [class |-> entity(t).class, box |-> entity(t).box, missed |-> 0]
                    ELSE [k.tracks[t] EXCEPT !.missed = @ + 1]],
      next |-> Cardinality(seen \cup kept) + 1,
      idle |-> 0]

\* The session after the frame: seen tracks renewed, unseen ones aged and dropped.
Tracked(E, k, matched, of) ==
  LET seen == {c.t : c \in of}
      kept == {t \in DOMAIN k.tracks \ seen : k.tracks[t].missed < MaxMissed}
      entity(t) == E[(CHOOSE c \in of : c.t = t).e]
  IN [tracks |-> [t \in seen \cup kept |->
                    IF t \in seen
                    THEN [class |-> entity(t).class, box |-> entity(t).box, missed |-> 0]
                    ELSE [k.tracks[t] EXCEPT !.missed = @ + 1]],
      next |-> k.next + Cardinality(Newborn(Fresh(E, matched), k)),
      idle |-> 0]

\* What update returns: the tracks of this frame, by id, each with the life it is of (see
\* DetectPipeline).
Visible(E, of, life) ==
  LET row(c) == [id |-> c.t, class |-> E[c.e].class, box |-> E[c.e].box, low |-> E[c.e].low,
                 of |-> life]
      at(k) == CHOOSE c \in of : Place({d.t : d \in of}, c.t) = k
  IN [k \in 1..Cardinality(of) |-> row(at(k))]

------------------------------------------------------------------------------
(* The store: also temporal_reasoning/session_memory.py *)

None == [none |-> TRUE]
Live(store) == {s \in DOMAIN store : store[s] # None}

\* Sessions idle for longer than the limit go.
SweptStore(store, ttl) ==
  [s \in DOMAIN store |-> IF store[s] # None /\ store[s].idle > ttl THEN None ELSE store[s]]

\* A mutant: room is made one session too late.
WithRoomOneLate(store, s, cap) ==
  IF store[s] # None \/ Cardinality(Live(store)) <= cap THEN {store}
  ELSE {[store EXCEPT ![o] = None] :
          o \in {o \in Live(store) : \A p \in Live(store) : store[p].idle <= store[o].idle}}

\* The stores with room for session s: as it is when s is in it or a place is free,
\* else without one of the sessions idle the longest.
WithRoom(store, s, cap) ==
  IF store[s] # None \/ Cardinality(Live(store)) < cap THEN {store}
  ELSE {[store EXCEPT ![o] = None] :
          o \in {o \in Live(store) : \A p \in Live(store) : store[p].idle <= store[o].idle}}
===============================================================================
