----------------------------- MODULE SceneMemory ------------------------------
(***************************************************************************)
(* What the reasoner's answers leave behind between frames, and how a      *)
(* frame is coloured: the semantic labels (risk/semantic_memory.py), the   *)
(* primary risk focus (risk/primary_risk_focus.py), the draft risks of an  *)
(* answer (risk/vlm_reasoner.py) and the helpers of /detect that build the *)
(* scene risks and stamp the entities (server.py).                         *)
(*                                                                         *)
(* The entities here carry id, the set of the track id they came with: the *)
(* schema of the detectors has none, the callers of these modules in the   *)
(* tests give one.                                                         *)
(***************************************************************************)
EXTENDS TemporalMemory

LOCAL INSTANCE FiniteSetsExt
LOCAL INSTANCE SequencesExt
LOCAL INSTANCE Functions

CONSTANTS
  FocusTTL,      \* PRIMARY_RISK_FOCUS_TTL_MS, in ticks like the others
  UnmatchedTTL,  \* REASONER_UNMATCHED_CANDIDATE_TTL_MS
  LinkedTTL,     \* REASONER_LINKED_RISK_TTL_MS
  CacheTTL,      \* REASONER_CACHE_TTL_MS
  LabelTTL,      \* SEMANTIC_LABEL_CACHE_TTL_MS
  MaxLabels,     \* SEMANTIC_LABEL_MAX_PER_SESSION
  MaxBoxes       \* GEMINI_MAX_BOX_CANDIDATES

ASSUME SceneAssumption ==
  /\ {FocusTTL, UnmatchedTTL, LinkedTTL, CacheTTL, LabelTTL} \subseteq Nat
  /\ {MaxLabels, MaxBoxes} \subseteq Nat \ {0}

------------------------------------------------------------------------------
(* Semantic labels: a function from track ids to [age, of].  Here and below, of is the *)
(* life of the tracker session in which the model was asked: nothing of the program,   *)
(* and no operator reads it.                                                           *)

\* Expired entries go, the new ones come in, and past the cap the oldest go: the labels
\* that may be left.
LabelStored(labels, tids, of) ==
  LET live == {t \in DOMAIN labels : labels[t].age < LabelTTL} \cup tids
      age(t) == IF t \in tids THEN 0 ELSE labels[t].age
      kept == {k \in SUBSET live : /\ Cardinality(k) <= MaxLabels
                                   /\ k = live \/ Cardinality(k) = MaxLabels
                                   /\ \A t \in k, u \in live \ k : age(t) <= age(u)}
  IN {[t \in k |-> IF t \in tids THEN [age |-> 0, of |-> of] ELSE labels[t]] : k \in kept}

\* A mutant: a label is shown however old.
AppliedExpired(labels, ids) ==
  [i \in {i \in DOMAIN ids : ids[i] \cap DOMAIN labels # {}} |->
     labels[CHOOSE t \in ids[i] \cap DOMAIN labels : TRUE]]

\* The entry each entity of the frame is shown under: its track's, while it lives.  The
\* fallback on boxes never finds one, for no entry stores a box.
Applied(labels, ids) ==
  LET shown(i) == {t \in ids[i] \cap DOMAIN labels : labels[t].age < LabelTTL}
  IN [i \in {i \in DOMAIN ids : shown(i) # {}} |-> labels[CHOOSE t \in shown(i) : TRUE]]

------------------------------------------------------------------------------
(* Primary risk focus: a set of [hazard, tid, age, of]; news are [hazard, level, tid] *)

FocusHazards == {"object_near_edge", "falling_object", "blocked_path", "broken_object"}

FocusStored(focus, news, of) ==
  LET primary == {n \in news : n.hazard \in FocusHazards /\ Rank(n.level) >= Rank("YELLOW")}
      renewed(f) == \E n \in primary : n.hazard = f.hazard /\ n.tid = f.tid
  IN {f \in focus : f.age < FocusTTL /\ ~renewed(f)}
       \cup {[hazard |-> n.hazard, tid |-> n.tid, age |-> 0, of |-> of] : n \in primary}

\* A mutant: a live entry holds wherever its object is.
FocusValidUnseen(f, ids, risks) == f.age < FocusTTL

\* The entry holds in the frame: alive, its object among the entities, and a current
\* deterministic risk of the same hazard about that object.
FocusValid(f, ids, risks) ==
  /\ f.age < FocusTTL
  /\ \E i \in DOMAIN ids : f.tid \in ids[i]
  /\ \E r \in risks : r.hazard = f.hazard /\ f.tid \in r.tids

\* A mutant: alerts are not exempt.
ContextOfAlerts(scene, focus, ids, risks) ==
  LET valid == {f \in focus : FocusValid(f, ids, risks)}
      primary(hazard) == {f.tid : f \in {f \in valid : f.hazard = hazard}}
  IN {r \in scene : /\ primary(r.hazard) # {}
                    /\ r.tids \cap primary(r.hazard) = {}}

\* Scene risks of the hazard of a valid focus, about other objects, and not yet ORANGE.
Context(scene, focus, ids, risks) ==
  LET valid == {f \in focus : FocusValid(f, ids, risks)}
      primary(hazard) == {f.tid : f \in {f \in valid : f.hazard = hazard}}
  IN {r \in scene : /\ primary(r.hazard) # {}
                    /\ Rank(r.level) < Rank("ORANGE")
                    /\ r.tids \cap primary(r.hazard) = {}}

Filtered(scene, suppressed) ==
  (scene \ suppressed) \cup {[r EXCEPT !.candidate = TRUE] : r \in suppressed}

------------------------------------------------------------------------------
(* Questions and drafts *)

\* The boxes the model is asked about: risky ones first, then the classes of the HSE
\* list, then those near the frame's edge, then by confidence.  Ties keep their order.
HseClasses == {"person", "forklift", "no_hardhat", "no_vest"}
Selected(E, ids, risks) ==
  LET flag(p) == IF p THEN 0 ELSE 1
      key(i) == 8 * flag(\E r \in risks : r.tids \cap ids[i] # {})
                  + 4 * flag(E[i].class \in HseClasses)
                  + 2 * flag(FrameGap(E[i].box) < 10)
                  + flag(~E[i].low)
      order == SetToSortSeq(DOMAIN E, LAMBDA i, j : key(i) < key(j) \/ (key(i) = key(j) /\ i < j))
  IN ToSet(SubSeq(order, 1, Min({MaxBoxes, Len(order)})))

\* A draft risk is advisory whatever the model says: reviewed, and never an alert.
Draft(hazard, state, level, tids, named) ==
  [hazard |-> hazard, state |-> state, level |-> level, tids |-> tids, named |-> named]

\* The mock tells the deterministic risks again, without their boxes.
MockDrafts(risks) == {Draft(r.hazard, r.state, r.level, r.tids, FALSE) : r \in risks}

\* The answer on one box, whose entity is named in the draft even when it has no track id.
BoxDraft(hazard, level, id) ==
  Draft(hazard, IF level = "GREEN" THEN "latent" ELSE "active", level, id, TRUE)

------------------------------------------------------------------------------
(* Scene risks and colours *)

\* An engine risk shown in the scene: at least YELLOW, and with a box.
SceneVisible(r) == Rank(r.level) >= Rank("YELLOW") /\ r.box # None

\* A mutant: a draft joins however old.
LinkedToStale(d, tracks, age) == {k \in DOMAIN tracks : tracks[k].id \in d.tids}

\* A draft joins the frame through a track it names, while it is fresh enough to.
LinkedTo(d, tracks, age) ==
  IF age <= LinkedTTL THEN {k \in DOMAIN tracks : tracks[k].id \in d.tids} ELSE {}

\* The ids of a draft come sorted from the engine, or are the one of a box: the first that
\* is there is the lowest.
SceneDraft(d, tracks, age) ==
  LET links == LinkedTo(d, tracks, age)
      risk(tids, box, candidate) ==
        [Risk(d.hazard, d.state, d.level, FALSE, tids, box, "vlm") EXCEPT !.candidate = candidate]
  IN IF links # {} THEN {risk({tracks[k].id}, tracks[k].box, FALSE) : k \in {Min(links)}}
     ELSE IF age <= UnmatchedTTL /\ (d.named \/ d.tids # {}) THEN {risk(d.tids, None, TRUE)}
     ELSE {}

\* drafts is the cached answer served with the frame: None, or [risks, age].
SceneRisks(risks, drafts, tracks) ==
  {r \in risks : SceneVisible(r)}
    \cup IF drafts = None THEN {}
         ELSE UNION {SceneDraft(d, tracks, drafts.age) : d \in drafts.risks}

\* The app's boxes: by track id, or by place (IoU 0.20, or centres within 0.12).
Stamps(r, e, id) ==
  /\ ~r.candidate
  /\ \/ r.tids \cap id # {}
     \/ r.box # None /\ SameBox(e.box, r.box, 12)

Stamped(scene, E, ids) ==
  [i \in DOMAIN E |->
     LET hits == {r.level : r \in {r \in scene : Stamps(r, E[i], ids[i])}}
     IN IF hits = {} THEN "none" ELSE Highest(hits)]
===============================================================================
