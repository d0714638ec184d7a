------------------------------ MODULE RiskRules -------------------------------
(***************************************************************************)
(* The deterministic risk engine: risk/risk_engine.py (rules R01..R15 and  *)
(* their scoring), risk/risk_matrix.py (score to band) and the validation  *)
(* of a matrix profile.                                                    *)
(*                                                                         *)
(* A frame is a sequence of entities [class, box, low]: one class stands   *)
(* for each label set of the code, low says the confidence is below the    *)
(* threshold of the temporal triggers.  The text of a risk (reason,        *)
(* controls, standard, provenance) is left out, and so is the order of the *)
(* list: risks are a set.                                                  *)
(***************************************************************************)
EXTENDS Geometry, Sequences, FiniteSets

LOCAL INSTANCE FiniteSetsExt

------------------------------------------------------------------------------
(* The matrix: bands of scores *)

Levels == <<"GREEN", "YELLOW", "ORANGE", "RED">>
Rank(level) == CHOOSE i \in DOMAIN Levels : Levels[i] = level

Highest(levels) == Levels[Max({1} \cup {Rank(l) : l \in levels})]

Band(level, lo, hi, alert) == [level |-> level, min |-> lo, max |-> hi, alert |-> alert]

Bands == <<Band("GREEN", 1, 3, FALSE), Band("YELLOW", 4, 8, FALSE),
           Band("ORANGE", 9, 14, TRUE), Band("RED", 15, 25, TRUE)>>

Clamp(n, top) == Max({1, Min({top, n})})

BandOf(bands, score) ==
  LET hits == {i \in DOMAIN bands : bands[i].min <= score /\ score <= bands[i].max}
  IN IF hits # {} THEN bands[Min(hits)]
     ELSE IF score < bands[1].min THEN bands[1] ELSE bands[Len(bands)]

Evaluate(severity, likelihood) == BandOf(Bands, Clamp(severity, 5) * Clamp(likelihood, 5))

\* What the loader accepts of a profile whose scale has top scores.
ValidProfile(bands, top) ==
  /\ bands # <<>>
  /\ \A i \in DOMAIN bands :
       /\ bands[i].level \in {Levels[k] : k \in DOMAIN Levels}
       /\ bands[i].min <= bands[i].max
       /\ bands[i].min = IF i = 1 THEN 1 ELSE bands[i - 1].max + 1
  /\ bands[Len(bands)].max = top

\* Severity and likelihood of each finding of a rule.
SL == [ppe_missing_hardhat |-> <<3, 4>>, ppe_missing_vest |-> <<2, 3>>,
       ppe_missing_gloves |-> <<2, 2>>,
       person_forklift_near |-> <<4, 3>>, person_forklift_overlap |-> <<4, 4>>,
       person_vehicle_near |-> <<4, 2>>, person_vehicle_overlap |-> <<4, 3>>,
       fire |-> <<5, 4>>, smoke |-> <<3, 3>>, blocked_exit |-> <<4, 3>>,
       object_near_edge |-> <<2, 2>>, working_at_height_ladder |-> <<4, 3>>,
       scaffold_proximity |-> <<3, 3>>,
       spill_slip |-> <<2, 3>>, spill_slip_person |-> <<3, 4>>,
       electrical_exposed |-> <<4, 2>>, electrical_exposed_person |-> <<4, 3>>,
       suspended_load_overhead |-> <<5, 3>>,
       open_hole_fall |-> <<4, 2>>, open_hole_fall_person |-> <<4, 4>>]

------------------------------------------------------------------------------
(* The rules: a finding names the entities it is about and the one whose box it shows *)

Structural == {"person", "ladder", "scaffold", "hole", "blocked_exit", "table"}

Of(E, class) == {i \in DOMAIN E : E[i].class = class}

Found(hazard, state, key, who, at) ==
  [hazard |-> hazard, state |-> state, sl |-> key, who |-> who, at |-> at]

Present(E, class, hazard, state) ==
  {Found(hazard, state, hazard, {i}, i) : i \in Of(E, class)}

Overlapping(E, i, j) == Inter(E[i].box, E[j].box) > 0

\* The pairs of a person and an entity of the class that overlap, or whose centres
\* are within 0.12.
NearPairs(E, class) ==
  {p \in Of(E, "person") \X Of(E, class) :
     Overlapping(E, p[1], p[2]) \/ Within(E[p[1]].box, E[p[2]].box, 12)}

\* R04, R05, R10, R11: latent when near, active when overlapping.
Proximity(E, class, hazard, near, overlap) ==
  {LET over == Overlapping(E, p[1], p[2]) IN
     Found(hazard, IF over THEN "active" ELSE "latent", IF over THEN overlap ELSE near,
           {p[1], p[2]}, p[1]) : p \in NearPairs(E, class)}

\* R12, R13, R15: latent alone; once a person is near one of them only those pairs are told.
Escalating(E, class, hazard, escalated) ==
  IF NearPairs(E, class) # {}
  THEN {Found(hazard, "active", escalated, {p[1], p[2]}, p[2]) : p \in NearPairs(E, class)}
  ELSE Present(E, class, hazard, "latent")

\* R09: any class that is not a structure, near the left, right or bottom edge.
NearEdge(E) ==
  {Found("object_near_edge", "latent", "object_near_edge", {i}, i) :
     i \in {i \in DOMAIN E : /\ E[i].class \notin Structural
                             /\ NearSides(E[i].box, 4) \ {"top"} # {}}}

\* R14: a suspended load above a person.
Overhead(E) ==
  {Found("suspended_load_overhead", "active", "suspended_load_overhead", {p[1], p[2]}, p[1]) :
     p \in {p \in Of(E, "suspended") \X Of(E, "person") : Above(E[p[1]].box, E[p[2]].box)}}

RunRules(E) ==
  Present(E, "no_hardhat", "ppe_missing_hardhat", "active")
    \cup Present(E, "no_vest", "ppe_missing_vest", "active")
    \cup Present(E, "no_gloves", "ppe_missing_gloves", "active")
    \cup Proximity(E, "forklift", "person_forklift_proximity",
                   "person_forklift_near", "person_forklift_overlap")
    \cup Proximity(E, "bus", "person_vehicle_proximity",
                   "person_vehicle_near", "person_vehicle_overlap")
    \cup Present(E, "fire", "fire", "active")
    \cup (IF Of(E, "fire") = {} THEN Present(E, "smoke", "smoke", "active") ELSE {})
    \cup Present(E, "blocked_exit", "blocked_exit", "active")
    \cup NearEdge(E)
    \cup Proximity(E, "ladder", "working_at_height_ladder",
                   "working_at_height_ladder", "working_at_height_ladder")
    \cup Proximity(E, "scaffold", "scaffold_proximity",
                   "scaffold_proximity", "scaffold_proximity")
    \cup Escalating(E, "spill", "spill_slip", "spill_slip_person")
    \cup Escalating(E, "electrical", "electrical_exposed", "electrical_exposed_person")
    \cup Overhead(E)
    \cup Escalating(E, "hole", "open_hole_fall", "open_hole_fall_person")

------------------------------------------------------------------------------
(* Scoring *)

\* The tracks are listed by id; an entity's is the first of the best IoU, at least 0.5.
EntityTracks(E, tracks) ==
  LET best(i) == Max({0} \cup {IoU(E[i].box, tracks[k].box) : k \in DOMAIN tracks})
  IN [i \in {i \in DOMAIN E : 2 * best(i) >= IoUOne} |->
        tracks[Min({k \in DOMAIN tracks : IoU(E[i].box, tracks[k].box) = best(i)})].id]

Risk(hazard, state, level, alert, tids, box, by) ==
  [hazard |-> hazard, state |-> state, level |-> level, alert |-> alert, tids |-> tids,
   box |-> box, by |-> by, review |-> by = "vlm", candidate |-> FALSE]

Scored(E, tracks) ==
  LET trackOf == EntityTracks(E, tracks)
      scored(f) == LET band == Evaluate(SL[f.sl][1], SL[f.sl][2]) IN
        Risk(f.hazard, f.state, band.level, band.alert,
             {trackOf[i] : i \in f.who \cap DOMAIN trackOf}, E[f.at].box, "engine")
  IN {scored(f) : f \in RunRules(E)}
===============================================================================
