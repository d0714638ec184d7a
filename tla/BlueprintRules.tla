---------------------------- MODULE BlueprintRules ----------------------------
(***************************************************************************)
(* What a keyframe of a Build or Plan session is told of its crop: the     *)
(* tasks the YOLO26 backend runs (yolo26_loader.py), the mask and outline  *)
(* (build_blueprint.py, build_segmentation.py) and the plan context        *)
(* (plan_context.py).  Coordinates and texts are left out: a contour is    *)
(* named after where it comes from, a text is the set of the word lists it *)
(* hits.                                                                   *)
(***************************************************************************)
EXTENDS RequestPath, FiniteSets

LOCAL INSTANCE FiniteSetsExt
LOCAL INSTANCE SequencesExt

------------------------------------------------------------------------------
(* The tasks of the YOLO26 backend *)

\* env maps the variables to [set, tasks], tasks the valid ones they list.
Listed(variable, default) ==
  IF ~variable.set THEN default
  ELSE IF variable.tasks # {} THEN variable.tasks ELSE {"det"}

LegacyOr(env) == IF env.YOLO26_LIVE_TASKS.set THEN env.YOLO26_LIVE_TASKS ELSE env.YOLO26_TASKS

\* Whatever lists pose has asked for it: the last filter of the code never bites.
ModeTasks(mode, env) ==
  LET own == CASE mode = "build" -> env.YOLO26_BUILD_TASKS
               [] mode = "plan" -> env.YOLO26_PLAN_TASKS
               [] mode = "live" -> env.YOLO26_LIVE_TASKS
      listed == IF mode = "live"
                THEN Listed(LegacyOr(env), {"det"}) \cup IF env.pose THEN {"pose"} ELSE {}
                ELSE Listed(own, {"det", "seg"})
      explicit == "pose" \in (IF own.set THEN own ELSE env.YOLO26_TASKS).tasks
  IN IF env.pose \/ explicit THEN listed ELSE listed \ {"pose"}

\* The tasks of a frame that run: det when loaded, the others when their lazy load works.
TasksRun(tasks, models, loadable) ==
  {t \in tasks : t \in models \/ (t # "det" /\ t \in loadable)}

------------------------------------------------------------------------------
(* A crop is [canny, backend, sam, samConf, yolo]; canny says a contour was found,      *)
(* yolo is [serving, loaded, raises, run, parts, mask, conf], parts the number of       *)
(* objects it would find, mask that the best segment has a contour                      *)

\* What the crop analysis adds, or nothing: an exception loses the parts found before it.
CropAnalysis(yolo) ==
  LET parts == IF "det" \in yolo.run THEN yolo.parts ELSE 0
      mask == "seg" \in yolo.run /\ yolo.mask
  IN IF yolo.serving /\ yolo.loaded /\ ~yolo.raises /\ (mask \/ parts > 0)
     THEN [parts |-> parts, mask |-> mask, conf |-> yolo.conf]
     ELSE [parts |-> 0, mask |-> FALSE, conf |-> 0]

\* SAM2 is loaded on its first use and tried once: the predictor there is afterwards.
LoadSam2(state, ultralytics, official) ==
  IF state.tried THEN state
  ELSE [tried |-> TRUE,
        predictor |-> FirstOf(<<Case(ultralytics, "ultralytics"), Case(official, "sam2")>>, "none")]

\* A segmentation gives a contour or says it has none; it never raises.
SegmentCrop(enabled, state, found) == enabled /\ state.predictor # "none" /\ found

\* Ultralytics gives no score of its own.
SamConfidence(state, score) ==
  IF state.predictor = "ultralytics" THEN 85
  ELSE IF score.set THEN score.value ELSE 80

MaskSource(crop) ==
  FirstOf(<<Case(CropAnalysis(crop.yolo).mask, "yolo26-seg"),
            Case(crop.backend = "sam2" /\ crop.sam, "sam2"),
            Case(crop.backend \in {"sam2", "fallback"} /\ crop.canny, "fallback-contour")>>, "none")

Outline(crop) ==
  FirstOf(<<Case(MaskSource(crop) \in {"yolo26-seg", "sam2"}, MaskSource(crop)),
            Case(crop.canny, "canny")>>, "frame")

\* In hundredths.
Confidence(crop) ==
  CASE MaskSource(crop) = "yolo26-seg" -> CropAnalysis(crop.yolo).conf
    [] MaskSource(crop) = "sam2" -> crop.samConf
    [] MaskSource(crop) = "fallback-contour" -> IF crop.backend = "sam2" THEN 60 ELSE 70
    [] MaskSource(crop) = "none" ->
         IF crop.canny /\ crop.backend \notin {"sam2", "fallback"} THEN 60 ELSE 30

------------------------------------------------------------------------------
(* The plan context of a crop.  A text is a subset of {"electronics", "safety"}; parts  *)
(* are the detected parts, each [conf, named, words]; intent is [words, task]           *)

MaxPoints == 12

\* The part of the highest confidence, the first of equals.
BestPart(parts) ==
  CHOOSE i \in DOMAIN parts :
    \A j \in DOMAIN parts : parts[i].conf > parts[j].conf
                              \/ (parts[i].conf = parts[j].conf /\ i <= j)

\* Where the label comes from.
LabelFrom(parts, hint, source) ==
  FirstOf(<<Case(parts # <<>> /\ parts[BestPart(parts)].named, "part"),
            Case(hint.given, "hint"),
            Case(source = "yolo26-seg", "object")>>, "item")

LabelWords(parts, hint, source) ==
  CASE LabelFrom(parts, hint, source) = "part" -> parts[BestPart(parts)].words
    [] LabelFrom(parts, hint, source) = "hint" -> hint.words
    [] OTHER -> {}

\* One text of the label, the intent and the labels of all parts.
Mentions(word, parts, hint, source, intent) ==
  word \in LabelWords(parts, hint, source) \cup intent.words
             \cup UNION {parts[i].words : i \in DOMAIN parts}

Goals(electronics, parts) ==
  FirstOf(<<Case(electronics, "electronics"), Case(Len(parts) > 1, "pieces")>>, "item")

Rep(n, role) == [i \in 1..n |-> role]

\* The roles of the points, at most so many: the later ones go.
BlueprintPoints(parts, corners, electronics, safety) ==
  LET inspected == IF parts # <<>> THEN Min({3, Len(parts)}) ELSE Min({2, corners})
      all == <<"anchor", "alignment-point", "alignment-point">>
               \o Rep(inspected, "inspection-point")
               \o <<"target-position", "connection-point">>
               \o (IF electronics THEN <<"connection-point", "inspection-point">> ELSE <<>>)
               \o (IF safety THEN <<"warning-point">> ELSE <<>>)
  IN SubSeq(all, 1, Min({MaxPoints, Len(all)}))

LikelyUse(task) ==
  FirstOf(<<Case(task \in {"build", "assemble"}, "assemble"),
            Case(task \in {"inspect", "identify", "repair", "troubleshoot"}, task)>>, "unknown")

\* Depth is off, or has no model that samples, or is sampled.
Depth(on, model) == FirstOf(<<Case(~on, "none"), Case(~model, "warning")>>, "points")

PlanContext(crop, parts, corners, hint, intent, depth) ==
  LET source == MaskSource(crop)
      electronics == Mentions("electronics", parts, hint, source, intent)
      safety == Mentions("safety", parts, hint, source, intent)
  IN [label |-> LabelFrom(parts, hint, source),
      segments |-> IF source = "yolo26-seg" THEN 1 ELSE 0,
      goals |-> Goals(electronics, parts),
      points |-> BlueprintPoints(parts, corners, electronics, safety),
      depth |-> Depth(depth.on, depth.model),
      use |-> LikelyUse(intent.task),
      source |-> IF parts # <<>> \/ source = "yolo26-seg" THEN "yolo26" ELSE "rules",
      several |-> Len(parts) > 1,
      warns |-> safety]
===============================================================================
