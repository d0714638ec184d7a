------------------------------ MODULE RuleChecks ------------------------------
(***************************************************************************)
(* What the pure parts compute, against reference definitions over small   *)
(* inputs.  TLC evaluates the assumptions at the start of every run of a   *)
(* module that extends this one.                                           *)
(***************************************************************************)
EXTENDS SceneMemory, BlueprintRules, AnswerText, Detectors

LOCAL INSTANCE FiniteSetsExt
LOCAL INSTANCE SequencesExt

SmallBoxes == {Box(10, 10, 20, 20), Box(14, 10, 20, 20), Box(20, 12, 20, 20)}
SmallEntities == [class : {"person", "bus"}, box : SmallBoxes, low : {FALSE}]
SmallTracks == [1..2 -> [class : {"person", "bus"}, box : SmallBoxes, missed : {0}]]

------------------------------------------------------------------------------
(* The tracker *)

\* The loop of _match, pair by pair.
LoopMatch(candidates) ==
  LET free(m, c) == \A d \in m : d.e # c.e /\ d.t # c.t
  IN FoldLeft(LAMBDA m, c : IF free(m, c) THEN m \cup {c} ELSE m, {},
              SetToSortSeq(candidates, Better))

\* The loop gives the one set of pairs Match picks (tracking.py:103-111).
ASSUME MatchIsTheLoop ==
  \A E \in [1..2 -> SmallEntities], tracks \in SmallTracks :
    Match(Candidates(E, tracks)) = LoopMatch(Candidates(E, tracks))

\* The frame after any two tracks, as /detect sees it.
FrameAfter(E, tracks) ==
  LET k == [tracks |-> tracks, next |-> 3, idle |-> 0]
  IN Assigned(E, k, Match(Candidates(E, tracks)))

\* A risk names the tracks of its own entities: the lookup by overlap finds the track the
\* tracker gave, except among equal boxes (risk_engine.py:312-323 against
\* tracking.py:114-179).
ASSUME LookupFindsOwnTrack ==
  \A E \in [1..2 -> SmallEntities], tracks \in SmallTracks :
    LET of == FrameAfter(E, tracks)
    IN E[1].box # E[2].box =>
         \A c \in of : EntityTracks(E, Visible(E, of, 0))[c.e] = c.t

------------------------------------------------------------------------------
(* The rules *)

RuleClasses == {"person", "bus", "forklift", "fire", "smoke", "spill", "electrical", "hole",
                "suspended", "ladder", "no_hardhat", "item"}
RuleEntities == [class : RuleClasses, box : {Box(0, 40, 20, 20), Box(40, 60, 10, 20)}, low : {FALSE}]

LevelOf(E) == Rank(Highest({r.level : r \in Scored(E, <<>>)}))

\* One more object in the frame never lowers the level: the rules that withhold a finding
\* (smoke under a fire, the latent ones once a person is near) always give a graver one
\* (risk_engine.py:210-285).
ASSUME ObjectsNeverCalm ==
  \A E \in UNION {[1..n -> RuleEntities] : n \in 0..2}, e \in RuleEntities :
    LevelOf(E) <= LevelOf(Append(E, e))

\* The bands of a profile the loader accepts part the scores: each has exactly one
\* (risk_matrix.py:50-70, 83-116).
ASSUME BandsPartScores ==
  \A bands \in UNION {[1..n -> [level : {"GREEN", "RED"}, min : 1..4, max : 1..4]] : n \in 1..3} :
    ValidProfile(bands, 4) =>
      \A score \in 1..4 :
        Cardinality({i \in DOMAIN bands : bands[i].min <= score /\ score <= bands[i].max}) = 1

\* The built-in matrix is such a profile, and its alerts are the two upper levels.
ASSUME StandardMatrixValid ==
  /\ ValidProfile(Bands, 25)
  /\ \A i \in DOMAIN Bands : Bands[i].alert <=> Rank(Bands[i].level) >= Rank("ORANGE")

------------------------------------------------------------------------------
(* The request and the answer *)

Values == {Missing, Malformed, Given(1), Given(2)}

\* With a secret set, only its bearer gets past the middleware, except to a public path
\* (server.py:356-370).
ASSUME SecretGuardsRoutes ==
  \A own, authorization, length \in Values :
    LET status == Hardening("/detect", {}, CheckHttp(Given(1), own, authorization), length, 1)
    IN status = 0 => (own = Given(1) \/ (own = Missing /\ authorization = Given(1)))

\* A request raises only for its own values: no environment, however malformed, stops a
\* detector (config_resolver.py:89-190).
ASSUME EnvironmentNeverRaises ==
  \A generic, legacy, edge \in Values, backend \in {"yolo26", "edgecrafter", "deimv2"} :
    LET env == [YOLO_CONF |-> generic, YOLO26_CONF |-> legacy, YOLO_IMG_SIZE |-> legacy,
                YOLO26_IMG_SIZE |-> generic, YOLO_IOU |-> generic, YOLO26_IOU |-> legacy,
                YOLO_MAX_DETECTIONS |-> edge, YOLO26_MAX_DETECTIONS |-> generic,
                EDGECRAFTER_CONF |-> edge, EDGECRAFTER_IMG_SIZE |-> legacy]
    IN ~RunRaises("yolo26", backend, [conf |-> Missing, img_size |-> Missing], env)

\* The app's words are stable: a status already translated is translated to itself
\* (server.py:784-806 is applied to statuses that come from a cached answer too).
ReasonerWords == {"disabled", "not_triggered", "throttled", "triggered", "running", "queued",
                  "queued_latest", "cached", "completed", "cached_and_triggered", "error",
                  "schema_error", "json_parse_error", "timeout", "unavailable", "ok", ""}

ASSUME AppStateIdempotent == \A raw \in ReasonerWords : AppState(AppState(raw)) = AppState(raw)

\* A terminal failure of the risk reasoner is never downgraded by the temporal layer
\* (temporal_reasoning/__init__.py:140-143).
ASSUME TerminalSurvives ==
  \A prior \in Terminal, pending \in {"idle", "ready", "queued", "running", "unavailable"},
     run \in ReasonerWords : TemporalState(prior, pending, run) \in Terminal

\* GET /ready keeps its word: with a ready worker, a good frame is answered, and the broken
\* matrix that would have cost it its risks has made it not ready (server.py:158-182).
ASSUME ReadyMeansRisks ==
  \A loaded, riskOn, matrixLoads, accepting \in BOOLEAN :
    ReadyState(loaded, riskOn, matrixLoads, accepting) =>
      /\ DetectStatus(accepting, loaded, "none", TRUE) = 200
      /\ DegradationMode(riskOn /\ ~matrixLoads, FALSE) = "full"

------------------------------------------------------------------------------
(* The answer of a model *)

Tokens == {"{", "}", "\"", "\\", "x"}
Texts(n) == UNION {[1..k -> Tokens] : k \in 0..n}

\* The reference: a quote counts unless an odd run of backslashes stands before it.
RunBefore(text, i) == i - 1 - Max({0} \cup {j \in 1..(i - 1) : text[j] # "\\"})
Quotes(text, i) == Cardinality({j \in 1..i : text[j] = "\"" /\ RunBefore(text, j) % 2 = 0})
Braces(text, brace, i) ==
  Cardinality({j \in 1..i : text[j] = brace /\ Quotes(text, j) % 2 = 0})

\* Opened by its first brace, closed by its last, and by no earlier one.
IsObject(text) ==
  /\ Len(text) > 1 /\ text[1] = "{"
  /\ \A j \in DOMAIN text : text[j] = "\\" => Quotes(text, j) % 2 = 1
  /\ \A i \in DOMAIN text :
       (Braces(text, "{", i) = Braces(text, "}", i)) <=> (i = Len(text))

\* An object after prose that has no quote and no opening brace of its own is found, whole,
\* whatever its strings hold (vlm_reasoner.py:947-980).  Prose with a double quote may hide
\* it.
ASSUME ObjectFoundAfterProse ==
  \A text \in Texts(6) : IsObject(text) =>
    \A prose \in {<<>>, <<"x">>, <<"}">>, <<"\\", "}">>} :
      Head(JsonCandidates(prose \o text)) = <<Len(prose) + 1, Len(prose) + Len(text)>>

\* A status of "ok" is the word of a call that answered within the attempts: no failure of
\* the service, the text or the schema is told as one (gemini_reasoner.py:307-327,
\* vlm_reasoner.py:698-748).
ASSUME OkNeedsAnswer ==
  \A attempts \in [1..3 -> {"valid", "text", "busy", "fails"}], retries \in 0..2,
     extracted \in {"known", "other", "none"}, accepted \in BOOLEAN :
    LET answer == GeminiStatus(TRUE, Generated(attempts, retries), extracted, accepted)
        status == RouteStatus(TRUE, "none", TRUE, ReasonStatus(TRUE, "gemini", answer))[2]
    IN /\ status = "ok" =>
            \E i \in DOMAIN attempts :
              /\ i <= retries + 1
              /\ attempts[i] = "valid" \/ (attempts[i] = "text" /\ extracted # "none" /\ accepted)
       /\ status # "ok" => AppState(status) \in Terminal \cup {"unavailable"}

\* No scan that was not asked for by force begins within the interval of the scan before,
\* forced or failed (open_vocab_scanner.py:61-73).
ASSUME ScansSpaced ==
  \A times \in [1..3 -> 10..14], forced \in [1..3 -> BOOLEAN] :
    times[1] <= times[2] /\ times[2] <= times[3] =>
      LET after == FoldLeft(LAMBDA last, i : ScanBegins(last, "s", times[i], 3, forced[i]),
                            [k \in {} |-> 0], <<1, 2>>)
      IN after.s > times[3] - 3 /\ ~forced[3] => ScanThrottled(after, "s", times[3], 3, forced[3])

------------------------------------------------------------------------------
(* The crop of a keyframe *)

TaskSets == SUBSET {"det", "seg", "pose"}

TaskLists == {[set |-> FALSE, tasks |-> {}]} \cup [set : {TRUE}, tasks : TaskSets]
Lists(variables, t) == \E v \in variables : t \in v.tasks

\* A live frame is segmented only when the live tasks say so, pose runs only when some list
\* or the switch asks for it, and what a list of a mode asks for is never filtered away
\* (yolo26_loader.py:89-106, 380-383).
ASSUME TasksAsAsked ==
  \A live, tasks, own \in TaskLists, pose \in BOOLEAN :
    LET env == [YOLO26_LIVE_TASKS |-> live, YOLO26_TASKS |-> tasks, YOLO26_BUILD_TASKS |-> own,
                YOLO26_PLAN_TASKS |-> own, pose |-> pose]
    IN /\ "seg" \in ModeTasks("live", env) => Lists({live, tasks}, "seg")
       /\ \A mode \in {"live", "build", "plan"} :
            "pose" \in ModeTasks(mode, env) => pose \/ Lists({live, tasks, own}, "pose")
       /\ live.tasks \subseteq ModeTasks("live", env)
       /\ own.tasks \subseteq ModeTasks("build", env)

Yolos == [serving : BOOLEAN, loaded : BOOLEAN, raises : BOOLEAN, run : TaskSets, parts : 0..1,
          mask : BOOLEAN, conf : {70}]
Crops == [canny : BOOLEAN, backend : {"sam2", "fallback", "none"}, sam : BOOLEAN, samConf : {85},
          yolo : Yolos]

\* "A segmentation failure NEVER fails the frame" (build_blueprint.py:397): whatever becomes
\* of the models, a contour that was found is used, and the outline is the mask that is named.
ASSUME ContourSurvives ==
  \A crop \in Crops :
    /\ crop.canny => Outline(crop) # "frame"
    /\ crop.canny /\ crop.backend # "none" => MaskSource(crop) # "none"
    /\ MaskSource(crop) = "fallback-contour" => Outline(crop) = "canny"
    /\ MaskSource(crop) \in {"yolo26-seg", "sam2"} => Outline(crop) = MaskSource(crop)

Words == SUBSET {"electronics", "safety"}
Parts == UNION {[1..n -> [conf : {50, 60}, named : BOOLEAN, words : Words]] : n \in 0..2}

\* The warning of a dangerous item is never cut off by the cap on the points, which come in
\* their order with the warning last (plan_context.py:171-228).
ASSUME WarningPointShown ==
  \A parts \in Parts, corners \in 0..3, hint \in [given : BOOLEAN, words : Words], words \in Words :
    LET crop == [canny |-> TRUE, backend |-> "fallback", sam |-> FALSE, samConf |-> 0,
                 yolo |-> [serving |-> TRUE, loaded |-> TRUE, raises |-> FALSE, run |-> {"det"},
                           parts |-> Len(parts), mask |-> FALSE, conf |-> 0]]
        plan == PlanContext(crop, parts, corners, hint, [words |-> words, task |-> "build"],
                            [on |-> FALSE, model |-> FALSE])
    IN /\ plan.warns <=> "warning-point" \in ToSet(plan.points)
       /\ "safety" \in words => plan.warns
       /\ Len(plan.points) <= MaxPoints

------------------------------------------------------------------------------
(* The other detectors *)

BothTasks == {"det", "pose"}
Seen == {"unreachable", "cut", "kept", "ok"}
Endings(downloads) == [BothTasks -> [download : downloads, builds : BOOLEAN]]
LeftFiles == {NoFile, [path |-> "absent", part |-> "partial"], [path |-> "whole", part |-> "absent"]}

\* A load on a volume some earlier process has left, and a second one in the same process
\* or in the next.
First(files, ends) == Load(NewProcess(files), BothTasks, ends)
Second(w, restart, ends) == Load(IF restart THEN Restarted(w) ELSE w, BothTasks, ends)

\* Whatever download is seen to break off, or process dies, a file that has its name is
\* whole.  One that ends short unseen gets its name torn, is taken for present ever after,
\* and no load ends well with it (edgecrafter_loader.py:137-154).
ASSUME TornOnlyUnseen ==
  /\ \A files \in [BothTasks -> LeftFiles], ends, again \in Endings(Seen), restart \in BOOLEAN :
       LET w == Second(First(files, ends), restart, again)
       IN \A t \in BothTasks : w.files[t].path \in {"absent", "whole"}
  /\ \A ends, again \in Endings({"unseen", "ok"}), restart \in BOOLEAN :
       LET v == First([t \in BothTasks |-> NoFile], ends)
           w == Second(v, restart, again)
       IN \A t \in BothTasks :
            v.files[t].path = "partial" => w.files[t].path = "partial" /\ ~w.loaded

\* A loaded worker has all its models, each built by its own engine ("each must be imported
\* with the correct subtree on sys.path", edgecrafter_loader.py:12-15) unless an earlier
\* load of the process failed on the pose model: its subtree then stands first.
ASSUME EnginesOfTheirOwn ==
  \A files \in [BothTasks -> LeftFiles], ends, again \in Endings({"unseen", "kept", "ok"}),
     restart \in BOOLEAN :
    LET v == First(files, ends)
        w == Second(v, restart, again)
    IN w.loaded =>
         /\ InferTasks(w, BothTasks) = BothTasks
         /\ w.models.pose = Subtree.pose
         /\ (w.models.det = Subtree.det) <=> (v.loaded \/ restart \/ Subtree.pose \notin ToSet(v.path))

\* A DEIMv2 that calls itself ready is asked by its own inference, unless the fallback was
\* built and not moved to its device (deimv2_infer.py:75-91, 107-113).
ASSUME DeimServesItsModel ==
  \A kinds \in [1..2 -> {"official", "fallback"}], ends \in [1..2 -> {"ok", "unbuilt", "unmoved"}] :
    LET d == FoldLeft(LAMBDA e, i : DeimLoad(e, kinds[i], ends[i]),
                      [model |-> "none", backend |-> "none"], <<1, 2>>)
    IN DeimReady(d) => (DeimPath(d) = d.model <=> d.backend # "none")

\* A box lies in the frame whatever the detector gives, and one inside the frame is kept.
ASSUME BoxesInFrame ==
  \A a, b \in -4..14 :
    LET side == NormalSide(a, b, 10)
    IN /\ 0 <= side.start /\ 0 <= side.length /\ side.start + side.length <= 100
       /\ 0 <= a /\ a <= b /\ b <= 10 => side = [start |-> 10 * a, length |-> 10 * (b - a)]

\* A flat array of keypoints is read as it was meant: triples always, the pairs of a person
\* too, although other numbers of pairs would not be (edgecrafter_loader.py:324-339).
ASSUME FlatPosesDecode ==
  /\ \A rows \in 1..40 : DecodeKeypoints(3 * rows) = <<rows, 3>>
  /\ DecodeKeypoints(2 * Keypoints) = <<Keypoints, 2>>

\* The filter of a request binds every detector alike, and no detector keeps what is below
\* the threshold it applies (edgecrafter_loader.py:345-371, official_deimv2_loader.py:198-205).
ASSUME FilterBinds ==
  \A found \in [1..2 -> [class : 1..2, score : 1..3]], backend \in {"edgecrafter", "deimv2"} :
    LET kept == Kept(backend, found, 2, [given |-> TRUE, classes |-> {1}])
    IN \A d \in ToSet(kept) : d \in ToSet(found) /\ d.class = 1 /\ d.score >= 2

\* A mask keeps its shape and the cap on its points bounds it to less than twice the cap.
ASSUME ContoursBounded ==
  \A n \in 3..600 :
    ContourPoints(n, MaxContour) \in 3..(2 * MaxContour - 1)
===============================================================================
