----------------------------- MODULE RequestPath ------------------------------
(***************************************************************************)
(* What a request meets besides the models: the shared secret              *)
(* (worker_security.py), the input guards (worker_guards.py), the settings *)
(* of the detector that serves it (config_resolver.py, run_inference of    *)
(* vision_backend.py), and the words of the answer about its own health    *)
(* (server.py, worker_runtime.py, temporal_reasoning/__init__.py).         *)
(*                                                                         *)
(* These are pure functions of the request and the environment.  A value   *)
(* that may be missing or malformed is a record [set, ok, value].          *)
(***************************************************************************)
EXTENDS Integers, Sequences

LOCAL INSTANCE FiniteSetsExt

\* The value of the first case that applies, in the order of the code's returns.
Case(holds, gives) == [holds |-> holds, gives |-> gives]
FirstOf(cases, otherwise) ==
  LET hits == {i \in DOMAIN cases : cases[i].holds}
  IN IF hits = {} THEN otherwise ELSE cases[Min(hits)].gives

------------------------------------------------------------------------------
(* The shared secret: an empty secret switches the check off *)

Missing == [set |-> FALSE, ok |-> FALSE, value |-> 0]
Malformed == [set |-> TRUE, ok |-> FALSE, value |-> 0]
Given(v) == [set |-> TRUE, ok |-> TRUE, value |-> v]

\* A credential is Missing, a bare "Bearer" (Malformed), or a word, bearer or not.
Presented(places) ==
  FirstOf([i \in DOMAIN places |-> Case(places[i].set, places[i])], Missing)

Matches(secret, credential) == secret.set => (credential.ok /\ credential.value = secret.value)

CheckHttp(secret, own, authorization) == Matches(secret, Presented(<<own, authorization>>))
CheckWs(secret, own, authorization, token, query) ==
  Matches(secret, Presented(<<own, authorization, token, query>>))

PublicPaths(extra) == {"/health", "/ping"} \cup extra

\* 0: the request goes on to its route.  A public path skips both checks.
Hardening(path, extra, authorized, length, cap) ==
  FirstOf(<<Case(path \in PublicPaths(extra), 0),
            Case(~authorized, 401),
            Case(length.ok /\ length.value > cap, 413)>>, 0)

------------------------------------------------------------------------------
(* The image: [given, chars, base64, bytes, opens, pixels] *)

ImageError(img, maxBytes, maxPixels) ==
  FirstOf(<<Case(~img.given, "missing_image_b64"),
            Case(img.chars > (maxBytes * 4) \div 3 + 4, "payload_too_large"),
            Case(~img.base64, "invalid_base64"),
            Case(img.bytes > maxBytes, "payload_too_large"),
            Case(~img.opens, "decode_failure"),
            Case(img.pixels > maxPixels, "image_too_large")>>, "none")

StatusFor(error) == IF error \in {"image_too_large", "payload_too_large"} THEN 413 ELSE 400

\* The status of POST /detect.  Only a request that is turned away as not ready has an
\* effect: it begins the warmup (see ModelWarmup).
DetectStatus(accepting, ready, error, infers) ==
  FirstOf(<<Case(~accepting, 503), Case(~ready, 503),
            Case(error # "none", StatusFor(error)), Case(~infers, 500)>>, 200)

\* GET /ready: a matrix that does not load counts only when the risk engine is on.
ReadyState(loaded, riskOn, matrixLoads, accepting) ==
  loaded /\ (riskOn => matrixLoads) /\ accepting

------------------------------------------------------------------------------
(* The settings of the detector *)

Yolo == {"yolo26", "ultralytics"}

\* The generic variable when set, else the legacy one, else the default; a value that
\* does not parse is the default, never the other variable's.
EnvGeneric(generic, legacy) == IF generic.set THEN generic ELSE legacy
OrDefault(v, default) == IF v.ok THEN v.value ELSE default

\* A value of the request beats them; one that does not parse raises.
Knob(asked, env, default) == IF asked.set THEN asked ELSE Given(OrDefault(env, default))

\* payload is [conf, img_size]; env maps variable names to values.
YoloKnobs(payload, env) ==
  [conf |-> Knob(payload.conf, EnvGeneric(env.YOLO_CONF, env.YOLO26_CONF), 20),
   img_size |-> Knob(payload.img_size, EnvGeneric(env.YOLO_IMG_SIZE, env.YOLO26_IMG_SIZE), 960),
   iou |-> Knob(Missing, EnvGeneric(env.YOLO_IOU, env.YOLO26_IOU), 50),
   max_det |-> Knob(Missing, EnvGeneric(env.YOLO_MAX_DETECTIONS, env.YOLO26_MAX_DETECTIONS), 170)]

EdgeCrafterKnobs(payload, env) ==
  [conf |-> Knob(payload.conf, env.EDGECRAFTER_CONF, 25),
   img_size |-> Knob(payload.img_size, env.EDGECRAFTER_IMG_SIZE, 640),
   iou |-> Missing, max_det |-> Missing]

DefaultKnobs(payload) ==
  [conf |-> Knob(payload.conf, Missing, 25), img_size |-> Knob(payload.img_size, Missing, 640),
   iou |-> Missing, max_det |-> Missing]

Effective(backend, payload, env) ==
  IF backend \in Yolo THEN YoloKnobs(payload, env)
  ELSE IF backend = "edgecrafter" THEN EdgeCrafterKnobs(payload, env)
  ELSE DefaultKnobs(payload)

\* The settings are those of the backend that serves, and the detector of the backend
\* gets those it takes.  Either resolution raises when the request's values do not parse.
Raises(knobs) == \E k \in {"conf", "img_size"} : ~knobs[k].ok
RunRaises(requested, serving, payload, env) ==
  Raises(Effective(requested, payload, env)) \/ Raises(Effective(serving, payload, env))

Passed(serving, payload, env) ==
  LET e == Effective(serving, payload, env)
  IN [k \in IF serving \in Yolo THEN {"conf", "img_size", "iou", "max_det"}
            ELSE IF serving = "deimv2" THEN {"conf", "img_size"} ELSE {"conf"} |-> e[k].value]

------------------------------------------------------------------------------
(* What a request asks for: [mode, hint, tasks, prefs], prefs the flags that are true *)

Payload(mode, hint, tasks, prefs) == [mode |-> mode, hint |-> hint, tasks |-> tasks, prefs |-> prefs]

WantsHse(p) ==
  \/ p.mode = "hse-monitoring"
  \/ p.hint = "live_hse_monitoring"
  \/ "scene_reasoning" \in p.tasks
  \/ p.prefs \cap {"return_scene_risks", "return_reasoner_status"} # {}

Forced(p) == "force_reason" \in p.prefs
PollOnly(p) == "do_not_start_new_reasoning_job" \in p.prefs /\ ~Forced(p)

------------------------------------------------------------------------------
(* What the answer says of the worker and of the reasoner *)

Ladder == <<"full", "no_risk", "detect_only", "down">>

DegradationMode(riskFailed, reasonerMissing) ==
  FirstOf(<<Case(riskFailed, "no_risk"), Case(reasonerMissing, "detect_only")>>, "full")

\* The app's words for the reasoner's own.
AppState(raw) ==
  FirstOf(<<Case(raw \in {"cached", "completed", "ok"}, "ready"),
            Case(raw \in {"triggered", "cached_and_triggered"}, "running"),
            Case(raw = "not_triggered", "rules_only"),
            Case(raw = "", "unavailable")>>, raw)

Terminal == {"json_parse_error", "schema_error", "error", "timeout"}

\* The state the temporal layer writes over the reasoner's: pending is the session's,
\* run the outcome of this frame's trigger, prior the state of the risk reasoner.
TemporalState(prior, pending, run) ==
  LET state ==
        FirstOf(<<Case(run = "disabled", "disabled"),
                  Case(run \in {"triggered", "queued", "queued_latest"} /\ pending \in {"idle", "ready"},
                       "queued"),
                  Case(run = "queued_latest", "queued_latest"),
                  Case(run = "throttled" /\ pending = "idle", "throttled"),
                  Case(run = "running", "running"),
                  Case(run \in Terminal \cup {"unavailable"}, run)>>, pending)
  IN IF prior \in Terminal /\ state \notin Terminal THEN prior ELSE state
===============================================================================
