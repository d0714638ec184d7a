------------------------------- MODULE MCDetect -------------------------------
(***************************************************************************)
(* A small instance of DetectPipeline.                                     *)
(***************************************************************************)
EXTENDS DetectPipeline, RuleChecks

Entity(class, box) == [class |-> class, box |-> box, low |-> FALSE]

Worker == Entity("person", Box(40, 40, 10, 20))
Bus == Entity("bus", Box(44, 40, 30, 30))
Left == Entity("item", Box(1, 60, 8, 8))
Right8 == Entity("item", Box(90, 20, 8, 8))

\* A frame that asks for nothing, a live one that asks for the scene, and a poll of it.
MCKinds ==
  {Payload("", "", {}, {}), Payload("hse-monitoring", "", {}, {}),
   Payload("", "", {}, {"return_scene_risks", "do_not_start_new_reasoning_job"})}

\* A person by a bus, in either order of the detector, and objects near two edges.
MCFrames == {<<Worker, Bus>>, <<Bus, Worker>>, <<Left, Right8>>, <<Right8>>}

Setup(mode, risk, frames) ==
  [mode |-> mode, risk |-> risk, ids |-> FALSE, applied |-> {}, frames |-> frames]

\* As the tests of the label and focus memories call them, and both applied; the others
\* as deployed: the focus and the labels only logged.
MCSetups ==
  {Setup("off", "on", 3), Setup("off", "off", 2), Setup("mock", "on", 2),
   Setup("mock", "broken", 2), Setup("gemini", "on", 2),
   [Setup("gemini", "on", 2) EXCEPT !.ids = TRUE, !.applied = {"labels", "focus"}]}

\* The worker whose reasoner has no model: its corrections are the code's alone.
MCMockSetups == {Setup("mock", "on", 3)}

Decision(hazard, level, primary, label) ==
  [hazard |-> hazard, level |-> level, primary |-> primary, label |-> label]

MCDecisions ==
  {Decision("object_near_edge", "YELLOW", TRUE, TRUE),
   Decision("object_near_edge", "ORANGE", FALSE, FALSE)}
===============================================================================
