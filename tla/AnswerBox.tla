------------------------------ MODULE AnswerBox ------------------------------
(***************************************************************************)
(* What the VLM reasoner promises of one session, with no pool, queue,     *)
(* timer or cache in it.  Questions are numbered and asked one at a time.  *)
(* Each that is accepted is told an answer once, then settled; what is     *)
(* shown is the answer to the newest question, but that a failure takes    *)
(* the place of no success, and it may be forgotten at any time.           *)
(***************************************************************************)
EXTENDS Naturals

CONSTANT None    \* nothing is shown

VARIABLES
  asked,   \* number of questions asked
  phase,   \* "idle", "asked", or "told" (answered and not settled yet)
  shown    \* the answer shown, [ok, no], or None

boxVars == <<asked, phase, shown>>

BoxInit ==
  /\ asked = 0
  /\ phase = "idle"
  /\ shown = None

\* A question; at the end of the process it may be refused, and counts as asked.
Ask ==
  /\ phase = "idle"
  /\ asked' = asked + 1
  /\ phase' \in {"asked", "idle"}
  /\ shown' \in {shown, None}

Succeed ==
  /\ phase = "asked"
  /\ phase' = "told"
  /\ shown' = [ok |-> TRUE, no |-> asked]
  /\ UNCHANGED asked

Fail ==
  /\ phase = "asked"
  /\ phase' = "told"
  /\ shown' = IF shown # None /\ shown.ok THEN shown
              ELSE [ok |-> FALSE, no |-> asked]
  /\ UNCHANGED asked

Settle ==
  /\ phase = "told"
  /\ phase' = "idle"
  /\ UNCHANGED <<asked, shown>>

Forget ==
  /\ shown' = None
  /\ UNCHANGED <<asked, phase>>

BoxNext == Ask \/ Succeed \/ Fail \/ Settle \/ Forget

BoxSpec == BoxInit /\ [][BoxNext]_boxVars
==============================================================================
