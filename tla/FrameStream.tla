---------------------------- MODULE FrameStream ----------------------------
(***************************************************************************)
(* What one streaming session promises its client, with no mailbox, lock,  *)
(* thread or task in it.  The client offers frames, numbered in order; the *)
(* server may answer any offered frame newer than the last one it          *)
(* answered, skipping as many as it likes, and only while the session is   *)
(* streaming.  Once closed, the session takes at most one more frame and   *)
(* answers nothing.                                                        *)
(***************************************************************************)
EXTENDS Naturals

VARIABLES
  phase,      \* "streaming", "draining" (closed, still receiving) or "over"
  offered,    \* number of frames the client has offered
  answered    \* number of the newest frame answered, 0 before the first

streamVars == <<phase, offered, answered>>

StreamInit ==
  /\ phase = "streaming"
  /\ offered = 0
  /\ answered = 0

\* A frame is accepted; the one that finds the session closed is its last.
Offer ==
  /\ phase # "over"
  /\ offered' = offered + 1
  /\ phase' = IF phase = "streaming" THEN "streaming" ELSE "over"
  /\ UNCHANGED answered

\* A "vision" message is sent: strictly newer than every earlier one.
Answer ==
  /\ phase = "streaming"
  /\ answered' \in (answered + 1)..offered
  /\ UNCHANGED <<phase, offered>>

Close ==
  /\ phase = "streaming"
  /\ phase' = "draining"
  /\ UNCHANGED <<offered, answered>>

Finish ==
  /\ phase # "over"
  /\ phase' = "over"
  /\ UNCHANGED <<offered, answered>>

StreamNext == Offer \/ Answer \/ Close \/ Finish

StreamSpec == StreamInit /\ [][StreamNext]_streamVars
=============================================================================
