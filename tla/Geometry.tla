------------------------------- MODULE Geometry -------------------------------
(***************************************************************************)
(* Boxes and how they lie to each other: risk/scene_graph.py, and the      *)
(* copies of its formulas in server.py, risk/semantic_memory.py and        *)
(* temporal_reasoning/edge_risk.py.                                        *)
(*                                                                         *)
(* A box is a record of whole hundredths of the frame, so the thresholds   *)
(* of the code (0.02, 0.04, 0.10, 0.12, 0.20) are exact.  A centre is      *)
(* doubled to stay whole, an IoU is in hundred-thousandths, rounded down.  *)
(***************************************************************************)
EXTENDS Integers

LOCAL INSTANCE FiniteSetsExt

Frame == 100
IoUOne == 100000

Box(x, y, w, h) == [x |-> x, y |-> y, w |-> w, h |-> h]

Right(b) == b.x + b.w
Bottom(b) == b.y + b.h
CentreX(b) == 2 * b.x + b.w
CentreY(b) == 2 * b.y + b.h

LOCAL Larger(i, j) == IF i > j THEN i ELSE j
LOCAL Smaller(i, j) == IF i < j THEN i ELSE j

Inter(a, b) ==
  Larger(0, Smaller(Right(a), Right(b)) - Larger(a.x, b.x))
    * Larger(0, Smaller(Bottom(a), Bottom(b)) - Larger(a.y, b.y))

IoU(a, b) ==
  IF Inter(a, b) = 0 THEN 0
  ELSE (IoUOne * Inter(a, b)) \div (a.w * a.h + b.w * b.h - Inter(a, b))

\* The centres are at most d hundredths apart.
Within(a, b, d) ==
  LET dx == CentreX(a) - CentreX(b)
      dy == CentreY(a) - CentreY(b)
  IN dx * dx + dy * dy <= 4 * d * d

\* The centre of a is more than 0.02 above that of b.
Above(a, b) == CentreY(a) < CentreY(b) - 4

\* The edges of the frame at most t away: the top one is computed, and no rule reads it.
NearSides(b, t) ==
  {side \in {"left", "right", "top", "bottom"} :
     CASE side = "left"   -> b.x <= t
       [] side = "right"  -> Right(b) >= Frame - t
       [] side = "top"    -> b.y <= t
       [] side = "bottom" -> Bottom(b) >= Frame - t}

\* The smallest gap to any edge of the frame, 0 when the box reaches over it.
FrameGap(b) == Larger(0, Min({b.x, b.y, Frame - Right(b), Frame - Bottom(b)}))

\* The gap between the bottom of b and the top of the nearest surface under its
\* centre column; none when no surface is there.
SurfaceGaps(b, surfaces) ==
  {Larger(s.y - Bottom(b), Bottom(b) - s.y) :
     s \in {s \in surfaces : 2 * s.x <= CentreX(b) /\ CentreX(b) <= 2 * Right(s)}}

\* The two boxes the app takes for one object: IoU of 0.20, or centres within d.
SameBox(a, b, d) == IoU(a, b) >= IoUOne \div 5 \/ Within(a, b, d)
===============================================================================
