--------------------------- MODULE MCBuildSession ---------------------------
(***************************************************************************)
(* Model checking of BuildSession.                                         *)
(***************************************************************************)
EXTENDS BuildSession

\* Keyframes differ by name only, and so do tasks.
BuildSymmetry == Permutations(Requests) \cup Permutations(Tasks)
=============================================================================
