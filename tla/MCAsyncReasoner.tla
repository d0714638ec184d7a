-------------------------- MODULE MCAsyncReasoner --------------------------
(***************************************************************************)
(* Model checking of AsyncReasoner.                                        *)
(***************************************************************************)
EXTENDS AsyncReasoner

\* Sessions and pool threads differ by name only.
ReasonerSymmetry == Permutations(Sessions) \cup Permutations(Workers)
=============================================================================
