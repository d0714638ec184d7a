------------------------------ MODULE Recording ------------------------------
(***************************************************************************)
(* What Build Mode promises a client that waits for each answer, with no   *)
(* thread, store, eviction or expiry in it: a recording of at most         *)
(* MaxFrames frames that only grows, numbered from 0, of one object, which *)
(* is named once - by the first frame, or by one that was not recorded.    *)
(***************************************************************************)
EXTENDS Naturals, Sequences

CONSTANTS
  Names,       \* what an object can be named after
  MaxFrames,   \* the most frames of a recording
  None         \* the object has no name yet

VARIABLES
  tape,     \* the recorded frames, [id, mask]
  object    \* the name of the object, or None

recordingVars == <<tape, object>>

RecordingInit ==
  /\ tape = << >>
  /\ object = None

\* The name given once stays.
Named ==
  /\ object' \in Names
  /\ object # None => object' = object

RecordFrame ==
  /\ Len(tape) < MaxFrames
  /\ Named
  /\ tape' = Append(tape, [id |-> Len(tape), mask |-> object'])

\* A frame that is rejected after its mask was made leaves the name.
NameOnly ==
  /\ Named
  /\ UNCHANGED tape

RecordingNext == RecordFrame \/ NameOnly

RecordingSpec == RecordingInit /\ [][RecordingNext]_recordingVars
==============================================================================
