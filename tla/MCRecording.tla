---------------------------- MODULE MCRecording ----------------------------
(* Small instances of RecordingSystem.                                     *)
EXTENDS RecordingSystem, TLC

CONSTANTS p1, p2, r1, r2

\* One program, recorded once, or up to twice.
OneProgram1 == [r \in {r1} |-> p1]
OneProgram2 == [r \in {r1, r2} |-> p1]
\* Two programs, recorded once each.
TwoPrograms == (r1 :> p1) @@ (r2 :> p2)

Recorders2 == Permutations({r1, r2})
=============================================================================
