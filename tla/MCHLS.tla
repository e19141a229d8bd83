------------------------------- MODULE MCHLS -------------------------------
(* Small instances of HLSSessions: two handlers, up to three viewers.      *)
EXTENDS HLSSessions, TLC

CONSTANTS h1, h2, alice, bob, carol, channel, file1, file2

Interchangeable ==
    Permutations({h1, h2}) \cup Permutations({alice, bob, carol})
        \cup Permutations({file1, file2})
=============================================================================
