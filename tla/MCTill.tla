------------------------------- MODULE MCTill -------------------------------
(***************************************************************************)
(* Instances of Till for TLC: requests, slips and the prompts of one rail  *)
(* are interchangeable.                                                    *)
(***************************************************************************)
EXTENDS Till, TLC

Interchangeable ==
    Permutations(Requests) \cup Permutations(Slips) \cup Permutations(Relayed) \cup
    Permutations(Prompts \ Relayed)
=============================================================================
