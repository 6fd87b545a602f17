----------------------------- MODULE MCTeiMgmt -----------------------------
(* Small instances of TeiMgmt for TLC.                                     *)
EXTENDS TeiMgmt

(* Terminals and reference numbers are interchangeable (safety runs only). *)
Symmetric == Permutations(Terminals) \cup Permutations(Ri)
=============================================================================
