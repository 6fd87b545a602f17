----------------------------- MODULE MCVisdnLink -----------------------------
(* Model checking of VisdnLink. *)
EXTENDS VisdnLink

AllFree == {[s \in Sides |-> {}]}

(* Nothing in use; a channel that only one side knows to be in use; and    *)
(* one that both do.                                                       *)
SomeBusy == AllFree \cup {[s \in Sides |-> IF s \in b THEN {1} ELSE {}] :
                            b \in {{"NT"}, {"TE"}, Sides}}
=============================================================================
