--------------------------- MODULE MCDatalinkLink ---------------------------
(* Small instances of DatalinkLink for TLC.                                *)
EXTENDS DatalinkLink

(* Who sends how much.                                                     *)
NtSends2 == [e \in Ends |-> IF e = "NT" THEN 2 ELSE 0]
NtSends3TeSends1 == [e \in Ends |-> IF e = "NT" THEN 3 ELSE 1]

(* Explore a link up to its first reset or release.                        *)
UntilBroken == ~broken
=============================================================================
