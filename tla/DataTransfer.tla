---------------------------- MODULE DataTransfer ----------------------------
(***************************************************************************)
(* What multiple-frame operation promises in one direction: frames come    *)
(* out in the order they were accepted, each once, none skipped, for as    *)
(* long as the link is neither reset nor released.                         *)
(***************************************************************************)
EXTENDS Naturals, Sequences

VARIABLES
    accepted,   \* number of frames the sender's socket has queued
    got,        \* the frames the receiver's socket has delivered
    broken      \* the link has been reset or released since it came up

vars == << accepted, got, broken >>

Init == accepted = 0 /\ got = << >> /\ broken = FALSE

Accept == accepted' = accepted + 1 /\ UNCHANGED << got, broken >>

Deliver ==
  /\ \E i \in 1 .. accepted :
       /\ ~broken => i = Len(got) + 1
       /\ got' = Append(got, i)
  /\ UNCHANGED << accepted, broken >>

Break == broken' = TRUE /\ UNCHANGED << accepted, got >>

Next == Accept \/ Deliver \/ Break

Spec == Init /\ [][Next]_vars
=============================================================================
