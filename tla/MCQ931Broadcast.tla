--------------------------- MODULE MCQ931Broadcast ---------------------------
(* Model checking of Q931Broadcast. *)
EXTENDS Q931Broadcast, TLC

(* What chan_visdn asks for. *)
Asterisk == Requests \ {"SETUP", "RESUME", "STATUS_ENQUIRY", "SUSPEND"}

(* Memory that happens to be clear, and memory that is not. *)
Dirty == {{}, {"fired", "senq"}}

(* No handler reads what an earlier step sent or told. *)
ButForOutput == <<Quiet(call), told>>

AnyTerminal == Permutations(TEs)
=============================================================================
