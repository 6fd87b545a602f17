----------------------------- MODULE MCQ931Leg -----------------------------
(* Model checking of Q931Leg. *)
EXTENDS Q931Leg

(* Every request of a CCB. *)
AllReq == Requests \ {"SETUP", "RESUME"}

(* No handler reads what an earlier step sent or told, and a RESTART sets *)
(* anew the channels of the one before.                                   *)
ButForOutput ==
    <<role, Quiet(call), from, dl,
      IF gc.st = "NULL" THEN gc.t317 ELSE Hushed(gc)>>
=============================================================================
