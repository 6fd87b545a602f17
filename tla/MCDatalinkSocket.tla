-------------------------- MODULE MCDatalinkSocket --------------------------
(* Small instances of DatalinkSocket for TLC.                              *)
EXTENDS DatalinkSocket

(* No handler looks at what is queued for the user, only at how much: the  *)
(* safety runs identify states that differ in no more than that.           *)
ButForReceived == [s EXCEPT !.rx = Len(@)]

(* Explore a socket until its user closes it.                              *)
WhileOpen == s.sk = "NORMAL"
=============================================================================
