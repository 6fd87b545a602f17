------------------------------ MODULE MCKsLink ------------------------------
(* Instances of KsLink for TLC: two processes and two channels.            *)
EXTENDS KsLink

OneByOne == {<<"rx">>, <<"tx">>}
Chain == {<<"rx", "tx">>}
=============================================================================
