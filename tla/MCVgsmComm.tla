----------------------------- MODULE MCVgsmComm -----------------------------
(* Small instances of VgsmComm for TLC.                                    *)
EXTENDS VgsmComm
=============================================================================
