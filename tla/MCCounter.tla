------------------------------ MODULE MCCounter ------------------------------
(* Instances of RiackCounter for TLC. *)
EXTENDS RiackCounter, RiackOperations

CounterOps == {Increment, Read}
CounterRespCode == Only(ResponseCode, CounterOps)
CounterCallback == Only(CallbackKind, CounterOps)

OnFailedConnection == {RIACK_ERROR_COMMUNICATION}
=============================================================================
