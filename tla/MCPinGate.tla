------------------------------ MODULE MCPinGate ------------------------------
(***************************************************************************)
(* PinGate for TLC: the fault and power assumptions the runs make.          *)
(***************************************************************************)
EXTENDS PinGateProperties

AllFaults == FaultKinds

(* Power and chips hold while a new wallet is unlocked for the first time,  *)
(* and power holds between the two SE050 writes that make a wallet.         *)
SetupHolds == {"setupUnlock", "writeShareE"}

NoSafePoints == {}
NoFaults == {}
=============================================================================
