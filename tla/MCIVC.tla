------------------------------- MODULE MCIVC -------------------------------
(***************************************************************************)
(* Values of IVC's constants for TLC.                                      *)
(***************************************************************************)
EXTENDS IVC

CCPLEX == {"ccplex"}
BPMPOnly == {"bpmp"}
=============================================================================
