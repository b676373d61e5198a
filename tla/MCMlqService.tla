---------------------------- MODULE MCMlqService ----------------------------
(* Instance of MlqService for TLC.                                         *)
EXTENDS MlqService
CONSTANTS c1, c2
==============================================================================
