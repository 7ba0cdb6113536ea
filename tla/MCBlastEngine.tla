---------------------------- MODULE MCBlastEngine ---------------------------
(* Instances of BlastEngine for TLC.                                       *)
EXTENDS BlastEngine, TLC

OneBlast == {1} \X Legs
TwoBlasts == (1..2) \X Legs
=============================================================================
