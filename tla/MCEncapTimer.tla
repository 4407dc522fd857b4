---------------------------- MODULE MCEncapTimer ----------------------------
(* Instances of EncapTimer for TLC. *)
EXTENDS EncapTimer, TLC

MCConditions == AllConditions
=============================================================================
