---------------------------- MODULE MCIcdRequests ----------------------------
(* Instances of IcdRequests for TLC. *)
EXTENDS IcdRequests, TLC

MCFaultSets ==
  {{}, {"reply", "server_ends"}, {"server_ends", "cancel"}, {"drop", "cancel"}, {"process", "late_thread"}}
=============================================================================
