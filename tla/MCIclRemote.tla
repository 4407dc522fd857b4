----------------------------- MODULE MCIclRemote -----------------------------
(* Instances of IclRemote for TLC. *)
EXTENDS IclRemote, TLC

CONSTANTS r1, r2, c1, c2

MCResources == {r1, r2}
MCContainers == {c1, c2}
MCKinds == {"observe", "monitoring", "caching"}
MCFaults == {"daemon", "early_restart", "calls_at_disconnect"}
=============================================================================
