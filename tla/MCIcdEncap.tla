---------------------------- MODULE MCIcdEncap ----------------------------
(* Instances of IcdEncap for TLC: the sets whose elements only name things
   are symmetric. *)
EXTENDS IcdEncap, TLC

Symmetry ==
  Permutations(Clients) \cup Permutations(Uris) \cup Permutations(EncapIds) \cup Permutations(PresenceIds)
    \cup Permutations(Handles) \cup Permutations(Ctxs)
=============================================================================
