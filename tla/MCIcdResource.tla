--------------------------- MODULE MCIcdResource ---------------------------
\* What may come together.
EXTENDS IcdResource, TLC

OneAtATime ==
  {{"lite"}, {"overtake", "noWorker", "reuse"}, {"lostReply"}, {"crash"},
   {"disconnect", "subscribeFail"}, {"denied", "lite", "early"}}

Symmetry == Permutations(Handles) \cup Permutations(Reqs) \cup Permutations(Rsrcs)
=============================================================================
