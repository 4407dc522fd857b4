--------------------------- MODULE MCEncapRefresh ---------------------------
(* Instances of EncapRefresh for TLC. *)
EXTENDS EncapRefresh, TLC

Overlapping == {{"overlap"}}
SingleOrReuse == {{}, {"overlap", "reuse", "alone"}}

Symmetry == Permutations(Clients) \cup Permutations(Values) \cup Permutations(Gets)
=============================================================================
