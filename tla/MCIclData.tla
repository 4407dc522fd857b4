----------------------------- MODULE MCIclData -----------------------------
(* Small instances of IclData. *)
EXTENDS IclData

Scene(kinds, types, borrow, calls) ==
  [kinds |-> kinds, types |-> types, borrow |-> borrow, calls |-> calls]

\* Nested lists and states, used through getters; sets of names; trees of
\* representations; clones; messages; a query.
MCIds == 1 .. 6
MCKeys == {"k1"}
MCKeyLength == [k \in {"rt", "if", "key"} |-> IF k = "key" THEN 3 ELSE 2]
MCScenes ==
  {Scene({"list", "state"}, {"int", "list", "state"}, TRUE, 6),
   Scene({"types", "interfaces", "options", "repr"}, {}, FALSE, 6),
   Scene({"repr", "types", "interfaces"}, {}, TRUE, 6),
   Scene({"repr", "state", "list"}, {"int", "null"}, FALSE, 6),
   Scene({"request", "response", "repr", "options"}, {}, TRUE, 5),
   Scene({"request", "response", "repr"}, {}, FALSE, 6),
   Scene({"query"}, {}, FALSE, 8)}
=============================================================================
