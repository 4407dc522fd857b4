------------------------------ MODULE IclQuery ------------------------------
(***************************************************************************)
(* A query of the client library (lib/icl-query.c): keys with values, and  *)
(* a length kept beside them for the limit of the URI.  A value is its     *)
(* length here.                                                            *)
(***************************************************************************)
EXTENDS Integers, FiniteSets, Functions

CONSTANTS
  QueryKeys,             \* among them "rt" and "if"
  KeyLength,             \* of each key
  ValueLengths,          \* of the values an application gives
  ICL_QUERY_LENGTH_MAX

ASSUME KeysAssumption ==
  {"rt", "if"} \subseteq QueryKeys /\ KeyLength \in [QueryKeys -> Nat]

ASSUME LengthsAssumption == ValueLengths \subseteq Nat /\ ICL_QUERY_LENGTH_MAX \in Nat

VARIABLES
  entries,  \* key -> length of its value
  len       \* what the code keeps as the length of the query

queryVars == <<entries, len>>

NoValue == -1

\* ?key=value, then ;key=value
Length(k, n) == KeyLength[k] + n + 2

\* g_hash_table_insert, g_hash_table_replace
Insert(table, k, x) ==
  [j \in DOMAIN table \cup {k} |-> IF j = k THEN x ELSE table[j]]

\* The value of a key is replaced; its length stays in len.
Added(e, l, k, n) ==
  IF l + Length(k, n) > ICL_QUERY_LENGTH_MAX THEN <<e, l>>
  ELSE <<Insert(e, k, n), l + Length(k, n)>>

Removed(e, l, k) ==
  IF k \in DOMAIN e THEN <<Restrict(e, DOMAIN e \ {k}), l - Length(k, e[k])>> ELSE <<e, l>>

Becomes(r) == entries' = r[1] /\ len' = r[2]

\* iotcon_query_create, and iotcon_query_destroy before it.
QueryInit == entries = <<>> /\ len = 0
QueryAgain == entries' = <<>> /\ len' = 0

\* iotcon_query_add
QueryAdd(k, n) == Becomes(Added(entries, len, k, n))

\* iotcon_query_remove
QueryRemove(k) == k \in DOMAIN entries /\ Becomes(Removed(entries, len, k))

\* The new value is counted instead of the old one, an empty one not at all.
SetKeeps(k, n) ==
  LET old == IF k \in DOMAIN entries THEN Length(k, entries[k]) ELSE 0
      new == IF n > 0 THEN Length(k, n) ELSE 0
  IN len - old + new <= ICL_QUERY_LENGTH_MAX

\* Mutant of SetValue: the value that was there is not taken out first.
SetValueOver(k, n) ==
  /\ SetKeeps(k, n)
  /\ Becomes(IF n = NoValue THEN <<entries, len>> ELSE Added(entries, len, k, n))

\* The old value goes, the new one is added; what the add says is not looked at.
SetValue(k, n) ==
  LET r == Removed(entries, len, k)
  IN /\ SetKeeps(k, n)
     /\ Becomes(IF n = NoValue THEN r ELSE Added(r[1], r[2], k, n))

SetResourceType(n) == SetValue("rt", n)
SetInterface(n) == SetValue("if", n)

QueryNext ==
  \/ QueryAgain
  \/ \E k \in QueryKeys :
       QueryRemove(k) \/ \E n \in ValueLengths : QueryAdd(k, n)
  \/ \E n \in ValueLengths \cup {NoValue} : SetResourceType(n) \/ SetInterface(n)
-----------------------------------------------------------------------------
\* The characters that the entries take in the URI.
Characters(e) == UNION {{k} \X (1 .. Length(k, e[k])) : k \in DOMAIN e}

\* "The full length of query should be less than or equal to 64.": len never
\* is less than what the keys and values take, whatever was replaced, removed
\* or refused, and never more than the limit.
QueryBounded ==
  /\ Cardinality(Characters(entries)) <= len
  /\ len <= ICL_QUERY_LENGTH_MAX
=============================================================================
