---------------------------- MODULE IclData_proofs ----------------------------
(***************************************************************************)
(* References, clones and queries of the client library, for any number of *)
(* addresses, keys, words, lengths and calls.                              *)
(*                                                                         *)
(* RefsExact is proved from StateOk: besides the exact references, every   *)
(* value in an object is a word or the address of an object of its type,   *)
(* and an object holds what its kind may hold (Good).  That an object goes *)
(* with its last reference, and all that only it held, is a least set: the *)
(* references that are left are counted place by place (Count).  A call    *)
(* that takes a reference from somebody else (remove_child of no child)    *)
(* ends StateOk, but the references still count up, for what a program can *)
(* get at is held by something that does not go (UsedOutside).  The clone  *)
(* of a representation with its children is an iteration: what holds of a  *)
(* clone under way (Underway) holds of the result (Stays): its copies are  *)
(* new, each the copy of one old object, and have what that has so far.    *)
(* So no turn tells the copies from their sources (SameIs, CopyEqual).     *)
(***************************************************************************)
EXTENDS IclData, FiniteSetTheorems, SequenceTheorems, WellFoundedInduction, TLAPS


(***************************************************************************)
(* The query                                                               *)
(***************************************************************************)

\* The tables of a query.
Tables == UNION {[D -> ValueLengths] : D \in {D \in SUBSET QueryKeys : IsFiniteSet(D)}}

\* A table is a function from finitely many keys to lengths.
LEMMA TableIs ==
  ASSUME NEW e
  PROVE  e \in Tables <=> /\ e \in [DOMAIN e -> ValueLengths]
                          /\ DOMAIN e \subseteq QueryKeys
                          /\ IsFiniteSet(DOMAIN e)
BY DEF Tables

\* An entry takes a natural number of characters.
LEMMA LengthNat ==
  ASSUME NEW k \in QueryKeys, NEW n \in ValueLengths
  PROVE  Length(k, n) \in Nat
BY KeysAssumption, LengthsAssumption DEF Length

\* A function of a finite domain has finitely many values.
LEMMA ImageFinite ==
  ASSUME NEW f, IsFiniteSet(DOMAIN f), f = [x \in DOMAIN f |-> f[x]]
  PROVE  IsFiniteSet({f[x] : x \in DOMAIN f})
<1>1. f \in Surjection(DOMAIN f, {f[x] : x \in DOMAIN f})
  BY DEF Surjection
<1> QED BY <1>1, FS_Surjection

\* The members of finitely many finite sets are finitely many.
LEMMA UnionFinite ==
  ASSUME NEW f, IsFiniteSet(DOMAIN f), f = [x \in DOMAIN f |-> f[x]],
         \A x \in DOMAIN f : IsFiniteSet(f[x])
  PROVE  IsFiniteSet(UNION {f[x] : x \in DOMAIN f})
<1>1. IsFiniteSet({f[x] : x \in DOMAIN f})
  BY ImageFinite
<1> QED BY <1>1, FS_UNION

\* As many pairs as the second set has members.
LEMMA ColumnCard ==
  ASSUME NEW k, NEW S, IsFiniteSet(S)
  PROVE  IsFiniteSet({k} \X S) /\ Cardinality({k} \X S) = Cardinality(S)
<1>1. IsFiniteSet({k}) /\ Cardinality({k}) = 1
  BY FS_Singleton
<1>2. /\ IsFiniteSet({k} \X S)
      /\ Cardinality({k} \X S) = Cardinality({k}) * Cardinality(S)
  BY <1>1, FS_Product
<1>3. Cardinality(S) \in Nat
  BY FS_CardinalityType
<1> QED BY <1>1, <1>2, <1>3

\* A query takes finitely many characters.
LEMMA CharactersFinite ==
  ASSUME NEW e \in Tables
  PROVE  IsFiniteSet(Characters(e)) /\ Cardinality(Characters(e)) \in Nat
<1> DEFINE of == [k \in DOMAIN e |-> {k} \X (1 .. Length(k, e[k]))]
<1>1. IsFiniteSet(DOMAIN e)
  BY TableIs
<1>2. ASSUME NEW k \in DOMAIN e
      PROVE  IsFiniteSet(of[k])
  <2>1. Length(k, e[k]) \in Nat
    BY TableIs, LengthNat
  <2>2. IsFiniteSet(1 .. Length(k, e[k]))
    BY <2>1, FS_Interval
  <2> QED BY <2>2, ColumnCard
<1>3. IsFiniteSet(UNION {of[k] : k \in DOMAIN of})
  BY <1>1, <1>2, UnionFinite
<1>4. Characters(e) = UNION {of[k] : k \in DOMAIN of}
  BY DEF Characters
<1> QED BY <1>3, <1>4, FS_CardinalityType

\* The entry of one key counts its length, the others what they take alone.
LEMMA CharactersSplit ==
  ASSUME NEW e \in Tables, NEW k \in DOMAIN e,
         NEW r, r = Restrict(e, DOMAIN e \ {k})
  PROVE  /\ r \in Tables
         /\ Cardinality(Characters(e)) = Cardinality(Characters(r)) + Length(k, e[k])
<1> DEFINE own == {k} \X (1 .. Length(k, e[k]))
<1>1. /\ k \in QueryKeys /\ e[k] \in ValueLengths
      /\ DOMAIN e \subseteq QueryKeys /\ IsFiniteSet(DOMAIN e)
  BY TableIs
<1>2. DOMAIN r = DOMAIN e \ {k} /\ \A j \in DOMAIN r : r[j] = e[j]
  BY DEF Restrict
<1>3. r \in Tables
  <2>1. IsFiniteSet(DOMAIN r)
    BY <1>1, <1>2, FS_Subset
  <2>2. r \in [DOMAIN r -> ValueLengths]
    BY <1>2, TableIs DEF Restrict
  <2> QED BY <1>1, <1>2, <2>1, <2>2, TableIs
<1>4. IsFiniteSet(Characters(r)) /\ Cardinality(Characters(r)) \in Nat
  BY <1>3, CharactersFinite
<1>5. Length(k, e[k]) \in Nat
  BY <1>1, LengthNat
<1>6. IsFiniteSet(own) /\ Cardinality(own) = Length(k, e[k])
  <2>1. /\ IsFiniteSet(1 .. Length(k, e[k]))
        /\ Cardinality(1 .. Length(k, e[k])) = Length(k, e[k])
    BY <1>5, FS_Interval
  <2> QED BY <2>1, ColumnCard
<1>7. Characters(e) = Characters(r) \cup own
  BY <1>2 DEF Characters
<1>8. Characters(r) \cap own = {}
  BY <1>2 DEF Characters
<1>9. Cardinality(Characters(r) \cap own) = 0
  BY <1>8, FS_EmptySet
<1>10. Cardinality(Characters(e)) = Cardinality(Characters(r)) + Cardinality(own) - 0
  <2> HIDE DEF own
  <2> QED BY <1>4, <1>6, <1>7, <1>9, FS_Union
<1> QED BY <1>3, <1>4, <1>5, <1>6, <1>10

\* What the length beside a table promises.
Counted(e, l) ==
  /\ e \in Tables
  /\ l \in Int
  /\ Cardinality(Characters(e)) <= l
  /\ l <= ICL_QUERY_LENGTH_MAX

\* An add counts at least what the new entry takes.
LEMMA AddCounted ==
  ASSUME NEW e, NEW l, Counted(e, l), NEW k \in QueryKeys, NEW n \in ValueLengths
  PROVE  Counted(Added(e, l, k, n)[1], Added(e, l, k, n)[2])
<1>1. CASE l + Length(k, n) > ICL_QUERY_LENGTH_MAX
  BY <1>1 DEF Added
<1>2. CASE ~(l + Length(k, n) > ICL_QUERY_LENGTH_MAX)
  <2> DEFINE a == Insert(e, k, n)
             r == Restrict(a, DOMAIN a \ {k})
             s == Restrict(e, DOMAIN e \ {k})
  <2>1. Added(e, l, k, n) = <<a, l + Length(k, n)>>
    BY <1>2 DEF Added
  <2>2. e \in Tables /\ l \in Int /\ ICL_QUERY_LENGTH_MAX \in Int
    BY LengthsAssumption DEF Counted
  <2>3. DOMAIN a = DOMAIN e \cup {k} /\ a[k] = n /\ \A j \in DOMAIN e \ {k} : a[j] = e[j]
    BY DEF Insert
  <2>4. a \in Tables
    <3>1. IsFiniteSet(DOMAIN a)
      BY <2>2, <2>3, TableIs, FS_AddElement
    <3>2. a \in [DOMAIN a -> ValueLengths]
      BY <2>2, <2>3, TableIs DEF Insert
    <3> QED BY <2>2, <2>3, <3>1, <3>2, TableIs
  <2>5. r \in Tables /\ Cardinality(Characters(a)) = Cardinality(Characters(r)) + Length(k, n)
    BY <2>3, <2>4, CharactersSplit
  <2>6. Cardinality(Characters(r)) <= Cardinality(Characters(e))
    <3>1. Characters(r) \subseteq Characters(e)
      BY <2>3 DEF Characters, Restrict
    <3> QED BY <2>2, <3>1, CharactersFinite, FS_Subset
  <2>7. /\ Cardinality(Characters(r)) \in Nat /\ Cardinality(Characters(e)) \in Nat
        /\ Length(k, n) \in Nat
    BY <2>2, <2>5, CharactersFinite, LengthNat
  <2>8. Cardinality(Characters(e)) <= l
    BY DEF Counted
  <2>9. Cardinality(Characters(a)) <= l + Length(k, n) /\ l + Length(k, n) \in Int
    <3> HIDE DEF a, r
    <3> QED BY <2>2, <2>5, <2>6, <2>7, <2>8
  <2>10. l + Length(k, n) <= ICL_QUERY_LENGTH_MAX
    BY <1>2, <2>2, <2>7
  <2> HIDE DEF a, r
  <2> QED BY <2>1, <2>4, <2>9, <2>10 DEF Counted
<1> QED BY <1>1, <1>2

\* A removal takes out what the entry takes.
LEMMA RemoveCounted ==
  ASSUME NEW e, NEW l, Counted(e, l), NEW k \in QueryKeys
  PROVE  Counted(Removed(e, l, k)[1], Removed(e, l, k)[2])
<1>1. CASE k \notin DOMAIN e
  BY <1>1 DEF Removed
<1>2. CASE k \in DOMAIN e
  <2> DEFINE r == Restrict(e, DOMAIN e \ {k})
  <2>1. Removed(e, l, k) = <<r, l - Length(k, e[k])>>
    BY <1>2 DEF Removed
  <2>2. /\ e \in Tables /\ l \in Int /\ ICL_QUERY_LENGTH_MAX \in Int
        /\ Cardinality(Characters(e)) <= l /\ l <= ICL_QUERY_LENGTH_MAX
    BY LengthsAssumption DEF Counted
  <2>3. r \in Tables /\ Cardinality(Characters(e)) = Cardinality(Characters(r)) + Length(k, e[k])
    BY <1>2, <2>2, CharactersSplit
  <2>4. e[k] \in ValueLengths
    BY <1>2, <2>2, TableIs
  <2>5. Length(k, e[k]) \in Nat /\ Cardinality(Characters(r)) \in Nat
    BY <2>3, <2>4, LengthNat, CharactersFinite
  <2>6. /\ l - Length(k, e[k]) \in Int
        /\ Cardinality(Characters(r)) <= l - Length(k, e[k])
        /\ l - Length(k, e[k]) <= ICL_QUERY_LENGTH_MAX
    <3> HIDE DEF r
    <3> QED BY <2>2, <2>3, <2>5
  <2> HIDE DEF r
  <2> QED BY <2>1, <2>3, <2>6 DEF Counted
<1> QED BY <1>1, <1>2

\* A setter removes and adds.
LEMMA SetCounted ==
  ASSUME Counted(entries, len), NEW k \in QueryKeys, NEW n \in ValueLengths \cup {NoValue},
         SetValue(k, n)
  PROVE  Counted(entries', len')
<1> DEFINE r == Removed(entries, len, k)
<1>1. Counted(r[1], r[2])
  BY RemoveCounted
<1>2. CASE n = NoValue
  BY <1>1, <1>2 DEF SetValue, Becomes
<1>3. CASE n # NoValue
  <2>1. Counted(Added(r[1], r[2], k, n)[1], Added(r[1], r[2], k, n)[2])
    BY <1>1, <1>3, AddCounted
  <2> QED BY <1>3, <2>1 DEF SetValue, Becomes
<1> QED BY <1>2, <1>3

\* An empty query takes nothing.
LEMMA EmptyCounted == Counted(<<>>, 0)
<1>1. /\ DOMAIN <<>> = {}
      /\ <<>> \in [{} -> ValueLengths]
  OBVIOUS
<1>2. <<>> \in Tables
  BY <1>1, TableIs, FS_EmptySet
<1>3. Characters(<<>>) = {}
  BY <1>1 DEF Characters
<1> QED BY <1>2, <1>3, FS_EmptySet, LengthsAssumption DEF Counted

\* Every operation of a query keeps its length right.
LEMMA QueryStep ==
  ASSUME Counted(entries, len), QueryNext
  PROVE  Counted(entries', len')
<1> USE KeysAssumption
<1>1. CASE QueryAgain
  <2>1. entries' = <<>> /\ len' = 0
    BY <1>1 DEF QueryAgain
  <2> QED BY <2>1, EmptyCounted
<1>2. ASSUME NEW k \in QueryKeys, QueryRemove(k)
      PROVE  Counted(entries', len')
  BY <1>2, RemoveCounted DEF QueryRemove, Becomes
<1>3. ASSUME NEW k \in QueryKeys, NEW n \in ValueLengths, QueryAdd(k, n)
      PROVE  Counted(entries', len')
  BY <1>3, AddCounted DEF QueryAdd, Becomes
<1>4. ASSUME NEW n \in ValueLengths \cup {NoValue}, SetResourceType(n)
      PROVE  Counted(entries', len')
  BY <1>4, SetCounted DEF SetResourceType
<1>5. ASSUME NEW n \in ValueLengths \cup {NoValue}, SetInterface(n)
      PROVE  Counted(entries', len')
  BY <1>5, SetCounted DEF SetInterface
<1> QED BY <1>1, <1>2, <1>3, <1>4, <1>5 DEF QueryNext

\* The length beside the query is right in every state.
LEMMA LengthKept == Spec => []Counted(entries, len)
<1>1. Init => Counted(entries, len)
  BY EmptyCounted DEF Init, QueryInit
<1>2. Counted(entries, len) /\ [Next]_vars => Counted(entries, len)'
  <2> SUFFICES ASSUME Counted(entries, len), [Next]_vars
               PROVE  Counted(entries', len')
    BY DEF Counted
  <2>1. CASE NextQuery
    BY <2>1, QueryStep DEF NextQuery
  <2>2. CASE UNCHANGED queryVars
    BY <2>2 DEF queryVars
  <2>3. CASE UNCHANGED vars
    BY <2>3, <2>2 DEF vars
  <2> QED BY <2>1, <2>2, <2>3 DEF Next
<1> QED BY <1>1, <1>2, PTL DEF Spec

\* What a setter has made room for is added.
LEMMA SetAdds ==
  ASSUME Counted(entries, len), NEW k \in QueryKeys, NEW n \in ValueLengths \ {0},
         SetValue(k, n)
  PROVE  k \in DOMAIN entries' /\ entries'[k] = n
<1> DEFINE r == Removed(entries, len, k)
<1>1. /\ len \in Int /\ ICL_QUERY_LENGTH_MAX \in Nat /\ n \in Nat /\ n > 0 /\ n # NoValue
      /\ Length(k, n) \in Nat
  BY LengthNat, LengthsAssumption DEF Counted, NoValue
<1>2. r[2] + Length(k, n) <= ICL_QUERY_LENGTH_MAX
  <2>1. SetKeeps(k, n)
    BY DEF SetValue
  <2>2. CASE k \in DOMAIN entries
    <3>1. Length(k, entries[k]) \in Nat
      BY <2>2, TableIs, LengthNat DEF Counted
    <3>2. r[2] = len - Length(k, entries[k])
      BY <2>2 DEF Removed
    <3>3. len - Length(k, entries[k]) + Length(k, n) <= ICL_QUERY_LENGTH_MAX
      BY <1>1, <2>1, <2>2 DEF SetKeeps
    <3> QED BY <3>2, <3>3
  <2>3. CASE k \notin DOMAIN entries
    <3>1. r[2] = len
      BY <2>3 DEF Removed
    <3>2. len - 0 + Length(k, n) <= ICL_QUERY_LENGTH_MAX
      BY <1>1, <2>1, <2>3 DEF SetKeeps
    <3> QED BY <1>1, <3>1, <3>2
  <2> QED BY <2>2, <2>3
<1>3. r[2] \in Int
  BY RemoveCounted DEF Counted
<1>4. Added(r[1], r[2], k, n)[1] = Insert(r[1], k, n)
  <2>1. ~(r[2] + Length(k, n) > ICL_QUERY_LENGTH_MAX)
    <3> HIDE DEF r
    <3> QED BY <1>1, <1>2, <1>3
  <2> QED BY <2>1 DEF Added
<1>5. entries' = Insert(r[1], k, n)
  BY <1>1, <1>4 DEF SetValue, Becomes
<1> QED BY <1>5 DEF Insert

\* The query is no longer than its limit, whatever was replaced, removed or
\* refused, and a type or interface that is set is in it.
THEOREM QueryRight == Spec => QuerySound
<1>1. Counted(entries, len) => QueryBounded
  BY DEF Counted, QueryBounded
<1>2. Counted(entries, len) /\ [Next]_vars =>
        [\A n \in ValueLengths \ {0} :
           /\ SetResourceType(n) => "rt" \in DOMAIN entries' /\ entries'["rt"] = n
           /\ SetInterface(n) => "if" \in DOMAIN entries' /\ entries'["if"] = n]_vars
  BY KeysAssumption, SetAdds DEF SetResourceType, SetInterface
<1> QED BY <1>1, <1>2, LengthKept, PTL DEF Spec, QuerySound, SetTakes

\* There is a well-founded relation in which a smaller number is below a larger one.
LEMMA Below ==
  \E R : IsWellFoundedOn(R, Nat) /\ \A j, m \in Nat : j < m => <<j, m>> \in R
<1> DEFINE R == OpToRel(<, Nat)
<1>1. IsWellFoundedOn(R, Nat)
  BY NatLessThanWellFounded
<1>2. ASSUME NEW j \in Nat, NEW m \in Nat, j < m
      PROVE  <<j, m>> \in R
  <2>1. R = {ss \in Nat \X Nat : ss[1] < ss[2]}
    BY Zenon DEF OpToRel
  <2> HIDE DEF R
  <2> QED BY <2>1, <1>2
<1> HIDE DEF R
<1> QED BY Zenon, <1>1, <1>2

\* A set of numbers that is not empty has a least one.
LEMMA LeastOf ==
  ASSUME NEW I, I \subseteq Nat, I # {}
  PROVE  \E m \in I : \A j \in I : m <= j
<1>1. PICK R : IsWellFoundedOn(R, Nat) /\ \A j, m \in Nat : j < m => <<j, m>> \in R
  BY Below
<1>2. PICK m \in I : \A j \in I : ~ (<<j, m>> \in R)
  <2>1. IsWellFoundedOn(R, Nat)
    BY <1>1
  <2> QED BY Zenon, <2>1, WFMin
<1>3. ASSUME NEW j \in I
      PROVE  m <= j
  <2>1. j \in Nat /\ m \in Nat
    OBVIOUS
  <2>2. ~ (j < m)
    BY Zenon, <1>1, <1>2, <2>1
  <2> QED BY <2>1, <2>2
<1> QED BY <1>3

(***************************************************************************)
(* Counting places                                                         *)
(***************************************************************************)

\* Values, tables and objects of the right types.
Plain == [type : Basic, v : Words \cup {Null, "link", "batch", "baseline"}]
Handles == [type : Nested \cup Sets \cup {"options", "repr"}, v : Ids]
Vals == Plain \cup Handles

FieldNames == Keys \cup {"uri", "types", "interfaces", "state", "repr", "options", "iface"}
FieldTables == UNION {[D -> Vals] : D \in {D \in SUBSET FieldNames : IsFiniteSet(D)}}

\* Representations have no type of their own.
Objects ==
  {obj \in [kind : Kinds \cup {"free"}, type : Basic \cup Nested \cup {""}, refs : Nat,
            items : Seq(Vals), fields : FieldTables, shows : SUBSET {"state", "props"}] :
     obj.kind = "repr" => obj.type = ""}

\* Where p is in a list or a table.
At(f, p) == {i \in DOMAIN f : Has(f[i], p)}
One(x, p) == IF Has(x, p) THEN 1 ELSE 0

\* A table of fields is a function from finitely many names to values.
LEMMA FieldsAre ==
  ASSUME NEW f
  PROVE  f \in FieldTables <=> /\ f \in [DOMAIN f -> Vals]
                               /\ DOMAIN f \subseteq FieldNames
                               /\ IsFiniteSet(DOMAIN f)
BY DEF FieldTables

\* The places of an object in a finite function are finitely many.
LEMMA AtFinite ==
  ASSUME NEW f, IsFiniteSet(DOMAIN f), NEW p
  PROVE  IsFiniteSet(At(f, p)) /\ Cardinality(At(f, p)) \in Nat
<1>1. At(f, p) \subseteq DOMAIN f
  BY DEF At
<1> QED BY <1>1, FS_Subset, FS_CardinalityType

\* So are those in an object, in its list and in its table.
LEMMA UsesAre ==
  ASSUME NEW obj \in Objects, NEW p
  PROVE  /\ IsFiniteSet(PlacesIn(obj, p))
         /\ Uses(obj, p) \in Nat
         /\ Cardinality(At(obj.items, p)) \in Nat
         /\ Cardinality(At(obj.fields, p)) \in Nat
         /\ Uses(obj, p) = Cardinality(At(obj.items, p)) + Cardinality(At(obj.fields, p))
<1> DEFINE I == {"item"} \X At(obj.items, p)
           F == {"field"} \X At(obj.fields, p)
<1>1. IsFiniteSet(DOMAIN obj.items) /\ IsFiniteSet(DOMAIN obj.fields)
  <2>1. obj.items \in Seq(Vals) /\ obj.fields \in FieldTables
    BY DEF Objects
  <2>2. DOMAIN obj.items = 1 .. Len(obj.items) /\ Len(obj.items) \in Nat
    BY <2>1, LenProperties
  <2>3. IsFiniteSet(DOMAIN obj.items)
    BY <2>2, FS_Interval
  <2>4. IsFiniteSet(DOMAIN obj.fields)
    BY <2>1, FieldsAre
  <2> QED BY <2>3, <2>4
<1>2. /\ IsFiniteSet(At(obj.items, p)) /\ Cardinality(At(obj.items, p)) \in Nat
      /\ IsFiniteSet(At(obj.fields, p)) /\ Cardinality(At(obj.fields, p)) \in Nat
  BY <1>1, AtFinite
<1>3. /\ IsFiniteSet(I) /\ Cardinality(I) = Cardinality(At(obj.items, p))
      /\ IsFiniteSet(F) /\ Cardinality(F) = Cardinality(At(obj.fields, p))
  BY <1>2, ColumnCard
<1>4. I \cap F = {}
  OBVIOUS
<1>5. Cardinality(I \cap F) = 0
  BY <1>4, FS_EmptySet
<1>6. /\ IsFiniteSet(I \cup F)
      /\ Cardinality(I \cup F) = Cardinality(I) + Cardinality(F) - 0
  <2> HIDE DEF I, F
  <2> QED BY <1>3, <1>5, FS_Union
<1>7. PlacesIn(obj, p) = I \cup F
  BY DEF PlacesIn, At
<1> HIDE DEF I, F
<1> QED BY <1>2, <1>3, <1>6, <1>7 DEF Uses

\* A list with one value more has its object in one place more.
LEMMA OneMore ==
  ASSUME NEW s \in Seq(Vals), NEW t \in Seq(Vals), NEW i \in 1 .. Len(t), NEW p,
         Len(t) = Len(s) + 1,
         \A j \in 1 .. Len(s) : s[j] = IF j < i THEN t[j] ELSE t[j + 1]
  PROVE  Cardinality(At(t, p)) = Cardinality(At(s, p)) + One(t[i], p)
<1> DEFINE f == [j \in At(s, p) |-> IF j < i THEN j ELSE j + 1]
           T == At(t, p) \ {i}
<1>1. /\ Len(s) \in Nat /\ DOMAIN s = 1 .. Len(s)
      /\ Len(t) \in Nat /\ DOMAIN t = 1 .. Len(t)
  BY LenProperties
<1>2. /\ IsFiniteSet(At(s, p)) /\ IsFiniteSet(At(t, p))
      /\ Cardinality(At(s, p)) \in Nat /\ Cardinality(At(t, p)) \in Nat
  <2>1. IsFiniteSet(DOMAIN s) /\ IsFiniteSet(DOMAIN t)
    BY <1>1, FS_Interval
  <2> QED BY <2>1, AtFinite
<1>3. ASSUME NEW j \in At(s, p)
      PROVE  f[j] \in T
  BY <1>1 DEF At
<1>4. ASSUME NEW j \in At(s, p), NEW k \in At(s, p), f[j] = f[k]
      PROVE  j = k
  BY <1>1, <1>4 DEF At
<1>5. ASSUME NEW k \in T
      PROVE  \E j \in At(s, p) : f[j] = k
  <2>1. k \in 1 .. Len(t) /\ k # i /\ Has(t[k], p)
    BY <1>1 DEF At
  <2>2. CASE k < i
    <3>1. k \in 1 .. Len(s) /\ s[k] = t[k]
      BY <1>1, <2>1, <2>2
    <3>2. k \in At(s, p)
      BY <1>1, <2>1, <3>1 DEF At
    <3> QED BY <2>2, <3>2
  <2>3. CASE ~(k < i)
    <3>1. k - 1 \in 1 .. Len(s) /\ s[k - 1] = t[k] /\ ~(k - 1 < i) /\ k - 1 + 1 = k
      BY <1>1, <2>1, <2>3
    <3>2. k - 1 \in At(s, p)
      BY <1>1, <2>1, <3>1 DEF At
    <3> QED BY <3>1, <3>2
  <2> QED BY <2>2, <2>3
<1>6. f \in Bijection(At(s, p), T)
  <2>1. f \in [At(s, p) -> T]
    BY <1>3
  <2>2. f \in Injection(At(s, p), T)
    <3> HIDE DEF f, T
    <3> QED BY <1>4, <2>1 DEF Injection, IsInjective
  <2>3. f \in Surjection(At(s, p), T)
    <3> HIDE DEF f, T
    <3> QED BY <1>5, <2>1 DEF Surjection
  <2> HIDE DEF f, T
  <2> QED BY <2>2, <2>3 DEF Bijection
<1>7. Cardinality(T) = Cardinality(At(s, p))
  BY <1>2, <1>6, FS_Bijection DEF ExistsBijection
<1>8. Cardinality(T) = IF i \in At(t, p) THEN Cardinality(At(t, p)) - 1 ELSE Cardinality(At(t, p))
  BY <1>2, FS_RemoveElement
<1>9. i \in At(t, p) <=> Has(t[i], p)
  BY <1>1 DEF At
<1> QED BY <1>2, <1>7, <1>8, <1>9 DEF One

\* A list into which a value is inserted.
LEMMA InsertAtCount ==
  ASSUME NEW s \in Seq(Vals), NEW i \in 1 .. Len(s) + 1, NEW x \in Vals, NEW p
  PROVE  /\ InsertAt(s, i, x) \in Seq(Vals)
         /\ Cardinality(At(InsertAt(s, i, x), p)) = Cardinality(At(s, p)) + One(x, p)
         /\ \A j \in DOMAIN InsertAt(s, i, x) :
               InsertAt(s, i, x)[j] = x \/ \E k \in DOMAIN s : InsertAt(s, i, x)[j] = s[k]
<1> DEFINE t == InsertAt(s, i, x)
<1>1. Len(s) \in Nat
  BY LenProperties
<1>2. /\ \A j \in 1 .. i - 1 : s[j] \in Vals
      /\ \A j \in i .. Len(s) : s[j] \in Vals
  BY <1>1, ElementOfSeq
<1>3. /\ SubSeq(s, 1, i - 1) \in Seq(Vals) /\ Len(SubSeq(s, 1, i - 1)) = i - 1
      /\ \A j \in 1 .. i - 1 : SubSeq(s, 1, i - 1)[j] = s[j]
  BY <1>1, <1>2, SubSeqProperties
<1>4. /\ SubSeq(s, i, Len(s)) \in Seq(Vals) /\ Len(SubSeq(s, i, Len(s))) = Len(s) - i + 1
      /\ \A j \in 1 .. Len(s) - i + 1 : SubSeq(s, i, Len(s))[j] = s[i + j - 1]
  BY <1>1, <1>2, SubSeqProperties
<1>5. <<x>> \in Seq(Vals) /\ Len(<<x>>) = 1 /\ <<x>>[1] = x
  OBVIOUS
<1>6. t = (SubSeq(s, 1, i - 1) \o <<x>>) \o SubSeq(s, i, Len(s))
  BY DEF InsertAt
<1> DEFINE u == SubSeq(s, 1, i - 1) \o <<x>>
<1>7. /\ u \in Seq(Vals) /\ Len(u) = i
      /\ \A j \in 1 .. i : u[j] = IF j <= i - 1 THEN s[j] ELSE x
  <2>1. /\ u \in Seq(Vals) /\ Len(u) = (i - 1) + 1
        /\ \A j \in 1 .. (i - 1) + 1 : u[j] = IF j <= i - 1 THEN SubSeq(s, 1, i - 1)[j] ELSE <<x>>[j - (i - 1)]
    BY <1>3, <1>5, ConcatProperties
  <2> QED BY <1>1, <1>3, <1>5, <2>1
<1>8. /\ t \in Seq(Vals) /\ Len(t) = Len(s) + 1
      /\ \A j \in 1 .. Len(s) + 1 : t[j] = IF j < i THEN s[j] ELSE IF j = i THEN x ELSE s[j - 1]
  <2> DEFINE v == SubSeq(s, i, Len(s))
  <2>0. v \in Seq(Vals) /\ Len(v) = Len(s) - i + 1 /\ t = u \o v
    BY <1>4, <1>6
  <2>1. /\ t \in Seq(Vals) /\ Len(t) = i + (Len(s) - i + 1)
        /\ \A j \in 1 .. i + (Len(s) - i + 1) : t[j] = IF j <= i THEN u[j] ELSE v[j - i]
    <3> HIDE DEF t, u, v
    <3>1. /\ u \o v \in Seq(Vals) /\ Len(u \o v) = Len(u) + Len(v)
          /\ \A j \in 1 .. Len(u) + Len(v) : (u \o v)[j] = IF j <= Len(u) THEN u[j] ELSE v[j - Len(u)]
      BY <1>7, <2>0, ConcatProperties
    <3> QED BY <1>7, <2>0, <3>1
  <2>2. ASSUME NEW j \in 1 .. Len(s) + 1
        PROVE  t[j] = IF j < i THEN s[j] ELSE IF j = i THEN x ELSE s[j - 1]
    <3>1. CASE j <= i
      <4>1. t[j] = u[j] /\ j \in 1 .. i
        BY <1>1, <2>1, <3>1
      <4> QED BY <1>7, <4>1
    <3>2. CASE j > i
      <4>1. t[j] = SubSeq(s, i, Len(s))[j - i] /\ j - i \in 1 .. Len(s) - i + 1
        BY <1>1, <2>1, <3>2
      <4>2. SubSeq(s, i, Len(s))[j - i] = s[i + (j - i) - 1]
        BY <1>4, <4>1
      <4>3. i + (j - i) - 1 = j - 1
        BY <1>1
      <4> QED BY <3>2, <4>1, <4>2, <4>3
    <3> QED BY <1>1, <3>1, <3>2
  <2> QED BY <1>1, <2>1, <2>2
<1> HIDE DEF t, u
<1>9. i \in 1 .. Len(t) /\ t[i] = x
  BY <1>1, <1>8
<1>10. \A j \in 1 .. Len(s) : s[j] = IF j < i THEN t[j] ELSE t[j + 1]
  BY <1>1, <1>8
<1>11. Cardinality(At(t, p)) = Cardinality(At(s, p)) + One(t[i], p)
  BY <1>8, <1>9, <1>10, OneMore
<1>12. ASSUME NEW j \in DOMAIN t
       PROVE  t[j] = x \/ \E k \in DOMAIN s : t[j] = s[k]
  <2>1. j \in 1 .. Len(s) + 1 /\ DOMAIN s = 1 .. Len(s)
    BY <1>8, LenProperties
  <2>2. CASE j < i
    <3>1. t[j] = s[j] /\ j \in 1 .. Len(s)
      BY <1>1, <1>8, <2>1, <2>2
    <3> QED BY <2>1, <3>1
  <2>3. CASE j = i
    BY <1>9, <2>3
  <2>4. CASE j > i
    <3>1. t[j] = s[j - 1] /\ j - 1 \in 1 .. Len(s)
      BY <1>1, <1>8, <2>1, <2>4
    <3> QED BY <2>1, <3>1
  <2> QED BY <1>1, <2>1, <2>2, <2>3, <2>4
<1> QED BY <1>8, <1>9, <1>11, <1>12 DEF t

\* A list to which a value is appended.
LEMMA AppendCount ==
  ASSUME NEW s \in Seq(Vals), NEW x \in Vals, NEW p
  PROVE  /\ Append(s, x) \in Seq(Vals)
         /\ Cardinality(At(Append(s, x), p)) = Cardinality(At(s, p)) + One(x, p)
         /\ \A j \in DOMAIN Append(s, x) :
               Append(s, x)[j] = x \/ \E k \in DOMAIN s : Append(s, x)[j] = s[k]
<1> DEFINE t == Append(s, x)
<1>1. Len(s) \in Nat
  BY LenProperties
<1>2. /\ t \in Seq(Vals) /\ Len(t) = Len(s) + 1
      /\ \A i \in 1 .. Len(s) : t[i] = s[i]
      /\ t[Len(s) + 1] = x
  BY AppendProperties
<1> HIDE DEF t
<1>3. Len(s) + 1 \in 1 .. Len(t) /\ \A j \in 1 .. Len(s) : s[j] = IF j < Len(s) + 1 THEN t[j] ELSE t[j + 1]
  BY <1>1, <1>2
<1>4. Cardinality(At(t, p)) = Cardinality(At(s, p)) + One(t[Len(s) + 1], p)
  BY <1>2, <1>3, OneMore
<1>5. ASSUME NEW j \in DOMAIN t
      PROVE  t[j] = x \/ \E k \in DOMAIN s : t[j] = s[k]
  <2>1. j \in 1 .. Len(s) + 1 /\ DOMAIN s = 1 .. Len(s)
    BY <1>2, LenProperties
  <2>2. CASE j = Len(s) + 1
    BY <1>2, <2>2
  <2>3. CASE j # Len(s) + 1
    <3>1. t[j] = s[j] /\ j \in 1 .. Len(s)
      BY <1>1, <1>2, <2>1, <2>3
    <3> QED BY <2>1, <3>1
  <2> QED BY <2>2, <2>3
<1> QED BY <1>2, <1>4, <1>5 DEF t

\* A list from which a value is removed.
LEMMA RemoveAtCount ==
  ASSUME NEW s \in Seq(Vals), NEW i \in 1 .. Len(s), NEW p
  PROVE  /\ RemoveAt(s, i) \in Seq(Vals)
         /\ Cardinality(At(s, p)) = Cardinality(At(RemoveAt(s, i), p)) + One(s[i], p)
         /\ \A j \in DOMAIN RemoveAt(s, i) : \E k \in DOMAIN s : RemoveAt(s, i)[j] = s[k]
<1> DEFINE t == RemoveAt(s, i)
<1>1. Len(s) \in Nat
  BY LenProperties
<1>2. /\ \A j \in 1 .. i - 1 : s[j] \in Vals
      /\ \A j \in i + 1 .. Len(s) : s[j] \in Vals
  BY <1>1, ElementOfSeq
<1>3. /\ SubSeq(s, 1, i - 1) \in Seq(Vals) /\ Len(SubSeq(s, 1, i - 1)) = i - 1
      /\ \A j \in 1 .. i - 1 : SubSeq(s, 1, i - 1)[j] = s[j]
  BY <1>1, <1>2, SubSeqProperties
<1>4. /\ SubSeq(s, i + 1, Len(s)) \in Seq(Vals) /\ Len(SubSeq(s, i + 1, Len(s))) = Len(s) - i
      /\ \A j \in 1 .. Len(s) - i : SubSeq(s, i + 1, Len(s))[j] = s[i + j]
  <2>1. /\ SubSeq(s, i + 1, Len(s)) \in Seq(Vals)
        /\ Len(SubSeq(s, i + 1, Len(s))) = IF i + 1 <= Len(s) THEN Len(s) - (i + 1) + 1 ELSE 0
        /\ \A j \in 1 .. Len(s) - (i + 1) + 1 : SubSeq(s, i + 1, Len(s))[j] = s[i + 1 + j - 1]
    BY <1>1, <1>2, SubSeqProperties
  <2> QED BY <1>1, <2>1
<1>5. /\ t \in Seq(Vals) /\ Len(t) = (i - 1) + (Len(s) - i)
      /\ \A j \in 1 .. (i - 1) + (Len(s) - i) :
            t[j] = IF j <= i - 1 THEN SubSeq(s, 1, i - 1)[j] ELSE SubSeq(s, i + 1, Len(s))[j - (i - 1)]
  <2> DEFINE u == SubSeq(s, 1, i - 1)
             v == SubSeq(s, i + 1, Len(s))
  <2>0. /\ u \in Seq(Vals) /\ Len(u) = i - 1 /\ v \in Seq(Vals) /\ Len(v) = Len(s) - i
        /\ t = u \o v
    BY <1>3, <1>4 DEF RemoveAt
  <2> HIDE DEF t, u, v
  <2>1. /\ u \o v \in Seq(Vals) /\ Len(u \o v) = Len(u) + Len(v)
        /\ \A j \in 1 .. Len(u) + Len(v) : (u \o v)[j] = IF j <= Len(u) THEN u[j] ELSE v[j - Len(u)]
    BY <2>0, ConcatProperties
  <2>2. /\ t \in Seq(Vals) /\ Len(t) = (i - 1) + (Len(s) - i)
        /\ \A j \in 1 .. (i - 1) + (Len(s) - i) : t[j] = IF j <= i - 1 THEN u[j] ELSE v[j - (i - 1)]
    BY <2>0, <2>1
  <2> QED BY <2>2 DEF u, v
<1>6. Len(t) \in Nat /\ Len(s) = Len(t) + 1
  BY <1>1, <1>5
<1>7. ASSUME NEW j \in 1 .. Len(t)
      PROVE  t[j] = IF j < i THEN s[j] ELSE s[j + 1]
  <2> HIDE DEF t
  <2>1. CASE j <= i - 1
    <3>1. t[j] = SubSeq(s, 1, i - 1)[j] /\ j \in 1 .. i - 1
      BY <1>1, <1>5, <2>1
    <3> QED BY <1>1, <1>3, <2>1, <3>1
  <2>2. CASE ~(j <= i - 1)
    <3>1. t[j] = SubSeq(s, i + 1, Len(s))[j - (i - 1)] /\ j - (i - 1) \in 1 .. Len(s) - i
      BY <1>1, <1>5, <1>6, <2>2
    <3>2. SubSeq(s, i + 1, Len(s))[j - (i - 1)] = s[i + (j - (i - 1))]
      BY <1>4, <3>1
    <3>3. i + (j - (i - 1)) = j + 1
      BY <1>1, <1>6
    <3> QED BY <1>1, <1>6, <2>2, <3>1, <3>2, <3>3
  <2> QED BY <2>1, <2>2
<1> HIDE DEF t
<1>8. Cardinality(At(s, p)) = Cardinality(At(t, p)) + One(s[i], p)
  BY <1>5, <1>6, <1>7, OneMore
<1>9. ASSUME NEW j \in DOMAIN t
      PROVE  \E k \in DOMAIN s : t[j] = s[k]
  <2>1. j \in 1 .. Len(t) /\ DOMAIN s = 1 .. Len(s)
    BY <1>5, LenProperties
  <2>2. CASE j < i
    <3>1. t[j] = s[j] /\ j \in 1 .. Len(s)
      BY <1>1, <1>6, <1>7, <2>1, <2>2
    <3> QED BY <2>1, <3>1
  <2>3. CASE ~(j < i)
    <3>1. t[j] = s[j + 1] /\ j + 1 \in 1 .. Len(s)
      BY <1>1, <1>6, <1>7, <2>1, <2>3
    <3> QED BY <2>1, <3>1
  <2> QED BY <2>2, <2>3
<1> QED BY <1>5, <1>8, <1>9 DEF t

\* A list from which the first place of a value it has is removed.
LEMMA RemoveFirstIs ==
  ASSUME NEW s \in Seq(Vals), NEW x, x \in ToSet(s)
  PROVE  \E i \in 1 .. Len(s) : s[i] = x /\ RemoveFirst(s, x) = RemoveAt(s, i)
<1> DEFINE I == {i \in 1 .. Len(s) : s[i] = x}
<1>1. Len(s) \in Nat /\ DOMAIN s = 1 .. Len(s)
  BY LenProperties
<1>2. I # {} /\ I \subseteq Nat
  BY <1>1 DEF ToSet
<1>3. PICK m \in I : \A j \in I : m <= j
  BY <1>2, LeastOf
<1>4. Min(I) \in I
  BY <1>3 DEF Min
<1>5. RemoveFirst(s, x) = RemoveAt(s, Min(I))
  BY <1>2 DEF RemoveFirst, SelectInSeq
<1> QED BY <1>4, <1>5

\* A table in which a value is inserted, for the value it has there or a new one.
LEMMA InsertCount ==
  ASSUME NEW f \in FieldTables, NEW k \in FieldNames, NEW x \in Vals, NEW p
  PROVE  /\ Insert(f, k, x) \in FieldTables
         /\ Cardinality(At(Insert(f, k, x), p)) + (IF k \in DOMAIN f THEN One(f[k], p) ELSE 0)
              = Cardinality(At(f, p)) + One(x, p)
<1> DEFINE g == Insert(f, k, x)
           R == At(f, p) \ {k}
<1>1. f \in [DOMAIN f -> Vals] /\ DOMAIN f \subseteq FieldNames /\ IsFiniteSet(DOMAIN f)
  BY FieldsAre
<1>2. /\ g = [j \in DOMAIN f \cup {k} |-> IF j = k THEN x ELSE f[j]]
      /\ DOMAIN g = DOMAIN f \cup {k}
      /\ g[k] = x
      /\ \A j \in DOMAIN f \ {k} : g[j] = f[j]
  BY DEF Insert
<1>3. IsFiniteSet(DOMAIN g)
  BY <1>1, <1>2, FS_AddElement
<1>4. g \in FieldTables
  <2>1. g \in [DOMAIN g -> Vals]
    BY <1>1, <1>2
  <2>2. DOMAIN g \subseteq FieldNames
    BY <1>1, <1>2
  <2> HIDE DEF g
  <2> QED BY <1>3, <2>1, <2>2, FieldsAre
<1> HIDE DEF g
<1>5. /\ IsFiniteSet(At(f, p)) /\ Cardinality(At(f, p)) \in Nat
      /\ IsFiniteSet(At(g, p)) /\ Cardinality(At(g, p)) \in Nat
  BY <1>1, <1>3, AtFinite
<1>6. At(g, p) \ {k} = R
  BY <1>2 DEF At
<1>7. k \in At(g, p) <=> Has(x, p)
  BY <1>2 DEF At
<1>8. k \in At(f, p) <=> k \in DOMAIN f /\ Has(f[k], p)
  BY DEF At
<1>9. Cardinality(R) = IF k \in At(f, p) THEN Cardinality(At(f, p)) - 1 ELSE Cardinality(At(f, p))
  BY <1>5, FS_RemoveElement
<1>10. Cardinality(R) = IF k \in At(g, p) THEN Cardinality(At(g, p)) - 1 ELSE Cardinality(At(g, p))
  BY <1>5, <1>6, FS_RemoveElement
<1> HIDE DEF R
<1> QED BY <1>4, <1>5, <1>7, <1>8, <1>9, <1>10 DEF One, g

\* A table from which a value is removed.
LEMMA DropCount ==
  ASSUME NEW f \in FieldTables, NEW k \in DOMAIN f, NEW p
  PROVE  /\ [j \in DOMAIN f \ {k} |-> f[j]] \in FieldTables
         /\ Cardinality(At(f, p)) = Cardinality(At([j \in DOMAIN f \ {k} |-> f[j]], p)) + One(f[k], p)
<1> DEFINE g == [j \in DOMAIN f \ {k} |-> f[j]]
<1>1. f \in [DOMAIN f -> Vals] /\ DOMAIN f \subseteq FieldNames /\ IsFiniteSet(DOMAIN f)
  BY FieldsAre
<1>2. DOMAIN g = DOMAIN f \ {k} /\ \A j \in DOMAIN f \ {k} : g[j] = f[j]
  OBVIOUS
<1>3. IsFiniteSet(DOMAIN g)
  BY <1>1, <1>2, FS_RemoveElement
<1>4. g \in FieldTables
  <2>1. g \in [DOMAIN g -> Vals]
    BY <1>1
  <2>2. DOMAIN g \subseteq FieldNames
    BY <1>1, <1>2
  <2> HIDE DEF g
  <2> QED BY <1>3, <2>1, <2>2, FieldsAre
<1> HIDE DEF g
<1>5. /\ IsFiniteSet(At(f, p)) /\ Cardinality(At(f, p)) \in Nat
      /\ IsFiniteSet(At(g, p)) /\ Cardinality(At(g, p)) \in Nat
  BY <1>1, <1>3, AtFinite
<1>6. At(g, p) = At(f, p) \ {k}
  BY <1>2 DEF At
<1>7. k \in At(f, p) <=> Has(f[k], p)
  BY DEF At
<1>8. Cardinality(At(g, p)) = IF k \in At(f, p) THEN Cardinality(At(f, p)) - 1 ELSE Cardinality(At(f, p))
  BY <1>5, <1>6, FS_RemoveElement
<1> QED BY <1>4, <1>5, <1>7, <1>8 DEF One, g

(***************************************************************************)
(* Places in all objects                                                   *)
(***************************************************************************)

Heaps == [Ids -> Objects]

\* Those of some objects are finitely many.
LEMMA PlacesFinite ==
  ASSUME NEW h \in Heaps, NEW S \in SUBSET Ids, NEW p
  PROVE  IsFiniteSet(Places(h, S, p)) /\ Cardinality(Places(h, S, p)) \in Nat
<1> DEFINE At1(c) == {c} \X PlacesIn(h[c], p)
           U == {At1(c) : c \in S}
<1>1. IsFiniteSet(S)
  BY AddressesAssumption, FS_Subset
<1>2. ASSUME NEW c \in S
      PROVE  IsFiniteSet(At1(c))
  <2>1. h[c] \in Objects
    BY DEF Heaps
  <2>2. IsFiniteSet(PlacesIn(h[c], p))
    BY <2>1, UsesAre
  <2> QED BY <2>2, ColumnCard
<1>3. IsFiniteSet(UNION U)
  <2> DEFINE f == [c \in S |-> At1(c)]
  <2>1. DOMAIN f = S /\ f = [c \in DOMAIN f |-> f[c]]
    OBVIOUS
  <2>2. U = {f[c] : c \in DOMAIN f}
    OBVIOUS
  <2>3. \A c \in DOMAIN f : IsFiniteSet(f[c])
    BY <1>2
  <2>4. IsFiniteSet(DOMAIN f)
    BY <1>1, <2>1
  <2> HIDE DEF f, U
  <2> QED BY <2>1, <2>2, <2>3, <2>4, UnionFinite
<1>4. Places(h, S, p) = UNION U
  BY DEF Places
<1> QED BY <1>3, <1>4, FS_CardinalityType

\* How often p is in the objects of S.
Count(h, S, p) == Cardinality(Places(h, S, p))

\* One object's places are counted apart from the others'.
LEMMA CountSplit ==
  ASSUME NEW h \in Heaps, NEW S \in SUBSET Ids, NEW c \in S, NEW p
  PROVE  /\ Count(h, S, p) \in Nat /\ Count(h, S \ {c}, p) \in Nat /\ Uses(h[c], p) \in Nat
         /\ Count(h, S, p) = Count(h, S \ {c}, p) + Uses(h[c], p)
<1> DEFINE T == Places(h, S \ {c}, p)
           C == {c} \X PlacesIn(h[c], p)
<1>1. IsFiniteSet(T) /\ Cardinality(T) \in Nat
  BY PlacesFinite
<1>2. IsFiniteSet(PlacesIn(h[c], p)) /\ Uses(h[c], p) \in Nat
  BY UsesAre DEF Heaps
<1>3. IsFiniteSet(C) /\ Cardinality(C) = Uses(h[c], p)
  BY <1>2, ColumnCard DEF Uses
<1>4. T \cap C = {}
  BY DEF Places
<1>5. Places(h, S, p) = T \cup C
  BY DEF Places
<1>6. Cardinality(T \cap C) = 0
  BY <1>4, FS_EmptySet
<1>7. Cardinality(T \cup C) = Cardinality(T) + Cardinality(C) - 0
  <2> HIDE DEF T, C
  <2> QED BY <1>1, <1>3, <1>6, FS_Union
<1>8. Count(h, S, p) \in Nat
  BY PlacesFinite DEF Count
<1> QED BY <1>1, <1>2, <1>3, <1>5, <1>7, <1>8 DEF Count

\* Objects with the same contents have the same places.
LEMMA CountSame ==
  ASSUME NEW h \in Heaps, NEW g \in Heaps, NEW S \in SUBSET Ids, NEW p,
         \A c \in S : g[c].items = h[c].items /\ g[c].fields = h[c].fields
  PROVE  Count(g, S, p) = Count(h, S, p)
<1>1. \A c \in S : PlacesIn(g[c], p) = PlacesIn(h[c], p)
  BY DEF PlacesIn
<1>2. Places(g, S, p) = Places(h, S, p)
  BY <1>1 DEF Places
<1> QED BY <1>2 DEF Count

\* Where one object's contents change, its places are counted anew.
LEMMA CountChange ==
  ASSUME NEW h \in Heaps, NEW g \in Heaps, NEW o \in Ids, NEW p,
         \A c \in Ids \ {o} : g[c].items = h[c].items /\ g[c].fields = h[c].fields
  PROVE  /\ Count(h, Ids, p) \in Nat /\ Count(g, Ids, p) \in Nat
         /\ Uses(h[o], p) \in Nat /\ Uses(g[o], p) \in Nat
         /\ Count(g, Ids, p) + Uses(h[o], p) = Count(h, Ids, p) + Uses(g[o], p)
<1>1. /\ Count(h, Ids, p) \in Nat /\ Count(h, Ids \ {o}, p) \in Nat /\ Uses(h[o], p) \in Nat
      /\ Count(h, Ids, p) = Count(h, Ids \ {o}, p) + Uses(h[o], p)
  BY CountSplit
<1>2. /\ Count(g, Ids, p) \in Nat /\ Uses(g[o], p) \in Nat
      /\ Count(g, Ids, p) = Count(g, Ids \ {o}, p) + Uses(g[o], p)
  BY CountSplit
<1>3. Count(g, Ids \ {o}, p) = Count(h, Ids \ {o}, p)
  BY CountSame
<1> QED BY <1>1, <1>2, <1>3

\* The places of fewer objects are fewer.
LEMMA CountLess ==
  ASSUME NEW h \in Heaps, NEW S, S \subseteq Ids, NEW T, T \subseteq S, NEW p
  PROVE  /\ Count(h, S, p) \in Nat /\ Count(h, T, p) \in Nat
         /\ Count(h, S \ T, p) \in Nat
         /\ Count(h, S, p) = Count(h, T, p) + Count(h, S \ T, p)
<1> DEFINE A == Places(h, T, p)
           B == Places(h, S \ T, p)
<1>1. /\ IsFiniteSet(A) /\ Cardinality(A) \in Nat
      /\ IsFiniteSet(B) /\ Cardinality(B) \in Nat
  BY PlacesFinite
<1>2. A \cap B = {}
  BY DEF Places
<1>3. Places(h, S, p) = A \cup B
  BY DEF Places
<1>4. Cardinality(A \cap B) = 0
  BY <1>2, FS_EmptySet
<1>5. Cardinality(A \cup B) = Cardinality(A) + Cardinality(B) - 0
  <2> HIDE DEF A, B
  <2> QED BY <1>1, <1>4, FS_Union
<1> QED BY <1>1, <1>3, <1>5 DEF Count

\* An object that has p has it at least once.
LEMMA UsedCounts ==
  ASSUME NEW h \in Heaps, NEW S \in SUBSET Ids, NEW c \in S, NEW p
  PROVE  /\ (\E i \in DOMAIN h[c].items : Has(h[c].items[i], p)) => Count(h, S, p) >= 1
         /\ (\E k \in DOMAIN h[c].fields : Has(h[c].fields[k], p)) => Count(h, S, p) >= 1
<1>1. ASSUME NEW x \in PlacesIn(h[c], p)
      PROVE  Count(h, S, p) >= 1
  <2>1. <<c, x>> \in Places(h, S, p)
    BY DEF Places
  <2>2. IsFiniteSet(Places(h, S, p)) /\ Cardinality(Places(h, S, p)) \in Nat
    BY PlacesFinite
  <2>3. Cardinality(Places(h, S, p)) # 0
    BY <2>1, <2>2, FS_EmptySet
  <2> QED BY <2>2, <2>3 DEF Count
<1>2. ASSUME NEW i \in DOMAIN h[c].items, Has(h[c].items[i], p)
      PROVE  Count(h, S, p) >= 1
  <2>1. <<"item", i>> \in PlacesIn(h[c], p)
    BY <1>2 DEF PlacesIn
  <2> QED BY <1>1, <2>1
<1>3. ASSUME NEW k \in DOMAIN h[c].fields, Has(h[c].fields[k], p)
      PROVE  Count(h, S, p) >= 1
  <2>1. <<"field", k>> \in PlacesIn(h[c], p)
    BY <1>3 DEF PlacesIn
  <2> QED BY <1>1, <2>1
<1> QED BY <1>2, <1>3

(***************************************************************************)
(* Good heaps                                                              *)
(***************************************************************************)

\* A handle is of the kind of the object it names.
Fits(h, x) == IsHandle(x) => h[x.v].kind = x.type

\* What may be in the list and under the names of an object of a kind.
ItemOk(kind, x) == kind = "repr" => x.type = "repr"
FieldOk(kind, k, x) ==
  /\ kind = "repr" =>
       \/ k = "uri" /\ ~IsHandle(x)
       \/ k \in {"types", "interfaces", "state"} /\ x.type = k
  /\ kind = "response" =>
       /\ k = "iface" => ~IsHandle(x)
       /\ k = "repr" => x.type = "repr"

ObjectOk(h, obj) ==
  /\ \A i \in DOMAIN obj.items : Fits(h, obj.items[i]) /\ ItemOk(obj.kind, obj.items[i])
  /\ \A k \in DOMAIN obj.fields : Fits(h, obj.fields[k]) /\ FieldOk(obj.kind, k, obj.fields[k])

\* Who has references outside the heap.
Outside == [Ids -> Nat]

\* The references of an object are those outside and its places; what has none
\* is free; and every object holds what it may.
Good(h, ext) ==
  /\ h \in Heaps /\ ext \in Outside
  /\ \A p \in Ids : h[p].refs = ext[p] + Count(h, Ids, p)
  /\ \A p \in Ids : h[p].refs = 0 => h[p] = Free
  /\ \A p \in Ids : h[p].kind = "free" => h[p].refs = 0
  /\ \A p \in Ids : ObjectOk(h, h[p])

\* What is in an object has a reference.
LEMMA HeldInside ==
  ASSUME NEW h, NEW ext, Good(h, ext), NEW q \in Ids, NEW x \in Vals, IsHandle(x),
         \/ \E i \in DOMAIN h[q].items : h[q].items[i] = x
         \/ \E k \in DOMAIN h[q].fields : h[q].fields[k] = x
  PROVE  x.v \in Ids /\ h[x.v].refs >= 1 /\ h[x.v] # Free /\ h[x.v].kind = x.type
<1>1. x.v \in Ids /\ Has(x, x.v)
  BY DEF Vals, Plain, Handles, Basic, Kinds, Nested, Sets, IsHandle, Has
<1>2. h \in Heaps
  BY DEF Good
<1>3. Count(h, Ids, x.v) >= 1 /\ Count(h, Ids, x.v) \in Nat
  BY <1>1, <1>2, UsedCounts, CountLess
<1>4. ext[x.v] \in Nat /\ h[x.v].refs = ext[x.v] + Count(h, Ids, x.v)
  BY <1>1 DEF Good, Outside
<1>5. h[x.v].refs >= 1
  BY <1>3, <1>4
<1>6. Free.refs = 0
  BY DEF Free, Blank
<1>7. Fits(h, x)
  BY DEF Good, ObjectOk
<1> QED BY <1>1, <1>5, <1>6, <1>7 DEF Fits

\* The values of an object.
LEMMA ValuesOf ==
  ASSUME NEW h \in Heaps, NEW q \in Ids
  PROVE  /\ h[q] \in Objects
         /\ h[q].items \in Seq(Vals) /\ h[q].fields \in FieldTables
         /\ \A i \in DOMAIN h[q].items : h[q].items[i] \in Vals
         /\ \A k \in DOMAIN h[q].fields : h[q].fields[k] \in Vals /\ k \in FieldNames
<1>1. h[q] \in Objects
  BY DEF Heaps
<1>2. h[q].items \in Seq(Vals) /\ h[q].fields \in FieldTables
  BY <1>1 DEF Objects
<1>3. \A i \in DOMAIN h[q].items : h[q].items[i] \in Vals
  BY <1>2, ElementOfSeq, LenProperties
<1>4. \A k \in DOMAIN h[q].fields : h[q].fields[k] \in Vals /\ k \in FieldNames
  BY <1>2, FieldsAre
<1> QED BY <1>1, <1>2, <1>3, <1>4

\* What another heap keeps of an object: its kind, its type and its contents.
SameBody(a, b) ==
  a.kind = b.kind /\ a.type = b.type /\ a.items = b.items /\ a.fields = b.fields

\* A value that fits still does while no object changes its kind.
LEMMA FitsStill ==
  ASSUME NEW h, NEW g, NEW x \in Vals, Fits(h, x),
         \A p \in Ids : h[p].kind # "free" => g[p].kind = h[p].kind
  PROVE  Fits(g, x)
<1>1. CASE IsHandle(x)
  <2>1. x.v \in Ids /\ x.type # "free"
    BY <1>1 DEF Vals, Plain, Handles, Basic, Kinds, Nested, Sets, IsHandle
  <2> QED BY <2>1 DEF Fits
<1> QED BY <1>1 DEF Fits

\* Objects stay as they may be while no object changes its kind.
LEMMA StillOk ==
  ASSUME NEW h, NEW g, NEW obj \in Objects, ObjectOk(h, obj), NEW b,
         b.kind = obj.kind, b.items = obj.items, b.fields = obj.fields,
         \A p \in Ids : h[p].kind # "free" => g[p].kind = h[p].kind
  PROVE  ObjectOk(g, b)
<1>1. obj.items \in Seq(Vals) /\ obj.fields \in FieldTables
  BY DEF Objects
<1>2. ASSUME NEW i \in DOMAIN obj.items
      PROVE  Fits(g, obj.items[i]) /\ ItemOk(obj.kind, obj.items[i])
  <2>1. obj.items[i] \in Vals
    BY <1>1, ElementOfSeq, LenProperties
  <2>2. Fits(h, obj.items[i]) /\ ItemOk(obj.kind, obj.items[i])
    BY DEF ObjectOk
  <2> QED BY <2>1, <2>2, FitsStill
<1>3. ASSUME NEW k \in DOMAIN obj.fields
      PROVE  Fits(g, obj.fields[k]) /\ FieldOk(obj.kind, k, obj.fields[k])
  <2>1. obj.fields[k] \in Vals
    BY <1>1, FieldsAre
  <2>2. Fits(h, obj.fields[k]) /\ FieldOk(obj.kind, k, obj.fields[k])
    BY DEF ObjectOk
  <2> QED BY <2>1, <2>2, FitsStill
<1> QED BY <1>2, <1>3 DEF ObjectOk, SameBody

\* A step that changes the contents of one object, a new one perhaps, and the
\* references accordingly.
LEMMA GoodStep ==
  ASSUME NEW h, NEW ext, Good(h, ext), NEW g \in Heaps, NEW e2 \in Outside, NEW o \in Ids,
         \A p \in Ids \ {o} : g[p].items = h[p].items /\ g[p].fields = h[p].fields,
         \A p \in Ids : h[p].kind # "free" => g[p].kind = h[p].kind,
         \A p \in Ids : g[p].refs + ext[p] + Uses(h[o], p) = h[p].refs + e2[p] + Uses(g[o], p),
         \A p \in Ids : g[p].refs = 0 => g[p] = Free,
         \A p \in Ids : g[p].kind = "free" => g[p].refs = 0,
         \A p \in Ids \ {o} : g[p].kind = h[p].kind,
         ObjectOk(g, g[o])
  PROVE  Good(g, e2)
<1>1. h \in Heaps
  BY DEF Good
<1>2. ASSUME NEW p \in Ids
      PROVE  g[p].refs = e2[p] + Count(g, Ids, p)
  <2>1. /\ Count(h, Ids, p) \in Nat /\ Count(g, Ids, p) \in Nat
        /\ Uses(h[o], p) \in Nat /\ Uses(g[o], p) \in Nat
        /\ Count(g, Ids, p) + Uses(h[o], p) = Count(h, Ids, p) + Uses(g[o], p)
    BY <1>1, CountChange
  <2>2. h[p].refs = ext[p] + Count(h, Ids, p) /\ ext[p] \in Nat /\ e2[p] \in Nat
    BY DEF Good, Outside
  <2>3. g[p].refs \in Nat /\ h[p].refs \in Nat
    BY <1>1 DEF Heaps, Objects
  <2>4. g[p].refs + ext[p] + Uses(h[o], p) = h[p].refs + e2[p] + Uses(g[o], p)
    OBVIOUS
  <2> QED BY <2>1, <2>2, <2>3, <2>4
<1>3. ASSUME NEW p \in Ids
      PROVE  ObjectOk(g, g[p])
  <2>1. CASE p = o
    BY <2>1
  <2>2. CASE p # o
    <3>1. /\ h[p] \in Objects /\ ObjectOk(h, h[p])
          /\ g[p].kind = h[p].kind /\ g[p].items = h[p].items /\ g[p].fields = h[p].fields
      BY <1>1, <2>2 DEF Good, Heaps
    <3> QED BY <3>1, StillOk
  <2> QED BY <2>1, <2>2
<1> QED BY <1>2, <1>3 DEF Good

\* A free address: no references, nothing in it.
LEMMA FreeIs ==
  /\ Free \in Objects /\ Free.refs = 0 /\ Free.kind = "free"
  /\ DOMAIN Free.items = {} /\ DOMAIN Free.fields = {}
  /\ \A h : ObjectOk(h, Free)
  /\ \A p : PlacesIn(Free, p) = {} /\ Uses(Free, p) = 0
<1>1. /\ Free.kind = "free" /\ Free.refs = 0 /\ Free.items = <<>> /\ Free.fields = <<>>
      /\ DOMAIN Free.items = {} /\ DOMAIN Free.fields = {}
  BY DEF Free, Blank
<1>2. <<>> \in FieldTables
  <2>1. <<>> \in [DOMAIN <<>> -> Vals] /\ DOMAIN <<>> = {}
    OBVIOUS
  <2>2. IsFiniteSet({})
    BY FS_EmptySet
  <2> QED BY <2>1, <2>2, FieldsAre
<1>3. Free \in Objects
  <2>1. <<>> \in Seq(Vals) /\ 0 \in Nat /\ 1 \in Nat
    OBVIOUS
  <2>2. Blank("free", "") \in Objects
    BY <1>2, <2>1 DEF Objects, Blank
  <2> QED BY <2>1, <2>2 DEF Objects, Free
<1>4. \A p : PlacesIn(Free, p) = {}
  BY <1>1 DEF PlacesIn
<1>5. \A p : Uses(Free, p) = 0
  BY <1>4, FS_EmptySet DEF Uses
<1> QED BY <1>1, <1>3, <1>4, <1>5 DEF ObjectOk

\* What goes is the least set whose members lose all references in it.
LEMMA GoingLoses ==
  ASSUME NEW h, NEW ext, Good(h, ext), NEW o \in Ids
  PROVE  /\ Going(h, o) \subseteq Live(h)
         /\ \A p \in Ids : Lost(h, o, Going(h, o), p) \in Nat /\ h[p].refs \in Nat
         /\ \A p \in Live(h) : p \in Going(h, o) <=> Lost(h, o, Going(h, o), p) >= h[p].refs
<1> DEFINE F == Going(h, o)
<1>1. h \in Heaps /\ F \subseteq Live(h) /\ Live(h) \subseteq Ids
  BY DEF Good, Going, Live
<1>2. \A p \in Ids : h[p].refs \in Nat
  BY <1>1 DEF Heaps, Objects
<1>3. ASSUME NEW G \in SUBSET Ids, NEW E \in SUBSET G, NEW p \in Ids
      PROVE  /\ Lost(h, o, E, p) \in Nat /\ Lost(h, o, G, p) \in Nat
             /\ Lost(h, o, E, p) <= Lost(h, o, G, p)
  <2>1. /\ Count(h, G, p) \in Nat /\ Count(h, E, p) \in Nat /\ Count(h, G \ E, p) \in Nat
        /\ Count(h, G, p) = Count(h, E, p) + Count(h, G \ E, p)
    <3> HIDE DEF F
    <3>1. h \in Heaps
      BY <1>1
    <3>2. G \subseteq Ids /\ E \subseteq G
      OBVIOUS
    <3>3. /\ Count(h, G, p) \in Nat /\ Count(h, E, p) \in Nat
          /\ Count(h, G \ E, p) \in Nat
      BY ONLY <3>1, <3>2, CountLess
    <3>4. Count(h, G, p) = Count(h, E, p) + Count(h, G \ E, p)
      BY ONLY <3>1, <3>2, CountLess
    <3> QED BY <3>3, <3>4
  <2> QED BY <2>1 DEF Lost, Count
<1> DEFINE Closed(G) == \A p \in Live(h) : Lost(h, o, G, p) >= h[p].refs => p \in G
<1>4. F = {p \in Live(h) : \A G \in SUBSET Live(h) : Closed(G) => p \in G}
  BY DEF Going
<1> HIDE DEF F
<1>5. ASSUME NEW p \in Live(h), Lost(h, o, F, p) >= h[p].refs
      PROVE  p \in F
  <2>1. ASSUME NEW G \in SUBSET Live(h), Closed(G)
        PROVE  p \in G
    <3>1. F \subseteq G /\ G \subseteq Ids /\ p \in Ids
      BY <1>1, <1>4, <2>1
    <3>2. Lost(h, o, F, p) <= Lost(h, o, G, p) /\ Lost(h, o, F, p) \in Nat /\ Lost(h, o, G, p) \in Nat
      BY <1>3, <3>1
    <3>3. Lost(h, o, G, p) >= h[p].refs
      BY <1>2, <1>5, <3>1, <3>2
    <3> QED BY <2>1, <3>3
  <2> QED BY <1>4, <2>1
<1>6. ASSUME NEW p \in F
      PROVE  Lost(h, o, F, p) >= h[p].refs
  <2> DEFINE G == {q \in Live(h) : Lost(h, o, F, q) >= h[q].refs}
  <2>1. G \in SUBSET Live(h) /\ G \subseteq F
    BY <1>5
  <2>2. Closed(G)
    <3>1. ASSUME NEW q \in Live(h), Lost(h, o, G, q) >= h[q].refs
          PROVE  q \in G
      <4>1. q \in Ids /\ F \in SUBSET Ids /\ G \in SUBSET F
        BY <1>1, <2>1
      <4>2. Lost(h, o, G, q) <= Lost(h, o, F, q) /\ Lost(h, o, G, q) \in Nat /\ Lost(h, o, F, q) \in Nat
        BY <1>3, <4>1
      <4>3. Lost(h, o, F, q) >= h[q].refs
        <5> HIDE DEF G
        <5> QED BY <1>2, <3>1, <4>1, <4>2
      <4> QED BY <4>3
    <3> QED BY <3>1
  <2>3. p \in G
    <3> HIDE DEF G
    <3> QED BY <1>4, <2>1, <2>2
  <2> QED BY <2>3
<1>7. ASSUME NEW p \in Ids
      PROVE  Lost(h, o, F, p) \in Nat
  BY <1>1, <1>3
<1>8. ASSUME NEW p \in Live(h)
      PROVE  p \in F <=> Lost(h, o, F, p) >= h[p].refs
  BY <1>5, <1>6
<1> QED BY <1>1, <1>2, <1>7, <1>8 DEF F

\* Nothing loses more than it has when somebody else has what is destroyed.
LEMMA GoingIs ==
  ASSUME NEW h, NEW ext, Good(h, ext), NEW o \in Ids, Count(h, Going(h, o), o) < h[o].refs
  PROVE  /\ Going(h, o) \subseteq Live(h)
         /\ \A p \in Ids : /\ Lost(h, o, Going(h, o), p) \in Nat
                           /\ Lost(h, o, Going(h, o), p) <= h[p].refs
                           /\ h[p].refs \in Nat
         /\ \A p \in Live(h) : p \in Going(h, o) <=> Lost(h, o, Going(h, o), p) = h[p].refs
<1> DEFINE F == Going(h, o)
<1>1. /\ h \in Heaps /\ F \subseteq Live(h) /\ F \subseteq Ids
      /\ \A p \in Ids : Lost(h, o, F, p) \in Nat /\ h[p].refs \in Nat
      /\ \A p \in Live(h) : p \in F <=> Lost(h, o, F, p) >= h[p].refs
  BY GoingLoses DEF Good, Live
<1>2. Count(h, F, o) < h[o].refs
  OBVIOUS
<1> HIDE DEF F
<1>3. ASSUME NEW p \in Ids
      PROVE  Lost(h, o, F, p) <= h[p].refs
  <2>1. /\ Count(h, Ids, p) \in Nat /\ Count(h, F, p) \in Nat /\ Count(h, Ids \ F, p) \in Nat
        /\ Count(h, Ids, p) = Count(h, F, p) + Count(h, Ids \ F, p)
    <3>1. h \in Heaps /\ F \subseteq Ids
      BY <1>1
    <3>2. /\ Count(h, Ids, p) \in Nat /\ Count(h, F, p) \in Nat
          /\ Count(h, Ids \ F, p) \in Nat
      BY ONLY <3>1, CountLess
    <3>3. Count(h, Ids, p) = Count(h, F, p) + Count(h, Ids \ F, p)
      BY ONLY <3>1, CountLess
    <3> QED BY <3>2, <3>3
  <2>2. h[p].refs = ext[p] + Count(h, Ids, p) /\ ext[p] \in Nat
    BY DEF Good, Outside
  <2>3. Lost(h, o, F, p) = Count(h, F, p) + (IF p = o THEN 1 ELSE 0)
    BY DEF Lost, Count
  <2>4. h[p].refs \in Nat
    BY <1>1
  <2> QED BY <1>2, <2>1, <2>2, <2>3, <2>4
<1>4. \A p \in Live(h) : p \in Ids
  BY DEF Live
<1>5. \A p \in Live(h) : p \in F <=> Lost(h, o, F, p) = h[p].refs
  BY <1>1, <1>3, <1>4
<1> QED BY <1>1, <1>3, <1>5 DEF F

\* What is destroyed loses a reference, what goes with it its last; the
\* references of what stays count up, and it stays as it is.
LEMMA UnrefCounts ==
  ASSUME NEW h, NEW ext, Good(h, ext), NEW o \in Ids, Count(h, Going(h, o), o) < h[o].refs
  PROVE  LET g == Unref(h, o)
         IN /\ g \in Heaps
            /\ \A p \in Ids : g[p] = Free \/ SameBody(g[p], h[p])
            /\ \A p \in Ids : g[p].refs + (IF p = o THEN 1 ELSE 0) = ext[p] + Count(g, Ids, p)
            /\ \A p \in Ids : (g[p].refs = 0 => g[p] = Free) /\ (g[p].kind = "free" => g[p].refs = 0)
            /\ \A p \in Ids : p \in Going(h, o) => Count(h, Ids \ Going(h, o), p) + ext[p] = IF p = o THEN 1 ELSE 0
            /\ \A p \in Ids : p \in Going(h, o) => g[p] = Free
            /\ \A p \in Ids : p \notin Going(h, o) => SameBody(g[p], h[p])
<1> DEFINE F == Going(h, o)
           g == Unref(h, o)
<1>1. h \in Heaps /\ F \subseteq Live(h) /\ F \subseteq Ids
  BY GoingIs DEF Good, Live
<1>2. \A p \in Ids : Lost(h, o, F, p) \in Nat /\ Lost(h, o, F, p) <= h[p].refs /\ h[p].refs \in Nat
  BY GoingIs
<1>3. \A p \in Live(h) : p \in F <=> Lost(h, o, F, p) = h[p].refs
  BY GoingIs
<1> HIDE DEF F
<1>4. /\ \A p \in F : g[p] = Free
      /\ \A p \in Ids \ F : g[p] = [h[p] EXCEPT !.refs = @ - Lost(h, o, F, p)]
  BY <1>1 DEF Unref, F
<1>5. ASSUME NEW p \in Ids \ F
      PROVE  /\ g[p] \in Objects /\ SameBody(g[p], h[p])
             /\ g[p].refs = h[p].refs - Lost(h, o, F, p)
  <2>1. h[p] \in Objects
    BY <1>1 DEF Heaps
  <2>2. h[p].refs - Lost(h, o, F, p) \in Nat
    BY <1>2
  <2>3. g[p] = [h[p] EXCEPT !.refs = @ - Lost(h, o, F, p)]
    BY <1>4
  <2> HIDE DEF g
  <2> QED BY <2>1, <2>2, <2>3 DEF Objects, SameBody
<1>6. g \in Heaps
  <2>1. g = [p \in Ids |-> g[p]]
    BY DEF Unref
  <2>2. ASSUME NEW p \in Ids
        PROVE  g[p] \in Objects
    BY <1>4, <1>5, FreeIs
  <2> HIDE DEF g
  <2> QED BY <2>1, <2>2 DEF Heaps
<1> HIDE DEF g
<1>8. ASSUME NEW p \in Ids
      PROVE  /\ Count(g, Ids, p) = Count(h, Ids \ F, p) /\ Count(h, Ids \ F, p) \in Nat
             /\ h[p].refs = ext[p] + Count(h, Ids \ F, p) + Lost(h, o, F, p) - (IF p = o THEN 1 ELSE 0)
  <2>1. /\ Count(h, Ids, p) \in Nat /\ Count(h, F, p) \in Nat /\ Count(h, Ids \ F, p) \in Nat
        /\ Count(g, Ids, p) \in Nat /\ Count(g, F, p) \in Nat /\ Count(g, Ids \ F, p) \in Nat
    BY ONLY <1>1, <1>6, CountLess
  <2>2. Count(h, Ids, p) = Count(h, F, p) + Count(h, Ids \ F, p)
    BY ONLY <1>1, CountLess
  <2>3. Count(g, Ids, p) = Count(g, F, p) + Count(g, Ids \ F, p)
    BY ONLY <1>1, <1>6, CountLess
  <2>4. Count(g, F, p) = 0
    <3>1. Places(g, F, p) = {}
      BY <1>4, FreeIs DEF Places
    <3> QED BY <3>1, FS_EmptySet DEF Count
  <2>5. Count(g, Ids \ F, p) = Count(h, Ids \ F, p)
    <3>1. \A c \in Ids \ F : g[c].items = h[c].items /\ g[c].fields = h[c].fields
      BY <1>5 DEF SameBody
    <3> QED BY <1>1, <1>6, <3>1, CountSame
  <2>6. Lost(h, o, F, p) = Count(h, F, p) + (IF p = o THEN 1 ELSE 0)
    BY DEF Lost, Count
  <2>7. h[p].refs = ext[p] + Count(h, Ids, p) /\ ext[p] \in Nat
    BY DEF Good, Outside
  <2>8. Count(g, Ids, p) = Count(h, Ids \ F, p)
    BY <2>1, <2>3, <2>4, <2>5
  <2> QED BY <2>1, <2>2, <2>6, <2>7, <2>8
<1>9. ASSUME NEW p \in F
      PROVE  Count(h, Ids \ F, p) + ext[p] = IF p = o THEN 1 ELSE 0
  <2>1. p \in Ids /\ Lost(h, o, F, p) = h[p].refs
    BY <1>1, <1>3
  <2>2. ext[p] \in Nat
    BY <2>1 DEF Good, Outside
  <2>3. PICK b \in {0, 1} : b = IF p = o THEN 1 ELSE 0
    OBVIOUS
  <2>4. /\ Count(h, Ids \ F, p) \in Nat
        /\ h[p].refs = ext[p] + Count(h, Ids \ F, p) + Lost(h, o, F, p) - b
    BY <1>8, <2>1, <2>3
  <2>5. Lost(h, o, F, p) \in Nat /\ h[p].refs \in Nat
    BY <1>2, <2>1
  <2>6. Count(h, Ids \ F, p) + ext[p] = b
    BY <2>1, <2>2, <2>4, <2>5
  <2> QED BY <2>3, <2>6
<1>10. ASSUME NEW p \in Ids
       PROVE  g[p].refs + (IF p = o THEN 1 ELSE 0) = ext[p] + Count(g, Ids, p)
  <2>1. ext[p] \in Nat
    BY DEF Good, Outside
  <2>2. PICK b \in {0, 1} : b = IF p = o THEN 1 ELSE 0
    OBVIOUS
  <2>3. /\ Count(h, Ids \ F, p) \in Nat /\ Count(g, Ids, p) = Count(h, Ids \ F, p)
        /\ h[p].refs = ext[p] + Count(h, Ids \ F, p) + Lost(h, o, F, p) - b
    BY <1>8, <2>2
  <2>4. CASE p \in F
    <3>1. g[p].refs = 0
      BY <1>4, <2>4, FreeIs
    <3>2. Count(h, Ids \ F, p) + ext[p] = b
      BY <1>9, <2>2, <2>4
    <3> QED BY <2>1, <2>2, <2>3, <3>1, <3>2
  <2>5. CASE p \notin F
    <3>1. g[p].refs = h[p].refs - Lost(h, o, F, p)
      BY <1>5, <2>5
    <3>2. Lost(h, o, F, p) \in Nat /\ h[p].refs \in Nat
      BY <1>2
    <3>3. g[p].refs + b = ext[p] + Count(g, Ids, p)
      BY <2>1, <2>3, <3>1, <3>2
    <3> QED BY <2>2, <3>3
  <2> QED BY <2>4, <2>5
<1>11. ASSUME NEW p \in Ids
       PROVE  (g[p].refs = 0 => g[p] = Free) /\ (g[p].kind = "free" => g[p].refs = 0)
  <2>1. CASE p \in F
    BY <1>4, <2>1, FreeIs
  <2>2. CASE p \notin F /\ h[p] = Free
    <3>1. h[p].refs = 0 /\ Lost(h, o, F, p) = 0
      BY <1>2, <2>2, FreeIs
    <3>2. g[p] = [Free EXCEPT !.refs = 0]
      <4>1. g[p] = [h[p] EXCEPT !.refs = h[p].refs - Lost(h, o, F, p)]
        BY <1>4, <2>2
      <4>2. h[p].refs - Lost(h, o, F, p) = 0
        BY <3>1
      <4> QED BY <2>2, <4>1, <4>2
    <3>3. [Free EXCEPT !.refs = 0] = Free
      BY DEF Free
    <3> QED BY <3>2, <3>3, FreeIs
  <2>3. CASE p \notin F /\ h[p] # Free
    <3>1. p \in Live(h) /\ Lost(h, o, F, p) # h[p].refs
      BY <1>3, <2>3 DEF Live
    <3>2. g[p].refs # 0 /\ g[p].kind = h[p].kind
      BY <1>2, <1>5, <2>3, <3>1 DEF SameBody
    <3>3. h[p].kind # "free"
      BY <2>3 DEF Good
    <3> QED BY <3>2, <3>3
  <2> QED BY <2>1, <2>2, <2>3
<1>12. \A p \in Ids : g[p] = Free \/ SameBody(g[p], h[p])
  BY <1>4, <1>5
<1>13. /\ \A p \in Ids : p \in F => g[p] = Free
       /\ \A p \in Ids : p \notin F => SameBody(g[p], h[p])
  BY <1>4, <1>5
<1>14. \A p \in Ids : p \in F => Count(h, Ids \ F, p) + ext[p] = IF p = o THEN 1 ELSE 0
  BY <1>9
<1> QED BY <1>6, <1>10, <1>11, <1>12, <1>13, <1>14 DEF F, g

\* An object that somebody outside has loses that reference, and all that goes
\* with it does; every other object stays as it is.
LEMMA UnrefGood ==
  ASSUME NEW h, NEW ext, Good(h, ext), NEW o \in Ids, ext[o] >= 1
  PROVE  /\ Good(Unref(h, o), [ext EXCEPT ![o] = @ - 1])
         /\ \A p \in Ids : Unref(h, o)[p] = Free \/ SameBody(Unref(h, o)[p], h[p])
<1> DEFINE F == Going(h, o)
           g == Unref(h, o)
           e == [ext EXCEPT ![o] = @ - 1]
<1>1. h \in Heaps /\ F \subseteq Ids
  BY GoingLoses DEF Good, Live
<1>2. Count(h, F, o) < h[o].refs
  <2>1. /\ Count(h, Ids, o) \in Nat /\ Count(h, F, o) \in Nat /\ Count(h, Ids \ F, o) \in Nat
        /\ Count(h, Ids, o) = Count(h, F, o) + Count(h, Ids \ F, o)
    <3> HIDE DEF F
    <3> QED BY <1>1, CountLess
  <2>2. h[o].refs = ext[o] + Count(h, Ids, o) /\ ext[o] \in Nat
    BY DEF Good, Outside
  <2> QED BY <2>1, <2>2
<1>3. /\ g \in Heaps
      /\ \A p \in Ids : g[p] = Free \/ SameBody(g[p], h[p])
      /\ \A p \in Ids : g[p].refs + (IF p = o THEN 1 ELSE 0) = ext[p] + Count(g, Ids, p)
      /\ \A p \in Ids : (g[p].refs = 0 => g[p] = Free) /\ (g[p].kind = "free" => g[p].refs = 0)
      /\ \A p \in Ids : p \in F => Count(h, Ids \ F, p) + ext[p] = IF p = o THEN 1 ELSE 0
      /\ \A p \in Ids : p \in F => g[p] = Free
      /\ \A p \in Ids : p \notin F => SameBody(g[p], h[p])
  BY <1>2, UnrefCounts
<1>4. e \in Outside /\ \A p \in Ids : e[p] = ext[p] - (IF p = o THEN 1 ELSE 0)
  BY DEF Good, Outside
<1> HIDE DEF F, g, e
<1>5. ASSUME NEW p \in F
      PROVE  Count(h, Ids \ F, p) = 0
  <2>1. p \in Ids
    BY <1>1
  <2>2. PICK b \in {0, 1} : b = IF p = o THEN 1 ELSE 0
    OBVIOUS
  <2>3. Count(h, Ids \ F, p) + ext[p] = b /\ e[p] = ext[p] - b
    BY <1>3, <1>4, <2>1, <2>2
  <2>4. e[p] \in Nat /\ ext[p] \in Nat /\ Count(h, Ids \ F, p) \in Nat
    BY <1>1, <1>4, <2>1, CountLess DEF Good, Outside
  <2> QED BY <2>3, <2>4
<1>6. ASSUME NEW p \in Ids
      PROVE  g[p].refs = e[p] + Count(g, Ids, p)
  <2>1. PICK b \in {0, 1} : b = IF p = o THEN 1 ELSE 0
    OBVIOUS
  <2>2. g[p].refs + b = ext[p] + Count(g, Ids, p) /\ e[p] = ext[p] - b
    BY <1>3, <1>4, <2>1
  <2>3. g[p].refs \in Nat /\ ext[p] \in Nat /\ Count(g, Ids, p) \in Nat
    BY <1>3, CountLess DEF Good, Outside, Heaps, Objects
  <2> QED BY <2>2, <2>3
<1>7. ASSUME NEW p \in Ids
      PROVE  ObjectOk(g, g[p])
  <2>1. CASE p \in F
    BY <1>3, <2>1, FreeIs
  <2>2. CASE p \notin F
    <3>1. SameBody(g[p], h[p]) /\ ObjectOk(h, h[p])
      BY <1>3, <2>2 DEF Good
    <3>2. ASSUME NEW x \in Vals, Fits(h, x),
                 \/ \E i \in DOMAIN h[p].items : h[p].items[i] = x
                 \/ \E k \in DOMAIN h[p].fields : h[p].fields[k] = x
          PROVE  Fits(g, x)
      <4>1. CASE IsHandle(x)
        <5>1. x.v \in Ids /\ Has(x, x.v)
          BY <4>1 DEF Vals, Plain, Handles, Basic, Kinds, Nested, Sets, IsHandle, Has
        <5>2. Count(h, Ids \ F, x.v) >= 1
          BY <1>1, <2>2, <3>2, <5>1, UsedCounts
        <5>3. x.v \notin F
          BY <1>5, <5>2
        <5>4. g[x.v].kind = h[x.v].kind
          BY <1>3, <5>1, <5>3 DEF SameBody
        <5> QED BY <3>2, <5>4 DEF Fits
      <4> QED BY <4>1 DEF Fits
    <3>3. ASSUME NEW i \in DOMAIN h[p].items
          PROVE  Fits(g, h[p].items[i]) /\ ItemOk(h[p].kind, h[p].items[i])
      <4>1. h[p].items[i] \in Vals
        BY <1>1, ValuesOf
      <4>2. Fits(h, h[p].items[i]) /\ ItemOk(h[p].kind, h[p].items[i])
        BY <3>1 DEF ObjectOk
      <4> QED BY <3>2, <4>1, <4>2
    <3>4. ASSUME NEW k \in DOMAIN h[p].fields
          PROVE  Fits(g, h[p].fields[k]) /\ FieldOk(h[p].kind, k, h[p].fields[k])
      <4>1. h[p].fields[k] \in Vals
        BY <1>1, ValuesOf
      <4>2. Fits(h, h[p].fields[k]) /\ FieldOk(h[p].kind, k, h[p].fields[k])
        BY <3>1 DEF ObjectOk
      <4> QED BY <3>2, <4>1, <4>2
    <3> QED BY <3>1, <3>3, <3>4 DEF SameBody, ObjectOk
  <2> QED BY <2>1, <2>2
<1>8. Good(g, e)
  BY <1>3, <1>4, <1>6, <1>7 DEF Good
<1> QED BY <1>3, <1>8 DEF g, e

\* One reference more to what a value names.
Plus(ext, x) == [p \in Ids |-> ext[p] + One(x, p)]

\* Objects keep their kind or go; objects keep their kind or come.
Shrinks(h, g) == \A p \in Ids : g[p].kind # "free" => g[p].kind = h[p].kind
Grows(h, g) == \A p \in Ids : h[p].kind # "free" => g[p].kind = h[p].kind

\* Taking a reference leaves a count of references outside.
LEMMA PlusIs ==
  ASSUME NEW ext \in Outside, NEW x
  PROVE  /\ Plus(ext, x) \in Outside
         /\ \A p \in Ids : Plus(ext, x)[p] = ext[p] + One(x, p)
BY DEF Plus, Outside, One

\* A handle's value is an address, a value that is no handle is nowhere.
LEMMA HandleIs ==
  ASSUME NEW x \in Vals
  PROVE  /\ IsHandle(x) => /\ x.v \in Ids /\ x.type # "free" /\ x.type \notin {"request", "response"}
                           /\ \A p : One(x, p) = IF p = x.v THEN 1 ELSE 0
         /\ ~IsHandle(x) => \A p : One(x, p) = 0
<1>1. CASE IsHandle(x)
  BY <1>1 DEF Vals, Plain, Handles, Basic, Kinds, Nested, Sets, IsHandle, One, Has
<1>2. CASE ~IsHandle(x)
  BY <1>2 DEF One, Has
<1> QED BY <1>1, <1>2

\* The application, or a place, takes a reference.
LEMMA RefGood ==
  ASSUME NEW h, NEW ext, Good(h, ext), NEW x \in Vals, IsHandle(x), Fits(h, x)
  PROVE  /\ Good(Ref(h, x.v), Plus(ext, x))
         /\ \A p \in Ids : SameBody(Ref(h, x.v)[p], h[p])
<1> DEFINE o == x.v
           g == Ref(h, o)
           e == Plus(ext, x)
<1>1. /\ o \in Ids /\ h[o].kind # "free" /\ h \in Heaps /\ ext \in Outside
      /\ \A p : One(x, p) = IF p = o THEN 1 ELSE 0
  BY HandleIs DEF Good, Fits
<1>2. e \in Outside /\ \A p \in Ids : e[p] = ext[p] + One(x, p)
  BY <1>1, PlusIs
<1>3. h[o] \in Objects /\ h[o].refs \in Nat
  BY <1>1 DEF Heaps, Objects
<1>4. /\ \A p \in Ids \ {o} : g[p] = h[p]
      /\ g[o] = [h[o] EXCEPT !.refs = @ + 1]
      /\ g = [p \in Ids |-> g[p]]
  BY <1>1 DEF Ref, Heaps
<1> HIDE DEF g, e, o
<1>5. g[o] \in Objects /\ g[o].refs = h[o].refs + 1 /\ SameBody(g[o], h[o])
  <2>1. h[o].refs + 1 \in Nat
    BY <1>3
  <2>2. g[o] = [h[o] EXCEPT !.refs = @ + 1]
    BY <1>4
  <2> QED BY <1>3, <2>1, <2>2 DEF Objects, SameBody
<1>6. g \in Heaps
  BY <1>1, <1>4, <1>5 DEF Heaps
<1>7. \A p \in Ids : SameBody(g[p], h[p])
  BY <1>4, <1>5 DEF SameBody
<1>8. ObjectOk(g, g[o])
  <2>1. ObjectOk(h, h[o])
    BY <1>1 DEF Good
  <2> QED BY <1>1, <1>3, <1>7, <2>1, StillOk DEF SameBody
<1>9. \A p \in Ids : Uses(g[o], p) = Uses(h[o], p) /\ Uses(h[o], p) \in Nat
  BY <1>3, <1>5, UsesAre DEF Uses, PlacesIn, SameBody
<1>10. ASSUME NEW p \in Ids
       PROVE  /\ g[p].refs + ext[p] + Uses(h[o], p) = h[p].refs + e[p] + Uses(g[o], p)
              /\ g[p].refs = 0 => g[p] = Free
              /\ g[p].kind = "free" => g[p].refs = 0
  <2>1. ext[p] \in Nat /\ h[p].refs \in Nat
    BY <1>1 DEF Outside, Heaps, Objects
  <2>2. /\ h[p].refs = 0 => h[p] = Free
        /\ h[p].kind = "free" => h[p].refs = 0
    BY DEF Good
  <2>3. CASE p = o
    BY <1>1, <1>2, <1>5, <1>9, <2>1, <2>2, <2>3 DEF SameBody
  <2>4. CASE p # o
    BY <1>1, <1>2, <1>4, <1>9, <2>1, <2>2, <2>4
  <2> QED BY <2>3, <2>4
<1>11. Good(g, e)
  <2>1. /\ \A p \in Ids \ {o} : g[p].items = h[p].items /\ g[p].fields = h[p].fields
        /\ \A p \in Ids : g[p].kind = h[p].kind
    BY <1>7 DEF SameBody
  <2> QED BY <1>1, <1>2, <1>6, <1>8, <1>10, <2>1, GoodStep
<1> QED BY <1>7, <1>11 DEF g, e, o

\* The same for a value, which may be no handle.
LEMMA RefValueGood ==
  ASSUME NEW h, NEW ext, Good(h, ext), NEW x \in Vals, Fits(h, x)
  PROVE  /\ Good(RefValue(h, x), Plus(ext, x))
         /\ \A p \in Ids : SameBody(RefValue(h, x)[p], h[p])
<1>1. CASE IsHandle(x)
  BY <1>1, RefGood DEF RefValue
<1>2. CASE ~IsHandle(x)
  <2>1. Plus(ext, x) = ext
    <3>1. \A p \in Ids : One(x, p) = 0
      BY <1>2, HandleIs
    <3>2. ext \in Outside
      BY DEF Good
    <3>3. \A p \in Ids : Plus(ext, x)[p] = ext[p]
      BY <3>1, <3>2, PlusIs DEF Outside
    <3> QED BY <3>2, <3>3, PlusIs DEF Outside
  <2>2. RefValue(h, x) = h
    BY <1>2 DEF RefValue
  <2> QED BY <2>1, <2>2 DEF SameBody
<1> QED BY <1>1, <1>2

\* A value that nobody has in a place any more loses its reference.
LEMMA UnrefValueGood ==
  ASSUME NEW h, NEW ext \in Outside, NEW x \in Vals, Good(h, Plus(ext, x))
  PROVE  /\ Good(UnrefValue(h, x), ext)
         /\ Shrinks(h, UnrefValue(h, x))
<1>1. /\ Plus(ext, x) \in Outside
      /\ \A p \in Ids : Plus(ext, x)[p] = ext[p] + One(x, p)
  BY PlusIs
<1>2. CASE IsHandle(x)
  <2>1. x.v \in Ids /\ \A p : One(x, p) = IF p = x.v THEN 1 ELSE 0
    BY <1>2, HandleIs
  <2>2. Plus(ext, x)[x.v] >= 1
    BY <1>1, <2>1 DEF Outside
  <2>3. [Plus(ext, x) EXCEPT ![x.v] = @ - 1] = ext
    <3> DEFINE e == [Plus(ext, x) EXCEPT ![x.v] = @ - 1]
    <3>1. \A p \in Ids : e[p] = ext[p]
      BY <1>1, <2>1 DEF Outside
    <3>2. e = [p \in Ids |-> e[p]] /\ ext = [p \in Ids |-> ext[p]]
      BY <1>1 DEF Outside
    <3> HIDE DEF e
    <3>3. e = ext
      BY <3>1, <3>2
    <3> QED BY <3>3 DEF e
  <2>4. /\ Good(Unref(h, x.v), ext)
        /\ \A p \in Ids : Unref(h, x.v)[p] = Free \/ SameBody(Unref(h, x.v)[p], h[p])
    BY <2>1, <2>2, <2>3, UnrefGood
  <2> QED BY <1>2, <2>4, FreeIs DEF UnrefValue, Shrinks, SameBody
<1>3. CASE ~IsHandle(x)
  <2>1. Plus(ext, x) = ext
    <3>1. \A p \in Ids : Plus(ext, x)[p] = ext[p]
      BY <1>1, <1>3, HandleIs DEF Outside
    <3> QED BY <1>1, <3>1 DEF Outside
  <2> QED BY <1>3, <2>1 DEF UnrefValue, Shrinks
<1> QED BY <1>2, <1>3

\* An object with other contents, or a new one, is put at an address.
LEMMA PutGood ==
  ASSUME NEW h, NEW ext, Good(h, ext), NEW o \in Ids, NEW obj \in Objects, NEW e \in Outside,
         obj.kind # "free", obj.refs >= 1, h[o].kind \in {"free", obj.kind}, ObjectOk(h, obj),
         \A p \in Ids : (IF p = o THEN obj.refs ELSE h[p].refs) + ext[p] + Uses(h[o], p)
                          = h[p].refs + e[p] + Uses(obj, p)
  PROVE  Good([h EXCEPT ![o] = obj], e)
<1> DEFINE g == [h EXCEPT ![o] = obj]
<1>1. h \in Heaps /\ ext \in Outside
  BY DEF Good
<1>2. /\ g[o] = obj /\ \A p \in Ids \ {o} : g[p] = h[p]
      /\ g \in Heaps
  BY <1>1 DEF Heaps
<1> HIDE DEF g
<1>3. \A p \in Ids : h[p].kind # "free" => g[p].kind = h[p].kind
  BY <1>2
<1>4. ObjectOk(g, g[o])
  BY <1>2, <1>3, StillOk DEF SameBody
<1>5. ASSUME NEW p \in Ids
      PROVE  /\ g[p].refs + ext[p] + Uses(h[o], p) = h[p].refs + e[p] + Uses(g[o], p)
             /\ g[p].refs = 0 => g[p] = Free
             /\ g[p].kind = "free" => g[p].refs = 0
  <2>1. /\ h[p].refs = 0 => h[p] = Free
        /\ h[p].kind = "free" => h[p].refs = 0
    BY DEF Good
  <2>2. (IF p = o THEN obj.refs ELSE h[p].refs) + ext[p] + Uses(h[o], p)
          = h[p].refs + e[p] + Uses(obj, p)
    OBVIOUS
  <2>3. obj.refs \in Nat
    BY DEF Objects
  <2> QED BY <1>2, <2>1, <2>2, <2>3
<1>6. /\ \A p \in Ids \ {o} : g[p].items = h[p].items /\ g[p].fields = h[p].fields
      /\ \A p \in Ids \ {o} : g[p].kind = h[p].kind
  BY <1>2
<1>7. Good(g, e)
  BY <1>1, <1>2, <1>3, <1>4, <1>5, <1>6, GoodStep
<1> QED BY <1>7 DEF g

\* What is not free has a reference.
LEMMA LiveHas ==
  ASSUME NEW h, NEW ext, Good(h, ext), NEW o \in Ids
  PROVE  /\ h[o] \in Objects /\ h[o].refs \in Nat /\ ObjectOk(h, h[o])
         /\ h[o].kind # "free" => h[o].refs >= 1
         /\ h[o].kind = "free" <=> h[o] = Free
<1>1. h[o] \in Objects /\ h[o].refs \in Nat /\ ObjectOk(h, h[o])
  BY DEF Good, Heaps, Objects
<1>2. /\ h[o].refs = 0 => h[o] = Free
      /\ h[o].kind = "free" => h[o].refs = 0
  BY DEF Good
<1>3. Free.kind = "free"
  BY FreeIs
<1> QED BY <1>1, <1>2, <1>3

\* Uses change as the list does, or as the table does.
LEMMA UsesChange ==
  ASSUME NEW a \in Objects, NEW b \in Objects, NEW r \in Nat, NEW x \in Nat, NEW y \in Nat, NEW p,
         \/ b.fields = a.fields /\ x + Cardinality(At(a.items, p)) = y + Cardinality(At(b.items, p))
         \/ b.items = a.items /\ x + Cardinality(At(a.fields, p)) = y + Cardinality(At(b.fields, p))
  PROVE  r + x + Uses(a, p) = r + y + Uses(b, p)
<1>1. /\ Cardinality(At(a.items, p)) \in Nat /\ Cardinality(At(a.fields, p)) \in Nat
      /\ Uses(a, p) = Cardinality(At(a.items, p)) + Cardinality(At(a.fields, p))
  BY UsesAre
<1>2. /\ Cardinality(At(b.items, p)) \in Nat /\ Cardinality(At(b.fields, p)) \in Nat
      /\ Uses(b, p) = Cardinality(At(b.items, p)) + Cardinality(At(b.fields, p))
  BY UsesAre
<1> QED BY <1>1, <1>2

\* The list of an object changes.
LEMMA SetItemsGood ==
  ASSUME NEW h, NEW ext, Good(h, ext), NEW o \in Ids, h[o].kind # "free",
         NEW s \in Seq(Vals), NEW e \in Outside,
         \A i \in DOMAIN s : Fits(h, s[i]) /\ ItemOk(h[o].kind, s[i]),
         \A p \in Ids : ext[p] + Cardinality(At(h[o].items, p)) = e[p] + Cardinality(At(s, p))
  PROVE  /\ Good([h EXCEPT ![o].items = s], e)
         /\ \A p \in Ids : [h EXCEPT ![o].items = s][p].kind = h[p].kind
<1> DEFINE obj == [h[o] EXCEPT !.items = s]
<1>1. /\ h[o] \in Objects /\ h[o].refs >= 1 /\ h[o].refs \in Nat /\ ObjectOk(h, h[o])
      /\ h \in Heaps /\ ext \in Outside
  BY LiveHas DEF Good
<1>2. /\ obj \in Objects /\ obj.kind = h[o].kind /\ obj.refs = h[o].refs
      /\ obj.items = s /\ obj.fields = h[o].fields
  BY <1>1 DEF Objects
<1> HIDE DEF obj
<1>3. ObjectOk(h, obj)
  BY <1>1, <1>2 DEF ObjectOk
<1>4. ASSUME NEW p \in Ids
      PROVE  (IF p = o THEN obj.refs ELSE h[p].refs) + ext[p] + Uses(h[o], p)
                = h[p].refs + e[p] + Uses(obj, p)
  <2>1. ext[p] + Cardinality(At(h[o].items, p)) = e[p] + Cardinality(At(obj.items, p))
    BY <1>2
  <2>2. ext[p] \in Nat /\ e[p] \in Nat /\ h[p].refs \in Nat
    BY <1>1 DEF Outside, Heaps, Objects
  <2>3. (IF p = o THEN obj.refs ELSE h[p].refs) = h[p].refs
    BY <1>2
  <2>4. h[p].refs + ext[p] + Uses(h[o], p) = h[p].refs + e[p] + Uses(obj, p)
    BY <1>1, <1>2, <2>1, <2>2, UsesChange
  <2> QED BY <2>3, <2>4
<1>5. Good([h EXCEPT ![o] = obj], e)
  BY <1>1, <1>2, <1>3, <1>4, PutGood
<1>6. [h EXCEPT ![o].items = s] = [h EXCEPT ![o] = obj]
  BY <1>1 DEF obj, Heaps
<1>7. \A p \in Ids : [h EXCEPT ![o] = obj][p].kind = h[p].kind
  BY <1>1, <1>2 DEF Heaps
<1> QED BY <1>5, <1>6, <1>7

\* The table of an object changes.
LEMMA SetTableGood ==
  ASSUME NEW h, NEW ext, Good(h, ext), NEW o \in Ids, h[o].kind # "free",
         NEW t \in FieldTables, NEW e \in Outside,
         \A k \in DOMAIN t : Fits(h, t[k]) /\ FieldOk(h[o].kind, k, t[k]),
         \A p \in Ids : ext[p] + Cardinality(At(h[o].fields, p)) = e[p] + Cardinality(At(t, p))
  PROVE  /\ Good([h EXCEPT ![o].fields = t], e)
         /\ \A p \in Ids : [h EXCEPT ![o].fields = t][p].kind = h[p].kind
<1> DEFINE obj == [h[o] EXCEPT !.fields = t]
<1>1. /\ h[o] \in Objects /\ h[o].refs >= 1 /\ h[o].refs \in Nat /\ ObjectOk(h, h[o])
      /\ h \in Heaps /\ ext \in Outside
  BY LiveHas DEF Good
<1>2. /\ obj \in Objects /\ obj.kind = h[o].kind /\ obj.refs = h[o].refs
      /\ obj.items = h[o].items /\ obj.fields = t
  BY <1>1 DEF Objects
<1> HIDE DEF obj
<1>3. ObjectOk(h, obj)
  BY <1>1, <1>2 DEF ObjectOk
<1>4. ASSUME NEW p \in Ids
      PROVE  (IF p = o THEN obj.refs ELSE h[p].refs) + ext[p] + Uses(h[o], p)
                = h[p].refs + e[p] + Uses(obj, p)
  <2>1. ext[p] + Cardinality(At(h[o].fields, p)) = e[p] + Cardinality(At(obj.fields, p))
    BY <1>2
  <2>2. ext[p] \in Nat /\ e[p] \in Nat /\ h[p].refs \in Nat
    BY <1>1 DEF Outside, Heaps, Objects
  <2>3. (IF p = o THEN obj.refs ELSE h[p].refs) = h[p].refs
    BY <1>2
  <2>4. h[p].refs + ext[p] + Uses(h[o], p) = h[p].refs + e[p] + Uses(obj, p)
    BY <1>1, <1>2, <2>1, <2>2, UsesChange
  <2> QED BY <2>3, <2>4
<1>5. Good([h EXCEPT ![o] = obj], e)
  BY <1>1, <1>2, <1>3, <1>4, PutGood
<1>6. [h EXCEPT ![o].fields = t] = [h EXCEPT ![o] = obj]
  BY <1>1 DEF obj, Heaps
<1>7. \A p \in Ids : [h EXCEPT ![o] = obj][p].kind = h[p].kind
  BY <1>1, <1>2 DEF Heaps
<1> QED BY <1>5, <1>6, <1>7

\* Values in a list are handles that fit.
LEMMA ItemsOf ==
  ASSUME NEW h, NEW ext, Good(h, ext), NEW o \in Ids
  PROVE  /\ h[o].items \in Seq(Vals) /\ h[o].fields \in FieldTables
         /\ \A i \in DOMAIN h[o].items :
              h[o].items[i] \in Vals /\ Fits(h, h[o].items[i]) /\ ItemOk(h[o].kind, h[o].items[i])
         /\ \A k \in DOMAIN h[o].fields :
              /\ h[o].fields[k] \in Vals /\ k \in FieldNames
              /\ Fits(h, h[o].fields[k]) /\ FieldOk(h[o].kind, k, h[o].fields[k])
<1>1. h \in Heaps /\ ObjectOk(h, h[o])
  BY DEF Good
<1> QED BY <1>1, ValuesOf DEF ObjectOk

\* A value is put into a list, with a reference.
LEMMA AddItemGood ==
  ASSUME NEW h, NEW ext, Good(h, ext), NEW o \in Ids, h[o].kind # "free",
         NEW x \in Vals, Fits(h, x), ItemOk(h[o].kind, x), NEW s \in Seq(Vals),
         \A p \in Ids : Cardinality(At(s, p)) = Cardinality(At(h[o].items, p)) + One(x, p),
         \A j \in DOMAIN s : s[j] = x \/ \E k \in DOMAIN h[o].items : s[j] = h[o].items[k]
  PROVE  /\ Good([RefValue(h, x) EXCEPT ![o].items = s], ext)
         /\ \A p \in Ids : [RefValue(h, x) EXCEPT ![o].items = s][p].kind = h[p].kind
<1> DEFINE r == RefValue(h, x)
           e == Plus(ext, x)
<1>1. ext \in Outside /\ h \in Heaps
  BY DEF Good
<1>2. Good(r, e) /\ \A p \in Ids : SameBody(r[p], h[p])
  BY RefValueGood
<1>3. e \in Outside /\ \A p \in Ids : e[p] = ext[p] + One(x, p)
  BY <1>1, PlusIs
<1> HIDE DEF r, e
<1>4. /\ r[o].kind = h[o].kind /\ r[o].items = h[o].items
      /\ \A p \in Ids : r[p].kind = h[p].kind
  BY <1>2 DEF SameBody
<1>5. \A v \in Vals : Fits(h, v) => Fits(r, v)
  BY <1>4, FitsStill
<1>6. \A j \in DOMAIN s : Fits(r, s[j]) /\ ItemOk(r[o].kind, s[j])
  <2>1. \A k \in DOMAIN h[o].items :
          /\ h[o].items[k] \in Vals /\ Fits(h, h[o].items[k])
          /\ ItemOk(h[o].kind, h[o].items[k])
    BY ItemsOf
  <2> QED BY Zenon, <1>4, <1>5, <2>1
<1>7. ASSUME NEW p \in Ids
      PROVE  e[p] + Cardinality(At(r[o].items, p)) = ext[p] + Cardinality(At(s, p))
  <2>1. Cardinality(At(s, p)) = Cardinality(At(h[o].items, p)) + One(x, p)
    OBVIOUS
  <2>2. Cardinality(At(h[o].items, p)) \in Nat
    BY <1>1, UsesAre, ValuesOf
  <2>3. ext[p] \in Nat /\ One(x, p) \in Nat
    BY <1>1 DEF Outside, One
  <2>4. e[p] = ext[p] + One(x, p) /\ At(r[o].items, p) = At(h[o].items, p)
    BY <1>3, <1>4
  <2> QED BY ONLY <2>1, <2>2, <2>3, <2>4
<1>8. /\ Good([r EXCEPT ![o].items = s], ext)
      /\ \A p \in Ids : [r EXCEPT ![o].items = s][p].kind = r[p].kind
  BY <1>1, <1>2, <1>4, <1>6, <1>7, SetItemsGood
<1> QED BY <1>4, <1>8 DEF r

\* A value is taken from a list and loses its reference.
LEMMA DropItemGood ==
  ASSUME NEW h, NEW ext, Good(h, ext), NEW o \in Ids, NEW i \in DOMAIN h[o].items
  PROVE  LET g == UnrefValue([h EXCEPT ![o].items = RemoveAt(h[o].items, i)], h[o].items[i])
         IN Good(g, ext) /\ Shrinks(h, g)
<1> DEFINE x == h[o].items[i]
           s == RemoveAt(h[o].items, i)
           g == [h EXCEPT ![o].items = s]
           e == Plus(ext, x)
<1>1. ext \in Outside /\ h \in Heaps /\ x \in Vals
  BY ItemsOf DEF Good
<1>2. h[o].items \in Seq(Vals) /\ i \in 1 .. Len(h[o].items)
  BY ItemsOf, LenProperties
<1>3. /\ s \in Seq(Vals)
      /\ \A p \in Ids : Cardinality(At(h[o].items, p)) = Cardinality(At(s, p)) + One(x, p)
      /\ \A j \in DOMAIN s : \E k \in DOMAIN h[o].items : s[j] = h[o].items[k]
  BY <1>2, RemoveAtCount
<1>4. e \in Outside /\ \A p \in Ids : e[p] = ext[p] + One(x, p)
  BY <1>1, PlusIs
<1>5. h[o].kind # "free"
  BY LiveHas, FreeIs
<1> HIDE DEF s, e, x, g
<1>6. \A j \in DOMAIN s : Fits(h, s[j]) /\ ItemOk(h[o].kind, s[j])
  <2>1. \A k \in DOMAIN h[o].items : Fits(h, h[o].items[k]) /\ ItemOk(h[o].kind, h[o].items[k])
    BY ItemsOf
  <2> QED BY Zenon, <1>3, <2>1
<1>7. ASSUME NEW p \in Ids
      PROVE  ext[p] + Cardinality(At(h[o].items, p)) = e[p] + Cardinality(At(s, p))
  <2>1. Cardinality(At(h[o].items, p)) = Cardinality(At(s, p)) + One(x, p)
    BY <1>3
  <2>2. Cardinality(At(s, p)) \in Nat
    <3>1. IsFiniteSet(DOMAIN s)
      <4>1. DOMAIN s = 1 .. Len(s) /\ Len(s) \in Nat
        BY <1>3, LenProperties
      <4> QED BY <4>1, FS_Interval
    <3> QED BY <3>1, AtFinite
  <2>3. ext[p] \in Nat /\ One(x, p) \in Nat /\ e[p] = ext[p] + One(x, p)
    BY <1>1, <1>4 DEF Outside, One
  <2> QED BY ONLY <2>1, <2>2, <2>3
<1>8. Good(g, e) /\ \A p \in Ids : g[p].kind = h[p].kind
  BY <1>3, <1>4, <1>5, <1>6, <1>7, SetItemsGood DEF g
<1>9. Good(UnrefValue(g, x), ext) /\ Shrinks(g, UnrefValue(g, x))
  BY <1>1, <1>8, UnrefValueGood DEF e
<1> QED BY <1>8, <1>9 DEF Shrinks, g, s, x

\* A value is set in a table: with a reference, and what was there loses its own.
LEMMA SetFieldGood ==
  ASSUME NEW h, NEW ext, Good(h, ext), NEW o \in Ids, h[o].kind # "free",
         NEW k \in FieldNames, NEW x \in Vals, Fits(h, x), FieldOk(h[o].kind, k, x)
  PROVE  Good(SetField(h, o, k, x), ext) /\ Shrinks(h, SetField(h, o, k, x))
<1> DEFINE r == RefValue(h, x)
           e == Plus(ext, x)
           old == h[o].fields
           t == Insert(old, k, x)
           g == [r EXCEPT ![o].fields = t]
           was == IF k \in DOMAIN old THEN Plus(ext, old[k]) ELSE ext
<1>1. ext \in Outside /\ h \in Heaps /\ old \in FieldTables
  BY ItemsOf DEF Good
<1>2. Good(r, e) /\ \A p \in Ids : SameBody(r[p], h[p])
  BY RefValueGood
<1>3. e \in Outside /\ \A p \in Ids : e[p] = ext[p] + One(x, p)
  BY <1>1, PlusIs
<1>4. /\ t \in FieldTables
      /\ \A p \in Ids : Cardinality(At(t, p)) + (IF k \in DOMAIN old THEN One(old[k], p) ELSE 0)
                          = Cardinality(At(old, p)) + One(x, p)
      /\ \A j \in DOMAIN t : (j = k /\ t[j] = x) \/ (j \in DOMAIN old /\ t[j] = old[j])
  <2>1. t \in FieldTables
    BY <1>1, InsertCount
  <2>2. \A p \in Ids : Cardinality(At(t, p)) + (IF k \in DOMAIN old THEN One(old[k], p) ELSE 0)
                        = Cardinality(At(old, p)) + One(x, p)
    <3> HIDE DEF old
    <3> QED BY <1>1, InsertCount
  <2>3. \A j \in DOMAIN t : (j = k /\ t[j] = x) \/ (j \in DOMAIN old /\ t[j] = old[j])
    <3> HIDE DEF old
    <3>1. t = [j \in DOMAIN old \cup {k} |-> IF j = k THEN x ELSE old[j]]
      BY DEF Insert
    <3>2. DOMAIN t = DOMAIN old \cup {k}
      BY <3>1
    <3>3. ASSUME NEW j \in DOMAIN old \cup {k}
          PROVE  t[j] = IF j = k THEN x ELSE old[j]
      BY <3>1
    <3> HIDE DEF t
    <3> QED BY <3>2, <3>3
  <2> QED BY <2>1, <2>2, <2>3
<1>5. /\ was \in Outside
      /\ \A p \in Ids : was[p] = ext[p] + (IF k \in DOMAIN old THEN One(old[k], p) ELSE 0)
  <2>1. CASE k \in DOMAIN old
    BY <1>1, <2>1, PlusIs
  <2>2. CASE k \notin DOMAIN old
    BY <1>1, <2>2 DEF Outside
  <2> QED BY <2>1, <2>2
<1> HIDE DEF r, e, t
<1>6. /\ r[o].kind = h[o].kind /\ r[o].fields = old
      /\ \A p \in Ids : r[p].kind = h[p].kind
  BY <1>2 DEF SameBody
<1>7. \A v \in Vals : Fits(h, v) => Fits(r, v)
  BY <1>6, FitsStill
<1>8. \A j \in DOMAIN t : Fits(r, t[j]) /\ FieldOk(r[o].kind, j, t[j])
  <2>1. \A j \in DOMAIN old :
          /\ old[j] \in Vals /\ Fits(h, old[j])
          /\ FieldOk(h[o].kind, j, old[j])
    BY ItemsOf
  <2> QED BY Zenon, <1>4, <1>6, <1>7, <2>1
<1>9. ASSUME NEW p \in Ids
      PROVE  e[p] + Cardinality(At(r[o].fields, p)) = was[p] + Cardinality(At(t, p))
  <2> DEFINE d == IF k \in DOMAIN old THEN One(old[k], p) ELSE 0
  <2>1. Cardinality(At(t, p)) + d = Cardinality(At(old, p)) + One(x, p)
    BY <1>4
  <2>2. Cardinality(At(old, p)) \in Nat /\ Cardinality(At(t, p)) \in Nat
    BY <1>1, <1>4, FieldsAre, AtFinite
  <2>3. ext[p] \in Nat /\ One(x, p) \in Nat /\ d \in Nat
    BY <1>1 DEF Outside, One
  <2>4. e[p] = ext[p] + One(x, p) /\ r[o].fields = old /\ was[p] = ext[p] + d
    BY <1>3, <1>5, <1>6
  <2> HIDE DEF d, was, old
  <2> QED BY ONLY <2>1, <2>2, <2>3, <2>4
<1>10. Good(g, was) /\ \A p \in Ids : g[p].kind = h[p].kind
  <2> HIDE DEF old, was
  <2>1. /\ Good(g, was)
        /\ \A p \in Ids : g[p].kind = r[p].kind
    BY <1>2, <1>4, <1>5, <1>6, <1>8, <1>9, SetTableGood
  <2> QED BY <1>6, <2>1
<1>11. SetField(h, o, k, x) = IF k \in DOMAIN old THEN UnrefValue(g, old[k]) ELSE g
  <2>1. g = [RefValue(h, x) EXCEPT ![o].fields = Insert(@, k, x)]
    <3>1. r \in Heaps
      BY <1>2 DEF Good
    <3> QED BY <1>6, <3>1 DEF r, t, Heaps
  <2> QED BY <2>1 DEF SetField
<1> HIDE DEF g
<1>12. CASE k \in DOMAIN old
  <2>1. old[k] \in Vals /\ was = Plus(ext, old[k])
    BY <1>12, ItemsOf
  <2>2. Good(UnrefValue(g, old[k]), ext) /\ Shrinks(g, UnrefValue(g, old[k]))
    BY <1>1, <1>10, <2>1, UnrefValueGood
  <2> QED BY <1>10, <1>11, <1>12, <2>2 DEF Shrinks
<1>13. CASE k \notin DOMAIN old
  BY <1>10, <1>11, <1>13 DEF Shrinks
<1> QED BY <1>12, <1>13

\* A value is taken from a table and loses its reference.
LEMMA ClearFieldGood ==
  ASSUME NEW h, NEW ext, Good(h, ext), NEW o \in Ids, NEW k \in DOMAIN h[o].fields
  PROVE  Good(ClearField(h, o, k), ext) /\ Shrinks(h, ClearField(h, o, k))
<1> DEFINE old == h[o].fields
           x == old[k]
           t == [j \in DOMAIN old \ {k} |-> old[j]]
           g == [h EXCEPT ![o].fields = t]
           e == Plus(ext, x)
<1>1. ext \in Outside /\ h \in Heaps /\ x \in Vals /\ old \in FieldTables
  BY ItemsOf DEF Good
<1>2. /\ t \in FieldTables
      /\ \A p \in Ids : Cardinality(At(old, p)) = Cardinality(At(t, p)) + One(x, p)
      /\ \A j \in DOMAIN t : j \in DOMAIN old /\ t[j] = old[j]
  BY <1>1, DropCount
<1>3. e \in Outside /\ \A p \in Ids : e[p] = ext[p] + One(x, p)
  BY <1>1, PlusIs
<1>4. h[o].kind # "free"
  BY LiveHas, FreeIs
<1>5. ClearField(h, o, k) = UnrefValue(g, x)
  BY <1>1 DEF ClearField, Heaps
<1> HIDE DEF t, e, g
<1>6. \A j \in DOMAIN t : Fits(h, t[j]) /\ FieldOk(h[o].kind, j, t[j])
  BY <1>2, ItemsOf
<1>7. ASSUME NEW p \in Ids
      PROVE  ext[p] + Cardinality(At(h[o].fields, p)) = e[p] + Cardinality(At(t, p))
  <2>1. Cardinality(At(old, p)) = Cardinality(At(t, p)) + One(x, p)
    BY <1>2
  <2>2. Cardinality(At(t, p)) \in Nat
    BY <1>2, FieldsAre, AtFinite
  <2>3. ext[p] \in Nat /\ One(x, p) \in Nat /\ e[p] = ext[p] + One(x, p)
    BY <1>1, <1>3 DEF Outside, One
  <2> QED BY <2>1, <2>2, <2>3
<1> HIDE DEF x
<1>8. Good(g, e) /\ \A p \in Ids : g[p].kind = h[p].kind
  BY <1>2, <1>3, <1>4, <1>6, <1>7, SetTableGood DEF g
<1>9. Good(UnrefValue(g, x), ext) /\ Shrinks(g, UnrefValue(g, x))
  BY <1>1, <1>8, UnrefValueGood DEF e
<1> QED BY <1>5, <1>8, <1>9 DEF Shrinks

\* A new object comes to a free address.
LEMMA NewGood ==
  ASSUME NEW h, NEW ext, Good(h, ext), Live(h) # Ids, NEW obj \in Objects, NEW e \in Outside,
         obj.kind # "free", obj.refs >= 1, ObjectOk(h, obj),
         \A p \in Ids : ext[p] + (IF p = NewId(h) THEN obj.refs ELSE 0) = e[p] + Uses(obj, p)
  PROVE  /\ NewId(h) \in Ids /\ h[NewId(h)] = Free
         /\ Good(New(h, obj), e)
         /\ New(h, obj)[NewId(h)] = obj
         /\ \A p \in Ids \ {NewId(h)} : New(h, obj)[p] = h[p]
         /\ Live(New(h, obj)) = Live(h) \cup {NewId(h)}
<1> DEFINE n == NewId(h)
<1>1. n \in Ids /\ h[n] = Free
  BY DEF NewId, Live
<1>2. h \in Heaps /\ ext \in Outside
  BY DEF Good
<1> HIDE DEF n
<1>3. ASSUME NEW p \in Ids
      PROVE  (IF p = n THEN obj.refs ELSE h[p].refs) + ext[p] + Uses(h[n], p)
               = h[p].refs + e[p] + Uses(obj, p)
  <2>1. Uses(h[n], p) = 0 /\ h[n].refs = 0
    BY <1>1, FreeIs
  <2>2. ext[p] \in Nat /\ e[p] \in Nat /\ h[p].refs \in Nat /\ obj.refs \in Nat /\ Uses(obj, p) \in Nat
    BY <1>2, UsesAre DEF Outside, Heaps, Objects
  <2>3. ext[p] + (IF p = n THEN obj.refs ELSE 0) = e[p] + Uses(obj, p)
    BY DEF n
  <2>4. CASE p = n
    BY <2>1, <2>2, <2>3, <2>4
  <2>5. CASE p # n
    BY <2>1, <2>2, <2>3, <2>5
  <2> QED BY <2>4, <2>5
<1>4. h[n].kind = "free"
  BY <1>1, FreeIs
<1>5. Good([h EXCEPT ![n] = obj], e)
  BY <1>1, <1>3, <1>4, PutGood
<1>6. New(h, obj) = [h EXCEPT ![n] = obj]
  BY DEF New, n
<1>7. /\ [h EXCEPT ![n] = obj][n] = obj
      /\ \A p \in Ids \ {n} : [h EXCEPT ![n] = obj][p] = h[p]
  BY <1>1, <1>2 DEF Heaps
<1>8. Live([h EXCEPT ![n] = obj]) = Live(h) \cup {n}
  <2>1. obj # Free
    BY FreeIs
  <2> QED BY <1>1, <1>7, <2>1 DEF Live
<1> QED BY <1>1, <1>5, <1>6, <1>7, <1>8 DEF n

\* One reference more, for whoever owns o.
Owned(ext, o) == [p \in Ids |-> ext[p] + (IF p = o THEN 1 ELSE 0)]

\* So does owning an object; a handle's reference is its object's.
LEMMA OwnedIs ==
  ASSUME NEW ext \in Outside, NEW o \in Ids
  PROVE  /\ Owned(ext, o) \in Outside
         /\ \A p \in Ids : Owned(ext, o)[p] = ext[p] + (IF p = o THEN 1 ELSE 0)
         /\ \A x \in Vals : IsHandle(x) /\ x.v = o => Plus(ext, x) = Owned(ext, o)
<1>1. /\ Owned(ext, o) \in Outside
      /\ \A p \in Ids : Owned(ext, o)[p] = ext[p] + (IF p = o THEN 1 ELSE 0)
  BY DEF Owned, Outside
<1>2. ASSUME NEW x \in Vals, IsHandle(x), x.v = o
      PROVE  Plus(ext, x) = Owned(ext, o)
  <2>1. \A p \in Ids : One(x, p) = IF p = o THEN 1 ELSE 0
    BY <1>2, HandleIs
  <2> QED BY <2>1 DEF Plus, Owned
<1> QED BY <1>1, <1>2

\* A copy of an object's contents, which the new object shares with it.
LEMMA CloneFlatGood ==
  ASSUME NEW h, NEW ext, Good(h, ext), Live(h) # Ids, NEW o \in Ids, h[o].kind # "free"
  PROVE  LET n == NewId(h)
             g == CloneFlat(h, o)
         IN /\ n \in Ids /\ h[n] = Free /\ n # o
            /\ Good(g, Owned(ext, n))
            /\ SameBody(g[n], h[o])
            /\ \A p \in Ids \ {n} : SameBody(g[p], h[p])
            /\ Live(g) = Live(h) \cup {n}
<1> DEFINE n == NewId(h)
           g == CloneFlat(h, o)
           e == Owned(ext, n)
<1>1. n \in Ids /\ h[n] = Free
  BY DEF NewId, Live
<1>2. h \in Heaps /\ ext \in Outside /\ h[o] \in Objects /\ ObjectOk(h, h[o])
  BY LiveHas DEF Good
<1>3. e \in Outside /\ \A p \in Ids : e[p] = ext[p] + (IF p = n THEN 1 ELSE 0)
  BY <1>1, <1>2, OwnedIs
<1>4. /\ g[n] = [h[o] EXCEPT !.refs = 1]
      /\ \A p \in Ids \ {n} : g[p] = [h[p] EXCEPT !.refs = @ + Uses(h[o], p)]
      /\ g = [p \in Ids |-> g[p]]
  BY <1>1 DEF CloneFlat
<1> HIDE DEF n, g, e
<1>5. n # o /\ h[n].kind = "free" /\ h[n].refs = 0
  BY <1>1, FreeIs
<1>6. \A p \in Ids : Uses(h[o], p) \in Nat
  BY <1>2, UsesAre
<1>7. ASSUME NEW p \in Ids, h[p] = Free
      PROVE  Uses(h[o], p) = 0 /\ ext[p] = 0
  <2>1. /\ Count(h, Ids, p) \in Nat /\ Count(h, Ids \ {o}, p) \in Nat
        /\ Count(h, Ids, p) = Count(h, Ids \ {o}, p) + Uses(h[o], p)
    BY <1>2, CountSplit
  <2>2. h[p].refs = ext[p] + Count(h, Ids, p) /\ ext[p] \in Nat
    BY <1>2 DEF Good, Outside
  <2>3. h[p].refs = 0
    BY <1>7, FreeIs
  <2> QED BY <1>6, <2>1, <2>2, <2>3
<1>8. g[n] \in Objects /\ SameBody(g[n], h[o]) /\ g[n].refs = 1
  <2>1. g[n] = [h[o] EXCEPT !.refs = 1] /\ 1 \in Nat
    BY <1>4
  <2>2. h[o] \in Objects
    BY <1>2
  <2> QED BY ONLY <2>1, <2>2 DEF Objects, SameBody
<1>9. ASSUME NEW p \in Ids \ {n}
      PROVE  g[p] \in Objects /\ SameBody(g[p], h[p]) /\ g[p].refs = h[p].refs + Uses(h[o], p)
  <2>1. h[p] \in Objects /\ h[p].refs + Uses(h[o], p) \in Nat
    <3>1. h[p] \in Objects /\ Uses(h[o], p) \in Nat
      BY <1>2, <1>6 DEF Heaps
    <3>2. h[p].refs \in Nat
      BY <3>1 DEF Objects
    <3> QED BY <3>1, <3>2
  <2>2. g[p] = [h[p] EXCEPT !.refs = @ + Uses(h[o], p)]
    BY <1>4
  <2> QED BY <2>1, <2>2 DEF Objects, SameBody
<1>10. g \in Heaps
  BY <1>4, <1>8, <1>9 DEF Heaps
<1>11. \A p \in Ids : h[p].kind # "free" => g[p].kind = h[p].kind
  BY <1>5, <1>9 DEF SameBody
<1>12. ObjectOk(g, g[n])
  BY <1>2, <1>8, <1>11, StillOk DEF SameBody
<1>13. ASSUME NEW p \in Ids
       PROVE  g[p].refs + ext[p] + Uses(h[n], p) = h[p].refs + e[p] + Uses(g[n], p)
  <2>1. Uses(h[n], p) = 0
    BY <1>1, FreeIs
  <2>2. Uses(g[n], p) = Uses(h[o], p)
    BY <1>8 DEF Uses, PlacesIn, SameBody
  <2>3. ext[p] \in Nat /\ h[p].refs \in Nat /\ Uses(h[o], p) \in Nat
    BY <1>2, <1>6 DEF Outside, Heaps, Objects
  <2>4. CASE p = n
    <3>1. Uses(h[o], p) = 0 /\ g[p].refs = 1 /\ h[p].refs = 0 /\ e[p] = ext[p] + 1
      BY <1>1, <1>3, <1>5, <1>7, <1>8, <2>4
    <3> QED BY <2>1, <2>2, <2>3, <3>1
  <2>5. CASE p # n
    <3>1. g[p].refs = h[p].refs + Uses(h[o], p) /\ e[p] = ext[p]
      BY <1>2, <1>3, <1>9, <2>5 DEF Outside
    <3> QED BY <2>1, <2>2, <2>3, <3>1
  <2> QED BY <2>4, <2>5
<1>14. ASSUME NEW p \in Ids \ {n}, h[p] = Free
       PROVE  g[p] = Free
  <2>1. Free.refs + Uses(h[o], p) = 0
    BY <1>7, <1>14, FreeIs
  <2>2. g[p] = [Free EXCEPT !.refs = @ + Uses(h[o], p)]
    BY <1>4, <1>14
  <2>3. g[p] = [Free EXCEPT !.refs = 0]
    BY <2>1, <2>2
  <2> QED BY <2>3 DEF Free
<1>15. ASSUME NEW p \in Ids
       PROVE  /\ g[p].refs = 0 => g[p] = Free
              /\ g[p].kind = "free" => g[p].refs = 0
  <2>1. CASE p = n
    BY <1>2, <1>8, <2>1 DEF SameBody
  <2>2. CASE p # n /\ h[p] = Free
    BY <1>14, <2>2, FreeIs
  <2>3. CASE p # n /\ h[p] # Free
    <3>1. h[p].kind # "free" /\ h[p].refs >= 1 /\ h[p].refs \in Nat
      BY <2>3, LiveHas
    <3> QED BY <1>6, <1>9, <2>3, <3>1 DEF SameBody
  <2> QED BY <2>1, <2>2, <2>3
<1>16. Good(g, e)
  <2>1. \A p \in Ids \ {n} : g[p].items = h[p].items /\ g[p].fields = h[p].fields /\ g[p].kind = h[p].kind
    BY <1>9 DEF SameBody
  <2> QED BY <1>1, <1>3, <1>10, <1>11, <1>12, <1>13, <1>15, <2>1, GoodStep
<1>17. Live(g) = Live(h) \cup {n}
  <2>1. g[n] # Free
    BY <1>8, FreeIs
  <2>2. \A p \in Ids \ {n} : h[p] # Free => g[p] # Free
    <3>1. \A p \in Ids : h[p] # Free => h[p].kind # "free"
      BY LiveHas
    <3> QED BY <1>9, <3>1, FreeIs DEF SameBody
  <2> QED BY <1>1, <1>14, <2>1, <2>2 DEF Live
<1> QED BY <1>1, <1>5, <1>8, <1>9, <1>16, <1>17 DEF n, g, e

\* No values, one value: the tables of new objects.
LEMMA SmallTables ==
  /\ <<>> \in FieldTables /\ DOMAIN <<>> = {} /\ <<>> \in Seq(Vals)
  /\ \A p : Cardinality(At(<<>>, p)) = 0
  /\ \A k \in FieldNames, x \in Vals :
       LET f == Insert(<<>>, k, x)
       IN /\ f \in FieldTables /\ DOMAIN f = {k} /\ f[k] = x
          /\ \A p : Cardinality(At(f, p)) = One(x, p)
<1>1. <<>> \in FieldTables /\ DOMAIN <<>> = {} /\ <<>> \in Seq(Vals)
  <2>1. <<>> \in [DOMAIN <<>> -> Vals] /\ DOMAIN <<>> = {} /\ <<>> \in Seq(Vals)
    OBVIOUS
  <2>2. IsFiniteSet({})
    BY FS_EmptySet
  <2> QED BY <2>1, <2>2, FieldsAre
<1>2. ASSUME NEW p
      PROVE  Cardinality(At(<<>>, p)) = 0
  <2>1. At(<<>>, p) = {}
    BY <1>1 DEF At
  <2> QED BY <2>1, FS_EmptySet
<1>3. ASSUME NEW k \in FieldNames, NEW x \in Vals
      PROVE  LET f == Insert(<<>>, k, x)
             IN /\ f \in FieldTables /\ DOMAIN f = {k} /\ f[k] = x
                /\ \A p : Cardinality(At(f, p)) = One(x, p)
  <2> DEFINE f == Insert(<<>>, k, x)
  <2>1. f \in FieldTables
    BY <1>1, InsertCount
  <2>2. DOMAIN f = {k} /\ f[k] = x
    BY <1>1 DEF Insert
  <2> HIDE DEF f
  <2>3. ASSUME NEW p
        PROVE  Cardinality(At(f, p)) = One(x, p)
    <3>1. CASE Has(x, p)
      <4>1. At(f, p) = {k}
        BY <2>2, <3>1 DEF At
      <4> QED BY <3>1, <4>1, FS_Singleton DEF One
    <3>2. CASE ~Has(x, p)
      <4>1. At(f, p) = {}
        BY <2>2, <3>2 DEF At
      <4> QED BY <3>2, <4>1, FS_EmptySet DEF One
    <3> QED BY <3>1, <3>2
  <2> QED BY <2>1, <2>2, <2>3 DEF f
<1> QED BY <1>1, <1>2, <1>3

\* An object without a list has things in its table only.
LEMMA UsesTable ==
  ASSUME NEW obj \in Objects, DOMAIN obj.items = {}, NEW p
  PROVE  Uses(obj, p) = Cardinality(At(obj.fields, p)) /\ Uses(obj, p) \in Nat
<1>1. At(obj.items, p) = {}
  BY DEF At
<1>2. Cardinality(At(obj.items, p)) = 0
  BY <1>1, FS_EmptySet
<1>3. /\ Uses(obj, p) = Cardinality(At(obj.items, p)) + Cardinality(At(obj.fields, p))
      /\ Cardinality(At(obj.fields, p)) \in Nat
  BY UsesAre
<1> QED BY <1>2, <1>3

\* A new object is empty but for the fields that it is given.
LEMMA BlankIs ==
  ASSUME NEW d \in Kinds, NEW t, t \in Basic \cup Nested \cup {""}, NEW f \in FieldTables,
         NEW obj, obj = [Blank(d, t) EXCEPT !.fields = f],
         d = "repr" => t = ""
  PROVE  /\ obj \in Objects /\ obj.kind = d /\ obj.refs = 1 /\ obj.kind # "free"
         /\ DOMAIN obj.items = {} /\ obj.fields = f
<1>1. obj.kind = d /\ obj.refs = 1 /\ obj.items = <<>> /\ obj.fields = f
  BY DEF Blank
<1>2. /\ obj.kind = d /\ obj.refs = 1 /\ obj.items = <<>> /\ obj.fields = f
      /\ DOMAIN obj.items = {}
  BY <1>1, SmallTables
<1>3. d # "free"
  BY DEF Kinds, Nested, Sets
<1>4. obj \in Objects
  <2>1. <<>> \in Seq(Vals) /\ 1 \in Nat
    BY Zenon, SmallTables, 1 \in Nat
  <2>2. <<>> \in FieldTables
    BY SmallTables
  <2>3. Blank(d, t) \in Objects
    BY <2>1, <2>2 DEF Objects, Blank
  <2> QED BY <2>3 DEF Objects
<1> QED BY <1>2, <1>3, <1>4

\* The addresses left after one that may be needed is taken.
LEMMA RoomLeft ==
  ASSUME NEW h, NEW g, NEW P, IsFiniteSet(P), NEW k,
         Cardinality(Ids \ Live(h)) >= Cardinality(P),
         k \in P => \E m \in Ids \ Live(h) : Live(g) = Live(h) \cup {m},
         k \notin P => Live(g) = Live(h)
  PROVE  Cardinality(Ids \ Live(g)) >= Cardinality(P \ {k}) /\ IsFiniteSet(P \ {k})
<1>1. IsFiniteSet(Ids \ Live(h)) /\ Cardinality(Ids \ Live(h)) \in Nat /\ Cardinality(P) \in Nat
  BY AddressesAssumption, FS_Difference, FS_CardinalityType
<1>2. /\ IsFiniteSet(P \ {k})
      /\ Cardinality(P \ {k}) = IF k \in P THEN Cardinality(P) - 1 ELSE Cardinality(P)
  BY FS_RemoveElement
<1>3. CASE k \in P
  <2>1. PICK m \in Ids \ Live(h) : Live(g) = Live(h) \cup {m}
    BY <1>3
  <2>2. Ids \ Live(g) = (Ids \ Live(h)) \ {m}
    BY <2>1
  <2>3. Cardinality(Ids \ Live(g)) = Cardinality(Ids \ Live(h)) - 1
    BY <1>1, <2>1, <2>2, FS_RemoveElement
  <2> QED BY <1>1, <1>2, <1>3, <2>3
<1>4. CASE k \notin P
  BY <1>1, <1>2, <1>4
<1> QED BY <1>3, <1>4

\* Where there is room, an address is free.
LEMMA RoomIs ==
  ASSUME NEW h, NEW n \in Nat, n >= 1, Cardinality(Ids \ Live(h)) >= n
  PROVE  Live(h) # Ids
<1>1. SUFFICES ASSUME Live(h) = Ids
               PROVE  FALSE
  OBVIOUS
<1>2. Ids \ Live(h) = {}
  BY <1>1
<1>3. Cardinality(Ids \ Live(h)) = 0
  BY <1>2, FS_EmptySet
<1> QED BY <1>3

PartNames == {"types", "interfaces", "state"}
Messages == {"request", "response"}

\* What a clone leaves of the objects: all but n as they are, and what comes is
\* no message.
Cloning(h, g, n) ==
  /\ \A p \in Ids \ {n} : h[p].kind # "free" => SameBody(g[p], h[p])
  /\ \A p \in Ids : h[p].kind = "free" => g[p].kind \notin Messages

\* A value and its copy: the same word, or two objects that hold the same.
Twin(h, x, y) ==
  \/ x = y /\ ~IsHandle(x)
  \/ /\ IsHandle(x) /\ x.type = y.type /\ x.v \in Ids /\ y.v \in Ids
     /\ h[x.v].kind \in PartNames /\ SameBody(h[x.v], h[y.v])

\* Of what r has under the names of D, n has copies, and nothing else.
Matching(h, r, n, D) ==
  /\ DOMAIN h[n].fields = D \cap DOMAIN h[r].fields
  /\ \A k \in DOMAIN h[n].fields : Twin(h, h[r].fields[k], h[n].fields[k])

\* Copies stay copies while a representation is cloned.
LEMMA TwinStill ==
  ASSUME NEW h, NEW g, NEW n, Cloning(h, g, n), h[n].kind = "repr", NEW x, NEW y, Twin(h, x, y)
  PROVE  Twin(g, x, y)
<1>1. CASE x = y /\ ~IsHandle(x)
  BY <1>1 DEF Twin
<1>2. CASE ~(x = y /\ ~IsHandle(x))
  <2>1. /\ IsHandle(x) /\ x.type = y.type /\ x.v \in Ids /\ y.v \in Ids
        /\ h[x.v].kind \in PartNames /\ SameBody(h[x.v], h[y.v])
    BY <1>2 DEF Twin
  <2>2. x.v # n /\ y.v # n /\ h[x.v].kind # "free" /\ h[y.v].kind # "free"
    BY <2>1 DEF PartNames, SameBody
  <2>3. SameBody(g[x.v], h[x.v]) /\ SameBody(g[y.v], h[y.v])
    BY <2>1, <2>2 DEF Cloning
  <2> QED BY <2>1, <2>3 DEF Twin, SameBody
<1> QED BY <1>1, <1>2

\* So does a whole table.
LEMMA MatchingStill ==
  ASSUME NEW h, NEW g, NEW n, Cloning(h, g, n), h[n].kind = "repr", NEW a, NEW b, NEW D,
         Matching(h, a, b, D), g[a].fields = h[a].fields, g[b].fields = h[b].fields
  PROVE  Matching(g, a, b, D)
BY TwinStill DEF Matching

\* The parts of a representation.
LEMMA PartIs ==
  ASSUME NEW h, NEW ext, Good(h, ext), NEW r \in Ids, h[r].kind = "repr"
  PROVE  /\ Parts(h[r]) \subseteq PartNames /\ IsFiniteSet(Parts(h[r]))
         /\ \A k \in PartNames \cap DOMAIN h[r].fields :
              /\ k \in Parts(h[r])
              /\ h[r].fields[k].v \in Ids /\ h[h[r].fields[k].v].kind = k /\ k # "free"
         /\ \A k \in {"uri"} \cap DOMAIN h[r].fields :
              h[r].fields[k] \in Vals /\ ~IsHandle(h[r].fields[k])
<1>1. /\ h[r].fields \in FieldTables
      /\ \A k \in DOMAIN h[r].fields :
           h[r].fields[k] \in Vals /\ Fits(h, h[r].fields[k]) /\ FieldOk("repr", k, h[r].fields[k])
  BY ItemsOf
<1>2. Parts(h[r]) \subseteq PartNames
  BY <1>1 DEF Parts, FieldOk, PartNames
<1>3. IsFiniteSet(Parts(h[r]))
  <2>1. IsFiniteSet(DOMAIN h[r].fields)
    BY <1>1, FieldsAre
  <2> QED BY <2>1, FS_Difference DEF Parts
<1>4. ASSUME NEW k \in PartNames \cap DOMAIN h[r].fields
      PROVE  /\ k \in Parts(h[r])
             /\ h[r].fields[k].v \in Ids /\ h[h[r].fields[k].v].kind = k /\ k # "free"
  <2> DEFINE x == h[r].fields[k]
  <2>1. x \in Vals /\ Fits(h, x) /\ x.type = k /\ k \in Kinds /\ k # "uri" /\ k # "free"
    BY <1>1 DEF FieldOk, PartNames, Kinds, Nested, Sets
  <2> HIDE DEF x
  <2>2. IsHandle(x)
    BY <2>1 DEF IsHandle
  <2>3. x.v \in Ids /\ h[x.v].kind = k
    BY <2>1, <2>2, HandleIs DEF Fits
  <2> QED BY <2>1, <2>3 DEF x, Parts
<1>5. ASSUME NEW k \in {"uri"} \cap DOMAIN h[r].fields
      PROVE  h[r].fields[k] \in Vals /\ ~IsHandle(h[r].fields[k])
  BY <1>1 DEF FieldOk
<1> QED BY <1>2, <1>3, <1>4, <1>5

\* A part of r is cloned into n.
LEMMA CloneFieldGood ==
  ASSUME NEW h, NEW ext, Good(h, ext), NEW r \in Ids, h[r].kind = "repr",
         NEW n \in Ids, n # r, h[n].kind = "repr", NEW k \in PartNames,
         NEW D, k \notin D, Matching(h, r, n, D),
         k \in DOMAIN h[r].fields => Live(h) # Ids
  PROVE  LET g == CloneField(r, n, h, k)
         IN /\ Good(g, ext) /\ Cloning(h, g, n)
            /\ g[n].kind = "repr" /\ g[n].items = h[n].items
            /\ Matching(g, r, n, D \cup {k})
            /\ k \in Parts(h[r]) => \E m \in Ids \ Live(h) : Live(g) = Live(h) \cup {m}
            /\ k \notin Parts(h[r]) => Live(g) = Live(h)
<1>1. CASE k \notin DOMAIN h[r].fields
  <2>1. CloneField(r, n, h, k) = h /\ k \notin Parts(h[r])
    BY <1>1 DEF CloneField, Parts
  <2>2. Cloning(h, h, n)
    BY DEF Cloning, SameBody, Messages
  <2>3. Matching(h, r, n, D \cup {k})
    BY <1>1 DEF Matching
  <2> QED BY <2>1, <2>2, <2>3
<1>2. CASE k \in DOMAIN h[r].fields
  <2> DEFINE o == h[r].fields[k].v
             c == CloneFlat(h, o)
             m == NewId(h)
             x == Value(k, m)
             t == Insert(h[n].fields, k, x)
             g == [c EXCEPT ![n].fields = t]
  <2>1. o \in Ids /\ h[o].kind = k /\ k # "free" /\ k \in Parts(h[r])
    BY <1>2, PartIs
  <2>2. /\ m \in Ids /\ h[m] = Free /\ m # o
        /\ Good(c, Owned(ext, m))
        /\ SameBody(c[m], h[o])
        /\ \A p \in Ids \ {m} : SameBody(c[p], h[p])
        /\ Live(c) = Live(h) \cup {m}
    <3> HIDE DEF o
    <3> QED BY <1>2, <2>1, CloneFlatGood
  <2>3. x \in Vals /\ IsHandle(x) /\ x.v = m /\ x.type = k
    BY <2>2 DEF Value, Vals, Handles, IsHandle, PartNames, Kinds, Nested, Sets
  <2>4. ext \in Outside /\ h \in Heaps /\ c \in Heaps
    BY <2>2 DEF Good
  <2>5. Plus(ext, x) = Owned(ext, m) /\ Plus(ext, x) \in Outside
    BY <2>2, <2>3, <2>4, OwnedIs, PlusIs
  <2>6. n # m /\ SameBody(c[n], h[n]) /\ c[n].kind = "repr"
    BY <2>2, FreeIs DEF SameBody
  <2>7. k \in FieldNames
    BY DEF PartNames, FieldNames
  <2>8. h[n].fields \in FieldTables /\ c[n].fields = h[n].fields
    BY <2>6, ItemsOf DEF SameBody
  <2>0. k \notin DOMAIN h[n].fields
    BY DEF Matching
  <2>9. t \in FieldTables /\ DOMAIN t = DOMAIN h[n].fields \cup {k} /\ t[k] = x
        /\ \A j \in DOMAIN h[n].fields : t[j] = h[n].fields[j]
    <3>1. t \in FieldTables
      BY <2>0, <2>3, <2>7, <2>8, InsertCount
    <3>2. /\ DOMAIN t = DOMAIN h[n].fields \cup {k} /\ t[k] = x
          /\ \A j \in DOMAIN h[n].fields : t[j] = h[n].fields[j]
      BY <2>0 DEF Insert
    <3> QED BY <3>1, <3>2
  <2>10. ASSUME NEW p \in Ids
         PROVE  Plus(ext, x)[p] + Cardinality(At(c[n].fields, p)) = ext[p] + Cardinality(At(t, p))
    <3>1. Cardinality(At(t, p)) + 0 = Cardinality(At(h[n].fields, p)) + One(x, p)
      BY <2>0, <2>3, <2>7, <2>8, InsertCount
    <3>2. Cardinality(At(t, p)) \in Nat /\ Cardinality(At(h[n].fields, p)) \in Nat
      BY <2>8, <2>9, FieldsAre, AtFinite
    <3>3. ext[p] \in Nat /\ One(x, p) \in Nat /\ Plus(ext, x)[p] = ext[p] + One(x, p)
      BY <2>4, PlusIs DEF Outside, One
    <3>4. At(c[n].fields, p) = At(h[n].fields, p)
      BY <2>8
    <3> HIDE DEF t, x, c
    <3> QED BY ONLY <3>1, <3>2, <3>3, <3>4
  <2> HIDE DEF t, c, x, o, m
  <2>11. \A j \in DOMAIN t : Fits(c, t[j]) /\ FieldOk(c[n].kind, j, t[j])
    <3>1. ASSUME NEW j \in DOMAIN h[n].fields
          PROVE  Fits(c, t[j]) /\ FieldOk(c[n].kind, j, t[j])
      <4>1. /\ h[n].fields[j] \in Vals /\ Fits(h, h[n].fields[j])
            /\ FieldOk("repr", j, h[n].fields[j])
        BY ItemsOf
      <4>2. \A p \in Ids : h[p].kind # "free" => c[p].kind = h[p].kind
        BY <2>2, FreeIs DEF SameBody
      <4> QED BY <2>6, <2>9, <4>1, <4>2, FitsStill
    <3>2. Fits(c, x)
      BY <2>1, <2>2, <2>3 DEF Fits, SameBody
    <3>3. FieldOk("repr", k, x)
      BY <2>3 DEF FieldOk, PartNames
    <3> QED BY <2>6, <2>9, <3>1, <3>2, <3>3
  <2>12. Good(g, ext) /\ \A p \in Ids : g[p].kind = c[p].kind
    <3>1. c[n].kind # "free"
      BY <2>6
    <3> HIDE DEF g
    <3> QED BY <2>2, <2>4, <2>5, <2>9, <2>10, <2>11, <3>1, SetTableGood DEF g
  <2>13. CloneField(r, n, h, k) = g
    <3>1. [c EXCEPT ![n].fields = Insert(@, k, x)] = g
      BY <2>4, <2>8 DEF t, Heaps
    <3> QED BY <1>2, <3>1 DEF CloneField, c, o, x, m
  <2>14. /\ \A p \in Ids \ {n} : g[p] = c[p]
         /\ g[n].items = h[n].items /\ g[n].fields = t /\ g[n].kind = "repr"
    <3>1. g[n] = [c[n] EXCEPT !.fields = t] /\ c[n] \in Objects
      BY <2>4 DEF Heaps
    <3>2. g[n].items = c[n].items /\ g[n].fields = t /\ g[n].kind = c[n].kind
      BY <3>1 DEF Objects
    <3>3. \A p \in Ids \ {n} : g[p] = c[p]
      BY <2>4 DEF Heaps
    <3> QED BY <2>6, <3>2, <3>3 DEF SameBody
  <2> HIDE DEF g
  <2>15. Cloning(h, g, n)
    <3>1. ASSUME NEW p \in Ids \ {n}, h[p].kind # "free"
          PROVE  SameBody(g[p], h[p])
      BY <2>2, <2>14, <3>1, FreeIs
    <3>2. ASSUME NEW p \in Ids, h[p].kind = "free"
          PROVE  g[p].kind \notin Messages
      <4>1. CASE p = m
        BY <2>1, <2>2, <2>6, <2>14, <4>1 DEF SameBody, Messages, PartNames
      <4>2. CASE p # m
        BY <2>2, <2>6, <2>14, <3>2, <4>2 DEF SameBody, Messages
      <4> QED BY <4>1, <4>2
    <3> QED BY <3>1, <3>2 DEF Cloning
  <2>16. Live(g) = Live(h) \cup {m}
    <3>1. \A p \in Ids : g[p].kind = "free" <=> g[p] = Free
      BY <2>12, LiveHas
    <3>2. \A p \in Ids : c[p].kind = "free" <=> c[p] = Free
      BY <2>2, LiveHas
    <3>3. Live(g) = Live(c)
      BY <2>12, <3>1, <3>2 DEF Live
    <3> QED BY <2>2, <3>3
  <2>17. m \in Ids \ Live(h)
    BY <2>2 DEF Live
  <2>18. Matching(g, r, n, D \cup {k})
    <3>1. g[r].fields = h[r].fields
      BY <2>15 DEF Cloning, SameBody
    <3>2. DOMAIN g[n].fields = (D \cup {k}) \cap DOMAIN g[r].fields
      BY <1>2, <2>9, <2>14, <3>1 DEF Matching
    <3>3. ASSUME NEW j \in DOMAIN h[n].fields
          PROVE  Twin(g, g[r].fields[j], g[n].fields[j])
      <4>1. Twin(h, h[r].fields[j], h[n].fields[j])
        BY DEF Matching
      <4>2. Twin(g, h[r].fields[j], h[n].fields[j])
        BY <2>15, <4>1, TwinStill
      <4> QED BY <2>9, <2>14, <3>1, <4>2
    <3>4. Twin(g, g[r].fields[k], g[n].fields[k])
      <4>1. g[r].fields[k] \in Vals /\ g[r].fields[k].type = k /\ g[r].fields[k].v = o
        <5>1. h[r].fields[k] \in Vals /\ FieldOk("repr", k, h[r].fields[k])
          BY <1>2, ItemsOf
        <5> QED BY <3>1, <5>1 DEF FieldOk, PartNames, o
      <4>2. IsHandle(g[r].fields[k])
        BY <4>1 DEF IsHandle, PartNames, Kinds, Nested, Sets
      <4>3. g[n].fields[k] = x
        BY <2>9, <2>14
      <4>4. o # n /\ m # n
        BY <2>1, <2>6 DEF PartNames
      <4>5. SameBody(g[m], h[o]) /\ SameBody(g[o], h[o]) /\ g[o].kind = k
        BY <2>1, <2>2, <2>14, <4>4 DEF SameBody
      <4> QED BY <2>1, <2>2, <2>3, <4>1, <4>2, <4>3, <4>5 DEF Twin, SameBody
    <3> QED BY <2>9, <2>14, <3>2, <3>3, <3>4 DEF Matching
  <2> QED BY <2>1, <2>12, <2>13, <2>14, <2>15, <2>16, <2>17, <2>18
<1> QED BY <1>1, <1>2

\* A clone goes on cloning.
LEMMA CloningOn ==
  ASSUME NEW h, NEW c, NEW g, NEW n, Cloning(h, c, n), Cloning(c, g, n), g[n].kind = "repr"
  PROVE  Cloning(h, g, n)
<1>1. ASSUME NEW p \in Ids \ {n}, h[p].kind # "free"
      PROVE  SameBody(g[p], h[p])
  BY <1>1 DEF Cloning, SameBody
<1>2. ASSUME NEW p \in Ids, h[p].kind = "free"
      PROVE  g[p].kind \notin Messages
  BY <1>2 DEF Cloning, SameBody, Messages
<1> QED BY <1>1, <1>2 DEF Cloning

\* A representation is cloned without its children.
LEMMA CloneAloneGood ==
  ASSUME NEW h, NEW ext, Good(h, ext), NEW r \in Ids, h[r].kind = "repr", RoomFor(h, r)
  PROVE  LET n == NewId(h)
             g == CloneAlone(h, r)
         IN /\ n \in Ids /\ h[n] = Free /\ n # r
            /\ Good(g, Owned(ext, n)) /\ Cloning(h, g, n)
            /\ g[n].kind = "repr" /\ DOMAIN g[n].items = {}
            /\ Matching(g, r, n, PartNames \cup {"uri"})
<1> DEFINE n == NewId(h)
           P == Parts(h[r])
           f == [k \in {"uri"} \cap DOMAIN h[r].fields |-> h[r].fields[k]]
           obj == [Blank("repr", "") EXCEPT !.fields = f]
           e == Owned(ext, n)
           h0 == New(h, obj)
           h1 == CloneField(r, n, h0, "interfaces")
           h2 == CloneField(r, n, h1, "types")
           h3 == CloneField(r, n, h2, "state")
<1>1. P \subseteq PartNames /\ IsFiniteSet(P) /\ Cardinality(P) \in Nat
  BY PartIs, FS_CardinalityType
<1>2. Cardinality(Ids \ Live(h)) >= 1 + Cardinality(P)
  BY DEF RoomFor, Room
<1>3. Live(h) # Ids
  <2>1. 1 + Cardinality(P) \in Nat /\ 1 + Cardinality(P) >= 1
    BY <1>1
  <2> QED BY <1>2, <2>1, RoomIs
<1>4. /\ f \in FieldTables /\ DOMAIN f = {"uri"} \cap DOMAIN h[r].fields
      /\ \A k \in DOMAIN f : f[k] \in Vals /\ ~IsHandle(f[k]) /\ f[k] = h[r].fields[k]
  <2>1. /\ DOMAIN f = {"uri"} \cap DOMAIN h[r].fields
        /\ \A k \in DOMAIN f : f[k] \in Vals /\ ~IsHandle(f[k]) /\ f[k] = h[r].fields[k]
    BY PartIs
  <2>2. IsFiniteSet({"uri"})
    BY FS_Singleton
  <2>3. IsFiniteSet(DOMAIN f)
    <3>1. DOMAIN f \subseteq {"uri"}
      BY <2>1
    <3> HIDE DEF f
    <3> QED BY <2>2, <3>1, FS_Subset
  <2>4. f \in [DOMAIN f -> Vals]
    BY <2>1
  <2>5. DOMAIN f \subseteq FieldNames
    BY <2>1 DEF FieldNames
  <2> HIDE DEF f
  <2>6. f \in FieldTables
    BY <2>3, <2>4, <2>5, FieldsAre
  <2> QED BY <2>1, <2>6
<1> HIDE DEF f
<1>5. /\ obj \in Objects /\ obj.kind = "repr" /\ obj.refs = 1 /\ DOMAIN obj.items = {} /\ obj.fields = f
      /\ \A p : Uses(obj, p) = 0
  <2>1. "repr" \in Kinds /\ "" \in Basic \cup Nested \cup {""}
    BY DEF Kinds
  <2>2. \A p : At(f, p) = {}
    BY <1>4 DEF At, Has
  <2>3. \A p : Cardinality(At(f, p)) = 0
    BY <2>2, FS_EmptySet
  <2> DEFINE b == obj
  <2>0. b = [Blank("repr", "") EXCEPT !.fields = f]
    OBVIOUS
  <2> HIDE DEF b
  <2>4. b \in Objects /\ DOMAIN b.items = {}
    <3>1. f \in FieldTables
      BY <1>4
    <3>2. b \in Objects
      BY ONLY <2>0, <2>1, <3>1, BlankIs
    <3>3. DOMAIN b.items = {}
      BY ONLY <2>0, <2>1, <3>1, BlankIs
    <3> QED BY <3>2, <3>3
  <2>5. b.kind = "repr" /\ b.refs = 1 /\ b.fields = f
    BY <2>0 DEF Blank
  <2>6. \A p : Uses(b, p) = 0
    BY <2>3, <2>4, <2>5, UsesTable
  <2> QED BY <2>4, <2>5, <2>6 DEF b
<1>6. ext \in Outside /\ n \in Ids
  BY <1>3 DEF Good, NewId, Live
<1>7. e \in Outside /\ \A p \in Ids : e[p] = ext[p] + (IF p = n THEN 1 ELSE 0)
  BY <1>6, OwnedIs
<1> HIDE DEF obj, e
<1>8. ObjectOk(h, obj)
  BY <1>4, <1>5 DEF ObjectOk, Fits, FieldOk
<1>9. /\ n \in Ids /\ h[n] = Free
      /\ Good(h0, e)
      /\ h0[n] = obj
      /\ \A p \in Ids \ {n} : h0[p] = h[p]
      /\ Live(h0) = Live(h) \cup {n}
  <2>1. \A p \in Ids : ext[p] + (IF p = NewId(h) THEN obj.refs ELSE 0) = e[p] + Uses(obj, p)
    BY <1>5, <1>6, <1>7 DEF Outside
  <2>2. obj.kind # "free" /\ obj.refs >= 1
    BY <1>5
  <2> HIDE DEF h0
  <2> QED BY <1>3, <1>5, <1>7, <1>8, <2>1, <2>2, NewGood DEF h0
<1>10. /\ n # r /\ h0[r].kind = "repr" /\ h0[r].fields = h[r].fields /\ Cloning(h, h0, n)
       /\ Matching(h0, r, n, {"uri"})
  <2>1. n # r
    BY <1>9, FreeIs
  <2>2. h0[r] = h[r]
    BY <1>9, <2>1
  <2>3. Cloning(h, h0, n)
    BY <1>5, <1>9 DEF Cloning, SameBody, Messages
  <2>4. Matching(h0, r, n, {"uri"})
    BY <1>4, <1>5, <1>9, <2>2 DEF Matching, Twin
  <2> QED BY <2>1, <2>2, <2>3, <2>4
<1>11. Cardinality(Ids \ Live(h0)) >= Cardinality(P)
  <2>1. IsFiniteSet(Ids \ Live(h)) /\ Cardinality(Ids \ Live(h)) \in Nat
    BY AddressesAssumption, FS_Difference, FS_CardinalityType
  <2>2. Ids \ Live(h0) = (Ids \ Live(h)) \ {n} /\ n \in Ids \ Live(h)
    BY <1>9 DEF Live
  <2>3. Cardinality(Ids \ Live(h0)) = Cardinality(Ids \ Live(h)) - 1
    BY <2>1, <2>2, FS_RemoveElement
  <2> QED BY <1>1, <1>2, <2>1, <2>3
<1> DEFINE D == {"uri"}
           D1 == D \cup {"interfaces"}
           D2 == D1 \cup {"types"}
<1> HIDE DEF n, h0, P
<1>12. /\ Good(h1, e) /\ Cloning(h0, h1, n)
       /\ h1[n].kind = "repr" /\ DOMAIN h1[n].items = {}
       /\ Matching(h1, r, n, D1)
       /\ Cardinality(Ids \ Live(h1)) >= Cardinality(P \ {"interfaces"}) /\ IsFiniteSet(P \ {"interfaces"})
       /\ h1[r].kind = "repr" /\ h1[r].fields = h[r].fields
  <2>1. "interfaces" \in DOMAIN h0[r].fields => Live(h0) # Ids
    <3>1. SUFFICES ASSUME "interfaces" \in DOMAIN h0[r].fields
                   PROVE  Live(h0) # Ids
      OBVIOUS
    <3>2. "interfaces" \in P
      BY <1>10, <3>1 DEF P, Parts
    <3>3. Cardinality(P) >= 1
      BY <1>1, <3>2, FS_EmptySet
    <3> QED BY <1>1, <1>11, <3>3, RoomIs
  <2>2. h0[n].kind = "repr" /\ "interfaces" \notin D /\ "interfaces" \in PartNames
    BY <1>5, <1>9 DEF PartNames
  <2> HIDE DEF D
  <2>3. P = Parts(h0[r])
    BY <1>10 DEF P, Parts
  <2>7. Matching(h0, r, n, D)
    BY <1>10 DEF D
  <2>4. /\ Good(h1, e) /\ Cloning(h0, h1, n)
        /\ h1[n].kind = "repr" /\ h1[n].items = h0[n].items
        /\ Matching(h1, r, n, D \cup {"interfaces"})
        /\ "interfaces" \in P => \E m \in Ids \ Live(h0) : Live(h1) = Live(h0) \cup {m}
        /\ "interfaces" \notin P => Live(h1) = Live(h0)
    <3> DEFINE k == "interfaces"
    <3>1. k \in PartNames /\ k \notin D
      BY <2>2
    <3>2. k \in DOMAIN h0[r].fields => Live(h0) # Ids
      BY <2>1
    <3>3. /\ Good(h1, e) /\ Cloning(h0, h1, n)
          /\ h1[n].kind = "repr" /\ h1[n].items = h0[n].items
          /\ Matching(h1, r, n, D \cup {k})
          /\ k \in Parts(h0[r]) => \E m \in Ids \ Live(h0) : Live(h1) = Live(h0) \cup {m}
          /\ k \notin Parts(h0[r]) => Live(h1) = Live(h0)
      <4>1. h1 = CloneField(r, n, h0, k)
        OBVIOUS
      <4> HIDE DEF k, h1
      <4> QED BY <1>6, <1>9, <1>10, <2>1, <2>2, <2>7, <3>1, <3>2, <4>1, CloneFieldGood
    <3> QED BY <2>3, <3>3
  <2> HIDE DEF h1
  <2>5. Cardinality(Ids \ Live(h1)) >= Cardinality(P \ {"interfaces"}) /\ IsFiniteSet(P \ {"interfaces"})
    BY <1>1, <1>11, <2>4, RoomLeft
  <2>6. SameBody(h1[r], h0[r])
    BY <1>10, <2>4 DEF Cloning
  <2> QED BY <1>5, <1>9, <1>10, <2>4, <2>5, <2>6 DEF SameBody
<1> HIDE DEF h1
<1> DEFINE Q == P \ {"interfaces"}
<1>13. /\ Good(h2, e) /\ Cloning(h1, h2, n)
       /\ h2[n].kind = "repr" /\ DOMAIN h2[n].items = {}
       /\ Matching(h2, r, n, D2)
       /\ Cardinality(Ids \ Live(h2)) >= Cardinality(Q \ {"types"}) /\ IsFiniteSet(Q \ {"types"})
       /\ h2[r].kind = "repr" /\ h2[r].fields = h[r].fields
  <2>1. "types" \in DOMAIN h1[r].fields => Live(h1) # Ids
    <3>1. SUFFICES ASSUME "types" \in DOMAIN h1[r].fields
                   PROVE  Live(h1) # Ids
      OBVIOUS
    <3>2. "types" \in Q
      BY <1>12, <3>1 DEF P, Parts
    <3>3. Cardinality(Q) >= 1 /\ Cardinality(Q) \in Nat
      BY <1>12, <3>2, FS_EmptySet, FS_CardinalityType
    <3> QED BY <1>12, <3>3, RoomIs
  <2>2. "types" \notin D1 /\ "types" \in PartNames
    BY DEF PartNames
  <2> HIDE DEF D1
  <2>3. Parts(h1[r]) = P
    BY <1>12 DEF P, Parts
  <2>4. /\ Good(h2, e) /\ Cloning(h1, h2, n)
        /\ h2[n].kind = "repr" /\ h2[n].items = h1[n].items
        /\ Matching(h2, r, n, D1 \cup {"types"})
        /\ "types" \in P => \E m \in Ids \ Live(h1) : Live(h2) = Live(h1) \cup {m}
        /\ "types" \notin P => Live(h2) = Live(h1)
    <3> DEFINE k == "types"
    <3>1. k \in PartNames /\ k \notin D1
      BY <2>2
    <3>2. k \in DOMAIN h1[r].fields => Live(h1) # Ids
      BY <2>1
    <3>3. /\ Good(h2, e) /\ Cloning(h1, h2, n)
          /\ h2[n].kind = "repr" /\ h2[n].items = h1[n].items
          /\ Matching(h2, r, n, D1 \cup {k})
          /\ k \in Parts(h1[r]) => \E m \in Ids \ Live(h1) : Live(h2) = Live(h1) \cup {m}
          /\ k \notin Parts(h1[r]) => Live(h2) = Live(h1)
      <4>1. h2 = CloneField(r, n, h1, k)
        OBVIOUS
      <4>2. /\ Good(h1, e) /\ h1[r].kind = "repr" /\ n \in Ids /\ n # r /\ h1[n].kind = "repr"
            /\ r \in Ids /\ Matching(h1, r, n, D1)
        BY <1>6, <1>10, <1>12
      <4> HIDE DEF k, h2
      <4> QED BY ONLY <3>1, <3>2, <4>1, <4>2, CloneFieldGood
    <3> QED BY <2>3, <3>3
  <2> HIDE DEF h2
  <2>5. "types" \in P <=> "types" \in Q
    OBVIOUS
  <2> HIDE DEF Q
  <2>6. Cardinality(Ids \ Live(h2)) >= Cardinality(Q \ {"types"}) /\ IsFiniteSet(Q \ {"types"})
    BY <1>12, <2>4, <2>5, RoomLeft DEF Q
  <2>7. SameBody(h2[r], h1[r])
    BY <1>10, <1>12, <2>4 DEF Cloning
  <2> QED BY <1>12, <2>4, <2>6, <2>7 DEF SameBody
<1> HIDE DEF h2
<1> DEFINE R == Q \ {"types"}
<1>14. /\ Good(h3, e) /\ Cloning(h2, h3, n)
       /\ h3[n].kind = "repr" /\ DOMAIN h3[n].items = {}
       /\ Matching(h3, r, n, PartNames \cup {"uri"})
  <2>1. "state" \in DOMAIN h2[r].fields => Live(h2) # Ids
    <3>1. SUFFICES ASSUME "state" \in DOMAIN h2[r].fields
                   PROVE  Live(h2) # Ids
      OBVIOUS
    <3>2. "state" \in R
      BY <1>13, <3>1 DEF P, Parts
    <3>3. Cardinality(R) >= 1 /\ Cardinality(R) \in Nat
      BY <1>13, <3>2, FS_EmptySet, FS_CardinalityType
    <3> QED BY <1>13, <3>3, RoomIs
  <2>2. "state" \notin D2 /\ "state" \in PartNames
    BY DEF PartNames
  <2> HIDE DEF D2
  <2>3. /\ Good(h3, e) /\ Cloning(h2, h3, n)
        /\ h3[n].kind = "repr" /\ h3[n].items = h2[n].items
        /\ Matching(h3, r, n, D2 \cup {"state"})
    BY <1>6, <1>10, <1>13, <2>1, <2>2, CloneFieldGood
  <2>4. D2 \cup {"state"} = PartNames \cup {"uri"}
    BY DEF PartNames, D2
  <2> QED BY <1>13, <2>3, <2>4
<1> HIDE DEF h3
<1>15. Cloning(h, h3, n)
  <2>1. Cloning(h, h1, n)
    BY <1>10, <1>12, CloningOn
  <2>2. Cloning(h, h2, n)
    BY <1>13, <2>1, CloningOn
  <2> QED BY <1>14, <2>2, CloningOn
<1>16. CloneAlone(h, r) = h3
  BY DEF CloneAlone, h3, h2, h1, h0, obj, f, n
<1> QED BY <1>9, <1>10, <1>14, <1>15, <1>16 DEF n, e

(***************************************************************************)
(* Iteration                                                               *)
(***************************************************************************)

\* A function on the numbers is defined by where it starts and by its steps.
LEMMA Iterates ==
  ASSUME NEW S, NEW c \in S, NEW s \in [S -> S]
  PROVE  \E g : g = [i \in Nat |-> IF i = 0 THEN c ELSE s[g[i - 1]]]
<1> DEFINE A(n) == {f \in [0 .. n -> S] : f[0] = c /\ \A i \in 1 .. n : f[i] = s[f[i - 1]]}
           F(n) == CHOOSE f \in A(n) : TRUE
           g == [n \in Nat |-> F(n)[n]]
<1>1. ASSUME NEW n \in Nat
      PROVE  A(n) # {}
  <2> DEFINE B == {i \in Nat : A(i) = {}}
  <2>1. SUFFICES ASSUME B # {}
                 PROVE  FALSE
    OBVIOUS
  <2>2. PICK m \in B : \A j \in B : m <= j
    <3>1. B \subseteq Nat
      OBVIOUS
    <3> HIDE DEF B
    <3> QED BY <2>1, <3>1, LeastOf
  <2>3. m \in Nat /\ A(m) = {}
    BY <2>2
  <2>4. CASE m = 0
    <3>1. [i \in 0 .. 0 |-> c] \in A(0)
      OBVIOUS
    <3> QED BY <2>3, <2>4, <3>1
  <2>5. CASE m # 0
    <3>1. m - 1 \in Nat /\ m - 1 \notin B
      BY <2>2, <2>3, <2>5
    <3>2. PICK f : f \in A(m - 1)
      BY <3>1
    <3> DEFINE e == [i \in 0 .. m |-> IF i = m THEN s[f[m - 1]] ELSE f[i]]
    <3>3. e \in [0 .. m -> S]
      <4>1. f \in [0 .. m - 1 -> S] /\ m - 1 \in 0 .. m - 1
        BY <2>3, <3>1, <3>2
      <4>2. f[m - 1] \in S
        BY <4>1
      <4>3. s[f[m - 1]] \in S
        BY <4>2
      <4>4. \A i \in 0 .. m : i = m \/ i \in 0 .. m - 1
        BY <2>3
      <4> QED BY <4>1, <4>3, <4>4
    <3>4. e[0] = c
      BY <2>3, <2>5, <3>2
    <3>5. ASSUME NEW i \in 1 .. m
          PROVE  e[i] = s[e[i - 1]]
      <4>1. CASE i = m
        <5>1. e[i] = s[f[m - 1]] /\ e[i - 1] = f[m - 1]
          BY <2>3, <4>1
        <5> QED BY <5>1
      <4>2. CASE i # m
        <5>1. i \in 1 .. m - 1
          BY <2>3, <4>2
        <5>2. e[i] = f[i] /\ e[i - 1] = f[i - 1]
          BY <2>3, <4>2
        <5>3. f[i] = s[f[i - 1]]
          BY <3>2, <5>1
        <5> QED BY <5>2, <5>3
      <4> QED BY <4>1, <4>2
    <3>6. e \in A(m)
      <4> HIDE DEF e
      <4> QED BY <3>3, <3>4, <3>5
    <3> QED BY <2>3, <3>6
  <2> QED BY <2>4, <2>5
<1>2. \A n \in Nat : F(n) \in A(n)
  BY <1>1
<1>3. ASSUME NEW n \in Nat \ {0}
      PROVE  F(n)[n - 1] = F(n - 1)[n - 1]
  <2> DEFINE a == F(n)
             b == F(n - 1)
             B == {i \in 0 .. n - 1 : a[i] # b[i]}
  <2>1. /\ a[0] = c /\ \A i \in 1 .. n : a[i] = s[a[i - 1]]
        /\ b[0] = c /\ \A i \in 1 .. n - 1 : b[i] = s[b[i - 1]]
    <3>1. n - 1 \in Nat /\ n \in Nat
      OBVIOUS
    <3>2. a \in A(n) /\ b \in A(n - 1)
      BY <1>2, <3>1
    <3> HIDE DEF a, b
    <3> QED BY <3>2
  <2> HIDE DEF a, b
  <2>2. SUFFICES ASSUME B # {}
                 PROVE  FALSE
    <3>1. n - 1 \in 0 .. n - 1
      OBVIOUS
    <3>2. ASSUME B = {}
          PROVE  a[n - 1] = b[n - 1]
      BY <3>1, <3>2
    <3> QED BY <3>2 DEF a, b
  <2>3. PICK m \in B : \A j \in B : m <= j
    <3>1. B \subseteq Nat
      OBVIOUS
    <3> HIDE DEF B
    <3> QED BY <2>2, <3>1, LeastOf
  <2>4. m \in 0 .. n - 1 /\ a[m] # b[m]
    BY <2>3
  <2>5. m # 0
    BY <2>1, <2>4
  <2>6. m - 1 \in 0 .. n - 1 /\ m - 1 \notin B
    BY <2>3, <2>4, <2>5
  <2>7. a[m - 1] = b[m - 1]
    BY <2>6
  <2>8. m \in 1 .. n /\ m \in 1 .. n - 1
    BY <2>4, <2>5
  <2>9. a[m] = s[a[m - 1]] /\ b[m] = s[b[m - 1]]
    BY <2>1, <2>8
  <2> QED BY <2>4, <2>7, <2>9
<1>4. ASSUME NEW n \in Nat
      PROVE  g[n] = IF n = 0 THEN c ELSE s[g[n - 1]]
  <2>1. F(n) \in A(n) /\ g[n] = F(n)[n]
    BY <1>2
  <2> HIDE DEF F
  <2>2. CASE n = 0
    BY <2>1, <2>2
  <2>3. CASE n # 0
    <3>1. n \in 1 .. n /\ n - 1 \in Nat
      BY <2>3
    <3>2. F(n)[n] = s[F(n)[n - 1]]
      BY <2>1, <3>1
    <3>3. g[n - 1] = F(n - 1)[n - 1]
      BY <3>1
    <3>4. F(n)[n - 1] = F(n - 1)[n - 1]
      BY <1>3, <2>3
    <3> QED BY <2>1, <2>3, <3>2, <3>3, <3>4
  <2> QED BY <2>2, <2>3
<1>5. g = [i \in Nat |-> g[i]]
  OBVIOUS
<1> HIDE DEF g
<1>6. g = [i \in Nat |-> IF i = 0 THEN c ELSE s[g[i - 1]]]
  BY <1>4, <1>5
<1> QED BY <1>6

\* What every step keeps holds for ever.
LEMMA Stays ==
  ASSUME NEW S, NEW g, g[0] \in S, \A i \in Nat : g[i] \in S => g[i + 1] \in S
  PROVE  \A i \in Nat : g[i] \in S
<1> DEFINE B == {i \in Nat : g[i] \notin S}
<1>1. SUFFICES ASSUME B # {}
               PROVE  FALSE
  OBVIOUS
<1>2. PICK m \in B : \A j \in B : m <= j
  <2>1. B \subseteq Nat
    OBVIOUS
  <2> HIDE DEF B
  <2> QED BY <1>1, <2>1, LeastOf
<1>3. m \in Nat /\ g[m] \notin S
  BY <1>2
<1>4. m # 0
  BY <1>3
<1>5. m - 1 \in Nat /\ m - 1 \notin B /\ m - 1 + 1 = m
  BY <1>2, <1>3, <1>4
<1>6. g[m - 1] \in S
  BY <1>5
<1> QED BY <1>3, <1>5, <1>6

\* What is reached from a part of the heap whose contents are in it is in it.
LEMMA ReachIs ==
  ASSUME NEW h, NEW R, NEW S \in SUBSET R,
         \A T \in SUBSET R : UNION {Contents(h[o]) : o \in T} \subseteq R
  PROVE  Reach(h, S) \subseteq R
<1> DEFINE More(T) == T \cup UNION {Contents(h[o]) : o \in T}
           G == {T \in SUBSET R : S \subseteq T}
           s == [T \in G |-> More(T)]
           turn == CHOOSE g : g = [i \in Nat |-> IF i = 0 THEN S ELSE More(g[i - 1])]
<1>1. s \in [G -> G] /\ S \in G
  OBVIOUS
<1>2. PICK g : g = [i \in Nat |-> IF i = 0 THEN S ELSE s[g[i - 1]]]
  <2> HIDE DEF s, G
  <2> QED BY <1>1, Iterates
<1> HIDE DEF More, s, G
<1>3. \A i \in Nat : g[i] = IF i = 0 THEN S ELSE s[g[i - 1]]
  BY <1>2
<1>4. \A i \in Nat : g[i] \in G
  <2>1. g[0] \in G
    BY <1>1, <1>3
  <2>2. \A i \in Nat : g[i] \in G => g[i + 1] \in G
    BY <1>1, <1>3
  <2> QED BY <2>1, <2>2, Stays
<1>5. \A T \in G : s[T] = More(T)
  BY DEF s
<1>6. g = [i \in Nat |-> IF i = 0 THEN S ELSE More(g[i - 1])]
  <2>1. ASSUME NEW i \in Nat
        PROVE  (IF i = 0 THEN S ELSE s[g[i - 1]]) = (IF i = 0 THEN S ELSE More(g[i - 1]))
    <3>1. CASE i # 0
      <4>1. i - 1 \in Nat
        BY <3>1
      <4> QED BY <1>4, <1>5, <4>1
    <3> QED BY <3>1
  <2> QED BY <1>2, <2>1
<1>7. turn = [i \in Nat |-> IF i = 0 THEN S ELSE More(turn[i - 1])]
  BY <1>6
<1> HIDE DEF turn
<1>8. turn[0] = S /\ \A i \in Nat : turn[i + 1] = More(turn[i])
  <2>1. \A i \in Nat : turn[i] = IF i = 0 THEN S ELSE More(turn[i - 1])
    BY <1>7
  <2> QED BY <2>1
<1>9. \A i \in Nat : turn[i] \in G
  <2>1. \A i \in Nat : turn[i] \in G => turn[i + 1] \in G
    BY <1>1, <1>5, <1>8
  <2> QED BY <1>1, <1>8, <2>1, Stays
<1>10. Cardinality(Live(h)) \in Nat
  <2>1. IsFiniteSet(Live(h))
    BY AddressesAssumption, FS_Subset DEF Live
  <2> QED BY <2>1, FS_CardinalityType
<1>11. Reach(h, S) = turn[Cardinality(Live(h))]
  BY DEF Reach, After, turn, More
<1> QED BY <1>9, <1>10, <1>11 DEF G

\* b has copies of what a has, and of its first children.
Copied(g, pairs, a, b) ==
  /\ Matching(g, a, b, PartNames \cup {"uri"})
  /\ Len(g[b].items) <= Len(g[a].items)
  /\ \A i \in DOMAIN g[b].items : <<g[a].items[i].v, g[b].items[i].v>> \in pairs

\* A clone under way: what it has done to the objects of h, n being the copy of
\* r. What is copied is old, its copy is new and the copy of nothing else.
Underway(h, e, r, n) ==
  {c \in [heap : Heaps, pairs : SUBSET (Ids \X Ids)] :
     /\ Good(c.heap, e) /\ Cloning(h, c.heap, n) /\ c.heap[n].kind = "repr"
     /\ <<r, n>> \in c.pairs
     /\ \A p \in c.pairs :
          /\ c.heap[p[1]].kind = "repr" /\ c.heap[p[2]].kind = "repr"
          /\ h[p[1]].kind # "free" /\ h[p[2]].kind = "free"
          /\ Copied(c.heap, c.pairs, p[1], p[2])
     /\ \A p, q \in c.pairs : p[2] = q[2] => p = q}

\* Copies stay copies while another representation is changed.
LEMMA CopiedStill ==
  ASSUME NEW h, NEW g, NEW n, Cloning(h, g, n), h[n].kind = "repr",
         NEW a \in Ids \ {n}, NEW b \in Ids \ {n}, h[a].kind = "repr", h[b].kind = "repr",
         NEW pairs, NEW done, pairs \subseteq done, Copied(h, pairs, a, b)
  PROVE  Copied(g, done, a, b)
<1>1. SameBody(g[a], h[a]) /\ SameBody(g[b], h[b])
  BY DEF Cloning
<1>2. Matching(g, a, b, PartNames \cup {"uri"})
  BY <1>1, MatchingStill DEF Copied, SameBody
<1> QED BY <1>1, <1>2 DEF Copied, SameBody

\* One more child is cloned.
LEMMA CloneChildGood ==
  ASSUME NEW h, NEW ext, Good(h, ext), NEW e \in Outside, NEW r, NEW n \in Ids,
         h[n].kind = "free", NEW c \in Underway(h, e, r, n)
  PROVE  CloneChild(c) \in Underway(h, e, r, n)
<1> DEFINE p == CHOOSE p \in Unfinished(c) : TRUE
           a == p[1]
           b == p[2]
           items == c.heap[a].items
           i == Len(c.heap[b].items) + 1
           child == c.heap[a].items[Len(c.heap[b].items) + 1].v
           m == NewId(c.heap)
           g == CloneAlone(c.heap, child)
           x == Value("repr", m)
           s == Append(g[b].items, x)
           parent == [g[b] EXCEPT !.items = Append(@, Value("repr", m))]
           hh == [o \in Ids |-> IF o = b THEN parent ELSE g[o]]
           done == c.pairs \cup {<<child, m>>}
<1>1. /\ c \in [heap : Heaps, pairs : SUBSET (Ids \X Ids)] /\ c.heap \in Heaps
      /\ c.pairs \subseteq Ids \X Ids
      /\ Good(c.heap, e) /\ Cloning(h, c.heap, n) /\ c.heap[n].kind = "repr"
      /\ <<r, n>> \in c.pairs
      /\ \A q \in c.pairs :
           /\ c.heap[q[1]].kind = "repr" /\ c.heap[q[2]].kind = "repr"
           /\ h[q[1]].kind # "free" /\ h[q[2]].kind = "free"
           /\ Copied(c.heap, c.pairs, q[1], q[2])
      /\ \A q, z \in c.pairs : q[2] = z[2] => q = z
  BY DEF Underway
<1>2. CASE Unfinished(c) = {} \/ ~RoomFor(c.heap, child)
  <2>1. CloneChild(c) = c
    BY <1>2 DEF CloneChild
  <2> QED BY <2>1
<1>3. CASE Unfinished(c) # {} /\ RoomFor(c.heap, child)
  <2>1. p \in c.pairs /\ Len(c.heap[b].items) < Len(items)
    BY <1>3 DEF Unfinished
  <2> HIDE DEF p
  <2>2. /\ a \in Ids /\ b \in Ids /\ c.heap[a].kind = "repr" /\ c.heap[b].kind = "repr"
        /\ h[a].kind # "free" /\ h[b].kind = "free" /\ Copied(c.heap, c.pairs, a, b)
    BY <1>1, <2>1
  <2>3. child \in Ids /\ c.heap[child].kind = "repr" /\ h[child].kind # "free"
    <3>1. items \in Seq(Vals) /\ c.heap[b].items \in Seq(Vals)
      BY <1>1, <2>2, ItemsOf
    <3>2. i \in DOMAIN items
      <4> DEFINE u == items
                 w == c.heap[b].items
      <4>1. Len(u) \in Nat /\ Len(w) \in Nat /\ DOMAIN u = 1 .. Len(u) /\ Len(w) < Len(u)
        BY <2>1, <3>1, LenProperties
      <4> HIDE DEF u, w
      <4>2. Len(w) + 1 \in DOMAIN u
        BY <4>1
      <4> QED BY <4>2 DEF u, w
    <3> DEFINE y == items[i]
    <3>3. y \in Vals /\ Fits(c.heap, y) /\ y.type = "repr"
      BY <1>1, <2>2, <3>2, ItemsOf DEF ItemOk
    <3> HIDE DEF y
    <3>4. IsHandle(y)
      BY <3>3 DEF IsHandle, Kinds
    <3>5. y.v \in Ids /\ c.heap[y.v].kind = "repr"
      BY <3>3, <3>4, HandleIs DEF Fits
    <3>6. y.type = "repr" /\ Fits(h, y)
      <4>1. a # n /\ SameBody(c.heap[a], h[a])
        BY <1>1, <2>2 DEF Cloning
      <4>2. i \in DOMAIN h[a].items /\ y = h[a].items[i]
        BY <3>2, <4>1 DEF SameBody, y
      <4>3. Fits(h, y)
        BY <2>2, <4>2, ItemsOf
      <4> QED BY <3>3, <4>3
    <3>7. h[y.v].kind = "repr"
      BY <3>4, <3>6 DEF Fits
    <3> QED BY <3>5, <3>7 DEF y
  <2> HIDE DEF child
  <2>4. /\ m \in Ids /\ c.heap[m] = Free /\ m # child
        /\ Good(g, Owned(e, m)) /\ Cloning(c.heap, g, m)
        /\ g[m].kind = "repr" /\ DOMAIN g[m].items = {}
        /\ Matching(g, child, m, PartNames \cup {"uri"})
    BY <1>1, <1>3, <2>3, CloneAloneGood
  <2> HIDE DEF m, g
  <2>5. /\ c.heap[m].kind = "free" /\ m # b /\ m # n
        /\ \A q \in Ids : c.heap[q].kind # "free" => SameBody(g[q], c.heap[q])
    BY <1>1, <2>2, <2>4, FreeIs DEF Cloning
  <2>6. x \in Vals /\ IsHandle(x) /\ x.v = m /\ x.type = "repr" /\ Fits(g, x)
    BY <2>4 DEF Value, Vals, Handles, IsHandle, Kinds, Nested, Sets, Fits
  <2>7. Plus(e, x) = Owned(e, m) /\ Plus(e, x) \in Outside
    BY <2>4, <2>6, OwnedIs, PlusIs
  <2>8. g \in Heaps /\ g[b].kind = "repr" /\ g[b].items \in Seq(Vals)
    BY <2>2, <2>4, <2>5, ItemsOf DEF Good, SameBody
  <2> HIDE DEF x
  <2>9. /\ s \in Seq(Vals)
        /\ \A q : Cardinality(At(s, q)) = Cardinality(At(g[b].items, q)) + One(x, q)
        /\ \A j \in DOMAIN s : s[j] = x \/ \E k \in DOMAIN g[b].items : s[j] = g[b].items[k]
    BY <2>6, <2>8, AppendCount
  <2>19. /\ Len(s) = Len(g[b].items) + 1 /\ s[Len(g[b].items) + 1] = x
         /\ \A j \in DOMAIN s : j = Len(g[b].items) + 1 \/ (j \in DOMAIN g[b].items /\ s[j] = g[b].items[j])
    <3> DEFINE u == g[b].items
    <3>1. u \in Seq(Vals) /\ s = Append(u, x) /\ x \in Vals
      BY <2>6, <2>8 DEF s
    <3> HIDE DEF s, u
    <3>2. /\ Len(s) = Len(u) + 1 /\ s[Len(u) + 1] = x /\ DOMAIN s = 1 .. Len(u) + 1
          /\ DOMAIN u = 1 .. Len(u) /\ Len(u) \in Nat
          /\ \A j \in 1 .. Len(u) : s[j] = u[j]
      BY ONLY <3>1, AppendProperties, LenProperties
    <3>3. \A j \in 1 .. Len(u) + 1 : j = Len(u) + 1 \/ j \in 1 .. Len(u)
      BY <3>2
    <3>4. /\ Len(s) = Len(u) + 1 /\ s[Len(u) + 1] = x
          /\ \A j \in DOMAIN s : j = Len(u) + 1 \/ (j \in DOMAIN u /\ s[j] = u[j])
      <4>1. \A j \in DOMAIN s : j = Len(u) + 1 \/ j \in DOMAIN u
        BY Zenon, <3>2, <3>3
      <4>2. \A j \in DOMAIN u : s[j] = u[j]
        BY Zenon, <3>2
      <4> QED BY ONLY <3>2, <4>1, <4>2
    <3> QED BY <3>4 DEF u
  <2> HIDE DEF s
  <2>10. \A j \in DOMAIN s : Fits(g, s[j]) /\ ItemOk(g[b].kind, s[j])
    <3>1. \A k \in DOMAIN g[b].items : Fits(g, g[b].items[k]) /\ ItemOk(g[b].kind, g[b].items[k])
      BY <2>2, <2>4, ItemsOf
    <3>2. Fits(g, x) /\ ItemOk(g[b].kind, x)
      BY <2>6 DEF ItemOk
    <3> QED BY Zenon, <2>9, <3>1, <3>2
  <2>11. ASSUME NEW q \in Ids
         PROVE  Plus(e, x)[q] + Cardinality(At(g[b].items, q)) = e[q] + Cardinality(At(s, q))
    <3>1. Cardinality(At(s, q)) = Cardinality(At(g[b].items, q)) + One(x, q)
      BY <2>9
    <3>2. Cardinality(At(g[b].items, q)) \in Nat
      BY <2>2, <2>8, UsesAre, ValuesOf
    <3>3. e[q] \in Nat /\ One(x, q) \in Nat /\ Plus(e, x)[q] = e[q] + One(x, q)
      BY PlusIs DEF Outside, One
    <3> QED BY ONLY <3>1, <3>2, <3>3
  <2>12. /\ Good([g EXCEPT ![b].items = s], e)
         /\ \A q \in Ids : [g EXCEPT ![b].items = s][q].kind = g[q].kind
    <3>1. g[b].kind # "free"
      BY <2>8
    <3> QED BY <2>2, <2>4, <2>7, <2>9, <2>10, <2>11, <3>1, SetItemsGood
  <2>13. hh = [g EXCEPT ![b].items = s]
    <3>1. parent = [g[b] EXCEPT !.items = s]
      BY DEF s, x
    <3> HIDE DEF parent
    <3> QED BY <2>8, <3>1 DEF Heaps
  <2>14. /\ Good(hh, e) /\ hh \in Heaps /\ \A q \in Ids : hh[q].kind = g[q].kind
         /\ \A q \in Ids \ {b} : hh[q] = g[q]
    <3>1. \A q \in Ids \ {b} : hh[q] = g[q]
      OBVIOUS
    <3> HIDE DEF hh
    <3> QED BY <2>12, <2>13, <3>1 DEF Good
  <2> HIDE DEF hh
  <2>15. Cloning(h, hh, n) /\ Cloning(g, hh, b) /\ Cloning(c.heap, hh, b)
    <3>1. ASSUME NEW q \in Ids \ {n}, h[q].kind # "free"
          PROVE  SameBody(hh[q], h[q])
      <4>1. SameBody(c.heap[q], h[q])
        BY <1>1, <3>1 DEF Cloning
      <4>2. SameBody(g[q], c.heap[q])
        BY <2>5, <3>1, <4>1 DEF SameBody
      <4>3. q # b
        BY <2>2, <3>1
      <4> QED BY <2>14, <4>1, <4>2, <4>3 DEF SameBody
    <3>2. ASSUME NEW q \in Ids, h[q].kind = "free"
          PROVE  hh[q].kind \notin Messages
      <4>1. CASE c.heap[q].kind = "free"
        BY <2>4, <2>14, <4>1 DEF Cloning
      <4>2. CASE c.heap[q].kind # "free"
        BY <1>1, <2>5, <2>14, <3>2, <4>2 DEF Cloning, SameBody
      <4> QED BY <4>1, <4>2
    <3>3. Cloning(h, hh, n)
      BY <3>1, <3>2 DEF Cloning
    <3>4. Cloning(g, hh, b)
      BY <2>14 DEF Cloning, SameBody, Messages
    <3>5. Cloning(c.heap, hh, b)
      BY <2>4, <2>5, <2>14 DEF Cloning, SameBody
    <3> QED BY <3>3, <3>4, <3>5
  <2>16. hh[a] = g[a] /\ SameBody(g[a], c.heap[a]) /\ SameBody(g[b], c.heap[b]) /\ hh[b].items = s
         /\ hh[b].fields = g[b].fields /\ hh[child] = g[child] /\ hh[m] = g[m]
    <3>1. a # b /\ child # b
      BY <2>2, <2>3
    <3>2. hh[b].items = s /\ hh[b].fields = g[b].fields
      <4>1. g[b] \in Objects /\ hh[b] = [g[b] EXCEPT !.items = s]
        BY <2>2, <2>8, <2>13 DEF Heaps
      <4> QED BY <4>1 DEF Objects
    <3>3. SameBody(g[a], c.heap[a]) /\ SameBody(g[b], c.heap[b])
      BY <2>2, <2>5
    <3> QED BY <2>2, <2>3, <2>4, <2>5, <2>14, <3>1, <3>2, <3>3
  <2>17. ASSUME NEW q \in done
         PROVE  /\ hh[q[1]].kind = "repr" /\ hh[q[2]].kind = "repr"
                /\ h[q[1]].kind # "free" /\ h[q[2]].kind = "free"
                /\ q \in Ids \X Ids
                /\ Copied(hh, done, q[1], q[2])
    <3>1. CASE q \in c.pairs
      <4>1. /\ q[1] \in Ids /\ q[2] \in Ids /\ q \in Ids \X Ids
            /\ c.heap[q[1]].kind = "repr" /\ c.heap[q[2]].kind = "repr"
            /\ h[q[1]].kind # "free" /\ h[q[2]].kind = "free"
            /\ Copied(c.heap, c.pairs, q[1], q[2])
        BY <1>1, <3>1
      <4>2. hh[q[1]].kind = "repr" /\ hh[q[2]].kind = "repr"
        BY <2>5, <2>14, <4>1 DEF SameBody
      <4>3. CASE q[2] # b
        <5>1. c.pairs \subseteq done
          OBVIOUS
        <5>2. q[1] \in Ids \ {b} /\ q[2] \in Ids \ {b}
          BY <2>2, <4>1, <4>3
        <5>3. Copied(hh, done, q[1], q[2])
          <6> HIDE DEF done
          <6> QED BY <2>2, <2>15, <4>1, <5>1, <5>2, CopiedStill
        <5> QED BY <4>1, <4>2, <5>3
      <4>4. CASE q[2] = b
        <5>1. q = p
          BY <1>1, <2>1, <3>1, <4>4
        <5>2. Matching(hh, a, b, PartNames \cup {"uri"})
          BY <2>2, <2>15, <2>16, MatchingStill DEF Copied, SameBody
        <5>3. /\ hh[a].items = items /\ g[b].items = c.heap[b].items
              /\ items \in Seq(Vals) /\ c.heap[b].items \in Seq(Vals)
          BY <1>1, <2>2, <2>16, ItemsOf DEF SameBody
        <5>4. Len(s) <= Len(items)
          <6> DEFINE u == c.heap[b].items
          <6>1. Len(s) = Len(u) + 1 /\ Len(u) < Len(items) /\ u \in Seq(Vals)
            BY <2>1, <2>19, <5>3
          <6> HIDE DEF u, s, items
          <6>2. Len(u) \in Nat /\ Len(items) \in Nat
            BY <5>3, <6>1, LenProperties
          <6> QED BY ONLY <6>1, <6>2
        <5>5. ASSUME NEW j \in DOMAIN s
              PROVE  <<items[j].v, s[j].v>> \in done
          <6>1. CASE j = i
            <7>1. s[j] = x /\ items[j].v = child
              BY <2>19, <5>3, <6>1 DEF child
            <7> QED BY <2>6, <7>1
          <6>2. CASE j # i
            <7>1. j \in DOMAIN c.heap[b].items /\ s[j] = c.heap[b].items[j]
              BY <2>19, <5>3, <6>2
            <7>2. <<items[j].v, c.heap[b].items[j].v>> \in c.pairs
              BY <2>2, <7>1 DEF Copied
            <7> QED BY <7>1, <7>2
          <6> QED BY <6>1, <6>2
        <5>6. Copied(hh, done, a, b)
          <6> HIDE DEF done, items
          <6> QED BY <2>16, <5>2, <5>3, <5>4, <5>5 DEF Copied
        <5> QED BY <4>1, <4>2, <5>1, <5>6
      <4> QED BY <4>3, <4>4
    <3>2. CASE q = <<child, m>>
      <4>1. hh[child].kind = "repr" /\ hh[m].kind = "repr"
        BY <2>3, <2>4, <2>5, <2>14 DEF SameBody
      <4>2. h[m].kind = "free"
        BY <1>1, <2>4, <2>5 DEF Cloning, SameBody
      <4>3. Matching(hh, child, m, PartNames \cup {"uri"})
        BY <2>4, <2>8, <2>15, <2>16, MatchingStill
      <4>4. hh[m].items \in Seq(Vals) /\ hh[child].items \in Seq(Vals) /\ DOMAIN hh[m].items = {}
        BY <2>3, <2>4, <2>14, <2>16, ItemsOf
      <4>5. Len(hh[m].items) <= Len(hh[child].items)
        BY <4>4
      <4>6. Copied(hh, done, child, m)
        BY <4>3, <4>4, <4>5 DEF Copied
      <4> QED BY <2>3, <2>4, <3>2, <4>1, <4>2, <4>6
    <3> QED BY <3>1, <3>2
  <2>18. [heap |-> hh, pairs |-> done] \in Underway(h, e, r, n)
    <3>1. hh[n].kind = "repr"
      BY <1>1, <2>5, <2>14 DEF SameBody
    <3>2. <<r, n>> \in done
      BY <1>1
    <3>3. \A q, z \in done : q[2] = z[2] => q = z
      <4>1. \A q \in c.pairs : q[2] # m
        BY <1>1, <2>5
      <4> QED BY <1>1, <4>1
    <3>4. done \subseteq Ids \X Ids
      BY <2>17
    <3> HIDE DEF done
    <3> QED BY <2>14, <2>15, <2>17, <3>1, <3>2, <3>3, <3>4 DEF Underway
  <2>20. CloneChild(c) = [heap |-> hh, pairs |-> done]
    BY <1>3 DEF CloneChild, hh, g, m, p, child
  <2> QED BY <2>18, <2>20
<1> QED BY <1>2, <1>3

\* A representation is cloned with its children.
LEMMA CloneReprGood ==
  ASSUME NEW h, NEW ext, Good(h, ext), NEW r \in Ids, h[r].kind = "repr", RoomFor(h, r)
  PROVE  LET n == NewId(h)
             g == CloneRepr(h, r).heap
         IN /\ n \in Ids /\ h[n] = Free
            /\ Good(g, Owned(ext, n)) /\ Cloning(h, g, n) /\ g[n].kind = "repr"
            /\ CloneRepr(h, r) \in Underway(h, Owned(ext, n), r, n)
<1> DEFINE n == NewId(h)
           e == Owned(ext, n)
           S == Underway(h, e, r, n)
           c == [heap |-> CloneAlone(h, r), pairs |-> {<<r, n>>}]
           s == [x \in S |-> CloneChild(x)]
           turn == CHOOSE g : g = [i \in Nat |-> IF i = 0 THEN c ELSE CloneChild(g[i - 1])]
<1>1. /\ n \in Ids /\ h[n] = Free /\ n # r
      /\ Good(CloneAlone(h, r), e) /\ Cloning(h, CloneAlone(h, r), n)
      /\ CloneAlone(h, r)[n].kind = "repr" /\ DOMAIN CloneAlone(h, r)[n].items = {}
      /\ Matching(CloneAlone(h, r), r, n, PartNames \cup {"uri"})
  BY CloneAloneGood
<1>2. e \in Outside
  BY <1>1 DEF Good
<1>3. c \in S
  <2> DEFINE g == CloneAlone(h, r)
  <2> HIDE DEF g, n, e
  <2>1. g \in Heaps
    BY <1>1 DEF Good, g
  <2>2. g[r].kind = "repr"
    BY <1>1 DEF Cloning, SameBody, g
  <2>3. c \in [heap : Heaps, pairs : SUBSET (Ids \X Ids)]
    BY <1>1, <2>1 DEF g
  <2>4. Copied(g, {<<r, n>>}, r, n)
    <3>1. g[n].items \in Seq(Vals) /\ g[r].items \in Seq(Vals) /\ DOMAIN g[n].items = {}
      BY <1>1, ItemsOf DEF g
    <3>2. Len(g[n].items) <= Len(g[r].items)
      BY <3>1
    <3> QED BY <1>1, <3>1, <3>2 DEF Copied, g
  <2>5. h[n].kind = "free"
    BY <1>1, FreeIs
  <2> QED BY <1>1, <2>1, <2>2, <2>3, <2>4, <2>5 DEF Underway, g
<1>4. \A x \in S : CloneChild(x) \in S
  <2>1. h[n].kind = "free"
    BY <1>1, FreeIs
  <2> HIDE DEF n, e
  <2> QED BY <1>1, <1>2, <2>1, CloneChildGood
<1> HIDE DEF n, e, S, c
<1>5. s \in [S -> S]
  BY <1>4
<1>6. PICK g : g = [i \in Nat |-> IF i = 0 THEN c ELSE s[g[i - 1]]]
  <2> HIDE DEF s
  <2> QED BY <1>3, <1>5, Iterates
<1>7. \A x \in S : s[x] = CloneChild(x)
  OBVIOUS
<1> HIDE DEF s
<1>8. \A i \in Nat : g[i] = IF i = 0 THEN c ELSE s[g[i - 1]]
  BY <1>6
<1>9. \A i \in Nat : g[i] \in S
  <2>1. g[0] \in S
    BY <1>3, <1>8
  <2>2. ASSUME NEW i \in Nat, g[i] \in S
        PROVE  g[i + 1] \in S
    <3>1. g[i + 1] = s[g[i]]
      BY <1>8
    <3> QED BY <1>4, <1>7, <2>2, <3>1
  <2> QED BY <2>1, <2>2, Stays
<1>10. g = [i \in Nat |-> IF i = 0 THEN c ELSE CloneChild(g[i - 1])]
  <2>1. ASSUME NEW i \in Nat
        PROVE  (IF i = 0 THEN c ELSE s[g[i - 1]]) = (IF i = 0 THEN c ELSE CloneChild(g[i - 1]))
    <3>1. CASE i # 0
      <4>1. i - 1 \in Nat
        BY <3>1
      <4> QED BY <1>7, <1>9, <4>1
    <3> QED BY <3>1
  <2> QED BY <1>6, <2>1
<1>11. turn = [i \in Nat |-> IF i = 0 THEN c ELSE CloneChild(turn[i - 1])]
  BY <1>10
<1> HIDE DEF turn
<1>12. \A i \in Nat : turn[i] = IF i = 0 THEN c ELSE CloneChild(turn[i - 1])
  BY <1>11
<1>13. \A i \in Nat : turn[i] \in S
  <2>1. turn[0] \in S
    BY <1>3, <1>12
  <2>2. ASSUME NEW i \in Nat, turn[i] \in S
        PROVE  turn[i + 1] \in S
    <3>1. turn[i + 1] = CloneChild(turn[i])
      BY <1>12
    <3> QED BY <1>4, <2>2, <3>1
  <2> QED BY <2>1, <2>2, Stays
<1>14. Cardinality(Ids) \in Nat
  BY AddressesAssumption, FS_CardinalityType
<1>15. CloneRepr(h, r) = turn[Cardinality(Ids)]
  BY DEF CloneRepr, After, turn, c, n
<1>16. CloneRepr(h, r) \in S
  BY <1>13, <1>14, <1>15
<1> QED BY <1>1, <1>16 DEF S, Underway, n, e

(***************************************************************************)
(* The state                                                               *)
(***************************************************************************)

\* Who has references outside: the application or the library, and the creator
\* of a received nested value.
RootsOf(h, own) == own \cup {o \in Live(h) : h[o].kind = "request"}
OutsideOf(h, own, lost) ==
  [o \in Ids |-> (IF o \in RootsOf(h, own) THEN 1 ELSE 0) + (IF o \in lost THEN 1 ELSE 0)]

StateOk(h, own, lost) ==
  /\ Good(h, OutsideOf(h, own, lost))
  /\ own \subseteq Ids /\ lost \subseteq Ids
  /\ \A o \in own \cup lost : h[o].kind # "request"

\* Objects stay and others come, but no request.
Grown(h, g) ==
  \A p \in Ids : IF h[p].kind = "free" THEN g[p].kind # "request" ELSE g[p].kind = h[p].kind

\* The references outside are one for a root, one for what is forgotten.
LEMMA OutsideIs ==
  ASSUME NEW h, NEW own, NEW lost
  PROVE  /\ OutsideOf(h, own, lost) \in Outside
         /\ \A o \in Ids : OutsideOf(h, own, lost)[o]
              = (IF o \in RootsOf(h, own) THEN 1 ELSE 0) + (IF o \in lost THEN 1 ELSE 0)
BY DEF OutsideOf, Outside

\* The same references outside.
LEMMA SameOutside ==
  ASSUME NEW f \in Outside, NEW g \in Outside, \A p \in Ids : f[p] = g[p]
  PROVE  f = g
BY DEF Outside

\* What has a reference outside is live.
LEMMA OutsideLive ==
  ASSUME NEW h, NEW e, Good(h, e), NEW o \in Ids, e[o] >= 1
  PROVE  h[o].refs >= 1 /\ h[o].kind # "free" /\ h[o] # Free
<1>1. Count(h, Ids, o) \in Nat /\ e[o] \in Nat
  BY CountLess DEF Good, Outside
<1>2. h[o].refs >= 1
  BY <1>1 DEF Good
<1>3. h[o].kind # "free"
  BY <1>1, <1>2 DEF Good
<1> QED BY <1>2, <1>3, FreeIs

\* Those who have references keep them where objects only go.
LEMMA RootsStay ==
  ASSUME NEW h, NEW own, NEW lost, StateOk(h, own, lost),
         NEW g, NEW e, Good(g, e), Shrinks(h, g), NEW rest \in SUBSET own,
         \A p \in Ids : p \in RootsOf(h, own) /\ p \notin own \ rest => e[p] >= 1,
         \A p \in lost : e[p] >= 1
  PROVE  /\ RootsOf(g, rest) = RootsOf(h, own) \ (own \ rest)
         /\ \A p \in rest \cup lost : g[p].kind # "request"
<1>1. \A p \in Ids : e[p] >= 1 => g[p].kind = h[p].kind /\ g[p].kind # "free" /\ g[p] # Free
  BY OutsideLive DEF Shrinks
<1>2. \A p \in own \cup lost : p \in Ids /\ h[p].kind # "request"
  BY DEF StateOk
<1>3. ASSUME NEW p \in RootsOf(g, rest)
      PROVE  p \in RootsOf(h, own) \ (own \ rest)
  <2>1. CASE p \in rest
    BY <2>1 DEF RootsOf
  <2>2. CASE p \in Live(g) /\ g[p].kind = "request"
    <3>1. p \in Ids /\ h[p].kind = "request"
      BY <2>2 DEF Live, Shrinks
    <3>2. h[p] # Free
      BY <3>1, FreeIs
    <3> QED BY <1>2, <3>1, <3>2 DEF RootsOf, Live
  <2> QED BY <2>1, <2>2 DEF RootsOf
<1>4. ASSUME NEW p \in RootsOf(h, own) \ (own \ rest)
      PROVE  p \in RootsOf(g, rest)
  <2>1. CASE p \in own
    BY <2>1 DEF RootsOf
  <2>2. CASE p \notin own
    <3>1. p \in Ids /\ h[p].kind = "request"
      BY <2>2 DEF RootsOf, Live
    <3>2. e[p] >= 1
      BY <2>2, <3>1
    <3> QED BY <1>1, <3>1, <3>2 DEF RootsOf, Live
  <2> QED BY <2>1, <2>2
<1>5. ASSUME NEW p \in rest \cup lost
      PROVE  g[p].kind # "request"
  <2>1. p \in Ids /\ h[p].kind # "request"
    BY <1>2
  <2>2. CASE p \in rest
    <3>1. e[p] >= 1
      BY <2>1, <2>2 DEF RootsOf
    <3> QED BY <1>1, <2>1, <3>1
  <2>3. CASE p \in lost
    BY <1>1, <2>1, <2>3
  <2> QED BY <2>2, <2>3
<1> QED BY <1>3, <1>4, <1>5

\* A call that leaves everybody the references that he has.
LEMMA KeepOk ==
  ASSUME NEW h, NEW own, NEW lost, StateOk(h, own, lost),
         NEW g, Good(g, OutsideOf(h, own, lost)), Shrinks(h, g)
  PROVE  StateOk(g, own, lost)
<1> DEFINE e == OutsideOf(h, own, lost)
<1>1. /\ \A p \in Ids : p \in RootsOf(h, own) => e[p] >= 1
      /\ \A p \in lost : e[p] >= 1
  BY OutsideIs DEF StateOk
<1>2. own \in SUBSET own /\ \A p \in Ids : p \in RootsOf(h, own) /\ p \notin own \ own => e[p] >= 1
  BY <1>1
<1>3. /\ RootsOf(g, own) = RootsOf(h, own) \ (own \ own)
      /\ \A p \in own \cup lost : g[p].kind # "request"
  <2> HIDE DEF e
  <2> QED BY <1>1, <1>2, RootsStay DEF e
<1>4. RootsOf(g, own) = RootsOf(h, own)
  BY <1>3
<1>5. OutsideOf(g, own, lost) = OutsideOf(h, own, lost)
  BY <1>4 DEF OutsideOf
<1> QED BY <1>3, <1>5 DEF StateOk

\* The destroy function of an object.
LEMMA DestroyOk ==
  ASSUME NEW h, NEW own, NEW lost, StateOk(h, own, lost), NEW o \in own
  PROVE  StateOk(Unref(h, o), own \ {o}, lost)
<1> DEFINE e == OutsideOf(h, own, lost)
           d == [e EXCEPT ![o] = @ - 1]
           g == Unref(h, o)
<1>1. /\ Good(h, e) /\ own \subseteq Ids /\ lost \subseteq Ids /\ o \in Ids
      /\ \A p \in own \cup lost : h[p].kind # "request"
  BY DEF StateOk
<1>2. /\ e \in Outside
      /\ \A p \in Ids : e[p] = (IF p \in RootsOf(h, own) THEN 1 ELSE 0) + (IF p \in lost THEN 1 ELSE 0)
  BY OutsideIs
<1>3. o \in RootsOf(h, own)
  BY DEF RootsOf
<1> HIDE DEF e
<1>4. e[o] >= 1
  BY <1>1, <1>2, <1>3
<1>5. Good(g, d) /\ \A p \in Ids : g[p] = Free \/ SameBody(g[p], h[p])
  BY <1>1, <1>4, UnrefGood
<1>6. Shrinks(h, g)
  BY <1>5, FreeIs DEF Shrinks, SameBody
<1>7. \A p \in Ids : d[p] = IF p = o THEN e[p] - 1 ELSE e[p]
  BY <1>2 DEF Outside
<1>8. d \in Outside
  BY <1>5 DEF Good
<1> HIDE DEF d, g
<1>9. /\ own \ (own \ {o}) = {o}
      /\ \A p \in Ids : p \in RootsOf(h, own) /\ p \notin own \ (own \ {o}) => d[p] >= 1
  BY <1>2, <1>7
<1>10. \A p \in lost : d[p] >= 1
  BY <1>1, <1>2, <1>3, <1>7
<1>11. /\ RootsOf(g, own \ {o}) = RootsOf(h, own) \ (own \ (own \ {o}))
       /\ \A p \in (own \ {o}) \cup lost : g[p].kind # "request"
  <2>1. own \ {o} \in SUBSET own
    OBVIOUS
  <2> QED BY <1>5, <1>6, <1>9, <1>10, <2>1, RootsStay
<1>12. RootsOf(g, own \ {o}) = RootsOf(h, own) \ {o}
  BY <1>9, <1>11
<1>13. OutsideOf(g, own \ {o}, lost) = d
  <2>1. ASSUME NEW p \in Ids
        PROVE  OutsideOf(g, own \ {o}, lost)[p] = d[p]
    <3>1. OutsideOf(g, own \ {o}, lost)[p]
            = (IF p \in RootsOf(g, own \ {o}) THEN 1 ELSE 0) + (IF p \in lost THEN 1 ELSE 0)
      BY OutsideIs
    <3>2. e[p] = (IF p \in RootsOf(h, own) THEN 1 ELSE 0) + (IF p \in lost THEN 1 ELSE 0)
      BY <1>2
    <3>3. CASE p = o
      <4>1. p \in RootsOf(h, own) /\ p \notin RootsOf(g, own \ {o}) /\ d[p] = e[p] - 1
        BY <1>3, <1>7, <1>12, <3>3
      <4> QED BY ONLY <3>1, <3>2, <4>1
    <3>4. CASE p # o
      <4>1. (p \in RootsOf(h, own) <=> p \in RootsOf(g, own \ {o})) /\ d[p] = e[p]
        BY <1>7, <1>12, <3>4
      <4> QED BY ONLY <3>1, <3>2, <4>1
    <3> QED BY <3>3, <3>4
  <2>2. OutsideOf(g, own \ {o}, lost) \in Outside
    BY OutsideIs
  <2> QED BY ONLY <1>8, <2>1, <2>2, SameOutside
<1> QED BY <1>1, <1>5, <1>11, <1>13 DEF StateOk, g

\* A new object that the application owns.
LEMMA CreateOk ==
  ASSUME NEW h, NEW own, NEW lost, StateOk(h, own, lost), NEW n \in Ids, h[n] = Free,
         NEW g, Good(g, Owned(OutsideOf(h, own, lost), n)), Grown(h, g)
  PROVE  StateOk(g, own \cup {n}, lost)
<1> DEFINE e == OutsideOf(h, own, lost)
<1>1. /\ Good(h, e) /\ own \subseteq Ids /\ lost \subseteq Ids
      /\ \A p \in own \cup lost : h[p].kind # "request"
  BY DEF StateOk
<1>2. /\ e \in Outside
      /\ \A p \in Ids : e[p] = (IF p \in RootsOf(h, own) THEN 1 ELSE 0) + (IF p \in lost THEN 1 ELSE 0)
  BY OutsideIs
<1> HIDE DEF e
<1>3. Owned(e, n) \in Outside /\ \A p \in Ids : Owned(e, n)[p] = e[p] + (IF p = n THEN 1 ELSE 0)
  BY <1>2, OwnedIs
<1>4. n \notin RootsOf(h, own) /\ n \notin lost
  <2>1. ~(e[n] >= 1)
    BY <1>1, OutsideLive
  <2> QED BY <1>2, <2>1
<1>5. \A p \in Ids : p # n => (p \in RootsOf(g, own \cup {n}) <=> p \in RootsOf(h, own))
  <2>1. \A p \in Ids : g[p].kind = "request" <=> h[p].kind = "request"
    BY DEF Grown
  <2>2. \A p \in Ids : g[p].kind = "request" => g[p] # Free
    BY FreeIs
  <2>3. \A p \in Ids : h[p].kind = "request" => h[p] # Free
    BY FreeIs
  <2> QED BY <2>1, <2>2, <2>3 DEF RootsOf, Live
<1>6. n \in RootsOf(g, own \cup {n})
  BY DEF RootsOf
<1>7. OutsideOf(g, own \cup {n}, lost) = Owned(e, n)
  <2>1. ASSUME NEW p \in Ids
        PROVE  OutsideOf(g, own \cup {n}, lost)[p] = Owned(e, n)[p]
    <3>1. OutsideOf(g, own \cup {n}, lost)[p]
            = (IF p \in RootsOf(g, own \cup {n}) THEN 1 ELSE 0) + (IF p \in lost THEN 1 ELSE 0)
      BY OutsideIs
    <3>2. e[p] = (IF p \in RootsOf(h, own) THEN 1 ELSE 0) + (IF p \in lost THEN 1 ELSE 0)
      BY <1>2
    <3>3. Owned(e, n)[p] = e[p] + (IF p = n THEN 1 ELSE 0)
      BY <1>3
    <3>4. CASE p = n
      <4>1. p \notin RootsOf(h, own) /\ p \in RootsOf(g, own \cup {n}) /\ p \notin lost
        BY <1>4, <1>6, <3>4
      <4> QED BY ONLY <3>1, <3>2, <3>3, <3>4, <4>1
    <3>5. CASE p # n
      <4>1. p \in RootsOf(h, own) <=> p \in RootsOf(g, own \cup {n})
        BY <1>5, <3>5
      <4> QED BY ONLY <3>1, <3>2, <3>3, <3>5, <4>1
    <3> QED BY <3>4, <3>5
  <2>2. OutsideOf(g, own \cup {n}, lost) \in Outside
    BY OutsideIs
  <2> QED BY ONLY <1>3, <2>1, <2>2, SameOutside
<1>8. \A p \in own \cup {n} \cup lost : g[p].kind # "request"
  BY <1>1, FreeIs DEF Grown
<1> QED BY <1>1, <1>7, <1>8 DEF StateOk, e

\* The references of every object are exactly those who have it, and every
\* object holds what it may.
IInv == StateOk(heap, held, forgotten)
Ext == OutsideOf(heap, held, forgotten)

\* What the invariant says, part by part.
LEMMA IInvIs ==
  ASSUME IInv
  PROVE  /\ Good(heap, Ext) /\ heap \in Heaps /\ Ext \in Outside
         /\ held \subseteq Ids /\ forgotten \subseteq Ids
         /\ \A o \in held \cup forgotten : heap[o].kind # "request"
BY DEF IInv, StateOk, Ext, Good

\* What is in objects are addresses of objects.
LEMMA ContentsIs ==
  ASSUME NEW h, NEW ext, Good(h, ext), NEW o \in Ids, NEW c \in Contents(h[o])
  PROVE  c \in Ids /\ h[c].kind # "free" /\ h[c] # Free
<1>1. PICK x \in ToSet(h[o].items) \cup ToSet(h[o].fields) : IsHandle(x) /\ c = x.v
  BY DEF Contents
<1>2. \/ \E i \in DOMAIN h[o].items : h[o].items[i] = x
      \/ \E k \in DOMAIN h[o].fields : h[o].fields[k] = x
  BY <1>1 DEF ToSet
<1>3. x \in Vals
  BY <1>2, ItemsOf
<1>4. c \in Ids /\ h[c].kind = x.type
  BY <1>1, <1>2, <1>3, HeldInside
<1>5. x.type # "free"
  BY <1>1, <1>3, HandleIs
<1> QED BY <1>4, <1>5, FreeIs

\* The application uses objects.
LEMMA UsableIs ==
  ASSUME IInv, NEW d, d # "free", NEW o \in UsableOf(d)
  PROVE  o \in Ids /\ heap[o].kind = d /\ heap[o].kind # "free"
<1>1. Good(heap, Ext) /\ held \subseteq Ids
  BY IInvIs
<1>2. Roots \in SUBSET Ids
  BY <1>1 DEF Roots, Live
<1>3. \A T \in SUBSET Ids : UNION {Contents(heap[q]) : q \in T} \subseteq Ids
  BY <1>1, ContentsIs
<1>4. Reach(heap, Roots) \subseteq Ids
  BY <1>2, <1>3, ReachIs
<1> QED BY <1>1, <1>4 DEF UsableOf, Usable

\* The values that the application puts into objects.
LEMMA ValuesAre ==
  ASSUME IInv, NEW x \in Values
  PROVE  x \in Vals /\ Fits(heap, x)
<1>1. CASE \E t \in scene.types \cap (Basic \ {"null"}), w \in Words : x = Value(t, w)
  <2>1. PICK t \in Basic, w \in Words : x = Value(t, w)
    BY <1>1
  <2> QED BY <2>1 DEF Value, Vals, Plain, Fits, IsHandle, Kinds, Basic, Nested, Sets
<1>2. CASE x = Value("null", Null)
  BY <1>2 DEF Value, Vals, Plain, Fits, IsHandle, Kinds, Basic, Nested, Sets
<1>3. CASE \E o \in UsableOf("list") \cup UsableOf("state") : x = Value(heap[o].kind, o)
  <2>1. PICK o \in UsableOf("list") \cup UsableOf("state") : x = Value(heap[o].kind, o)
    BY <1>3
  <2>2. o \in Ids /\ heap[o].kind \in Nested
    BY <2>1, UsableIs DEF Nested
  <2> QED BY <2>1, <2>2 DEF Value, Vals, Handles, Fits
<1> QED BY <1>1, <1>2, <1>3 DEF Values

\* A word as a value is no handle, an object as a value is one that fits.
LEMMA WordIs ==
  ASSUME NEW w \in Words \cup {"link", "batch", "baseline"}
  PROVE  /\ Value("str", w) \in Vals /\ ~IsHandle(Value("str", w))
         /\ Value("str", w).type = "str" /\ Value("str", w).v = w
         /\ \A h : Fits(h, Value("str", w))
BY DEF Value, Vals, Plain, Fits, IsHandle, Kinds, Basic, Nested, Sets

\* The handle of an object.
LEMMA ObjectIs ==
  ASSUME NEW h, NEW o \in Ids, h[o].kind \in Nested \cup Sets \cup {"options", "repr"}
  PROVE  LET x == Value(h[o].kind, o)
         IN x \in Vals /\ IsHandle(x) /\ x.type = h[o].kind /\ x.v = o /\ Fits(h, x)
BY DEF Value, Vals, Handles, Fits, IsHandle, Kinds

\* What is empty holds what it may, and has nothing.
LEMMA EmptyIs ==
  ASSUME NEW obj, DOMAIN obj.items = {}, DOMAIN obj.fields = {}
  PROVE  /\ \A h : ObjectOk(h, obj)
         /\ \A p : Uses(obj, p) = 0
<1>1. \A h : ObjectOk(h, obj)
  BY DEF ObjectOk
<1>2. \A p : PlacesIn(obj, p) = {}
  BY DEF PlacesIn
<1> QED BY <1>1, <1>2, FS_EmptySet DEF Uses

\* An object as it is created, with nothing in it.
LEMMA BlankAlone ==
  ASSUME NEW d \in Kinds, NEW t, t \in Basic \cup Nested \cup {""},
         NEW obj, obj = Blank(d, t), d = "repr" => t = ""
  PROVE  /\ obj \in Objects /\ obj.kind = d /\ obj.refs = 1 /\ obj.kind # "free"
         /\ DOMAIN obj.items = {} /\ DOMAIN obj.fields = {}
<1>1. obj.kind = d /\ obj.refs = 1 /\ obj.items = <<>> /\ obj.fields = <<>>
  BY DEF Blank
<1>2. obj.kind # "free"
  BY <1>1 DEF Kinds, Nested, Sets
<1>3. obj \in Objects
  <2>1. <<>> \in Seq(Vals) /\ 1 \in Nat
    BY Zenon, SmallTables, 1 \in Nat
  <2>2. <<>> \in FieldTables
    BY SmallTables
  <2> QED BY <2>1, <2>2 DEF Objects, Blank
<1>4. DOMAIN obj.items = {} /\ DOMAIN obj.fields = {}
  BY <1>1, SmallTables
<1> QED BY <1>1, <1>2, <1>3, <1>4

\* A new object of kind d has come to h, with a reference beside those of ext.
Comes(h, g, ext, d) ==
  LET n == NewId(h)
  IN /\ n \in Ids /\ h[n] = Free /\ Good(g, Owned(ext, n)) /\ g[n].kind = d
     /\ \A p \in Ids \ {n} : g[p] = h[p]
     /\ Live(g) = Live(h) \cup {n}

\* A new object that is empty comes to the heap.
LEMMA NewBlank ==
  ASSUME NEW h, NEW ext, Good(h, ext), Room(h, 1),
         NEW d \in Kinds, NEW t, t \in Basic \cup Nested \cup {""}, d = "repr" => t = ""
  PROVE  Comes(h, New(h, Blank(d, t)), ext, d)
<1> DEFINE n == NewId(h)
           obj == Blank(d, t)
           g == New(h, obj)
           e == Owned(ext, n)
<1>1. ext \in Outside
  BY DEF Good
<1>2. Live(h) # Ids
  <2>1. Cardinality(Ids \ Live(h)) >= 1
    BY DEF Room
  <2>2. 1 \in Nat /\ 1 >= 1
    BY ONLY TRUE
  <2> QED BY <2>1, <2>2, RoomIs
<1>3. /\ obj \in Objects /\ obj.kind = d /\ obj.refs = 1 /\ obj.kind # "free"
      /\ ObjectOk(h, obj) /\ \A p \in Ids : Uses(obj, p) = 0
  <2>1. obj = Blank(d, t)
    OBVIOUS
  <2> HIDE DEF obj
  <2>2. obj \in Objects /\ obj.kind = d /\ obj.refs = 1 /\ obj.kind # "free"
    BY ONLY <2>1, BlankAlone, d \in Kinds, t \in Basic \cup Nested \cup {""}, d = "repr" => t = ""
  <2>3. DOMAIN obj.items = {} /\ DOMAIN obj.fields = {}
    BY ONLY <2>1, BlankAlone, d \in Kinds, t \in Basic \cup Nested \cup {""}, d = "repr" => t = ""
  <2>4. ObjectOk(h, obj) /\ \A p \in Ids : Uses(obj, p) = 0
    BY <2>3, EmptyIs
  <2> QED BY <2>2, <2>3, <2>4
<1>4. n \in Ids
  BY <1>2 DEF NewId, Live
<1>5. e \in Outside /\ \A p \in Ids : e[p] = ext[p] + (IF p = n THEN 1 ELSE 0)
  BY <1>1, <1>4, OwnedIs
<1> HIDE DEF obj, e
<1>6. ASSUME NEW p \in Ids
      PROVE  ext[p] + (IF p = n THEN obj.refs ELSE 0) = e[p] + Uses(obj, p)
  <2>1. /\ ext[p] \in Nat /\ obj.refs = 1 /\ Uses(obj, p) = 0
        /\ e[p] = ext[p] + (IF p = n THEN 1 ELSE 0)
    BY <1>1, <1>3, <1>5 DEF Outside
  <2> QED BY ONLY <2>1
<1>7. /\ h[n] = Free /\ Good(g, e)
      /\ g[n] = obj /\ \A p \in Ids \ {n} : g[p] = h[p]
      /\ Live(g) = Live(h) \cup {n}
  <2>1. obj.refs >= 1
    BY ONLY <1>3
  <2>2. /\ Good(h, ext) /\ Live(h) # Ids /\ obj \in Objects /\ e \in Outside /\ obj.kind # "free"
        /\ ObjectOk(h, obj)
    BY <1>2, <1>3, <1>5
  <2>3. \A p \in Ids : ext[p] + (IF p = NewId(h) THEN obj.refs ELSE 0) = e[p] + Uses(obj, p)
    BY <1>6
  <2> HIDE DEF g
  <2> QED BY ONLY <2>1, <2>2, <2>3, NewGood DEF g
<1> QED BY <1>3, <1>4, <1>7 DEF obj, e, Comes

(***************************************************************************)
(* What each call does to it                                               *)
(***************************************************************************)

\* A call that keeps who has references outside.
LEMMA KeepStep ==
  ASSUME IInv, NEW g, Good(g, Ext), Shrinks(heap, g), Keep(g)
  PROVE  IInv'
<1>1. StateOk(g, held, forgotten)
  BY KeepOk DEF IInv, Ext
<1> QED BY <1>1 DEF IInv, Keep, Store, Change

\* A create function.
LEMMA CreateStep ==
  ASSUME IInv, NEW d \in Kinds \ {"request"}, NEW t, t \in Basic \cup Nested \cup {""}, Create(d, t),
         d = "repr" => t = ""
  PROVE  IInv'
<1> DEFINE n == NewId(heap)
           g == New(heap, Blank(d, t))
<1>1. Good(heap, Ext) /\ Room(heap, 1)
  BY IInvIs DEF Create
<1>2. /\ n \in Ids /\ heap[n] = Free
      /\ Good(g, Owned(Ext, n))
      /\ g[n].kind = d /\ \A p \in Ids \ {n} : g[p] = heap[p]
      /\ Live(g) = Live(heap) \cup {n}
  <2>1. d \in Kinds
    OBVIOUS
  <2>2. Comes(heap, g, Ext, d)
    BY <1>1, <2>1, NewBlank
  <2> HIDE DEF g
  <2> QED BY <2>2 DEF Comes
<1>3. Grown(heap, g)
  BY <1>2, FreeIs DEF Grown
<1>4. StateOk(g, held \cup {n}, forgotten)
  BY <1>2, <1>3, CreateOk DEF IInv, Ext
<1>5. heap' = g /\ held' = held \cup {n} /\ forgotten' = forgotten
  BY DEF Create, Store, Change, New
<1> QED BY <1>4, <1>5 DEF IInv

\* A destroy function.
LEMMA DestroyStep ==
  ASSUME IInv, NEW o, Destroy(o)
  PROVE  IInv'
BY DestroyOk DEF IInv, Destroy, Store, Change

\* What comes to the application is its own, a copy of an object.
LEMMA ClonedStep ==
  ASSUME IInv, NEW o, NEW g, Cloned(o, g), NewId(heap) \in Ids, heap[NewId(heap)] = Free,
         Good(g, Owned(Ext, NewId(heap))), Cloning(heap, g, NewId(heap))
  PROVE  IInv'
<1>1. Grown(heap, g)
  BY FreeIs DEF Grown, Cloning, Messages, SameBody
<1>2. StateOk(g, held \cup {NewId(heap)}, forgotten)
  BY <1>1, CreateOk DEF IInv, Ext
<1> QED BY <1>2 DEF IInv, Cloned

\* Objects grow and shrink: all but the free ones keep their kind.
LEMMA KindsStay ==
  ASSUME NEW h, NEW g, \A p \in Ids : g[p].kind = h[p].kind
  PROVE  Shrinks(h, g)
BY DEF Shrinks

\* One reference is taken for the handle of an object as for the object.
LEMMA RefIs ==
  ASSUME NEW h, NEW o \in Ids, NEW d \in Nested \cup Sets \cup {"options", "repr"}
  PROVE  /\ RefValue(h, Value(d, o)) = Ref(h, o)
         /\ UnrefValue(h, Value(d, o)) = Unref(h, o)
         /\ Value(d, o) \in Vals /\ IsHandle(Value(d, o))
         /\ Value(d, o).type = d /\ Value(d, o).v = o
BY DEF RefValue, UnrefValue, Value, IsHandle, Kinds, Vals, Handles

\* A value is put into a list.
LEMMA ListAddStep ==
  ASSUME IInv, NEW l \in UsableOf("list"), NEW x \in Values, NEW pos \in {-1, 0}, ListAdd(l, x, pos)
  PROVE  IInv'
<1>1. l \in Ids /\ heap[l].kind = "list"
  <2>1. "list" # "free"
    OBVIOUS
  <2> QED BY <2>1, UsableIs
<1>2. Good(heap, Ext) /\ heap[l].items \in Seq(Vals) /\ x \in Vals /\ Fits(heap, x)
  BY <1>1, IInvIs, ItemsOf, ValuesAre
<1> DEFINE s == heap[l].items
           t == InsertNth(s, x, pos)
<1>3. /\ t \in Seq(Vals)
      /\ \A p : Cardinality(At(t, p)) = Cardinality(At(s, p)) + One(x, p)
      /\ \A j \in DOMAIN t : t[j] = x \/ \E k \in DOMAIN s : t[j] = s[k]
  <2>1. CASE pos \in 0 .. Len(s)
    <3>1. t = InsertAt(s, pos + 1, x)
      BY <2>1 DEF InsertNth
    <3>2. pos + 1 \in 1 .. Len(s) + 1
      <4>1. Len(s) \in Nat
        BY <1>2
      <4> QED BY ONLY <2>1, <4>1
    <3> HIDE DEF t, s
    <3> QED BY <1>2, <3>1, <3>2, InsertAtCount DEF s
  <2>2. CASE pos \notin 0 .. Len(s)
    <3>1. t = Append(s, x)
      BY <2>2 DEF InsertNth
    <3> HIDE DEF t, s
    <3> QED BY <1>2, <3>1, AppendCount DEF s
  <2> QED BY <2>1, <2>2
<1> DEFINE g == [RefValue(heap, x) EXCEPT ![l].items = t]
<1>4. Good(g, Ext) /\ \A p \in Ids : g[p].kind = heap[p].kind
  <2>1. ItemOk(heap[l].kind, x) /\ heap[l].kind # "free"
    BY <1>1 DEF ItemOk
  <2> HIDE DEF t
  <2> QED BY <1>1, <1>2, <1>3, <2>1, AddItemGood
<1>5. Keep([RefValue(heap, x) EXCEPT ![l].items = InsertNth(@, x, pos)])
  BY DEF ListAdd
<1>6. [RefValue(heap, x) EXCEPT ![l].items = InsertNth(@, x, pos)] = g
  <2>1. \A p \in Ids : SameBody(RefValue(heap, x)[p], heap[p])
    BY <1>2, RefValueGood
  <2>2. RefValue(heap, x)[l].items = s
    BY <1>1, <2>1 DEF SameBody
  <2> QED BY <2>2
<1>7. Keep(g)
  BY <1>5, <1>6
<1> HIDE DEF g
<1> QED BY <1>4, <1>7, KindsStay, KeepStep

\* A value is taken out of a list.
LEMMA RemoveNthStep ==
  ASSUME IInv, NEW l \in UsableOf("list"), NEW pos, RemoveNth(l, pos)
  PROVE  IInv'
<1>1. l \in Ids /\ heap[l].kind = "list"
  <2>1. "list" # "free"
    OBVIOUS
  <2> QED BY <2>1, UsableIs
<1>2. Good(heap, Ext) /\ pos \in DOMAIN heap[l].items
  BY IInvIs DEF RemoveNth
<1> DEFINE g == UnrefValue([heap EXCEPT ![l].items = RemoveAt(heap[l].items, pos)], heap[l].items[pos])
<1>3. Good(g, Ext) /\ Shrinks(heap, g)
  BY <1>1, <1>2, DropItemGood
<1>4. Keep(g)
  BY DEF RemoveNth, Nth
<1> HIDE DEF g
<1> QED BY <1>3, <1>4, KeepStep

\* A value is set in an object's table.
LEMMA SetFieldStep ==
  ASSUME IInv, NEW o \in Ids, heap[o].kind # "free", NEW k \in FieldNames, NEW x \in Vals,
         Fits(heap, x), FieldOk(heap[o].kind, k, x), Keep(SetField(heap, o, k, x))
  PROVE  IInv'
<1>1. Good(heap, Ext)
  BY IInvIs
<1>2. Good(SetField(heap, o, k, x), Ext) /\ Shrinks(heap, SetField(heap, o, k, x))
  BY <1>1, SetFieldGood
<1> QED BY <1>2, KeepStep

\* A value is taken out of an object's table.
LEMMA ClearFieldStep ==
  ASSUME IInv, NEW o \in Ids, NEW k \in DOMAIN heap[o].fields, Keep(ClearField(heap, o, k))
  PROVE  IInv'
<1>1. Good(heap, Ext)
  BY IInvIs
<1>2. Good(ClearField(heap, o, k), Ext) /\ Shrinks(heap, ClearField(heap, o, k))
  BY <1>1, ClearFieldGood
<1> QED BY <1>2, KeepStep

\* The calls on a state.
LEMMA StateStep ==
  ASSUME IInv, NEW s \in UsableOf("state"), NEW k \in Keys,
         \/ \E x \in Values : StateAdd(s, k, x) \/ StateAddNested(s, k, x)
         \/ StateRemove(s, k)
  PROVE  IInv'
<1>1. s \in Ids /\ heap[s].kind = "state" /\ heap[s].kind # "free"
  <2>1. "state" # "free"
    OBVIOUS
  <2> QED BY <2>1, UsableIs
<1>2. ASSUME NEW x \in Values, StateAdd(s, k, x) \/ StateAddNested(s, k, x)
      PROVE  IInv'
  <2>1. x \in Vals /\ Fits(heap, x)
    BY ValuesAre
  <2>2. k \in FieldNames
    BY DEF FieldNames
  <2>3. FieldOk(heap[s].kind, k, x)
    BY <1>1 DEF FieldOk
  <2>4. Keep(SetField(heap, s, k, x))
    BY <1>2 DEF StateAdd, StateAddNested
  <2> QED BY <1>1, <2>1, <2>2, <2>3, <2>4, SetFieldStep
<1>3. ASSUME StateRemove(s, k)
      PROVE  IInv'
  BY <1>1, <1>3, ClearFieldStep DEF StateRemove
<1> QED BY <1>2, <1>3

\* A name is added to a set of types or interfaces.
LEMMA NameAddStep ==
  ASSUME IInv, NEW o \in Ids, heap[o].kind \in Sets, NEW w \in Words, NameAdd(o, Value("str", w))
  PROVE  IInv'
<1> DEFINE x == Value("str", w)
           s == heap[o].items
           t == Append(s, x)
           g == [heap EXCEPT ![o].items = t]
<1>1. Good(heap, Ext) /\ s \in Seq(Vals)
  BY IInvIs, ItemsOf
<1>2. x \in Vals /\ ~IsHandle(x) /\ Fits(heap, x)
  <2>1. w \in Words \cup {"link", "batch", "baseline"}
    OBVIOUS
  <2> QED BY <2>1, WordIs
<1>3. Keep(g)
  BY DEF NameAdd
<1> HIDE DEF x
<1>4. /\ t \in Seq(Vals)
      /\ \A p : Cardinality(At(t, p)) = Cardinality(At(s, p)) + One(x, p)
      /\ \A j \in DOMAIN t : t[j] = x \/ \E k \in DOMAIN s : t[j] = s[k]
  BY <1>1, <1>2, AppendCount
<1>5. ItemOk(heap[o].kind, x) /\ heap[o].kind # "free"
  BY DEF ItemOk, Sets
<1>6. g = [RefValue(heap, x) EXCEPT ![o].items = t]
  BY <1>2 DEF RefValue
<1>7. Good(g, Ext) /\ \A p \in Ids : g[p].kind = heap[p].kind
  <2> DEFINE c == [RefValue(heap, x) EXCEPT ![o].items = t]
  <2>1. c = g
    BY <1>6
  <2> HIDE DEF t, g
  <2>2. Good(c, Ext) /\ \A p \in Ids : c[p].kind = heap[p].kind
    <3>1. /\ Good(heap, Ext) /\ o \in Ids /\ heap[o].kind # "free"
          /\ x \in Vals /\ Fits(heap, x) /\ ItemOk(heap[o].kind, x) /\ t \in Seq(Vals)
      BY <1>1, <1>2, <1>4, <1>5
    <3>2. \A p \in Ids : Cardinality(At(t, p)) = Cardinality(At(heap[o].items, p)) + One(x, p)
      BY <1>4
    <3>3. \A j \in DOMAIN t : t[j] = x \/ \E k \in DOMAIN heap[o].items : t[j] = heap[o].items[k]
      BY <1>4
    <3> QED BY ONLY <3>1, <3>2, <3>3, AddItemGood
  <2> QED BY <2>1, <2>2
<1> HIDE DEF g
<1> QED BY <1>3, <1>7, KindsStay, KeepStep

\* A name is taken out of a set.
LEMMA NameRemoveStep ==
  ASSUME IInv, NEW o \in Ids, heap[o].kind \in Sets, NEW w \in Words, NameRemove(o, Value("str", w))
  PROVE  IInv'
<1> DEFINE x == Value("str", w)
           s == heap[o].items
           g == [heap EXCEPT ![o].items = RemoveFirst(s, x)]
<1>1. Good(heap, Ext) /\ s \in Seq(Vals)
  BY IInvIs, ItemsOf
<1>2. x \in Vals /\ ~IsHandle(x)
  <2>1. w \in Words \cup {"link", "batch", "baseline"}
    OBVIOUS
  <2> QED BY <2>1, WordIs
<1>3. Keep(g) /\ x \in ToSet(s)
  BY DEF NameRemove
<1> HIDE DEF x
<1>4. PICK i \in 1 .. Len(s) : s[i] = x /\ RemoveFirst(s, x) = RemoveAt(s, i)
  BY <1>1, <1>3, RemoveFirstIs
<1>5. i \in DOMAIN heap[o].items
  BY <1>1, <1>4
<1> DEFINE c == UnrefValue([heap EXCEPT ![o].items = RemoveAt(heap[o].items, i)], heap[o].items[i])
<1>6. Good(c, Ext) /\ Shrinks(heap, c)
  BY <1>1, <1>5, DropItemGood
<1>7. c = g
  BY <1>2, <1>4 DEF UnrefValue
<1> HIDE DEF c, g
<1> QED BY <1>3, <1>6, <1>7, KeepStep

\* The calls on a set of types or interfaces.
LEMMA NamesStep ==
  ASSUME IInv, NEW o, o \in UsableOf("types") \cup UsableOf("interfaces"), NEW w \in Words,
         NameAdd(o, Value("str", w)) \/ NameRemove(o, Value("str", w))
  PROVE  IInv'
<1>1. o \in Ids /\ heap[o].kind \in Sets
  <2>1. "types" # "free" /\ "interfaces" # "free"
    OBVIOUS
  <2> QED BY <2>1, UsableIs DEF Sets
<1> QED BY <1>1, NameAddStep, NameRemoveStep

\* The calls on a set of options.
LEMMA OptionsStep ==
  ASSUME IInv, NEW o \in UsableOf("options"), NEW k \in Keys,
         OptionsRemove(o, k) \/ \E w \in Words : OptionsAdd(o, k, w)
  PROVE  IInv'
<1>1. o \in Ids /\ heap[o].kind = "options" /\ heap[o].kind # "free"
  <2>1. "options" # "free"
    OBVIOUS
  <2> QED BY <2>1, UsableIs
<1>2. ASSUME NEW w \in Words, OptionsAdd(o, k, w)
      PROVE  IInv'
  <2> DEFINE x == Value("str", w)
  <2>1. x \in Vals /\ Fits(heap, x)
    <3>1. w \in Words \cup {"link", "batch", "baseline"}
      OBVIOUS
    <3> QED BY <3>1, WordIs
  <2>2. k \in FieldNames /\ Keep(SetField(heap, o, k, x))
    BY <1>2 DEF FieldNames, OptionsAdd
  <2>3. FieldOk(heap[o].kind, k, x)
    BY <1>1 DEF FieldOk
  <2> HIDE DEF x
  <2> QED BY <1>1, <2>1, <2>2, <2>3, SetFieldStep
<1>3. ASSUME OptionsRemove(o, k)
      PROVE  IInv'
  BY <1>1, <1>3, ClearFieldStep DEF OptionsRemove
<1> QED BY <1>2, <1>3

\* A representation's URI is set.
LEMMA SetUriStep ==
  ASSUME IInv, NEW r \in UsableOf("repr"), NEW w \in Words, ReprSetUri(r, w)
  PROVE  IInv'
<1> DEFINE x == Value("str", w)
<1>1. r \in Ids /\ heap[r].kind = "repr" /\ heap[r].kind # "free"
  <2>1. "repr" # "free"
    OBVIOUS
  <2> QED BY <2>1, UsableIs
<1>2. x \in Vals /\ Fits(heap, x) /\ ~IsHandle(x)
  <2>1. w \in Words \cup {"link", "batch", "baseline"}
    OBVIOUS
  <2> QED BY <2>1, WordIs
<1>3. "uri" \in FieldNames /\ Keep(SetField(heap, r, "uri", x))
  BY DEF FieldNames, ReprSetUri
<1>4. FieldOk(heap[r].kind, "uri", x)
  BY <1>1, <1>2 DEF FieldOk
<1> HIDE DEF x
<1> QED BY <1>1, <1>2, <1>3, <1>4, SetFieldStep

\* A part of a representation is set or cleared.
LEMMA ReprSetStep ==
  ASSUME IInv, NEW r \in UsableOf("repr"), NEW k \in PartNames,
         NEW o \in UsableOf(k) \cup {Null}, ReprSet(r, k, o)
  PROVE  IInv'
<1>1. r \in Ids /\ heap[r].kind = "repr" /\ heap[r].kind # "free"
  <2>1. "repr" # "free"
    OBVIOUS
  <2> QED BY <2>1, UsableIs
<1>2. CASE o # Null /\ Keep(SetField(heap, r, k, Value(k, o)))
  <2> DEFINE x == Value(k, o)
  <2>1. k # "free" /\ k \in Nested \cup Sets /\ k \in FieldNames
    BY DEF PartNames, Nested, Sets, FieldNames
  <2>2. o \in Ids /\ heap[o].kind = k
    BY <1>2, <2>1, UsableIs
  <2>3. x \in Vals /\ x.type = k /\ x.v = o
    BY <2>1, <2>2, RefIs
  <2>4. Fits(heap, x)
    BY <2>2, <2>3 DEF Fits
  <2>5. FieldOk(heap[r].kind, k, x)
    BY <1>1, <2>3 DEF FieldOk, PartNames
  <2> HIDE DEF x
  <2> QED BY <1>1, <1>2, <2>1, <2>3, <2>4, <2>5, SetFieldStep DEF x
<1>3. CASE k \in DOMAIN heap[r].fields /\ Keep(ClearField(heap, r, k))
  BY <1>1, <1>3, ClearFieldStep
<1> QED BY <1>2, <1>3 DEF ReprSet

\* A representation gets a child.
LEMMA AddChildStep ==
  ASSUME IInv, NEW r \in UsableOf("repr"), NEW c \in UsableOf("repr"), AddChild(r, c)
  PROVE  IInv'
<1> DEFINE x == Value("repr", c)
           s == heap[r].items
           t == Append(s, x)
           g == [RefValue(heap, x) EXCEPT ![r].items = t]
<1>1. /\ r \in Ids /\ heap[r].kind = "repr" /\ heap[r].kind # "free"
      /\ c \in Ids /\ heap[c].kind = "repr"
  <2>1. "repr" # "free"
    OBVIOUS
  <2> QED BY <2>1, UsableIs
<1>2. Good(heap, Ext) /\ s \in Seq(Vals)
  BY <1>1, IInvIs, ItemsOf
<1>3. x \in Vals /\ x.type = "repr" /\ x.v = c /\ RefValue(heap, x) = Ref(heap, c)
  <2>1. "repr" \in Nested \cup Sets \cup {"options", "repr"}
    OBVIOUS
  <2> QED BY <1>1, <2>1, RefIs
<1>4. Fits(heap, x) /\ ItemOk(heap[r].kind, x)
  BY <1>1, <1>3 DEF Fits, ItemOk
<1>5. Keep([Ref(heap, c) EXCEPT ![r].items = Append(@, x)])
  BY DEF AddChild
<1> HIDE DEF x
<1>6. [Ref(heap, c) EXCEPT ![r].items = Append(@, x)] = g
  <2>1. \A p \in Ids : SameBody(RefValue(heap, x)[p], heap[p])
    BY <1>2, <1>3, <1>4, RefValueGood
  <2>2. RefValue(heap, x)[r].items = s
    BY <1>1, <2>1 DEF SameBody
  <2> QED BY <1>3, <2>2
<1>7. Good(g, Ext) /\ \A p \in Ids : g[p].kind = heap[p].kind
  <2>1. /\ t \in Seq(Vals)
        /\ \A p : Cardinality(At(t, p)) = Cardinality(At(s, p)) + One(x, p)
        /\ \A j \in DOMAIN t : t[j] = x \/ \E k \in DOMAIN s : t[j] = s[k]
    BY <1>2, <1>3, AppendCount
  <2> HIDE DEF t
  <2>2. /\ Good(heap, Ext) /\ r \in Ids /\ heap[r].kind # "free"
        /\ x \in Vals /\ Fits(heap, x) /\ ItemOk(heap[r].kind, x) /\ t \in Seq(Vals)
    BY <1>1, <1>2, <1>3, <1>4, <2>1
  <2>3. \A p \in Ids : Cardinality(At(t, p)) = Cardinality(At(heap[r].items, p)) + One(x, p)
    BY <2>1
  <2>4. \A j \in DOMAIN t : t[j] = x \/ \E k \in DOMAIN heap[r].items : t[j] = heap[r].items[k]
    BY <2>1
  <2> QED BY ONLY <2>2, <2>3, <2>4, AddItemGood
<1>8. Keep(g)
  BY <1>5, <1>6
<1> HIDE DEF g
<1> QED BY <1>7, <1>8, KindsStay, KeepStep

\* What the program can get at is held by something that does not go with it.
LEMMA UsedOutside ==
  ASSUME IInv, NEW d, d # "free", NEW o \in UsableOf(d)
  PROVE  Count(heap, Going(heap, o), o) < heap[o].refs
<1> DEFINE F == Going(heap, o)
           R == Ids \ F
<1>1. /\ Good(heap, Ext) /\ heap \in Heaps /\ Ext \in Outside
      /\ o \in Ids /\ heap[o].kind # "free"
  BY IInvIs, UsableIs
<1>2. /\ F \subseteq Live(heap) /\ F \subseteq Ids
      /\ \A p \in Ids : heap[p].refs \in Nat
      /\ \A p \in Live(heap) : p \in F <=> Lost(heap, o, F, p) >= heap[p].refs
  BY <1>1, GoingLoses DEF Live
<1> HIDE DEF F
<1> SUFFICES ASSUME ~(Count(heap, F, o) < heap[o].refs)
             PROVE  FALSE
  BY DEF F
<1>3. ASSUME NEW p \in Ids
      PROVE  /\ Count(heap, F, p) \in Nat /\ Count(heap, R, p) \in Nat /\ Ext[p] \in Nat
             /\ heap[p].refs = Ext[p] + Count(heap, F, p) + Count(heap, R, p)
             /\ Lost(heap, o, F, p) = Count(heap, F, p) + (IF p = o THEN 1 ELSE 0)
  <2>1. /\ Count(heap, Ids, p) \in Nat /\ Count(heap, F, p) \in Nat /\ Count(heap, R, p) \in Nat
        /\ Count(heap, Ids, p) = Count(heap, F, p) + Count(heap, R, p)
    <3>1. heap \in Heaps /\ F \subseteq Ids
      BY <1>1, <1>2
    <3> QED BY ONLY <3>1, CountLess
  <2>2. heap[p].refs = Ext[p] + Count(heap, Ids, p) /\ Ext[p] \in Nat
    BY <1>1 DEF Good, Outside
  <2>3. Lost(heap, o, F, p) = Count(heap, F, p) + (IF p = o THEN 1 ELSE 0)
    BY DEF Lost, Count
  <2> HIDE DEF R
  <2> QED BY <2>1, <2>2, <2>3
<1>4. o \in F
  <2>1. o \in Live(heap)
    BY <1>1, FreeIs DEF Live
  <2>2. Lost(heap, o, F, o) = Count(heap, F, o) + 1 /\ Count(heap, F, o) \in Nat /\ heap[o].refs \in Nat
    BY <1>1, <1>2, <1>3
  <2>3. Lost(heap, o, F, o) >= heap[o].refs
    BY <2>2
  <2> QED BY <1>2, <2>1, <2>3
<1>5. ASSUME NEW c \in F
      PROVE  Ext[c] = 0 /\ Count(heap, R, c) = 0
  <2>1. c \in Ids /\ c \in Live(heap)
    BY <1>2
  <2>2. /\ Count(heap, F, c) \in Nat /\ Count(heap, R, c) \in Nat /\ Ext[c] \in Nat
        /\ heap[c].refs = Ext[c] + Count(heap, F, c) + Count(heap, R, c)
        /\ heap[c].refs \in Nat
    BY <1>2, <1>3, <2>1
  <2>3. Count(heap, F, c) >= heap[c].refs
    <3>1. CASE c = o
      BY <2>2, <3>1
    <3>2. CASE c # o
      <4>1. Lost(heap, o, F, c) = Count(heap, F, c) + 0
        BY <1>3, <2>1, <3>2
      <4>2. Lost(heap, o, F, c) >= heap[c].refs
        BY <1>2, <2>1
      <4> QED BY <2>2, <4>1, <4>2
    <3> QED BY <3>1, <3>2
  <2> HIDE DEF R
  <2> QED BY <2>2, <2>3
<1>6. Roots \in SUBSET R
  <2> SUFFICES ASSUME NEW c \in Roots
               PROVE  c \in R
    OBVIOUS
  <2>1. c \in Ids
    BY IInvIs DEF Roots, Live
  <2>2. c \in RootsOf(heap, held)
    BY DEF Roots, RootsOf
  <2>3. Ext[c] = 1 + (IF c \in forgotten THEN 1 ELSE 0)
    BY <2>1, <2>2, OutsideIs DEF Ext
  <2> QED BY <1>5, <2>1, <2>3
<1>7. \A T \in SUBSET R : UNION {Contents(heap[q]) : q \in T} \subseteq R
  <2> SUFFICES ASSUME NEW q \in R, NEW c \in Contents(heap[q])
               PROVE  c \in R
    OBVIOUS
  <2>1. c \in Ids
    BY <1>1, ContentsIs
  <2>2. PICK x \in ToSet(heap[q].items) \cup ToSet(heap[q].fields) : IsHandle(x) /\ c = x.v
    BY DEF Contents
  <2>3. \/ \E i \in DOMAIN heap[q].items : heap[q].items[i] = x
        \/ \E k \in DOMAIN heap[q].fields : heap[q].fields[k] = x
    BY <2>2 DEF ToSet
  <2>4. Has(x, c)
    BY <2>2 DEF Has
  <2>5. R \in SUBSET Ids
    OBVIOUS
  <2>6. Count(heap, R, c) >= 1
    <3> HIDE DEF R
    <3> QED BY <1>1, <2>3, <2>4, <2>5, UsedCounts
  <2> QED BY <1>5, <2>1, <2>6
<1>8. Reach(heap, Roots) \subseteq R
  <2> HIDE DEF R
  <2> QED BY <1>6, <1>7, ReachIs
<1>9. o \in R
  BY <1>6, <1>8 DEF UsableOf, Usable, Roots
<1> QED BY <1>4, <1>9

\* A representation loses a child.
LEMMA RemoveChildStep ==
  ASSUME IInv, NEW r \in UsableOf("repr"), NEW c \in UsableOf("repr"), RemoveChild(r, c), stray' = {}
  PROVE  IInv'
<1> DEFINE x == Value("repr", c)
           s == heap[r].items
           g == Unref([heap EXCEPT ![r].items = RemoveFirst(s, x)], c)
<1>1. r \in Ids /\ c \in Ids
  <2>1. "repr" # "free"
    OBVIOUS
  <2> QED BY <2>1, UsableIs
<1>2. Good(heap, Ext) /\ s \in Seq(Vals)
  BY <1>1, IInvIs, ItemsOf
<1>3. /\ heap' = g /\ held' = held /\ forgotten' = forgotten
      /\ x \in ToSet(s)
  BY DEF RemoveChild, Change
<1>4. x \in Vals /\ \A h : UnrefValue(h, x) = Unref(h, c)
  <2>1. "repr" \in Nested \cup Sets \cup {"options", "repr"}
    OBVIOUS
  <2> QED BY <1>1, <2>1, RefIs
<1> HIDE DEF x
<1>5. PICK i \in 1 .. Len(s) : s[i] = x /\ RemoveFirst(s, x) = RemoveAt(s, i)
  BY <1>2, <1>3, RemoveFirstIs
<1>6. i \in DOMAIN heap[r].items
  BY <1>2, <1>5
<1> DEFINE d == UnrefValue([heap EXCEPT ![r].items = RemoveAt(heap[r].items, i)], heap[r].items[i])
<1>7. Good(d, Ext) /\ Shrinks(heap, d)
  BY <1>1, <1>2, <1>6, DropItemGood
<1>8. d = g
  BY <1>4, <1>5
<1> HIDE DEF d, g
<1>9. StateOk(g, held, forgotten)
  BY <1>7, <1>8, KeepOk DEF IInv, Ext
<1> QED BY <1>3, <1>9 DEF IInv

\* The counts after a call that takes a reference from somebody else.
LEMMA StrayStep ==
  ASSUME IInv, NEW r \in UsableOf("repr"), NEW c \in UsableOf("repr"), RemoveChild(r, c), stray' # {}
  PROVE  RefsExact'
<1> DEFINE g == Unref(heap, c)
<1>1. r \in Ids /\ c \in Ids /\ heap[c].kind = "repr"
  <2>1. "repr" # "free"
    OBVIOUS
  <2> QED BY <2>1, UsableIs
<1>2. Good(heap, Ext) /\ heap \in Heaps /\ held \subseteq Ids
  BY IInvIs
<1>3. heap' = g /\ held' = held /\ forgotten' = forgotten /\ stray' = {c}
  <2> DEFINE x == Value("repr", c)
             s == heap[r].items
  <2>1. /\ heap' = Unref([heap EXCEPT ![r].items = RemoveFirst(s, x)], c)
        /\ held' = held /\ forgotten' = forgotten
        /\ stray' = {c} /\ x \notin ToSet(s)
    BY DEF RemoveChild, Change
  <2>2. RemoveFirst(s, x) = s
    <3>1. s \in Seq(Vals)
      BY <1>1, <1>2, ItemsOf
    <3>2. \A i \in 1 .. Len(s) : s[i] # x
      BY <2>1, <3>1 DEF ToSet
    <3> QED BY <3>2 DEF RemoveFirst
  <2>3. [heap EXCEPT ![r].items = s] = heap
    BY <1>1, <1>2 DEF Heaps, Objects
  <2> QED BY <2>1, <2>2, <2>3
<1>4. Count(heap, Going(heap, c), c) < heap[c].refs
  <2>1. "repr" # "free"
    OBVIOUS
  <2> QED BY <2>1, UsedOutside
<1>5. /\ g \in Heaps
      /\ \A p \in Ids : g[p] = Free \/ SameBody(g[p], heap[p])
      /\ \A p \in Ids : g[p].refs + (IF p = c THEN 1 ELSE 0) = Ext[p] + Count(g, Ids, p)
      /\ \A p \in Ids : (g[p].refs = 0 => g[p] = Free) /\ (g[p].kind = "free" => g[p].refs = 0)
  <2>1. c \in Ids /\ Good(heap, Ext)
    BY <1>1, <1>2
  <2>2. /\ g \in Heaps
        /\ \A p \in Ids : g[p] = Free \/ SameBody(g[p], heap[p])
        /\ \A p \in Ids : g[p].refs + (IF p = c THEN 1 ELSE 0) = Ext[p] + Count(g, Ids, p)
        /\ \A p \in Ids : (g[p].refs = 0 => g[p] = Free) /\ (g[p].kind = "free" => g[p].refs = 0)
        /\ \A p \in Ids : p \in Going(heap, c)
             => Count(heap, Ids \ Going(heap, c), p) + Ext[p] = IF p = c THEN 1 ELSE 0
        /\ \A p \in Ids : p \in Going(heap, c) => g[p] = Free
        /\ \A p \in Ids : p \notin Going(heap, c) => SameBody(g[p], heap[p])
    BY ONLY <1>4, <2>1, UnrefCounts
  <2> HIDE DEF g
  <2> QED BY <2>2
<1> HIDE DEF g
<1>6. \A p \in Ids : Ext[p] = (IF p \in RootsOf(heap, held) THEN 1 ELSE 0) + (IF p \in forgotten THEN 1 ELSE 0)
  BY OutsideIs DEF Ext
<1>7. Roots' = RootsOf(heap, held)
  <2>1. Roots' = RootsOf(g, held)
    BY <1>3 DEF Roots, RootsOf
  <2>2. ASSUME NEW p \in Ids, g[p].kind = "request"
        PROVE  p \in Live(heap) /\ heap[p].kind = "request"
    BY <1>5, <2>2, FreeIs DEF SameBody, Live
  <2>3. ASSUME NEW p \in Live(heap), heap[p].kind = "request"
        PROVE  p \in Live(g) /\ g[p].kind = "request"
    <3>1. p \in Ids /\ p # c /\ p \in RootsOf(heap, held)
      BY <1>1, <2>3 DEF Live, RootsOf
    <3>2. Ext[p] >= 1
      BY <1>6, <3>1
    <3>3. Count(g, Ids, p) \in Nat /\ Ext[p] \in Nat /\ g[p].refs = Ext[p] + Count(g, Ids, p)
      <4>1. g[p].refs + 0 = Ext[p] + Count(g, Ids, p)
        BY <1>5, <3>1
      <4>2. g[p].refs \in Nat
        BY <1>5, <3>1 DEF Heaps, Objects
      <4>3. Ext[p] \in Nat
        BY <1>2, <3>1 DEF Good, Outside
      <4>4. Count(g, Ids, p) \in Nat
        BY <1>5, CountLess
      <4> QED BY <4>1, <4>2, <4>3, <4>4
    <3>4. g[p].refs # 0
      BY <3>2, <3>3
    <3>5. g[p] # Free
      BY <3>4, FreeIs
    <3> QED BY <1>5, <2>3, <3>1, <3>5 DEF SameBody, Live
  <2> QED BY <2>1, <2>2, <2>3 DEF RootsOf, Live
<1>8. ASSUME NEW p \in Ids
      PROVE  /\ g[p].refs + Cardinality({c} \cap {p})
                  = (IF p \in Roots' THEN 1 ELSE 0) + Cardinality(Places(g, Ids, p))
                    + (IF p \in forgotten THEN 1 ELSE 0)
             /\ g[p].refs = 0 => g[p] = Free
  <2>1. Cardinality({c} \cap {p}) = IF p = c THEN 1 ELSE 0
    <3>1. CASE p = c
      <4>1. {c} \cap {p} = {c}
        BY <3>1
      <4> QED BY <3>1, <4>1, FS_Singleton
    <3>2. CASE p # c
      <4>1. {c} \cap {p} = {}
        BY <3>2
      <4> QED BY <3>2, <4>1, FS_EmptySet
    <3> QED BY <3>1, <3>2
  <2>2. Count(g, Ids, p) = Cardinality(Places(g, Ids, p)) /\ Count(g, Ids, p) \in Nat
    BY <1>5, CountLess DEF Count
  <2>3. g[p].refs + (IF p = c THEN 1 ELSE 0) = Ext[p] + Count(g, Ids, p)
    BY <1>5
  <2>4. Ext[p] = (IF p \in Roots' THEN 1 ELSE 0) + (IF p \in forgotten THEN 1 ELSE 0)
    BY <1>6, <1>7
  <2>5. g[p].refs = 0 => g[p] = Free
    BY <1>5
  <2>6. g[p].refs + Cardinality({c} \cap {p})
          = (IF p \in Roots' THEN 1 ELSE 0) + Cardinality(Places(g, Ids, p))
            + (IF p \in forgotten THEN 1 ELSE 0)
    BY ONLY <2>1, <2>2, <2>3, <2>4
  <2> QED BY <2>5, <2>6
<1> QED BY <1>3, <1>8 DEF RefsExact

\* A state or a set is cloned.
LEMMA CloneFlatStep ==
  ASSUME IInv, NEW d \in {"state", "types", "interfaces"}, NEW o \in UsableOf(d), Room(heap, 1),
         Cloned(o, CloneFlat(heap, o))
  PROVE  IInv'
<1> DEFINE n == NewId(heap)
           g == CloneFlat(heap, o)
<1>1. o \in Ids /\ heap[o].kind = d /\ heap[o].kind # "free"
  <2>1. d # "free"
    OBVIOUS
  <2> QED BY <2>1, UsableIs
<1>2. Good(heap, Ext) /\ Live(heap) # Ids
  <2>1. 1 \in Nat /\ 1 >= 1
    BY ONLY TRUE
  <2>2. Cardinality(Ids \ Live(heap)) >= 1
    BY DEF Room
  <2> QED BY <2>1, <2>2, RoomIs, IInvIs
<1>3. /\ n \in Ids /\ heap[n] = Free /\ n # o
      /\ Good(g, Owned(Ext, n))
      /\ SameBody(g[n], heap[o])
      /\ \A p \in Ids \ {n} : SameBody(g[p], heap[p])
      /\ Live(g) = Live(heap) \cup {n}
  BY <1>1, <1>2, CloneFlatGood
<1>4. Cloning(heap, g, n)
  <2>1. g[n].kind \notin Messages
    BY <1>1, <1>3 DEF SameBody, Messages
  <2>2. \A p \in Ids \ {n} : heap[p].kind = "free" => g[p].kind \notin Messages
    BY <1>3 DEF SameBody, Messages
  <2> QED BY <1>3, <2>1, <2>2 DEF Cloning
<1> HIDE DEF g
<1>5. Cloned(o, g)
  BY DEF g
<1> QED BY <1>3, <1>4, <1>5, ClonedStep

\* A representation is cloned.
LEMMA CloneReprStep ==
  ASSUME IInv, NEW r \in UsableOf("repr"), CloneRepresentation(r)
  PROVE  IInv'
<1> DEFINE n == NewId(heap)
           g == CloneRepr(heap, r).heap
<1>1. r \in Ids /\ heap[r].kind = "repr"
  <2>1. "repr" # "free"
    OBVIOUS
  <2> QED BY <2>1, UsableIs
<1>2. Good(heap, Ext) /\ RoomFor(heap, r) /\ Cloned(r, g)
  BY IInvIs DEF CloneRepresentation
<1>3. /\ n \in Ids /\ heap[n] = Free
      /\ Good(g, Owned(Ext, n)) /\ Cloning(heap, g, n) /\ g[n].kind = "repr"
  BY <1>1, <1>2, CloneReprGood
<1> HIDE DEF g
<1> QED BY <1>2, <1>3, ClonedStep

\* No message is in an object.
LEMMA NoMessageInside ==
  ASSUME NEW h, NEW ext, Good(h, ext), NEW q \in Ids, h[q].kind \in Messages
  PROVE  Count(h, Ids, q) = 0
<1>1. ASSUME NEW c \in Ids, NEW x \in Vals, Has(x, q), Fits(h, x)
      PROVE  FALSE
  <2>1. IsHandle(x) /\ x.v = q
    BY <1>1 DEF Has
  <2>2. h[q].kind = x.type
    BY <1>1, <2>1 DEF Fits
  <2>3. x.type \notin {"request", "response"}
    BY <2>1, HandleIs
  <2> QED BY <2>2, <2>3 DEF Messages
<1>2. \A c \in Ids : PlacesIn(h[c], q) = {}
  <2> SUFFICES ASSUME NEW c \in Ids
               PROVE  PlacesIn(h[c], q) = {}
    OBVIOUS
  <2>1. \A i \in DOMAIN h[c].items : ~Has(h[c].items[i], q)
    BY <1>1, ItemsOf
  <2>2. \A k \in DOMAIN h[c].fields : ~Has(h[c].fields[k], q)
    BY <1>1, ItemsOf
  <2> QED BY <2>1, <2>2 DEF PlacesIn
<1>3. Places(h, Ids, q) = {}
  BY <1>2 DEF Places
<1> QED BY <1>3, FS_EmptySet DEF Count

\* The library gives up what came with a request.
LEMMA HandledStep ==
  ASSUME IInv, RequestHandled
  PROVE  IInv'
<1>1. PICK q \in Roots \ held : Store(Unref(heap, q))
  BY DEF RequestHandled
<1> DEFINE e == Ext
           d == [e EXCEPT ![q] = @ - 1]
           g == Unref(heap, q)
<1>2. /\ Good(heap, e) /\ e \in Outside /\ held \subseteq Ids /\ forgotten \subseteq Ids
      /\ \A o \in held \cup forgotten : heap[o].kind # "request"
  BY IInvIs
<1>3. q \in Ids /\ heap[q].kind = "request" /\ q \notin held /\ q \notin forgotten
  BY <1>1, <1>2 DEF Roots, Live
<1>4. q \in RootsOf(heap, held)
  BY <1>1 DEF Roots, RootsOf
<1>5. \A p \in Ids : e[p] = (IF p \in RootsOf(heap, held) THEN 1 ELSE 0) + (IF p \in forgotten THEN 1 ELSE 0)
  BY OutsideIs DEF Ext
<1> HIDE DEF e
<1>6. e[q] = 1
  BY <1>3, <1>4, <1>5
<1>7. Good(g, d) /\ \A p \in Ids : g[p] = Free \/ SameBody(g[p], heap[p])
  <2>1. e[q] >= 1
    BY <1>6
  <2> QED BY <1>2, <1>3, <2>1, UnrefGood
<1>8. d \in Outside /\ \A p \in Ids : d[p] = IF p = q THEN 0 ELSE e[p]
  BY <1>2, <1>3, <1>6 DEF Outside
<1> HIDE DEF d, g
<1>9. g[q] = Free
  <2> SUFFICES ASSUME SameBody(g[q], heap[q])
               PROVE  g[q] = Free
    BY <1>3, <1>7
  <2>1. g[q].kind \in Messages
    BY <1>3 DEF SameBody, Messages
  <2>2. Count(g, Ids, q) = 0
    BY <1>3, <1>7, <2>1, NoMessageInside
  <2>3. g[q].refs = 0
    BY <1>3, <1>7, <1>8, <2>2 DEF Good
  <2> QED BY <1>3, <1>7, <2>3 DEF Good
<1>10. \A p \in Ids : d[p] >= 1 => g[p].kind = heap[p].kind /\ g[p] # Free
  <2> SUFFICES ASSUME NEW p \in Ids, d[p] >= 1
               PROVE  g[p].kind = heap[p].kind /\ g[p] # Free
    OBVIOUS
  <2>1. g[p] # Free
    BY <1>7, OutsideLive
  <2> QED BY <1>7, <2>1 DEF SameBody
<1>11. \A p \in Ids \ {q} : p \in RootsOf(g, held) <=> p \in RootsOf(heap, held)
  <2> SUFFICES ASSUME NEW p \in Ids \ {q}
               PROVE  p \in RootsOf(g, held) <=> p \in RootsOf(heap, held)
    OBVIOUS
  <2>1. CASE p \in RootsOf(heap, held)
    <3>1. d[p] >= 1
      BY <1>5, <1>8, <2>1
    <3>2. g[p].kind = heap[p].kind /\ g[p] # Free
      BY <1>10, <3>1
    <3>3. CASE p \in held
      BY <2>1, <3>3 DEF RootsOf
    <3>4. CASE heap[p].kind = "request"
      BY <2>1, <3>2, <3>4 DEF RootsOf, Live
    <3>5. p \in held \/ heap[p].kind = "request"
      BY <2>1 DEF RootsOf
    <3> QED BY <2>1, <3>3, <3>4, <3>5
  <2>2. CASE p \in RootsOf(g, held) /\ p \notin held
    <3>1. g[p].kind = "request" /\ g[p] # Free
      BY <2>2 DEF RootsOf, Live
    <3>2. heap[p].kind = "request"
      BY <1>7, <3>1 DEF SameBody
    <3>3. heap[p] # Free
      BY <3>2, FreeIs
    <3> QED BY <2>2, <3>2, <3>3 DEF RootsOf, Live
  <2>3. CASE p \in held
    BY <2>3 DEF RootsOf
  <2> QED BY <2>1, <2>2, <2>3
<1>12. q \notin RootsOf(g, held)
  BY <1>3, <1>9 DEF RootsOf, Live
<1>13. OutsideOf(g, held, forgotten) = d
  <2>1. ASSUME NEW p \in Ids
        PROVE  OutsideOf(g, held, forgotten)[p] = d[p]
    <3>1. OutsideOf(g, held, forgotten)[p]
            = (IF p \in RootsOf(g, held) THEN 1 ELSE 0) + (IF p \in forgotten THEN 1 ELSE 0)
      BY OutsideIs
    <3>2. e[p] = (IF p \in RootsOf(heap, held) THEN 1 ELSE 0) + (IF p \in forgotten THEN 1 ELSE 0)
      BY <1>5
    <3>3. CASE p = q
      <4>1. p \notin RootsOf(g, held) /\ p \notin forgotten /\ d[p] = 0
        BY <1>3, <1>8, <1>12, <3>3
      <4> QED BY ONLY <3>1, <4>1
    <3>4. CASE p # q
      <4>1. (p \in RootsOf(heap, held) <=> p \in RootsOf(g, held)) /\ d[p] = e[p]
        BY <1>8, <1>11, <3>4
      <4> QED BY ONLY <3>1, <3>2, <4>1
    <3> QED BY <3>3, <3>4
  <2>2. OutsideOf(g, held, forgotten) \in Outside
    BY OutsideIs
  <2> QED BY ONLY <1>8, <2>1, <2>2, SameOutside
<1>14. \A o \in held \cup forgotten : g[o].kind # "request"
  <2> SUFFICES ASSUME NEW o \in held \cup forgotten
               PROVE  g[o].kind # "request"
    OBVIOUS
  <2>1. o \in Ids /\ heap[o].kind # "request"
    BY <1>2
  <2>2. Free.kind # "request"
    BY FreeIs
  <2> QED BY <1>7, <2>1, <2>2 DEF SameBody
<1>15. StateOk(g, held, forgotten)
  BY <1>2, <1>7, <1>13, <1>14 DEF StateOk
<1> QED BY <1>1, <1>15 DEF IInv, Store, Change, RequestHandled, g

\* What a response shows is set in its representation and in the children.
LEMMA ShowGood ==
  ASSUME NEW h, NEW ext, Good(h, ext), NEW iface, NEW r \in Ids, h[r].kind = "repr"
  PROVE  /\ Good(ShowFor(h, iface, r), ext)
         /\ \A p \in Ids : SameBody(ShowFor(h, iface, r)[p], h[p])
<1> DEFINE g == ShowFor(h, iface, r)
           children == {x.v : x \in ToSet(h[r].items)}
<1>1. h \in Heaps /\ ext \in Outside
  BY DEF Good
<1>2. \A c \in children : c \in Ids /\ h[c].refs >= 1
  <2> SUFFICES ASSUME NEW c \in children
               PROVE  c \in Ids /\ h[c].refs >= 1
    OBVIOUS
  <2>1. PICK i \in DOMAIN h[r].items : c = h[r].items[i].v
    BY DEF ToSet
  <2>2. h[r].items[i] \in Vals /\ h[r].items[i].type = "repr"
    BY ItemsOf DEF ItemOk
  <2>3. IsHandle(h[r].items[i])
    BY <2>2 DEF IsHandle, Kinds
  <2> QED BY <2>1, <2>2, <2>3, HeldInside
<1>3. h[r].refs >= 1 /\ h[r].kind # "free"
  BY LiveHas
<1>4. \A p \in Ids :
         /\ g[p] \in Objects
         /\ g[p].kind = h[p].kind /\ g[p].type = h[p].type /\ g[p].refs = h[p].refs
         /\ g[p].items = h[p].items /\ g[p].fields = h[p].fields
         /\ p \notin children \cup {r} => g[p] = h[p]
  <2> SUFFICES ASSUME NEW p \in Ids
               PROVE  /\ g[p] \in Objects
                      /\ g[p].kind = h[p].kind /\ g[p].type = h[p].type /\ g[p].refs = h[p].refs
                      /\ g[p].items = h[p].items /\ g[p].fields = h[p].fields
                      /\ p \notin children \cup {r} => g[p] = h[p]
    OBVIOUS
  <2>1. h[p] \in Objects
    BY <1>1 DEF Heaps
  <2>2. g[p] = h[p] \/ \E s \in SUBSET {"state", "props"} : g[p] = [h[p] EXCEPT !.shows = s]
    BY DEF ShowFor
  <2>3. p \notin children \cup {r} => g[p] = h[p]
    BY DEF ShowFor
  <2> HIDE DEF g
  <2>4. CASE g[p] = h[p]
    BY <2>1, <2>4
  <2>5. CASE \E s \in SUBSET {"state", "props"} : g[p] = [h[p] EXCEPT !.shows = s]
    <3>1. PICK s \in SUBSET {"state", "props"} : g[p] = [h[p] EXCEPT !.shows = s]
      BY <2>5
    <3>2. g[p] \in Objects
      BY <2>1, <3>1 DEF Objects
    <3>3. /\ g[p].kind = h[p].kind /\ g[p].type = h[p].type /\ g[p].refs = h[p].refs
          /\ g[p].items = h[p].items /\ g[p].fields = h[p].fields
      BY <2>1, <3>1 DEF Objects
    <3> QED BY <2>3, <3>2, <3>3
  <2> QED BY <2>2, <2>3, <2>4, <2>5
<1>5. g \in Heaps
  BY <1>4 DEF Heaps, ShowFor
<1> HIDE DEF g
<1>6. \A p \in Ids : SameBody(g[p], h[p])
  BY <1>4 DEF SameBody
<1>7. \A p \in Ids : g[p].refs + ext[p] + Uses(h[r], p) = h[p].refs + ext[p] + Uses(g[r], p)
  <2> SUFFICES ASSUME NEW p \in Ids
               PROVE  g[p].refs + ext[p] + Uses(h[r], p) = h[p].refs + ext[p] + Uses(g[r], p)
    OBVIOUS
  <2>1. Uses(g[r], p) = Uses(h[r], p)
    BY <1>4 DEF Uses, PlacesIn
  <2>2. g[p].refs = h[p].refs
    BY <1>4
  <2> QED BY ONLY <2>1, <2>2
<1>8. \A p \in Ids : g[p].refs = 0 => g[p] = Free
  <2> SUFFICES ASSUME NEW p \in Ids, g[p].refs = 0
               PROVE  g[p] = Free
    OBVIOUS
  <2>1. h[p].refs = 0
    BY <1>4
  <2>2. p \notin children \cup {r}
    BY <1>2, <1>3, <2>1
  <2> QED BY <1>4, <2>1, <2>2 DEF Good
<1>9. \A p \in Ids : g[p].kind = "free" => g[p].refs = 0
  BY <1>4 DEF Good
<1>10. ObjectOk(g, g[r])
  <2>1. h[r] \in Objects /\ ObjectOk(h, h[r])
    BY <1>1, ValuesOf DEF Good
  <2>2. SameBody(g[r], h[r])
    BY <1>6
  <2> QED BY <1>4, <2>1, <2>2, StillOk DEF SameBody
<1>11. Good(g, ext)
  <2>1. /\ \A p \in Ids \ {r} : g[p].items = h[p].items /\ g[p].fields = h[p].fields
        /\ \A p \in Ids : h[p].kind # "free" => g[p].kind = h[p].kind
        /\ \A p \in Ids \ {r} : g[p].kind = h[p].kind
    BY <1>4
  <2> QED BY <1>1, <1>5, <1>7, <1>8, <1>9, <1>10, <2>1, GoodStep
<1> QED BY <1>6, <1>11 DEF g

\* A response is sent.
LEMMA SendStep ==
  ASSUME IInv, NEW p \in UsableOf("response"), ResponseSend(p)
  PROVE  IInv'
<1> DEFINE f == heap[p].fields
<1>1. p \in Ids /\ heap[p].kind = "response"
  <2>1. "response" # "free"
    OBVIOUS
  <2> QED BY <2>1, UsableIs
<1>2. Good(heap, Ext)
  BY IInvIs
<1>3. CASE "repr" \notin DOMAIN f
  <2>1. Keep(heap)
    BY <1>3 DEF ResponseSend
  <2>2. Shrinks(heap, heap)
    BY DEF Shrinks
  <2> QED BY <1>2, <2>1, <2>2, KeepStep
<1>4. CASE "repr" \in DOMAIN f
  <2> DEFINE r == f["repr"].v
             g == ShowFor(heap, f["iface"].v, r)
  <2>1. heap' = g /\ held' = held /\ forgotten' = forgotten
    BY <1>4 DEF ResponseSend, Keep, Store, Change
  <2>2. r \in Ids /\ heap[r].kind = "repr"
    <3>1. /\ f["repr"] \in Vals /\ Fits(heap, f["repr"])
          /\ FieldOk(heap[p].kind, "repr", f["repr"])
      BY <1>1, <1>2, <1>4, ItemsOf
    <3>2. f["repr"].type = "repr"
      BY <1>1, <3>1 DEF FieldOk
    <3>3. IsHandle(f["repr"])
      BY <3>2 DEF IsHandle, Kinds
    <3> QED BY <3>1, <3>2, <3>3, HandleIs DEF Fits
  <2>3. Good(g, Ext) /\ \A q \in Ids : SameBody(g[q], heap[q])
    BY <1>2, <2>2, ShowGood
  <2> HIDE DEF g
  <2>4. Shrinks(heap, g)
    BY <2>3 DEF Shrinks, SameBody
  <2>5. StateOk(g, held, forgotten)
    BY <2>3, <2>4, KeepOk DEF IInv, Ext
  <2> QED BY <2>1, <2>5 DEF IInv
<1> QED BY <1>3, <1>4

\* A response gets an interface and a representation.
LEMMA SetReprStep ==
  ASSUME IInv, NEW p \in UsableOf("response"), NEW iface \in {"link", "batch", "baseline"},
         NEW r \in UsableOf("repr") \cup {Null}, ResponseSetRepr(p, iface, r)
  PROVE  IInv'
<1> DEFINE x == Value("str", iface)
           h == SetField(heap, p, "iface", x)
<1>1. p \in Ids /\ heap[p].kind = "response" /\ heap[p].kind # "free"
  <2>1. "response" # "free"
    OBVIOUS
  <2> QED BY <2>1, UsableIs
<1>2. Good(heap, Ext)
  BY IInvIs
<1>3. x \in Vals /\ ~IsHandle(x) /\ Fits(heap, x)
  <2>1. iface \in Words \cup {"link", "batch", "baseline"}
    OBVIOUS
  <2> QED BY <2>1, WordIs
<1>4. /\ r # Null => Keep(SetField(h, p, "repr", Value("repr", r)))
      /\ r = Null => Keep(IF "repr" \in DOMAIN h[p].fields THEN ClearField(h, p, "repr") ELSE h)
  BY DEF ResponseSetRepr
<1> HIDE DEF x
<1>5. "iface" \in FieldNames /\ FieldOk(heap[p].kind, "iface", x)
  BY <1>1, <1>3 DEF FieldNames, FieldOk
<1>6. Good(h, Ext)
  BY <1>1, <1>2, <1>3, <1>5, SetFieldGood
<1>7. \A q \in Ids : h[q].kind = heap[q].kind
  <2>1. h = [heap EXCEPT ![p].fields = Insert(@, "iface", x)]
    <3>1. RefValue(heap, x) = heap
      BY <1>3 DEF RefValue
    <3>2. CASE "iface" \in DOMAIN heap[p].fields
      <4>1. FieldOk(heap[p].kind, "iface", heap[p].fields["iface"])
        BY <1>1, <1>2, <3>2, ItemsOf
      <4>2. ~IsHandle(heap[p].fields["iface"])
        BY <1>1, <4>1 DEF FieldOk
      <4> QED BY <3>1, <3>2, <4>2 DEF SetField, UnrefValue
    <3>3. CASE "iface" \notin DOMAIN heap[p].fields
      BY <3>1, <3>3 DEF SetField
    <3> QED BY <3>2, <3>3
  <2> DEFINE t == Insert(heap[p].fields, "iface", x)
  <2>2. heap \in Heaps /\ heap[p] \in Objects
    BY <1>1, <1>2, LiveHas DEF Good
  <2>3. h = [heap EXCEPT ![p] = [heap[p] EXCEPT !.fields = t]]
    BY <2>1
  <2> HIDE DEF t
  <2>4. [heap[p] EXCEPT !.fields = t].kind = heap[p].kind
    BY <2>2 DEF Objects
  <2> HIDE DEF h
  <2> QED BY <1>1, <2>2, <2>3, <2>4 DEF Heaps
<1> HIDE DEF h
<1>8. ASSUME NEW g, Good(g, Ext), Shrinks(h, g), Keep(g)
      PROVE  IInv'
  <2>1. Shrinks(heap, g)
    BY <1>7, <1>8 DEF Shrinks
  <2> QED BY <1>8, <2>1, KeepStep
<1>9. CASE r # Null
  <2> DEFINE y == Value("repr", r)
  <2>1. r \in Ids /\ heap[r].kind = "repr"
    <3>1. "repr" # "free"
      OBVIOUS
    <3> QED BY <1>9, <3>1, UsableIs
  <2>2. y \in Vals /\ y.type = "repr" /\ y.v = r
    <3>1. "repr" \in Nested \cup Sets \cup {"options", "repr"}
      OBVIOUS
    <3> QED BY <2>1, <3>1, RefIs
  <2>3. Fits(h, y) /\ h[p].kind = "response" /\ h[p].kind # "free"
    BY <1>1, <1>7, <2>1, <2>2 DEF Fits
  <2>4. "repr" \in FieldNames /\ FieldOk(h[p].kind, "repr", y)
    BY <2>2, <2>3 DEF FieldNames, FieldOk
  <2>5. Keep(SetField(h, p, "repr", y))
    BY <1>4, <1>9
  <2> HIDE DEF y
  <2>6. Good(SetField(h, p, "repr", y), Ext) /\ Shrinks(h, SetField(h, p, "repr", y))
    BY <1>1, <1>6, <2>2, <2>3, <2>4, SetFieldGood
  <2> QED BY <1>8, <2>5, <2>6
<1>10. CASE r = Null /\ "repr" \in DOMAIN h[p].fields
  <2>1. Keep(ClearField(h, p, "repr"))
    BY <1>4, <1>10
  <2>2. Good(ClearField(h, p, "repr"), Ext) /\ Shrinks(h, ClearField(h, p, "repr"))
    BY <1>1, <1>6, <1>10, ClearFieldGood
  <2> QED BY <1>8, <2>1, <2>2
<1>11. CASE r = Null /\ "repr" \notin DOMAIN h[p].fields
  <2>1. Keep(h)
    BY <1>4, <1>11
  <2>2. Shrinks(h, h)
    BY DEF Shrinks
  <2> QED BY <1>6, <1>8, <2>1, <2>2
<1> QED BY <1>9, <1>10, <1>11

\* A response gets options, or none.
LEMMA SetOptionsStep ==
  ASSUME IInv, NEW p \in UsableOf("response"), NEW o \in UsableOf("options") \cup {Null},
         ResponseSetOptions(p, o)
  PROVE  IInv'
<1>1. p \in Ids /\ heap[p].kind = "response" /\ heap[p].kind # "free"
  <2>1. "response" # "free"
    OBVIOUS
  <2> QED BY <2>1, UsableIs
<1>2. CASE o # Null
  <2> DEFINE x == Value("options", o)
  <2>1. o \in Ids /\ heap[o].kind = "options"
    <3>1. "options" # "free"
      OBVIOUS
    <3> QED BY <1>2, <3>1, UsableIs
  <2>2. x \in Vals /\ x.type = "options" /\ x.v = o
    <3>1. "options" \in Nested \cup Sets \cup {"options", "repr"}
      OBVIOUS
    <3> QED BY <2>1, <3>1, RefIs
  <2>3. Fits(heap, x)
    BY <2>1, <2>2 DEF Fits
  <2>4. "options" \in FieldNames /\ FieldOk(heap[p].kind, "options", x)
    BY <1>1, <2>2 DEF FieldNames, FieldOk
  <2>5. Keep(SetField(heap, p, "options", x))
    BY <1>2 DEF ResponseSetOptions
  <2> HIDE DEF x
  <2> QED BY <1>1, <2>2, <2>3, <2>4, <2>5, SetFieldStep
<1>3. CASE o = Null
  <2>1. "options" \in DOMAIN heap[p].fields /\ Keep(ClearField(heap, p, "options"))
    BY <1>3 DEF ResponseSetOptions
  <2> QED BY <1>1, <2>1, ClearFieldStep
<1> QED BY <1>2, <1>3

(***************************************************************************)
(* A request arrives                                                       *)
(***************************************************************************)

\* One address less is free.
LEMMA TakeOne ==
  ASSUME NEW h, NEW g, NEW n \in Ids, h[n] = Free, Live(g) = Live(h) \cup {n}
  PROVE  /\ Cardinality(Ids \ Live(h)) \in Nat /\ Cardinality(Ids \ Live(g)) \in Nat
         /\ Cardinality(Ids \ Live(h)) = Cardinality(Ids \ Live(g)) + 1
<1>1. IsFiniteSet(Ids \ Live(h)) /\ IsFiniteSet(Ids \ Live(g))
  BY AddressesAssumption, FS_Subset
<1>2. n \in Ids \ Live(h) /\ Ids \ Live(g) = (Ids \ Live(h)) \ {n}
  BY DEF Live
<1>3. Cardinality((Ids \ Live(h)) \ {n}) = Cardinality(Ids \ Live(h)) - 1
  BY <1>1, <1>2, FS_RemoveElement
<1>4. Cardinality(Ids \ Live(h)) \in Nat /\ Cardinality(Ids \ Live(g)) \in Nat
  BY <1>1, FS_CardinalityType
<1>5. Cardinality(Ids \ Live(g)) = Cardinality(Ids \ Live(h)) - 1
  BY <1>2, <1>3
<1> QED BY ONLY <1>4, <1>5

\* Objects come, but no request; those that are there stay as they are.
Adds(h, g) == \A p \in Ids : IF h[p] = Free THEN g[p].kind # "request" ELSE g[p] = h[p]

\* What comes after what has come.
LEMMA AddsOn ==
  ASSUME NEW h, NEW c, NEW g, Adds(h, c), Adds(c, g)
  PROVE  Adds(h, g)
BY FreeIs DEF Adds

\* A new object with one value, which is given to it with its reference.
LEMMA NewHolds ==
  ASSUME NEW h, NEW base \in Outside, NEW x \in Vals, Good(h, Plus(base, x)), Fits(h, x),
         Live(h) # Ids, NEW d \in Kinds, NEW k \in FieldNames, FieldOk(d, k, x)
  PROVE  Comes(h, New(h, [Blank(d, "") EXCEPT !.fields = Insert(<<>>, k, x)]), base, d)
<1> DEFINE n == NewId(h)
           f == Insert(<<>>, k, x)
           obj == [Blank(d, "") EXCEPT !.fields = f]
           g == New(h, obj)
           e == Owned(base, n)
<1>1. n \in Ids
  BY DEF NewId, Live
<1>2. f \in FieldTables /\ DOMAIN f = {k} /\ f[k] = x
  BY SmallTables
<1>3. \A p : Cardinality(At(f, p)) = One(x, p)
  BY SmallTables
<1>4. e \in Outside /\ \A p \in Ids : e[p] = base[p] + (IF p = n THEN 1 ELSE 0)
  BY <1>1, OwnedIs
<1>5. \A p \in Ids : Plus(base, x)[p] = base[p] + One(x, p) /\ base[p] \in Nat /\ One(x, p) \in Nat
  BY PlusIs DEF Outside, One
<1> HIDE DEF f
<1>6. /\ obj \in Objects /\ obj.kind = d /\ obj.refs = 1 /\ obj.kind # "free"
      /\ DOMAIN obj.items = {} /\ obj.fields = f
  <2> DEFINE t == ""
  <2>1. /\ obj = [Blank(d, t) EXCEPT !.fields = f] /\ t \in Basic \cup Nested \cup {""}
        /\ d = "repr" => t = ""
    OBVIOUS
  <2> HIDE DEF obj, t
  <2>2. f \in FieldTables /\ d \in Kinds
    BY <1>2
  <2>3. Blank(d, t) \in Objects /\ DOMAIN Blank(d, t).items = {}
    <3>1. t \in Basic \cup Nested \cup {""} /\ (d = "repr" => t = "")
      BY <2>1
    <3> QED BY <2>2, <3>1, BlankAlone
  <2>4. obj \in Objects /\ DOMAIN obj.items = {}
    BY <2>1, <2>2, <2>3 DEF Objects
  <2>5. obj.kind = d /\ obj.refs = 1 /\ obj.fields = f
    BY <2>1 DEF Blank
  <2>6. d # "free"
    BY DEF Kinds, Nested, Sets
  <2> QED BY <2>3, <2>4, <2>5, <2>6
<1> HIDE DEF obj, e
<1>7. \A p \in Ids : Uses(obj, p) = One(x, p)
  BY <1>3, <1>6, UsesTable
<1>8. ObjectOk(h, obj)
  BY <1>2, <1>6 DEF ObjectOk
<1>9. \A p \in Ids : Plus(base, x)[p] + (IF p = NewId(h) THEN obj.refs ELSE 0) = e[p] + Uses(obj, p)
  <2> SUFFICES ASSUME NEW p \in Ids
               PROVE  Plus(base, x)[p] + (IF p = NewId(h) THEN obj.refs ELSE 0) = e[p] + Uses(obj, p)
    OBVIOUS
  <2>1. /\ Plus(base, x)[p] = base[p] + One(x, p) /\ base[p] \in Nat /\ One(x, p) \in Nat
        /\ e[p] = base[p] + (IF p = NewId(h) THEN 1 ELSE 0)
        /\ Uses(obj, p) = One(x, p) /\ obj.refs = 1
    BY <1>4, <1>5, <1>6, <1>7
  <2> QED BY ONLY <2>1
<1>10. /\ h[n] = Free /\ Good(g, e)
       /\ g[n] = obj /\ \A p \in Ids \ {n} : g[p] = h[p]
       /\ Live(g) = Live(h) \cup {n}
  <2>1. obj.refs >= 1
    BY ONLY <1>6
  <2>2. /\ Good(h, Plus(base, x)) /\ Live(h) # Ids /\ obj \in Objects /\ e \in Outside
        /\ obj.kind # "free" /\ ObjectOk(h, obj)
    BY <1>4, <1>6, <1>8
  <2> HIDE DEF g
  <2> QED BY ONLY <1>9, <2>1, <2>2, NewGood DEF g
<1> QED BY <1>1, <1>6, <1>10 DEF obj, e, f, Comes

\* The same with two values.
LEMMA NewHoldsTwo ==
  ASSUME NEW h, NEW base \in Outside, NEW x \in Vals, NEW y \in Vals,
         Good(h, Plus(Plus(base, x), y)), Fits(h, x), Fits(h, y), Live(h) # Ids, NEW d \in Kinds,
         NEW k \in FieldNames, NEW j \in FieldNames, j # k, FieldOk(d, k, x), FieldOk(d, j, y)
  PROVE  Comes(h, New(h, [Blank(d, "") EXCEPT !.fields = Insert(Insert(<<>>, k, x), j, y)]), base, d)
<1> DEFINE n == NewId(h)
           one == Insert(<<>>, k, x)
           f == Insert(one, j, y)
           obj == [Blank(d, "") EXCEPT !.fields = f]
           g == New(h, obj)
           e == Owned(base, n)
           ext == Plus(Plus(base, x), y)
<1>1. n \in Ids
  BY DEF NewId, Live
<1>2. one \in FieldTables /\ DOMAIN one = {k} /\ one[k] = x
  BY SmallTables
<1>3. \A p : Cardinality(At(one, p)) = One(x, p)
  BY SmallTables
<1>4. e \in Outside /\ \A p \in Ids : e[p] = base[p] + (IF p = n THEN 1 ELSE 0)
  BY <1>1, OwnedIs
<1>5. \A p \in Ids : ext[p] = base[p] + One(x, p) + One(y, p) /\ base[p] \in Nat
                     /\ One(x, p) \in Nat /\ One(y, p) \in Nat
  <2>1. /\ Plus(base, x) \in Outside
        /\ \A p \in Ids : Plus(base, x)[p] = base[p] + One(x, p)
    BY PlusIs
  <2>2. \A p \in Ids : ext[p] = Plus(base, x)[p] + One(y, p)
    BY <2>1, PlusIs
  <2>3. \A p \in Ids : base[p] \in Nat /\ One(x, p) \in Nat /\ One(y, p) \in Nat
    BY DEF Outside, One
  <2> QED BY <2>1, <2>2, <2>3
<1> HIDE DEF one
<1>6. f \in FieldTables /\ DOMAIN f = {k, j} /\ f[k] = x /\ f[j] = y
  <2>1. f \in FieldTables
    BY <1>2, InsertCount
  <2>2. DOMAIN f = {k, j} /\ f[k] = x /\ f[j] = y
    BY <1>2 DEF Insert
  <2> QED BY <2>1, <2>2
<1>7. \A p \in Ids : Cardinality(At(f, p)) = One(x, p) + One(y, p)
  <2> SUFFICES ASSUME NEW p \in Ids
               PROVE  Cardinality(At(f, p)) = One(x, p) + One(y, p)
    OBVIOUS
  <2>1. Cardinality(At(f, p)) + (IF j \in DOMAIN one THEN One(one[j], p) ELSE 0)
          = Cardinality(At(one, p)) + One(y, p)
    BY <1>2, InsertCount
  <2>2. j \notin DOMAIN one /\ Cardinality(At(one, p)) = One(x, p)
    BY <1>2, <1>3
  <2>3. IsFiniteSet(DOMAIN f)
    BY <1>6, FieldsAre
  <2>4. Cardinality(At(f, p)) \in Nat
    BY <2>3, AtFinite
  <2> QED BY ONLY <2>1, <2>2, <2>4
<1> HIDE DEF f
<1>8. /\ obj \in Objects /\ obj.kind = d /\ obj.refs = 1 /\ obj.kind # "free"
      /\ DOMAIN obj.items = {} /\ obj.fields = f
  <2> DEFINE t == ""
  <2>1. /\ obj = [Blank(d, t) EXCEPT !.fields = f] /\ t \in Basic \cup Nested \cup {""}
        /\ d = "repr" => t = ""
    OBVIOUS
  <2> HIDE DEF obj, t
  <2>2. f \in FieldTables /\ d \in Kinds
    BY <1>6
  <2>3. Blank(d, t) \in Objects /\ DOMAIN Blank(d, t).items = {}
    <3>1. t \in Basic \cup Nested \cup {""} /\ (d = "repr" => t = "")
      BY <2>1
    <3> QED BY <2>2, <3>1, BlankAlone
  <2>4. obj \in Objects /\ DOMAIN obj.items = {}
    BY <2>1, <2>2, <2>3 DEF Objects
  <2>5. obj.kind = d /\ obj.refs = 1 /\ obj.fields = f
    BY <2>1 DEF Blank
  <2>6. d # "free"
    BY DEF Kinds, Nested, Sets
  <2> QED BY <2>3, <2>4, <2>5, <2>6
<1> HIDE DEF obj, e, ext
<1>9. \A p \in Ids : Uses(obj, p) = One(x, p) + One(y, p)
  BY <1>7, <1>8, UsesTable
<1>10. ObjectOk(h, obj)
  BY <1>6, <1>8 DEF ObjectOk
<1>11. \A p \in Ids : ext[p] + (IF p = NewId(h) THEN obj.refs ELSE 0) = e[p] + Uses(obj, p)
  <2> SUFFICES ASSUME NEW p \in Ids
               PROVE  ext[p] + (IF p = NewId(h) THEN obj.refs ELSE 0) = e[p] + Uses(obj, p)
    OBVIOUS
  <2>1. /\ ext[p] = base[p] + One(x, p) + One(y, p)
        /\ base[p] \in Nat /\ One(x, p) \in Nat /\ One(y, p) \in Nat
        /\ e[p] = base[p] + (IF p = NewId(h) THEN 1 ELSE 0)
        /\ Uses(obj, p) = One(x, p) + One(y, p) /\ obj.refs = 1
    BY <1>4, <1>5, <1>8, <1>9
  <2> QED BY ONLY <2>1
<1>12. /\ h[n] = Free /\ Good(g, e)
       /\ g[n] = obj /\ \A p \in Ids \ {n} : g[p] = h[p]
       /\ Live(g) = Live(h) \cup {n}
  <2>1. obj.refs >= 1
    BY ONLY <1>8
  <2>2. /\ Good(h, ext) /\ Live(h) # Ids /\ obj \in Objects /\ e \in Outside
        /\ obj.kind # "free" /\ ObjectOk(h, obj)
    BY <1>4, <1>8, <1>10 DEF ext
  <2> HIDE DEF g
  <2> QED BY ONLY <1>11, <2>1, <2>2, NewGood DEF g
<1> QED BY <1>1, <1>8, <1>12 DEF obj, e, f, one, Comes

\* The nested value that may come with a request: the reference of its creation
\* stays with it, the other one goes to its place.
LEMMA ListArrives ==
  ASSUME NEW h, NEW ext, Good(h, ext), NEW nested \in BOOLEAN, nested => Live(h) # Ids
  PROVE  LET n == NewId(h)
             g == IF nested THEN New(h, ReceivedList) ELSE h
             x == IF nested THEN Value("list", n) ELSE Value("int", CHOOSE w \in Words : TRUE)
             base == IF nested THEN Owned(ext, n) ELSE ext
         IN /\ x \in Vals /\ base \in Outside /\ Good(g, Plus(base, x)) /\ Fits(g, x) /\ Adds(h, g)
            /\ nested => n \in Ids /\ h[n] = Free /\ g[n].kind = "list" /\ Live(g) = Live(h) \cup {n}
<1> DEFINE n == NewId(h)
           g == IF nested THEN New(h, ReceivedList) ELSE h
           x == IF nested THEN Value("list", n) ELSE Value("int", CHOOSE w \in Words : TRUE)
           base == IF nested THEN Owned(ext, n) ELSE ext
<1>1. ext \in Outside /\ h \in Heaps
  BY DEF Good
<1>2. CASE ~nested
  <2>1. g = h /\ x = Value("int", CHOOSE w \in Words : TRUE) /\ base = ext
    BY <1>2
  <2>2. (CHOOSE w \in Words : TRUE) \in Words
    BY ContentsAssumption
  <2> DEFINE w0 == CHOOSE w \in Words : TRUE
  <2> HIDE DEF w0
  <2>3. Value("int", w0) \in Vals /\ ~IsHandle(Value("int", w0))
    BY <2>2 DEF w0, Value, Vals, Plain, IsHandle, Kinds, Basic, Nested, Sets
  <2>4. x \in Vals /\ ~IsHandle(x)
    BY <2>1, <2>3 DEF w0
  <2> HIDE DEF x, base, g
  <2>5. Plus(base, x) = ext
    <3>1. Plus(ext, x) \in Outside /\ \A p \in Ids : Plus(ext, x)[p] = ext[p] + One(x, p)
      BY <1>1, PlusIs
    <3>2. \A p \in Ids : ext[p] \in Nat /\ One(x, p) = 0
      BY <1>1, <2>4, HandleIs DEF Outside
    <3>3. \A p \in Ids : Plus(ext, x)[p] = ext[p]
      BY <3>1, <3>2
    <3> QED BY <1>1, <2>1, <3>1, <3>3, SameOutside
  <2>6. Fits(g, x)
    BY <2>4 DEF Fits
  <2>7. Adds(h, g)
    BY <2>1, FreeIs DEF Adds
  <2> QED BY <1>1, <1>2, <2>1, <2>4, <2>5, <2>6, <2>7 DEF x, base, g
<1>3. CASE nested
  <2> DEFINE obj == ReceivedList
             e == Plus(base, x)
             c == New(h, obj)
  <2>1. g = c /\ x = Value("list", n) /\ base = Owned(ext, n)
    BY <1>3
  <2>2. n \in Ids
    BY <1>3 DEF NewId, Live
  <2>3. x \in Vals /\ IsHandle(x) /\ x.type = "list" /\ x.v = n
    <3>1. "list" \in Nested \cup Sets \cup {"options", "repr"}
      BY DEF Nested
    <3> QED BY <2>1, <2>2, <3>1, RefIs
  <2>4. base \in Outside /\ \A p \in Ids : base[p] = ext[p] + (IF p = n THEN 1 ELSE 0)
    BY <1>1, <2>1, <2>2, OwnedIs
  <2>5. /\ e \in Outside
        /\ \A p \in Ids : e[p] = base[p] + One(x, p)
        /\ \A p \in Ids : One(x, p) = IF p = n THEN 1 ELSE 0
    <3> HIDE DEF x, base
    <3> QED BY <2>3, <2>4, PlusIs, HandleIs
  <2>6. /\ obj \in Objects /\ obj.kind = "list" /\ obj.refs = 2
        /\ DOMAIN obj.items = {} /\ DOMAIN obj.fields = {}
    <3> DEFINE b == Blank("list", "int")
    <3>1. b \in Objects /\ DOMAIN b.items = {} /\ DOMAIN b.fields = {}
      <4>1. "list" \in Kinds /\ "int" \in Basic \cup Nested \cup {""}
        BY DEF Kinds, Nested, Basic
      <4> HIDE DEF b
      <4>2. b = Blank("list", "int")
        BY DEF b
      <4> QED BY ONLY <4>1, <4>2, BlankAlone
    <3>2. obj = [b EXCEPT !.refs = 2]
      BY DEF ReceivedList
    <3>3. b.kind = "list"
      BY DEF Blank
    <3> HIDE DEF b, obj
    <3> QED BY <3>1, <3>2, <3>3, 2 \in Nat DEF Objects
  <2>7. ObjectOk(h, obj) /\ \A p : Uses(obj, p) = 0
    BY <2>6, EmptyIs
  <2> HIDE DEF obj, e, x, base, g
  <2>8. \A p \in Ids : ext[p] + (IF p = NewId(h) THEN obj.refs ELSE 0) = e[p] + Uses(obj, p)
    <3> SUFFICES ASSUME NEW p \in Ids
                 PROVE  ext[p] + (IF p = NewId(h) THEN obj.refs ELSE 0) = e[p] + Uses(obj, p)
      OBVIOUS
    <3>1. /\ e[p] = base[p] + One(x, p) /\ ext[p] \in Nat
          /\ base[p] = ext[p] + (IF p = NewId(h) THEN 1 ELSE 0)
          /\ One(x, p) = (IF p = NewId(h) THEN 1 ELSE 0)
          /\ Uses(obj, p) = 0 /\ obj.refs = 2
      BY <1>1, <2>4, <2>5, <2>6, <2>7 DEF Outside
    <3> QED BY ONLY <3>1
  <2>9. /\ n \in Ids /\ h[n] = Free /\ Good(c, e)
        /\ c[n] = obj /\ \A p \in Ids \ {n} : c[p] = h[p]
        /\ Live(c) = Live(h) \cup {n}
    <3>1. obj.refs >= 1
      BY ONLY <2>6
    <3>2. /\ Good(h, ext) /\ Live(h) # Ids /\ obj \in Objects /\ e \in Outside
          /\ obj.kind # "free" /\ ObjectOk(h, obj)
      BY <1>3, <2>5, <2>6, <2>7
    <3> HIDE DEF c
    <3> QED BY ONLY <2>8, <3>1, <3>2, NewGood DEF c
  <2> HIDE DEF c
  <2>10. Good(g, Plus(base, x)) /\ g[n].kind = "list" /\ Live(g) = Live(h) \cup {n}
    BY <2>1, <2>6, <2>9 DEF e
  <2>11. Fits(g, x)
    BY <2>3, <2>10 DEF Fits
  <2>12. Adds(h, g)
    BY <2>1, <2>9, <2>10, FreeIs DEF Adds
  <2> QED BY <1>3, <2>3, <2>4, <2>9, <2>10, <2>11, <2>12 DEF x, base, g
<1> QED BY <1>2, <1>3

\* The addresses left.
LEMMA OneTaken ==
  ASSUME NEW h, NEW m \in Nat, Cardinality(Ids \ Live(h)) >= m + 1
  PROVE  /\ Live(h) # Ids
         /\ \A g, n : n \in Ids /\ h[n] = Free /\ Live(g) = Live(h) \cup {n}
                        => Cardinality(Ids \ Live(g)) >= m
<1>1. Live(h) # Ids
  <2>1. m + 1 \in Nat /\ m + 1 >= 1
    BY ONLY m \in Nat
  <2> QED BY <2>1, RoomIs
<1>2. ASSUME NEW g, NEW n, n \in Ids, h[n] = Free, Live(g) = Live(h) \cup {n}
      PROVE  Cardinality(Ids \ Live(g)) >= m
  <2>1. /\ Cardinality(Ids \ Live(h)) \in Nat /\ Cardinality(Ids \ Live(g)) \in Nat
        /\ Cardinality(Ids \ Live(h)) = Cardinality(Ids \ Live(g)) + 1
    BY <1>2, TakeOne
  <2> QED BY ONLY <2>1, Cardinality(Ids \ Live(h)) >= m + 1, m \in Nat
<1> QED BY <1>1, <1>2

\* What comes with a request.
LEMMA PartsArrive ==
  ASSUME NEW h, NEW base \in Outside, NEW x \in Vals, Good(h, Plus(base, x)), Fits(h, x),
         NEW m \in Nat, Cardinality(Ids \ Live(h)) >= m + 2
  PROVE  LET n1 == NewId(h)
             h1 == New(h, ReceivedState(x))
             n2 == NewId(h1)
             h2 == New(h1, [Blank("repr", "") EXCEPT
                              !.fields = Insert(<<>>, "state", Value("state", n1))])
             y == Value("repr", n2)
         IN /\ y \in Vals /\ Good(h2, Plus(base, y)) /\ Fits(h2, y) /\ Adds(h, h2)
            /\ Cardinality(Ids \ Live(h2)) >= m
<1> DEFINE n1 == NewId(h)
           key == CHOOSE k \in Keys : TRUE
           h1 == New(h, ReceivedState(x))
           s == Value("state", n1)
           n2 == NewId(h1)
           h2 == New(h1, [Blank("repr", "") EXCEPT !.fields = Insert(<<>>, "state", s)])
           y == Value("repr", n2)
<1>1. key \in Keys /\ key \in FieldNames
  BY ContentsAssumption DEF FieldNames
<1>2. Live(h) # Ids /\ \A g, n : n \in Ids /\ h[n] = Free /\ Live(g) = Live(h) \cup {n}
                                   => Cardinality(Ids \ Live(g)) >= m + 1
  <2>1. m + 1 \in Nat /\ Cardinality(Ids \ Live(h)) >= (m + 1) + 1
    <3>1. m + 2 = (m + 1) + 1 /\ m + 1 \in Nat
      BY ONLY m \in Nat
    <3> QED BY <3>1
  <2> QED BY <2>1, OneTaken
<1>3. /\ n1 \in Ids /\ h[n1] = Free /\ Good(h1, Owned(base, n1)) /\ h1[n1].kind = "state"
      /\ \A p \in Ids \ {n1} : h1[p] = h[p]
      /\ Live(h1) = Live(h) \cup {n1}
  <2>1. "state" \in Kinds /\ FieldOk("state", key, x)
    BY DEF Kinds, Nested, FieldOk
  <2> HIDE DEF key
  <2> DEFINE c == New(h, [Blank("state", "") EXCEPT !.fields = Insert(<<>>, key, x)])
  <2>2. /\ base \in Outside /\ x \in Vals /\ Good(h, Plus(base, x)) /\ Fits(h, x)
        /\ Live(h) # Ids /\ "state" \in Kinds /\ key \in FieldNames /\ FieldOk("state", key, x)
    BY <1>1, <1>2, <2>1
  <2>3. Comes(h, c, base, "state")
    BY ONLY <2>2, NewHolds
  <2>4. h1 = c
    BY DEF ReceivedState, key
  <2> HIDE DEF h1, c
  <2> QED BY <2>3, <2>4 DEF Comes
<1>4. Cardinality(Ids \ Live(h1)) >= m + 1
  BY <1>2, <1>3
<1> HIDE DEF h1, key
<1>5. Live(h1) # Ids /\ \A g, n : n \in Ids /\ h1[n] = Free /\ Live(g) = Live(h1) \cup {n}
                                    => Cardinality(Ids \ Live(g)) >= m
  BY <1>4, OneTaken
<1>6. s \in Vals /\ IsHandle(s) /\ s.type = "state" /\ s.v = n1
  <2>1. "state" \in Nested \cup Sets \cup {"options", "repr"}
    BY DEF Nested
  <2> QED BY <1>3, <2>1, RefIs
<1>7. Fits(h1, s)
  BY <1>3, <1>6 DEF Fits
<1> HIDE DEF s, n1
<1>8. Good(h1, Plus(base, s))
  BY <1>3, <1>6, OwnedIs
<1>9. /\ n2 \in Ids /\ h1[n2] = Free /\ Good(h2, Owned(base, n2)) /\ h2[n2].kind = "repr"
      /\ \A p \in Ids \ {n2} : h2[p] = h1[p]
      /\ Live(h2) = Live(h1) \cup {n2}
  <2>1. "repr" \in Kinds /\ "state" \in FieldNames /\ FieldOk("repr", "state", s)
    BY <1>6 DEF Kinds, FieldNames, FieldOk
  <2>2. /\ base \in Outside /\ s \in Vals /\ Good(h1, Plus(base, s)) /\ Fits(h1, s)
        /\ Live(h1) # Ids /\ "repr" \in Kinds /\ "state" \in FieldNames
        /\ FieldOk("repr", "state", s)
    BY <1>5, <1>6, <1>7, <1>8, <2>1
  <2>3. Comes(h1, h2, base, "repr")
    BY ONLY <2>2, NewHolds
  <2> HIDE DEF h2
  <2> QED BY <2>3 DEF Comes
<1>10. Cardinality(Ids \ Live(h2)) >= m
  BY <1>5, <1>9
<1> HIDE DEF h2
<1>11. y \in Vals /\ IsHandle(y) /\ y.type = "repr" /\ y.v = n2
  <2>1. "repr" \in Nested \cup Sets \cup {"options", "repr"}
    OBVIOUS
  <2> QED BY <1>9, <2>1, RefIs
<1>12. Fits(h2, y)
  BY <1>9, <1>11 DEF Fits
<1> HIDE DEF y, n2
<1>13. Good(h2, Plus(base, y))
  BY <1>9, <1>11, OwnedIs
<1>14. Adds(h, h2)
  <2>1. Adds(h, h1)
    BY <1>3, FreeIs DEF Adds
  <2>2. Adds(h1, h2)
    BY <1>9, FreeIs DEF Adds
  <2> QED BY <2>1, <2>2, AddsOn
<1> QED BY <1>10, <1>11, <1>12, <1>13, <1>14 DEF h1, h2, n1, n2, s, y, key

\* The options that may come with a request, and the request itself.
LEMMA MessageArrives ==
  ASSUME NEW h, NEW base \in Outside, NEW y \in Vals, Good(h, Plus(base, y)), Fits(h, y),
         NEW opts \in BOOLEAN, Cardinality(Ids \ Live(h)) >= 1 + (IF opts THEN 1 ELSE 0)
  PROVE  LET h1 == IF opts THEN New(h, Blank("options", "")) ELSE h
             one == Insert(<<>>, "repr", y)
             parts == IF opts THEN Insert(one, "options", Value("options", NewId(h))) ELSE one
             h2 == New(h1, [Blank("request", "") EXCEPT !.fields = parts])
         IN Comes(h1, h2, base, "request") /\ Adds(h, h1)
<1> DEFINE h1 == IF opts THEN New(h, Blank("options", "")) ELSE h
           one == Insert(<<>>, "repr", y)
           parts == IF opts THEN Insert(one, "options", Value("options", NewId(h))) ELSE one
           h2 == New(h1, [Blank("request", "") EXCEPT !.fields = parts])
<1>1. /\ "request" \in Kinds /\ "options" \in Kinds
      /\ "repr" \in FieldNames /\ "options" \in FieldNames
      /\ \A k, x : FieldOk("request", k, x)
  BY DEF Kinds, FieldNames, FieldOk
<1>2. CASE ~opts
  <2>1. h1 = h /\ parts = one
    BY <1>2
  <2>2. Live(h) # Ids
    <3>1. Cardinality(Ids \ Live(h)) >= 0 + 1 /\ 0 \in Nat
      BY <1>2
    <3> QED BY <3>1, OneTaken
  <2> DEFINE g == New(h, [Blank("request", "") EXCEPT !.fields = Insert(<<>>, "repr", y)])
  <2>3. Comes(h, g, base, "request")
    <3>1. /\ base \in Outside /\ y \in Vals /\ Good(h, Plus(base, y)) /\ Fits(h, y)
          /\ Live(h) # Ids /\ "request" \in Kinds /\ "repr" \in FieldNames
          /\ FieldOk("request", "repr", y)
      BY <1>1, <2>2
    <3> QED BY ONLY <3>1, NewHolds
  <2>4. Adds(h, h)
    BY FreeIs DEF Adds
  <2> QED BY <2>1, <2>3, <2>4
<1>3. CASE opts
  <2> DEFINE c == New(h, Blank("options", ""))
             o == NewId(h)
             x == Value("options", o)
             b == Plus(base, y)
  <2>1. h1 = c /\ parts = Insert(one, "options", x)
    BY <1>3
  <2>2. Cardinality(Ids \ Live(h)) >= 1 + 1 /\ 1 \in Nat /\ Room(h, 1)
    <3>1. Cardinality(Ids \ Live(h)) >= 1 + 1
      BY <1>3
    <3>2. IsFiniteSet(Ids \ Live(h))
      BY AddressesAssumption, FS_Subset
    <3>3. Cardinality(Ids \ Live(h)) \in Nat
      BY <3>2, FS_CardinalityType
    <3>4. Cardinality(Ids \ Live(h)) >= 1
      BY ONLY <3>1, <3>3
    <3> QED BY <3>1, <3>4, 1 \in Nat DEF Room
  <2>3. Comes(h, c, b, "options")
    <3>1. "" \in Basic \cup Nested \cup {""}
      OBVIOUS
    <3> QED BY <1>1, <2>2, <3>1, NewBlank
  <2> HIDE DEF c
  <2>4. /\ o \in Ids /\ h[o] = Free /\ Good(c, Owned(b, o)) /\ c[o].kind = "options"
        /\ \A p \in Ids \ {o} : c[p] = h[p]
        /\ Live(c) = Live(h) \cup {o}
    BY <2>3 DEF Comes
  <2>5. Live(c) # Ids
    <3>1. \A g, n : n \in Ids /\ h[n] = Free /\ Live(g) = Live(h) \cup {n}
                      => Cardinality(Ids \ Live(g)) >= 1
      BY <2>2, OneTaken
    <3>2. Cardinality(Ids \ Live(c)) >= 0 + 1 /\ 0 \in Nat
      BY <2>4, <3>1
    <3> QED BY <3>2, OneTaken
  <2>6. x \in Vals /\ IsHandle(x) /\ x.type = "options" /\ x.v = o
    <3>1. "options" \in Nested \cup Sets \cup {"options", "repr"}
      OBVIOUS
    <3> QED BY <2>4, <3>1, RefIs
  <2>7. Fits(c, x)
    BY <2>4, <2>6 DEF Fits
  <2>8. Fits(c, y)
    <3>1. \A p \in Ids : h[p].kind # "free" => c[p].kind = h[p].kind
      BY <2>4, FreeIs
    <3> QED BY <3>1, FitsStill
  <2>9. Adds(h, c)
    BY <2>4, FreeIs DEF Adds
  <2> HIDE DEF x, o
  <2>10. Good(c, Plus(b, x))
    <3>1. b \in Outside
      BY PlusIs
    <3> HIDE DEF b
    <3> QED BY <2>4, <2>6, <3>1, OwnedIs
  <2> DEFINE g == New(c, [Blank("request", "") EXCEPT
                            !.fields = Insert(Insert(<<>>, "repr", y), "options", x)])
  <2>11. Comes(c, g, base, "request")
    <3>1. /\ base \in Outside /\ y \in Vals /\ x \in Vals
          /\ Good(c, Plus(Plus(base, y), x)) /\ Fits(c, y) /\ Fits(c, x)
          /\ Live(c) # Ids /\ "request" \in Kinds /\ "repr" \in FieldNames
          /\ "options" \in FieldNames /\ "options" # "repr"
          /\ FieldOk("request", "repr", y) /\ FieldOk("request", "options", x)
      BY <1>1, <2>5, <2>6, <2>7, <2>8, <2>10
    <3> QED BY ONLY <3>1, NewHoldsTwo
  <2>12. h2 = g
    <3> HIDE DEF h1, parts
    <3>1. h2 = New(c, [Blank("request", "") EXCEPT !.fields = Insert(one, "options", x)])
      BY <2>1
    <3> QED BY <3>1
  <2> QED BY <2>1, <2>9, <2>11, <2>12
<1> QED BY <1>2, <1>3

\* The request n has come to g, what is in new with it.
Arrival(h, g, c, n, new) ==
  /\ new \in SUBSET Ids /\ \A o \in new : h[o] = Free
  /\ n \in Ids /\ Adds(h, g) /\ h[n] = Free
  /\ c[n].kind = "request" /\ \A p \in Ids \ {n} : c[p] = g[p]
  /\ \A o \in new : c[o].kind # "request"

\* Those outside have a reference more to what is in new.
Kept(h, own, lost, base, new) ==
  \A p \in Ids : base[p] = OutsideOf(h, own, lost)[p] + (IF p \in new THEN 1 ELSE 0)

\* A request, with all that comes with it, that the library has.
LEMMA RequestOk ==
  ASSUME NEW h, NEW own, NEW lost, StateOk(h, own, lost), RootsOf(h, own) = own,
         NEW g, NEW c, NEW n, NEW new, Arrival(h, g, c, n, new),
         NEW base \in Outside, Good(c, Owned(base, n)), Kept(h, own, lost, base, new)
  PROVE  StateOk(c, own, lost \cup new)
<1> USE DEF Arrival, Kept
<1> DEFINE e == OutsideOf(h, own, lost)
<1>1. /\ Good(h, e) /\ own \subseteq Ids /\ lost \subseteq Ids
      /\ \A p \in own \cup lost : h[p].kind # "request"
  BY DEF StateOk
<1>2. /\ e \in Outside
      /\ \A p \in Ids : e[p] = (IF p \in RootsOf(h, own) THEN 1 ELSE 0) + (IF p \in lost THEN 1 ELSE 0)
  BY OutsideIs
<1> HIDE DEF e
<1>3. \A p \in Ids : h[p] = Free => p \notin own /\ p \notin lost
  <2> SUFFICES ASSUME NEW p \in Ids, h[p] = Free
               PROVE  p \notin own /\ p \notin lost
    OBVIOUS
  <2>1. ~(e[p] >= 1)
    BY <1>1, OutsideLive
  <2> QED BY <1>2, <2>1
<1>4. RootsOf(c, own) = own \cup {n}
  <2>1. \A p \in Ids : p # n /\ c[p].kind = "request" => p \in own
    <3> SUFFICES ASSUME NEW p \in Ids, p # n, c[p].kind = "request"
                 PROVE  p \in own
      OBVIOUS
    <3>1. g[p].kind = "request"
      OBVIOUS
    <3>2. h[p] # Free /\ h[p].kind = "request"
      BY <3>1 DEF Adds
    <3>3. p \in RootsOf(h, own)
      BY <3>2 DEF RootsOf, Live
    <3> QED BY <3>3
  <2>2. c[n] # Free
    BY FreeIs
  <2>3. n \in RootsOf(c, own)
    BY <2>2 DEF RootsOf, Live
  <2>4. ASSUME NEW p \in RootsOf(c, own), p # n
        PROVE  p \in own
    BY <2>1, <2>4 DEF RootsOf, Live
  <2>5. own \subseteq RootsOf(c, own)
    BY DEF RootsOf
  <2> QED BY <2>3, <2>4, <2>5
<1>5. n \notin own
  BY <1>3
<1>6. \A p \in new : p \notin lost
  BY <1>3
<1>7. \A p \in Ids : Owned(base, n)[p] = base[p] + (IF p = n THEN 1 ELSE 0)
  BY OwnedIs
<1>8. OutsideOf(c, own, lost \cup new) = Owned(base, n)
  <2>1. ASSUME NEW p \in Ids
        PROVE  OutsideOf(c, own, lost \cup new)[p] = Owned(base, n)[p]
    <3>1. OutsideOf(c, own, lost \cup new)[p]
            = (IF p \in RootsOf(c, own) THEN 1 ELSE 0) + (IF p \in lost \cup new THEN 1 ELSE 0)
      BY OutsideIs
    <3>2. e[p] = (IF p \in own THEN 1 ELSE 0) + (IF p \in lost THEN 1 ELSE 0)
      BY <1>2
    <3>3. Owned(base, n)[p] = e[p] + (IF p \in new THEN 1 ELSE 0) + (IF p = n THEN 1 ELSE 0)
      BY <1>7 DEF e
    <3>4. (p \in RootsOf(c, own) <=> p \in own \/ p = n) /\ (p = n => p \notin own)
      BY <1>4, <1>5
    <3>5. (p \in lost \cup new <=> p \in lost \/ p \in new) /\ (p \in new => p \notin lost)
      BY <1>6
    <3>6. (IF p \in RootsOf(c, own) THEN 1 ELSE 0)
             = (IF p \in own THEN 1 ELSE 0) + (IF p = n THEN 1 ELSE 0)
      BY ONLY <3>4
    <3>7. (IF p \in lost \cup new THEN 1 ELSE 0)
             = (IF p \in lost THEN 1 ELSE 0) + (IF p \in new THEN 1 ELSE 0)
      BY ONLY <3>5
    <3> QED BY ONLY <3>1, <3>2, <3>3, <3>6, <3>7
  <2>2. OutsideOf(c, own, lost \cup new) \in Outside /\ Owned(base, n) \in Outside
    BY OutsideIs, OwnedIs
  <2> QED BY ONLY <2>1, <2>2, SameOutside
<1>9. \A o \in own \cup lost \cup new : c[o].kind # "request"
  <2> SUFFICES ASSUME NEW o \in own \cup lost
               PROVE  c[o].kind # "request"
    OBVIOUS
  <2>1. o \in Ids /\ h[o].kind # "request" /\ h[o] # Free
    BY <1>1, <1>3
  <2>2. o # n
    BY <2>1
  <2>3. g[o] = h[o]
    BY <2>1 DEF Adds
  <2> QED BY <2>1, <2>2, <2>3
<1> QED BY <1>1, <1>8, <1>9 DEF StateOk

\* A request arrives.
LEMMA ArrivesStep ==
  ASSUME IInv, NEW nested \in BOOLEAN, NEW opts \in BOOLEAN, RequestArrives(nested, opts)
  PROVE  IInv'
<1> DEFINE m == NewId(heap)
           h1 == IF nested THEN New(heap, ReceivedList) ELSE heap
           x == IF nested THEN Value("list", m) ELSE Value("int", CHOOSE w \in Words : TRUE)
           base == IF nested THEN Owned(Ext, m) ELSE Ext
           n1 == NewId(h1)
           h2 == New(h1, ReceivedState(x))
           n2 == NewId(h2)
           h3 == New(h2, [Blank("repr", "") EXCEPT !.fields = Insert(<<>>, "state", Value("state", n1))])
           y == Value("repr", n2)
           h4 == IF opts THEN New(h3, Blank("options", "")) ELSE h3
           one == Insert(<<>>, "repr", y)
           parts == IF opts THEN Insert(one, "options", Value("options", NewId(h3))) ELSE one
           h5 == New(h4, [Blank("request", "") EXCEPT !.fields = parts])
           new == IF nested THEN {m} ELSE {}
<1>1. heap' = h5 /\ held' = held /\ forgotten' = forgotten \cup new
  BY DEF RequestArrives, Store, Change
<1>2. Good(heap, Ext) /\ Ext \in Outside
  BY IInvIs
<1>3. Roots = held /\ Room(heap, 3 + (IF nested THEN 1 ELSE 0) + (IF opts THEN 1 ELSE 0))
  BY DEF RequestArrives
<1>4. RootsOf(heap, held) = held
  BY <1>3 DEF Roots, RootsOf
<1> DEFINE b == IF opts THEN 1 ELSE 0
<1>5. b \in Nat /\ 2 + b \in Nat
  OBVIOUS
<1>6. /\ nested => Cardinality(Ids \ Live(heap)) >= ((2 + b) + 1) + 1
      /\ ~nested => Cardinality(Ids \ Live(heap)) >= (2 + b) + 1
  BY <1>3 DEF Room
<1> HIDE DEF b
<1>7. nested => Live(heap) # Ids
  <2>1. (2 + b) + 1 \in Nat
    BY ONLY <1>5
  <2> QED BY <1>6, <2>1, OneTaken
<1>8. /\ x \in Vals /\ base \in Outside /\ Good(h1, Plus(base, x)) /\ Fits(h1, x) /\ Adds(heap, h1)
      /\ nested => m \in Ids /\ heap[m] = Free /\ h1[m].kind = "list" /\ Live(h1) = Live(heap) \cup {m}
  BY <1>2, <1>7, ListArrives
<1>9. Cardinality(Ids \ Live(h1)) >= (1 + b) + 2 /\ 1 + b \in Nat
  <2>1. (2 + b) + 1 = (1 + b) + 2 /\ (2 + b) + 1 \in Nat /\ 1 + b \in Nat
    BY ONLY <1>5
  <2>2. CASE nested
    <3>1. \A g, n : n \in Ids /\ heap[n] = Free /\ Live(g) = Live(heap) \cup {n}
                      => Cardinality(Ids \ Live(g)) >= (2 + b) + 1
      BY <1>6, <2>1, <2>2, OneTaken
    <3> HIDE DEF h1
    <3> QED BY <1>8, <2>1, <2>2, <3>1
  <2>3. CASE ~nested
    BY <1>6, <2>1, <2>3
  <2> QED BY <2>2, <2>3
<1> HIDE DEF h1, x
<1>10. /\ y \in Vals /\ Good(h3, Plus(base, y)) /\ Fits(h3, y) /\ Adds(h1, h3)
       /\ Cardinality(Ids \ Live(h3)) >= 1 + b
  <2> HIDE DEF base
  <2> QED BY <1>8, <1>9, PartsArrive
<1> HIDE DEF h3, y, base
<1>11. Comes(h4, h5, base, "request") /\ Adds(h3, h4)
  <2>1. Cardinality(Ids \ Live(h3)) >= 1 + (IF opts THEN 1 ELSE 0)
    BY <1>10 DEF b
  <2> QED BY <1>8, <1>10, <2>1, MessageArrives
<1> DEFINE n == NewId(h4)
<1> HIDE DEF h4, h5
<1>12. Adds(heap, h4)
  BY <1>8, <1>10, <1>11, AddsOn
<1>13. /\ n \in Ids /\ h4[n] = Free /\ Good(h5, Owned(base, n)) /\ h5[n].kind = "request"
       /\ \A p \in Ids \ {n} : h5[p] = h4[p]
  BY <1>11 DEF Comes
<1>14. heap[n] = Free
  BY <1>12, <1>13 DEF Adds
<1>15. new \in SUBSET Ids /\ (\A o \in new : heap[o] = Free) /\ (\A o \in new : h5[o].kind # "request")
  <2> SUFFICES ASSUME nested
               PROVE  m \in Ids /\ heap[m] = Free /\ h5[m].kind # "request"
    OBVIOUS
  <2>1. m \in Ids /\ heap[m] = Free /\ h1[m].kind = "list"
    BY <1>8
  <2>2. Adds(h1, h4)
    BY <1>10, <1>11, AddsOn
  <2>3. h1[m] # Free
    BY <2>1, FreeIs
  <2>4. h4[m] = h1[m] /\ h4[m] # Free
    BY <2>1, <2>2, <2>3 DEF Adds
  <2>5. m # n
    BY <1>13, <2>4
  <2> QED BY <1>13, <2>1, <2>4, <2>5
<1>16. \A p \in Ids : base[p] = Ext[p] + (IF p \in new THEN 1 ELSE 0)
  <2>1. CASE nested
    <3>1. base = Owned(Ext, m) /\ new = {m} /\ m \in Ids
      BY <1>8, <2>1 DEF base
    <3> QED BY <1>2, <3>1, OwnedIs
  <2>2. CASE ~nested
    <3>1. base = Ext /\ new = {}
      BY <2>2 DEF base
    <3>2. \A p \in Ids : Ext[p] \in Nat
      BY <1>2 DEF Outside
    <3> QED BY <3>1, <3>2
  <2> QED BY <2>1, <2>2
<1> HIDE DEF new, n
<1>17. StateOk(h5, held, forgotten \cup new)
  <2>1. StateOk(heap, held, forgotten)
    BY DEF IInv
  <2>2. Kept(heap, held, forgotten, base, new)
    BY <1>16 DEF Ext, Kept
  <2>3. Arrival(heap, h4, h5, n, new)
    BY <1>12, <1>13, <1>14, <1>15 DEF Arrival
  <2>4. Good(h5, Owned(base, n)) /\ base \in Outside
    BY <1>8, <1>13
  <2> QED BY ONLY <1>4, <2>1, <2>2, <2>3, <2>4, RequestOk
<1> QED BY <1>1, <1>17 DEF IInv

\* At first nothing is there.
LEMMA InitOk == Init => IInv
<1> SUFFICES ASSUME Init
             PROVE  IInv
  OBVIOUS
<1>1. heap = [o \in Ids |-> Free] /\ held = {} /\ forgotten = {}
  BY DEF Init
<1>2. \A p \in Ids : heap[p] = Free
  BY <1>1
<1>3. heap \in Heaps
  BY <1>1, FreeIs DEF Heaps
<1>4. RootsOf(heap, held) = {}
  BY <1>1, <1>2 DEF RootsOf, Live
<1>5. Ext \in Outside /\ \A p \in Ids : Ext[p] = 0
  BY <1>1, <1>4, OutsideIs DEF Ext
<1>6. \A p \in Ids : Count(heap, Ids, p) = 0
  <2> SUFFICES ASSUME NEW p \in Ids
               PROVE  Count(heap, Ids, p) = 0
    OBVIOUS
  <2>1. \A c \in Ids : PlacesIn(heap[c], p) = {}
    BY <1>2, FreeIs
  <2>2. Places(heap, Ids, p) = {}
    BY <2>1 DEF Places
  <2> QED BY <2>2, FS_EmptySet DEF Count
<1>7. \A p \in Ids : heap[p].refs = Ext[p] + Count(heap, Ids, p)
  <2> SUFFICES ASSUME NEW p \in Ids
               PROVE  heap[p].refs = Ext[p] + Count(heap, Ids, p)
    OBVIOUS
  <2>1. heap[p].refs = 0
    BY <1>2, FreeIs
  <2> QED BY <1>5, <1>6, <2>1
<1>8. \A p \in Ids : ObjectOk(heap, heap[p])
  BY <1>2, FreeIs
<1>9. \A p \in Ids : heap[p].refs = 0
  BY <1>2, FreeIs
<1>10. Good(heap, Ext)
  BY <1>2, <1>3, <1>5, <1>7, <1>8, <1>9 DEF Good
<1> QED BY <1>1, <1>10 DEF IInv, StateOk, Ext

\* Lists.
LEMMA ListsStep ==
  ASSUME IInv, NextLists
  PROVE  IInv'
<1>1. ASSUME NEW t \in Basic \cup Nested, ListCreate(t)
      PROVE  IInv'
  <2>1. "list" \in Kinds \ {"request"} /\ t \in Basic \cup Nested \cup {""}
    BY DEF Kinds, Nested
  <2> QED BY <1>1, <2>1, CreateStep DEF ListCreate
<1>2. ASSUME NEW l \in held, ListDestroy(l)
      PROVE  IInv'
  BY <1>2, DestroyStep DEF ListDestroy
<1>3. ASSUME NEW l \in UsableOf("list"), NEW x \in Values, NEW pos \in {-1, 0}, ListAdd(l, x, pos)
      PROVE  IInv'
  BY <1>3, ListAddStep
<1>4. ASSUME NEW l \in UsableOf("list"), NEW pos \in 1 .. MaxItems, RemoveNth(l, pos)
      PROVE  IInv'
  BY <1>4, RemoveNthStep
<1> QED BY <1>1, <1>2, <1>3, <1>4 DEF NextLists

\* States.
LEMMA StatesStep ==
  ASSUME IInv, NextStates
  PROVE  IInv'
<1>1. ASSUME StateCreate
      PROVE  IInv'
  <2>1. "state" \in Kinds \ {"request"} /\ "" \in Basic \cup Nested \cup {""}
    BY DEF Kinds, Nested
  <2> QED BY <1>1, <2>1, CreateStep DEF StateCreate
<1>2. ASSUME NEW s \in held, StateDestroy(s)
      PROVE  IInv'
  BY <1>2, DestroyStep DEF StateDestroy
<1>3. ASSUME NEW s \in UsableOf("state"), NEW k \in Keys,
             \/ \E x \in Values : StateAdd(s, k, x) \/ StateAddNested(s, k, x)
             \/ StateRemove(s, k)
      PROVE  IInv'
  BY <1>3, StateStep
<1>4. ASSUME NEW s \in UsableOf("state"), CloneState(s)
      PROVE  IInv'
  BY <1>4, CloneFlatStep DEF CloneState
<1> QED BY <1>1, <1>2, <1>3, <1>4 DEF NextStates

\* Resource types, interfaces, options.
LEMMA SetsStep ==
  ASSUME IInv, NextSets
  PROVE  IInv'
<1>1. ASSUME TypesCreate \/ InterfacesCreate \/ OptionsCreate
      PROVE  IInv'
  <2>1. /\ "types" \in Kinds \ {"request"} /\ "interfaces" \in Kinds \ {"request"}
        /\ "options" \in Kinds \ {"request"} /\ "" \in Basic \cup Nested \cup {""}
    BY DEF Kinds, Sets
  <2> QED BY <1>1, <2>1, CreateStep DEF TypesCreate, InterfacesCreate, OptionsCreate
<1>2. ASSUME NEW o \in held, TypesDestroy(o) \/ InterfacesDestroy(o) \/ OptionsDestroy(o)
      PROVE  IInv'
  BY <1>2, DestroyStep DEF TypesDestroy, InterfacesDestroy, OptionsDestroy
<1>3. ASSUME NEW o \in UsableOf("types"),
             CloneTypes(o) \/ \E w \in Words : TypesAdd(o, w) \/ TypesRemove(o, w)
      PROVE  IInv'
  <2>1. ASSUME CloneTypes(o)
        PROVE  IInv'
    BY <2>1, CloneFlatStep DEF CloneTypes
  <2>2. ASSUME NEW w \in Words, TypesAdd(o, w) \/ TypesRemove(o, w)
        PROVE  IInv'
    BY <2>2, NamesStep DEF TypesAdd, TypesRemove
  <2> QED BY <1>3, <2>1, <2>2
<1>4. ASSUME NEW o \in UsableOf("interfaces"),
             CloneInterfaces(o) \/ \E w \in Words : InterfacesAdd(o, w) \/ InterfacesRemove(o, w)
      PROVE  IInv'
  <2>1. ASSUME CloneInterfaces(o)
        PROVE  IInv'
    BY <2>1, CloneFlatStep DEF CloneInterfaces
  <2>2. ASSUME NEW w \in Words, InterfacesAdd(o, w) \/ InterfacesRemove(o, w)
        PROVE  IInv'
    BY <2>2, NamesStep DEF InterfacesAdd, InterfacesRemove
  <2> QED BY <1>4, <2>1, <2>2
<1>5. ASSUME NEW o \in UsableOf("options"), NEW k \in Keys,
             OptionsRemove(o, k) \/ \E w \in Words : OptionsAdd(o, k, w)
      PROVE  IInv'
  BY <1>5, OptionsStep
<1> QED BY <1>1, <1>2, <1>3, <1>4, <1>5 DEF NextSets

\* Representations.
LEMMA RepresentationsStep ==
  ASSUME IInv, NextRepresentations, stray' = {}
  PROVE  IInv'
<1>1. ASSUME ReprCreate
      PROVE  IInv'
  <2>1. "repr" \in Kinds \ {"request"} /\ "" \in Basic \cup Nested \cup {""}
    BY DEF Kinds
  <2> QED BY <1>1, <2>1, CreateStep DEF ReprCreate
<1>2. ASSUME NEW r \in held, ReprDestroy(r)
      PROVE  IInv'
  BY <1>2, DestroyStep DEF ReprDestroy
<1>3. ASSUME NEW r \in UsableOf("repr"), NEW w \in Words, ReprSetUri(r, w)
      PROVE  IInv'
  BY <1>3, SetUriStep
<1>4. ASSUME NEW r \in UsableOf("repr"), NEW k \in PartNames, NEW o \in UsableOf(k) \cup {Null},
             ReprSet(r, k, o)
      PROVE  IInv'
  BY <1>4, ReprSetStep
<1>5. ASSUME NEW r \in UsableOf("repr"), NEW c \in UsableOf("repr"), AddChild(r, c) \/ RemoveChild(r, c)
      PROVE  IInv'
  BY <1>5, AddChildStep, RemoveChildStep
<1>6. ASSUME NEW r \in UsableOf("repr"), CloneRepresentation(r)
      PROVE  IInv'
  BY <1>6, CloneReprStep
<1>7. "types" \in PartNames /\ "interfaces" \in PartNames /\ "state" \in PartNames
  BY DEF PartNames
<1>8. ASSUME NEW r \in UsableOf("repr"),
             \/ \E o \in UsableOf("types") \cup {Null} : ReprSetTypes(r, o)
             \/ \E o \in UsableOf("interfaces") \cup {Null} : ReprSetInterfaces(r, o)
             \/ \E o \in UsableOf("state") \cup {Null} : ReprSetState(r, o)
      PROVE  IInv'
  BY <1>4, <1>7, <1>8 DEF ReprSetTypes, ReprSetInterfaces, ReprSetState
<1> QED BY <1>1, <1>2, <1>3, <1>5, <1>6, <1>8 DEF NextRepresentations

\* Requests and responses.
LEMMA MessagesStep ==
  ASSUME IInv, NextMessages
  PROVE  IInv'
<1>1. ASSUME NEW nested \in BOOLEAN, NEW opts \in BOOLEAN, RequestArrives(nested, opts)
      PROVE  IInv'
  BY <1>1, ArrivesStep
<1>2. ASSUME RequestHandled
      PROVE  IInv'
  BY <1>2, HandledStep
<1>3. ASSUME ResponseCreate
      PROVE  IInv'
  <2>1. "response" \in Kinds \ {"request"} /\ "" \in Basic \cup Nested \cup {""}
    BY DEF Kinds
  <2> QED BY <1>3, <2>1, CreateStep DEF ResponseCreate
<1>4. ASSUME NEW p \in held, ResponseDestroy(p)
      PROVE  IInv'
  BY <1>4, DestroyStep DEF ResponseDestroy
<1>5. ASSUME NEW p \in UsableOf("response"), NEW iface \in {"link", "batch", "baseline"},
             NEW r \in UsableOf("repr") \cup {Null}, ResponseSetRepr(p, iface, r)
      PROVE  IInv'
  BY <1>5, SetReprStep
<1>6. ASSUME NEW p \in UsableOf("response"), NEW o \in UsableOf("options") \cup {Null},
             ResponseSetOptions(p, o)
      PROVE  IInv'
  BY <1>6, SetOptionsStep
<1>7. ASSUME NEW p \in UsableOf("response"), ResponseSend(p)
      PROVE  IInv'
  BY <1>7, SendStep
<1> QED BY <1>1, <1>2, <1>3, <1>4, <1>5, <1>6, <1>7 DEF NextMessages

\* Every step keeps it that takes no reference from somebody else.
LEMMA NextOk == IInv /\ [Next]_vars /\ stray' = {} => IInv'
<1> SUFFICES ASSUME IInv, [Next]_vars, stray' = {}
             PROVE  IInv'
  OBVIOUS
<1>1. CASE NextQuery
  BY <1>1 DEF NextQuery, Store, Change, IInv
<1>2. CASE NextLists \/ NextStates \/ NextSets \/ NextRepresentations \/ NextMessages
  BY <1>2, ListsStep, StatesStep, SetsStep, RepresentationsStep, MessagesStep
<1>3. CASE UNCHANGED vars
  BY <1>3 DEF vars, IInv
<1> QED BY <1>1, <1>2, <1>3 DEF Next

\* Before a reference is taken from somebody else, the invariant gives the count.
LEMMA CountedIs == IInv /\ stray = {} => RefsExact
<1> SUFFICES ASSUME IInv, stray = {}, NEW o \in Ids
             PROVE  /\ heap[o].refs + Cardinality(stray \cap {o})
                         = (IF o \in Roots THEN 1 ELSE 0) + Cardinality(Places(heap, Ids, o))
                           + (IF o \in forgotten THEN 1 ELSE 0)
                    /\ heap[o].refs = 0 => heap[o] = Free
  BY DEF RefsExact
<1>1. Good(heap, Ext)
  BY IInvIs
<1>2. heap[o].refs = Ext[o] + Count(heap, Ids, o) /\ Count(heap, Ids, o) \in Nat
  BY <1>1, CountLess DEF Good
<1>3. Ext[o] = (IF o \in RootsOf(heap, held) THEN 1 ELSE 0) + (IF o \in forgotten THEN 1 ELSE 0)
  BY OutsideIs DEF Ext
<1>4. Roots = RootsOf(heap, held)
  BY DEF Roots, RootsOf
<1>5. Count(heap, Ids, o) = Cardinality(Places(heap, Ids, o))
  BY DEF Count
<1>6. heap[o].refs = 0 => heap[o] = Free
  BY <1>1 DEF Good
<1>7. Cardinality(stray \cap {o}) = 0
  <2>1. stray \cap {o} = {}
    OBVIOUS
  <2> QED BY <2>1, FS_EmptySet
<1>8. heap[o].refs + Cardinality(stray \cap {o})
        = (IF o \in Roots THEN 1 ELSE 0) + Cardinality(Places(heap, Ids, o))
          + (IF o \in forgotten THEN 1 ELSE 0)
  BY ONLY <1>2, <1>3, <1>4, <1>5, <1>7
<1> QED BY <1>6, <1>8

\* Who takes a reference from somebody else.
LEMMA StrayIs ==
  ASSUME Next, stray' # {}
  PROVE  \E r, c \in UsableOf("repr") : RemoveChild(r, c)
<1> USE DEF Keep, Store
<1>1. stray = {}
  BY DEF Next
<1>2. ASSUME NextQuery
      PROVE  stray' = stray
  BY <1>2 DEF NextQuery
<1>3. ASSUME NextLists
      PROVE  stray' = stray
  BY <1>3 DEF NextLists, ListCreate, ListDestroy, ListAdd, RemoveNth, Create, Destroy
<1>4. ASSUME NextStates
      PROVE  stray' = stray
  BY <1>4 DEF NextStates, StateCreate, StateDestroy, StateAdd, StateAddNested, StateRemove, CloneState,
              Create, Destroy, Cloned
<1>5. ASSUME NextSets
      PROVE  stray' = stray
  <2>1. ASSUME NEW o, CloneTypes(o) \/ CloneInterfaces(o)
        PROVE  stray' = stray
    BY <2>1 DEF CloneTypes, CloneInterfaces, Cloned
  <2>2. ASSUME NEW o, NEW x, NameAdd(o, x) \/ NameRemove(o, x)
        PROVE  stray' = stray
    BY <2>2 DEF NameAdd, NameRemove
  <2>3. ASSUME NEW o, NEW w, TypesAdd(o, w) \/ TypesRemove(o, w)
                             \/ InterfacesAdd(o, w) \/ InterfacesRemove(o, w)
        PROVE  stray' = stray
    BY <2>2, <2>3 DEF TypesAdd, TypesRemove, InterfacesAdd, InterfacesRemove
  <2>4. ASSUME NEW o, NEW k, NEW w, OptionsAdd(o, k, w) \/ OptionsRemove(o, k)
        PROVE  stray' = stray
    BY <2>4 DEF OptionsAdd, OptionsRemove
  <2>5. ASSUME TypesCreate \/ InterfacesCreate \/ OptionsCreate
        PROVE  stray' = stray
    BY <2>5 DEF TypesCreate, InterfacesCreate, OptionsCreate, Create
  <2>6. ASSUME NEW o, TypesDestroy(o) \/ InterfacesDestroy(o) \/ OptionsDestroy(o)
        PROVE  stray' = stray
    BY <2>6 DEF TypesDestroy, InterfacesDestroy, OptionsDestroy, Destroy
  <2> QED BY <1>5, <2>1, <2>3, <2>4, <2>5, <2>6 DEF NextSets
<1>6. ASSUME NextRepresentations
      PROVE  stray' = stray \/ \E r, c \in UsableOf("repr") : RemoveChild(r, c)
  <2>1. ASSUME NEW r, NEW k, NEW o, ReprSet(r, k, o)
        PROVE  stray' = stray
    BY <2>1 DEF ReprSet
  <2>2. ASSUME NEW r, NEW o, ReprSetTypes(r, o) \/ ReprSetInterfaces(r, o) \/ ReprSetState(r, o)
        PROVE  stray' = stray
    BY <2>1, <2>2 DEF ReprSetTypes, ReprSetInterfaces, ReprSetState
  <2>3. ASSUME NEW r, NEW w, NEW c, ReprSetUri(r, w) \/ AddChild(r, c)
        PROVE  stray' = stray
    BY <2>3 DEF ReprSetUri, AddChild
  <2>4. ASSUME NEW r, ReprCreate \/ ReprDestroy(r) \/ CloneRepresentation(r)
        PROVE  stray' = stray
    BY <2>4 DEF ReprCreate, ReprDestroy, Create, Destroy, CloneRepresentation, Cloned
  <2> QED BY <1>6, <2>2, <2>3, <2>4 DEF NextRepresentations
<1>7. ASSUME NextMessages
      PROVE  stray' = stray
  <2>1. ASSUME NEW nested, NEW opts, RequestArrives(nested, opts)
        PROVE  stray' = stray
    BY <2>1 DEF RequestArrives
  <2>2. ASSUME RequestHandled
        PROVE  stray' = stray
    BY <2>2 DEF RequestHandled
  <2>3. ASSUME NEW p, ResponseCreate \/ ResponseDestroy(p)
        PROVE  stray' = stray
    BY <2>3 DEF ResponseCreate, ResponseDestroy, Create, Destroy
  <2>4. ASSUME NEW p, NEW iface, NEW r, ResponseSetRepr(p, iface, r)
        PROVE  stray' = stray
    BY <2>4 DEF ResponseSetRepr
  <2>5. ASSUME NEW p, NEW o, ResponseSetOptions(p, o) \/ ResponseSend(p)
        PROVE  stray' = stray
    BY <2>5 DEF ResponseSetOptions, ResponseSend
  <2> QED BY <1>7, <2>1, <2>2, <2>3, <2>4, <2>5 DEF NextMessages
<1> QED BY <1>1, <1>2, <1>3, <1>4, <1>5, <1>6, <1>7 DEF Next

\* The references count up, and the objects are as they may be until a
\* reference is taken from somebody else.
JInv == RefsExact /\ (stray = {} => IInv)

\* Every step keeps that.
LEMMA NextCounted == JInv /\ [Next]_vars => JInv'
<1> SUFFICES ASSUME JInv, [Next]_vars
             PROVE  JInv'
  OBVIOUS
<1>1. CASE UNCHANGED vars
  BY <1>1 DEF vars, JInv, RefsExact, Roots, IInv
<1>2. CASE Next
  <2>1. IInv
    BY <1>2 DEF JInv, Next
  <2>2. CASE stray' = {}
    <3>1. IInv'
      BY <1>2, <2>1, <2>2, NextOk
    <3>2. (IInv /\ stray = {} => RefsExact)'
      BY CountedIs, PTL
    <3> QED BY <2>2, <3>1, <3>2 DEF JInv
  <2>3. CASE stray' # {}
    <3>1. PICK r \in UsableOf("repr"), c \in UsableOf("repr") : RemoveChild(r, c)
      BY <1>2, <2>3, StrayIs
    <3>2. RefsExact'
      BY <2>1, <2>3, <3>1, StrayStep
    <3> QED BY <2>3, <3>2 DEF JInv
  <2> QED BY <2>2, <2>3
<1> QED BY <1>1, <1>2

\* The objects are as they may be until a reference is taken from somebody else.
LEMMA ObjectsKept == Spec => []JInv
<1>1. Init => JInv
  <2>1. Init => stray = {}
    BY DEF Init
  <2> QED BY <2>1, InitOk, CountedIs DEF JInv
<1> QED BY <1>1, NextCounted, PTL DEF Spec

\* The references of every object are exactly those who have it, and what
\* nobody has is free; a representation that is removed from one it was not in
\* loses a reference that somebody has, and nothing else does.
THEOREM ReferencesExact == Spec => []RefsExact
<1>1. JInv => RefsExact
  BY DEF JInv
<1> QED BY <1>1, ObjectsKept, PTL

\* An object is cloned.
Clones ==
  \/ \E d \in {"state", "types", "interfaces"} : \E o \in UsableOf(d) :
       Room(heap, 1) /\ Cloned(o, CloneFlat(heap, o))
  \/ \E r \in UsableOf("repr") : CloneRepresentation(r)

\* Only clones are kept as such.
LEMMA LastIs ==
  ASSUME Next
  PROVE  last' = Null \/ Clones
<1> USE DEF Keep, Store, Change
<1>1. ASSUME NextQuery
      PROVE  last' = Null
  BY <1>1 DEF NextQuery
<1>2. ASSUME NextLists
      PROVE  last' = Null
  BY <1>2 DEF NextLists, ListCreate, ListDestroy, ListAdd, RemoveNth, Create, Destroy
<1>4. ASSUME NextStates
      PROVE  last' = Null \/ Clones
  <2>1. ASSUME NEW s \in UsableOf("state"), CloneState(s)
        PROVE  Clones
    BY <2>1 DEF CloneState, Clones
  <2>2. ASSUME NEW s, NEW k, NEW x, StateAdd(s, k, x) \/ StateAddNested(s, k, x)
        PROVE  last' = Null
    BY <2>2 DEF StateAdd, StateAddNested
  <2>3. ASSUME NEW s, NEW k, StateRemove(s, k)
        PROVE  last' = Null
    BY <2>3 DEF StateRemove
  <2>4. ASSUME NEW s, StateCreate \/ StateDestroy(s)
        PROVE  last' = Null
    BY <2>4 DEF StateCreate, StateDestroy, Create, Destroy
  <2> QED BY <1>4, <2>1, <2>2, <2>3, <2>4 DEF NextStates
<1>5. ASSUME NextSets
      PROVE  last' = Null \/ Clones
  <2>1. ASSUME NEW s, \/ (s \in UsableOf("types") /\ CloneTypes(s))
                     \/ (s \in UsableOf("interfaces") /\ CloneInterfaces(s))
        PROVE  Clones
    BY <2>1 DEF CloneTypes, CloneInterfaces, Clones
  <2>2. ASSUME NEW o, NEW x, NameAdd(o, x) \/ NameRemove(o, x)
        PROVE  last' = Null
    BY <2>2 DEF NameAdd, NameRemove
  <2>3. ASSUME NEW o, NEW w, TypesAdd(o, w) \/ TypesRemove(o, w)
                             \/ InterfacesAdd(o, w) \/ InterfacesRemove(o, w)
        PROVE  last' = Null
    BY <2>2, <2>3 DEF TypesAdd, TypesRemove, InterfacesAdd, InterfacesRemove
  <2>4. ASSUME NEW o, NEW k, NEW w, OptionsAdd(o, k, w) \/ OptionsRemove(o, k)
        PROVE  last' = Null
    BY <2>4 DEF OptionsAdd, OptionsRemove
  <2>5. ASSUME TypesCreate \/ InterfacesCreate \/ OptionsCreate
        PROVE  last' = Null
    BY <2>5 DEF TypesCreate, InterfacesCreate, OptionsCreate, Create
  <2>6. ASSUME NEW o, TypesDestroy(o) \/ InterfacesDestroy(o) \/ OptionsDestroy(o)
        PROVE  last' = Null
    BY <2>6 DEF TypesDestroy, InterfacesDestroy, OptionsDestroy, Destroy
  <2> QED BY <1>5, <2>1, <2>3, <2>4, <2>5, <2>6 DEF NextSets
<1>6. ASSUME NextRepresentations
      PROVE  last' = Null \/ Clones
  <2>1. ASSUME NEW r \in UsableOf("repr"), CloneRepresentation(r)
        PROVE  Clones
    BY <2>1 DEF Clones
  <2>2. ASSUME NEW r, NEW k, NEW o, ReprSet(r, k, o)
        PROVE  last' = Null
    BY <2>2 DEF ReprSet
  <2>3. ASSUME NEW r, NEW o, ReprSetTypes(r, o) \/ ReprSetInterfaces(r, o) \/ ReprSetState(r, o)
        PROVE  last' = Null
    BY <2>2, <2>3 DEF ReprSetTypes, ReprSetInterfaces, ReprSetState
  <2>4. ASSUME NEW r, NEW w, NEW c, ReprSetUri(r, w) \/ AddChild(r, c) \/ RemoveChild(r, c)
        PROVE  last' = Null
    BY <2>4 DEF ReprSetUri, AddChild, RemoveChild
  <2>5. ASSUME NEW r, ReprCreate \/ ReprDestroy(r)
        PROVE  last' = Null
    BY <2>5 DEF ReprCreate, ReprDestroy, Create, Destroy
  <2> QED BY <1>6, <2>1, <2>3, <2>4, <2>5 DEF NextRepresentations
<1>7. ASSUME NextMessages
      PROVE  last' = Null
  <2>1. ASSUME NEW nested, NEW opts, RequestArrives(nested, opts)
        PROVE  last' = Null
    BY <2>1 DEF RequestArrives
  <2>2. ASSUME RequestHandled
        PROVE  last' = Null
    BY <2>2 DEF RequestHandled
  <2>3. ASSUME NEW p, ResponseCreate \/ ResponseDestroy(p)
        PROVE  last' = Null
    BY <2>3 DEF ResponseCreate, ResponseDestroy, Create, Destroy
  <2>4. ASSUME NEW p, NEW iface, NEW r, ResponseSetRepr(p, iface, r)
        PROVE  last' = Null
    BY <2>4 DEF ResponseSetRepr
  <2>5. ASSUME NEW p, NEW o, ResponseSetOptions(p, o)
        PROVE  last' = Null
    BY <2>5 DEF ResponseSetOptions
  <2>6. ASSUME NEW p, ResponseSend(p)
        PROVE  last' = Null
    BY <2>6 DEF ResponseSend
  <2> QED BY <1>7, <2>1, <2>2, <2>3, <2>4, <2>5, <2>6 DEF NextMessages
<1> QED BY <1>1, <1>2, <1>4, <1>5, <1>6, <1>7 DEF Next

(***************************************************************************)
(* Clones                                                                  *)
(***************************************************************************)

\* The pairs of objects with the same contents.
Bodies(h) == {q \in Ids \X Ids : SameBody(h[q[1]], h[q[2]])}

\* The more pairs say the same, the more objects that hold them do.
LEMMA SameMore ==
  ASSUME NEW h, NEW R, NEW T, R \subseteq T
  PROVE  SameBut(h, R) \subseteq SameBut(h, T)
BY DEF SameBut, SameValue

\* Pairs of objects that differ in nothing but such pairs say the same: no turn
\* tells them apart.
LEMMA SameIs ==
  ASSUME NEW h, NEW R \in SUBSET (Ids \X Ids), R \subseteq SameBut(h, R)
  PROVE  R \subseteq Same(h)
<1> DEFINE Turn(T) == SameBut(h, T)
           all == Ids \X Ids
           G == {T \in SUBSET all : R \subseteq T}
           s == [T \in G |-> Turn(T)]
           turn == CHOOSE g : g = [i \in Nat |-> IF i = 0 THEN all ELSE Turn(g[i - 1])]
<1>1. s \in [G -> G] /\ all \in G
  <2>1. ASSUME NEW T \in G
        PROVE  Turn(T) \in G
    <3>1. SameBut(h, T) \subseteq all
      BY DEF SameBut
    <3>2. R \subseteq SameBut(h, T)
      BY SameMore
    <3> QED BY <3>1, <3>2
  <2> QED BY <2>1
<1> HIDE DEF Turn, s, G
<1>2. PICK g : g = [i \in Nat |-> IF i = 0 THEN all ELSE s[g[i - 1]]]
  <2> HIDE DEF all
  <2> QED BY <1>1, Iterates
<1> HIDE DEF all
<1>3. \A i \in Nat : g[i] = IF i = 0 THEN all ELSE s[g[i - 1]]
  BY <1>2
<1>4. \A i \in Nat : g[i] \in G
  <2>1. g[0] \in G
    BY <1>1, <1>3
  <2>2. \A i \in Nat : g[i] \in G => g[i + 1] \in G
    BY <1>1, <1>3
  <2> QED BY <2>1, <2>2, Stays
<1>5. \A T \in G : s[T] = Turn(T)
  BY DEF s
<1>6. g = [i \in Nat |-> IF i = 0 THEN all ELSE Turn(g[i - 1])]
  <2>1. ASSUME NEW i \in Nat
        PROVE  (IF i = 0 THEN all ELSE s[g[i - 1]]) = (IF i = 0 THEN all ELSE Turn(g[i - 1]))
    <3>1. CASE i # 0
      <4>1. i - 1 \in Nat
        BY <3>1
      <4> QED BY <1>4, <1>5, <4>1
    <3> QED BY <3>1
  <2> QED BY <1>2, <2>1
<1>7. turn = [i \in Nat |-> IF i = 0 THEN all ELSE Turn(turn[i - 1])]
  BY <1>6
<1> HIDE DEF turn
<1>8. turn[0] = all /\ \A i \in Nat : turn[i + 1] = Turn(turn[i])
  <2>1. \A i \in Nat : turn[i] = IF i = 0 THEN all ELSE Turn(turn[i - 1])
    BY <1>7
  <2> QED BY <2>1
<1>9. \A i \in Nat : turn[i] \in G
  <2>1. \A i \in Nat : turn[i] \in G => turn[i + 1] \in G
    BY <1>1, <1>5, <1>8
  <2> QED BY <1>1, <1>8, <2>1, Stays
<1>10. Cardinality(Ids) \in Nat
  BY AddressesAssumption, FS_CardinalityType
<1>11. Same(h) = turn[Cardinality(Ids)]
  BY DEF Same, After, turn, Turn, all
<1> QED BY <1>9, <1>10, <1>11 DEF G

\* Objects with the same contents say the same.
LEMMA BodiesSame ==
  ASSUME NEW h, NEW ext, Good(h, ext), NEW q \in Bodies(h)
  PROVE  q \in SameBut(h, Bodies(h))
<1> DEFINE a == h[q[1]]
           b == h[q[2]]
           B == Bodies(h)
<1>1. q \in Ids \X Ids /\ q[1] \in Ids /\ SameBody(a, b)
  BY DEF Bodies
<1>2. ASSUME NEW x \in Vals
      PROVE  SameValue(B, x, x)
  <2>1. IsHandle(x) => <<x.v, x.v>> \in B
    BY HandleIs DEF Bodies, SameBody
  <2> QED BY <2>1 DEF SameValue
<1> HIDE DEF B
<1>3. \A i \in DOMAIN a.items : SameValue(B, a.items[i], b.items[i])
  BY <1>1, <1>2, ItemsOf DEF SameBody
<1>4. \A k \in DOMAIN a.fields : SameValue(B, a.fields[k], b.fields[k])
  BY <1>1, <1>2, ItemsOf DEF SameBody
<1> QED BY <1>1, <1>3, <1>4 DEF SameBut, SameBody, B

\* A clone that shares its contents with its source says the same.
LEMMA FlatSame ==
  ASSUME NEW h, NEW ext, Good(h, ext), NEW q \in Bodies(h)
  PROVE  q \in Same(h)
<1>1. Bodies(h) \in SUBSET (Ids \X Ids)
  BY DEF Bodies
<1>2. Bodies(h) \subseteq SameBut(h, Bodies(h))
  BY BodiesSame
<1> QED BY <1>1, <1>2, SameIs

\* A representation that has been cloned with all its children and its copy say
\* the same.
LEMMA ReprSame ==
  ASSUME NEW h, NEW e, NEW r, NEW n, NEW c \in Underway(h, e, r, n), Unfinished(c) = {}
  PROVE  <<r, n>> \in Same(c.heap)
<1> DEFINE g == c.heap
           R == c.pairs \cup Bodies(g)
<1>1. /\ Good(g, e) /\ c.pairs \in SUBSET (Ids \X Ids) /\ <<r, n>> \in c.pairs
      /\ \A p \in c.pairs :
           /\ g[p[1]].kind = "repr" /\ g[p[2]].kind = "repr"
           /\ Copied(g, c.pairs, p[1], p[2])
  BY DEF Underway
<1>2. ASSUME NEW p \in c.pairs
      PROVE  p \in SameBut(g, R)
  <2> DEFINE a == g[p[1]]
             b == g[p[2]]
  <2>1. /\ p[1] \in Ids /\ p[2] \in Ids /\ a.kind = "repr" /\ b.kind = "repr"
        /\ Copied(g, c.pairs, p[1], p[2])
    BY <1>1
  <2>2. a \in Objects /\ b \in Objects
    BY <1>1, <2>1 DEF Good, Heaps
  <2>3. a.type = b.type
    <3>1. \A obj \in Objects : obj.kind = "repr" => obj.type = ""
      BY DEF Objects
    <3> QED BY <2>1, <2>2, <3>1
  <2>4. /\ \A i \in DOMAIN a.items : a.items[i].type = "repr"
        /\ \A i \in DOMAIN b.items : b.items[i].type = "repr"
    BY <1>1, <2>1, ItemsOf DEF ItemOk
  <2>5. DOMAIN a.items = DOMAIN b.items
    <3>1. ~(Len(b.items) < Len(a.items)) /\ Len(b.items) <= Len(a.items)
      BY <2>1 DEF Unfinished, Copied
    <3>2. a.items \in Seq(Vals) /\ b.items \in Seq(Vals)
      BY <2>2 DEF Objects
    <3> DEFINE u == a.items
               v == b.items
    <3> HIDE DEF u, v
    <3>3. Len(u) \in Nat /\ Len(v) \in Nat /\ DOMAIN u = 1 .. Len(u) /\ DOMAIN v = 1 .. Len(v)
      BY <3>2, LenProperties DEF u, v
    <3>4. Len(u) = Len(v)
      BY <3>1, <3>3 DEF u, v
    <3> QED BY <3>3, <3>4 DEF u, v
  <2>6. ASSUME NEW i \in DOMAIN a.items
        PROVE  SameValue(R, a.items[i], b.items[i])
    <3>1. <<a.items[i].v, b.items[i].v>> \in R
      BY <2>1, <2>5 DEF Copied
    <3>2. a.items[i].type = "repr" /\ b.items[i].type = "repr"
      BY <2>4, <2>5
    <3>3. IsHandle(a.items[i])
      BY <3>2 DEF IsHandle, Kinds
    <3> QED BY <3>1, <3>2, <3>3 DEF SameValue
  <2>7. DOMAIN a.fields = DOMAIN b.fields
    <3>1. DOMAIN a.fields \subseteq PartNames \cup {"uri"}
      <4>1. \A k \in DOMAIN a.fields : FieldOk("repr", k, a.fields[k])
        BY <1>1, <2>1, ItemsOf
      <4> QED BY <4>1 DEF FieldOk, PartNames
    <3> QED BY <2>1, <3>1 DEF Copied, Matching
  <2>8. ASSUME NEW k \in DOMAIN a.fields
        PROVE  SameValue(R, a.fields[k], b.fields[k])
    <3> DEFINE x == a.fields[k]
               y == b.fields[k]
    <3>1. Twin(g, x, y)
      BY <2>1, <2>7 DEF Copied, Matching
    <3> HIDE DEF x, y
    <3>2. ASSUME x = y /\ ~IsHandle(x)
          PROVE  SameValue(R, x, y)
      <4> HIDE DEF R
      <4> QED BY <3>2 DEF SameValue
    <3>3. ASSUME ~(x = y /\ ~IsHandle(x))
          PROVE  SameValue(R, x, y)
      <4>1. /\ IsHandle(x) /\ x.type = y.type /\ x.v \in Ids /\ y.v \in Ids
            /\ SameBody(g[x.v], g[y.v])
        BY <3>1, <3>3 DEF Twin
      <4>2. <<x.v, y.v>> \in R
        BY <4>1 DEF Bodies
      <4> HIDE DEF R
      <4> QED BY <4>1, <4>2 DEF SameValue
    <3> HIDE DEF R
    <3>4. SameValue(R, x, y)
      BY <3>2, <3>3
    <3> QED BY <3>4 DEF x, y
  <2> HIDE DEF R, g
  <2>9. p \in Ids \X Ids
    BY <1>1
  <2> QED BY <2>1, <2>3, <2>5, <2>6, <2>7, <2>8, <2>9 DEF SameBut
<1>3. Bodies(g) \subseteq SameBut(g, R)
  <2>1. Bodies(g) \subseteq SameBut(g, Bodies(g))
    BY <1>1, BodiesSame
  <2>2. SameBut(g, Bodies(g)) \subseteq SameBut(g, R)
    BY SameMore
  <2> QED BY <2>1, <2>2
<1>4. R \in SUBSET (Ids \X Ids) /\ R \subseteq SameBut(g, R)
  <2>1. R \in SUBSET (Ids \X Ids)
    BY <1>1 DEF Bodies
  <2> QED BY <1>2, <1>3, <2>1
<1> HIDE DEF g, R
<1>5. R \subseteq Same(g)
  BY <1>4, SameIs
<1> QED BY <1>1, <1>5 DEF g, R

\* A clone says what its source says.
LEMMA ClonesSame ==
  ASSUME IInv, Clones
  PROVE  <<last'.of, last'.copy>> \in Same(heap')
<1> DEFINE n == NewId(heap)
<1>1. ASSUME NEW d \in {"state", "types", "interfaces"}, NEW o \in UsableOf(d), Room(heap, 1),
             Cloned(o, CloneFlat(heap, o))
      PROVE  <<last'.of, last'.copy>> \in Same(heap')
  <2> DEFINE g == CloneFlat(heap, o)
  <2>1. o \in Ids /\ heap[o].kind # "free"
    <3>1. d # "free"
      OBVIOUS
    <3> QED BY <3>1, UsableIs
  <2>2. Good(heap, Ext) /\ Live(heap) # Ids
    <3>1. 1 \in Nat /\ 1 >= 1
      BY ONLY TRUE
    <3>2. Cardinality(Ids \ Live(heap)) >= 1
      BY <1>1 DEF Room
    <3> QED BY <3>1, <3>2, RoomIs, IInvIs
  <2>3. /\ n \in Ids /\ heap[n] = Free /\ n # o
        /\ Good(g, Owned(Ext, n))
        /\ SameBody(g[n], heap[o])
        /\ \A p \in Ids \ {n} : SameBody(g[p], heap[p])
        /\ Live(g) = Live(heap) \cup {n}
    BY <2>1, <2>2, CloneFlatGood
  <2>4. heap' = g /\ last'.of = o /\ last'.copy = n
    BY <1>1 DEF Cloned
  <2> HIDE DEF g, n
  <2>5. <<o, n>> \in Bodies(g)
    BY <2>1, <2>3 DEF Bodies, SameBody
  <2> QED BY <2>3, <2>4, <2>5, FlatSame
<1>2. ASSUME NEW r \in UsableOf("repr"), CloneRepresentation(r)
      PROVE  <<last'.of, last'.copy>> \in Same(heap')
  <2> DEFINE c == CloneRepr(heap, r)
  <2>1. r \in Ids /\ heap[r].kind = "repr"
    <3>1. "repr" # "free"
      OBVIOUS
    <3> QED BY <3>1, UsableIs
  <2>2. /\ Good(heap, Ext) /\ RoomFor(heap, r) /\ Unfinished(c) = {}
        /\ heap' = c.heap /\ last'.of = r /\ last'.copy = n
    BY <1>2, IInvIs DEF CloneRepresentation, Cloned
  <2>3. c \in Underway(heap, Owned(Ext, n), r, n)
    BY <2>1, <2>2, CloneReprGood
  <2> HIDE DEF c, n
  <2> QED BY <2>2, <2>3, ReprSame
<1> QED BY <1>1, <1>2 DEF Clones

\* A clone says what its source says, whatever it shares with it.
THEOREM ClonesEqual == Spec => []CopyEqual
<1>1. ASSUME Init
      PROVE  CopyEqual
  BY <1>1 DEF Init, CopyEqual
<1>2. ASSUME JInv, CopyEqual, [Next]_vars
      PROVE  CopyEqual'
  <2>1. CASE UNCHANGED vars
    BY <1>2, <2>1 DEF vars, CopyEqual
  <2>2. CASE Next
    <3>1. IInv
      BY <1>2, <2>2 DEF JInv, Next
    <3>2. CASE last' = Null
      BY <3>2 DEF CopyEqual
    <3>3. CASE Clones
      BY <3>1, <3>3, ClonesSame DEF CopyEqual
    <3> QED BY <2>2, <3>2, <3>3, LastIs
  <2> QED BY <1>2, <2>1, <2>2
<1> QED BY <1>1, <1>2, ObjectsKept, PTL DEF Spec
===============================================================================
