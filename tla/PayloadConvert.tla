--------------------------- MODULE PayloadConvert ---------------------------
(***************************************************************************)
(* The conversions on the way of a representation from the program that    *)
(* serves a resource to the one that watches it:                           *)
(*                                                                         *)
(*   lib/icl-payload.c     iotcon_representation_h  ->  GVariant           *)
(*   daemon/icd-payload.c  GVariant  ->  OCRepPayload    (server's daemon) *)
(*   daemon/icd-payload.c  OCRepPayload  ->  GVariant    (client's daemon) *)
(*   lib/icl-payload.c     GVariant  ->  iotcon_representation_h           *)
(*                                                                         *)
(* A representation of the library is a record of uri, types, interfaces,  *)
(* values (those of its state, in the order its hash table is walked in),  *)
(* children and visible ("prop", "repr").  The payload of the stack has    *)
(* next, the rest of its linked list, instead of the last two.  A value    *)
(* has a name, a type, the type of its elements if it is an array, and     *)
(* items.  An item is a [word |-> _] (an integer, a double, a Boolean or a *)
(* string: they are treated alike), a [bytes |-> _], an inner list, or a   *)
(* state or payload.  A GVariant is a signature ("w" for i, b, d and s)    *)
(* and items, and an entry of a dictionary a name and a GVariant.          *)
(*                                                                         *)
(* Lists of lists are rectangular and at most MAX_REP_ARRAY_DEPTH deep, as *)
(* the array of a payload supposes.                                        *)
(***************************************************************************)
EXTENDS Naturals, Sequences, SequencesExt

CONSTANT Null

IC_STR_NULL == "(NULL)"

Encode(uri) == IF uri = Null THEN IC_STR_NULL ELSE uri
Decode(uri) == IF uri = IC_STR_NULL THEN Null ELSE uri

Value(name, type, of, items) == [name |-> name, type |-> type, of |-> of, items |-> items]
Variant(sig, items) == [sig |-> sig, items |-> items]
Nothing == Variant("", <<>>)  \* a NULL GVariant

\* What an array holds: the first item tells.
Elements(var) ==
  IF var.sig = "aw" THEN "word"
  ELSE CASE Head(var.items).sig = "ay"    -> "bytes"
         [] Head(var.items).sig = "a{sv}" -> "state"
         [] OTHER                         -> "list"
-----------------------------------------------------------------------------
\* The library builds a GVariant.  An array of no items has no type, so the
\* builder gives NULL, and the value is left out.
RECURSIVE LibVariant(_), LibToGVariant(_)

LibDict(values) ==
  SelectSeq([i \in DOMAIN values |-> [name |-> values[i].name, var |-> LibVariant(values[i])]],
            LAMBDA e : e.var # Nothing)

LibList(v) ==
  IF v.items = <<>> THEN Nothing
  ELSE IF v.of = "word" THEN Variant("aw", v.items)
  ELSE Variant("av", [i \in DOMAIN v.items |->
                        LibVariant(IF v.of = "list" THEN v.items[i]
                                   ELSE Value("", v.of, "", <<v.items[i]>>))])

LibVariant(v) ==
  CASE v.type = "null"  -> Variant("w", <<[word |-> IC_STR_NULL]>>)
    [] v.type = "word"  -> Variant("w", v.items)
    [] v.type = "bytes" -> Variant("ay", v.items)
    [] v.type = "list"  -> LibList(v)
    [] v.type = "state" -> Variant("a{sv}", LibDict(v.items[1].values))

LibToGVariant(r) ==
  [uri        |-> Encode(r.uri),
   interfaces |-> IF "prop" \in r.visible THEN r.interfaces ELSE <<>>,
   types      |-> IF "prop" \in r.visible THEN r.types ELSE <<>>,
   attrs      |-> IF "repr" \in r.visible THEN LibDict(r.values) ELSE <<>>,
   children   |-> [i \in DOMAIN r.children |-> LibToGVariant(r.children[i])]]
-----------------------------------------------------------------------------
\* The daemon makes a payload of it.  The elements of nested lists become one
\* array; at each depth the last list leaves its length.
RECURSIVE Leaves(_), Dimensions(_), LeafType(_), DaemonValue(_, _), DaemonFromGVariant(_)

DaemonObject(attrs) ==
  [uri |-> Null, types |-> <<>>, interfaces |-> <<>>, next |-> <<>>,
   values |-> [i \in DOMAIN attrs |-> DaemonValue(attrs[i].name, attrs[i].var)]]

Leaves(var) ==
  CASE Elements(var) = "word"  -> var.items
    [] Elements(var) = "list"  -> FlattenSeq([i \in DOMAIN var.items |-> Leaves(var.items[i])])
    [] Elements(var) = "bytes" -> [i \in DOMAIN var.items |-> var.items[i].items[1]]
    [] Elements(var) = "state" -> [i \in DOMAIN var.items |-> DaemonObject(var.items[i].items)]

Dimensions(var) ==
  <<Len(var.items)>> \o (IF Elements(var) = "list" THEN Dimensions(Last(var.items)) ELSE <<>>)

LeafType(var) ==
  CASE Elements(var) = "list"  -> LeafType(Last(var.items))
    [] Elements(var) = "state" -> "object"
    [] OTHER                   -> Elements(var)

DaemonArray(name, var) ==
  [name |-> name, type |-> "array", of |-> LeafType(var), items |-> Leaves(var),
   dimensions |-> Dimensions(var)]

DaemonValue(name, var) ==
  CASE var.sig = "w"     -> IF var.items[1].word = IC_STR_NULL
                            THEN Value(name, "null", "", <<>>) ELSE Value(name, "word", "", var.items)
    [] var.sig = "ay"    -> Value(name, "bytes", "", var.items)
    [] var.sig = "a{sv}" -> Value(name, "object", "", <<DaemonObject(var.items)>>)
    [] OTHER             -> DaemonArray(name, var)

\* Each child is linked to the one before it, in the place of the children
\* that one has brought along.
Chain(children) ==
  IF children = <<>> THEN <<>>
  ELSE [i \in DOMAIN children |-> [children[i] EXCEPT !.next = <<>>]] \o Last(children).next

DaemonFromGVariant(var) ==
  [uri |-> Decode(var.uri), types |-> var.types, interfaces |-> var.interfaces,
   values |-> DaemonObject(var.attrs).values,
   next |-> Chain([i \in DOMAIN var.children |-> DaemonFromGVariant(var.children[i])])]
-----------------------------------------------------------------------------
\* The daemon makes a GVariant of a payload, whose array it cuts again.
RECURSIVE DaemonVariant(_)

DaemonDict(values) ==
  [i \in DOMAIN values |-> [name |-> values[i].name, var |-> DaemonVariant(values[i])]]

InnermostList(of, items) ==
  CASE of = "word"   -> Variant("aw", items)
    [] of = "bytes"  -> Variant("av", [i \in DOMAIN items |-> Variant("ay", <<items[i]>>)])
    [] of = "object" -> Variant("av", [i \in DOMAIN items |->
                                         Variant("a{sv}", DaemonDict(items[i].values))])

RECURSIVE Cut(_, _, _)
Cut(of, items, dimensions) ==
  IF Len(dimensions) = 1 THEN InnermostList(of, items)
  ELSE LET next_len == Len(items) \div Head(dimensions)
       IN Variant("av", [i \in 1 .. Len(items) \div next_len |->
                           Cut(of, SubSeq(items, (i - 1) * next_len + 1, i * next_len),
                               Tail(dimensions))])

DaemonVariant(v) ==
  CASE v.type = "null"   -> Variant("w", <<[word |-> IC_STR_NULL]>>)
    [] v.type = "word"   -> Variant("w", v.items)
    [] v.type = "bytes"  -> Variant("ay", v.items)
    [] v.type = "array"  -> Cut(v.of, v.items, v.dimensions)
    [] v.type = "object" -> Variant("a{sv}", DaemonDict(v.items[1].values))

\* Mutant of DaemonToGVariant: the parent is written without its children.
DaemonToGVariantAlone(r) ==
  [uri |-> Encode(r.uri), interfaces |-> r.interfaces, types |-> r.types,
   attrs |-> DaemonDict(r.values), children |-> <<>>]

\* The children of a child are not written.
DaemonToGVariant(r) ==
  LET node(n, children) == [uri |-> Encode(n.uri), interfaces |-> n.interfaces,
                            types |-> n.types, attrs |-> DaemonDict(n.values),
                            children |-> children]
  IN node(r, [i \in DOMAIN r.next |-> node(r.next[i], <<>>)])
-----------------------------------------------------------------------------
\* The library makes a representation of it, all of it visible.
RECURSIVE LibFromList(_), LibValues(_), LibFromGVariant(_)

LibFromList(var) ==
  Value("", "list", Elements(var),
        CASE Elements(var) = "word"  -> var.items
          [] Elements(var) = "list"  -> [i \in DOMAIN var.items |-> LibFromList(var.items[i])]
          [] Elements(var) = "bytes" -> [i \in DOMAIN var.items |-> var.items[i].items[1]]
          [] Elements(var) = "state" -> [i \in DOMAIN var.items |->
                                           [values |-> LibValues(var.items[i].items)]])

LibValue(name, var) ==
  CASE var.sig = "w"     -> IF var.items[1].word = IC_STR_NULL
                            THEN Value(name, "null", "", <<>>) ELSE Value(name, "word", "", var.items)
    [] var.sig = "ay"    -> Value(name, "bytes", "", var.items)
    [] var.sig = "a{sv}" -> Value(name, "state", "", <<[values |-> LibValues(var.items)]>>)
    [] OTHER             -> [LibFromList(var) EXCEPT !.name = name]

LibValues(attrs) == [i \in DOMAIN attrs |-> LibValue(attrs[i].name, attrs[i].var)]

LibFromGVariant(var) ==
  [uri |-> Decode(var.uri), types |-> var.types, interfaces |-> var.interfaces,
   values |-> LibValues(var.attrs), visible |-> {"prop", "repr"},
   children |-> [i \in DOMAIN var.children |-> LibFromGVariant(var.children[i])]]
-----------------------------------------------------------------------------
\* Where a device is, as a host address (a sequence of tokens) and as the
\* OCDevAddr the stack takes and gives.  A port read from ":port" is 0.
DevAddr(host, conn_type) ==
  CASE conn_type = "ipv4" -> [addr |-> SubSeq(host, 1, 1), port |-> host[3]]
    [] conn_type = "ipv6" -> [addr |-> SubSeq(host, 1, 2), port |-> 0]
    [] conn_type = "bt"   -> [addr |-> host, port |-> 0]

HostAddress(dev_addr, conn_type) ==
  CASE conn_type = "ipv4" -> dev_addr.addr \o <<":", dev_addr.port>>
    [] conn_type = "ipv6" -> <<"[">> \o dev_addr.addr \o <<"]", ":", dev_addr.port>>
    [] conn_type = "bt"   -> dev_addr.addr
=============================================================================
