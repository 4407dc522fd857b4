--------------------------- MODULE PayloadCompare ---------------------------
(***************************************************************************)
(* icd_payload_representation_compare of daemon/icd-payload.c, by which    *)
(* the worker of a periodic GET decides whether a cached resource has      *)
(* changed, that worker's use of it (_worker_encap_get_cb), and the way of *)
(* a representation from the program that built it to the one that caches  *)
(* it (PayloadConvert).                                                    *)
(*                                                                         *)
(* Linked lists are sequences, NULL is the empty one.  The network, and    *)
(* the stack on both sides of it, hand a payload over as it is.            *)
(*                                                                         *)
(* Two reads of the code leave the memory they should stay in; what they   *)
(* find there is up to stray, one Boolean for a whole comparison.          *)
(***************************************************************************)
EXTENDS PayloadConvert, Functions

CONSTANTS
  Built,  \* the representations the resource answers with
  Hosts   \* where it may be: [address |-> tokens, type |-> connectivity type]

VARIABLES
  host,    \* the address under which the resource is cached
  built,   \* the last representation sent; Null: an answer without payload
  answer,  \* its payload as received
  cached,  \* oic_payload of the entry
  told,    \* was it sent on to the clients?
  view     \* cached_repr of a client

vars == <<host, built, answer, cached, told, view>>
-----------------------------------------------------------------------------
Places(l1, l2) == (1 .. Len(l1)) \X (1 .. Len(l2))

\* Mutant of SameLists: the length is not looked at.
SameListsAnyLength(l1, l2, match) ==
  \A i \in DOMAIN l1 : \E j \in DOMAIN l2 : <<i, j>> \in match

\* Mutant of SameLists: the order matters.
SameListsInOrder(l1, l2, match) ==
  Len(l1) = Len(l2) /\ \A i \in DOMAIN l1 : <<i, i>> \in match

\* The comparison of string lists, of values and of children: match has the
\* places of the two lists whose elements compare as equal.
SameLists(l1, l2, match) ==
  /\ Len(l1) = Len(l2)
  /\ \A i \in DOMAIN l1 : \E j \in DOMAIN l2 : <<i, j>> \in match

\* _oic_string_list_contain: the loop looks at the first string every time.
HeadMatches(l1, l2) ==
  {p \in Places(l1, l2) : l1[p[1]] = Head(l2)}

\* memcmp(b1, b2, length of b2) # 0
BytesDiffer(b1, b2, stray) ==
  \/ \E i \in DOMAIN b1 \cap DOMAIN b2 : b1[i] # b2[i]
  \/ Len(b2) > Len(b1) /\ stray

RECURSIVE Same(_, _, _)

SameItem(type, x, y, stray) ==
  CASE type = "object" -> Same(x, y, stray)
    [] type = "bytes"  -> ~BytesDiffer(x.bytes, y.bytes, stray)
    [] OTHER           -> x = y

\* The second array is read as if it had the first one's type; the items of
\* an array of nulls differ from themselves.
SameArray(v, w, stray) ==
  /\ Len(v.items) = Len(w.items)
  /\ v.of # "null"
  /\ IF v.of = w.of THEN \A i \in DOMAIN v.items : SameItem(v.of, v.items[i], w.items[i], stray)
                    ELSE v.items = <<>> \/ stray

\* A byte string is the same as one that memcmp finds different.
SameValue(v, w, stray) ==
  /\ v.name = w.name /\ v.type = w.type
  /\ CASE v.type = "null"  -> TRUE
       [] v.type = "array" -> SameArray(v, w, stray)
       [] v.type = "bytes" -> BytesDiffer(v.items[1].bytes, w.items[1].bytes, stray)
       [] OTHER            -> SameItem(v.type, v.items[1], w.items[1], stray)

\* _representation_values_list_contain compares the value of the second list
\* with the one it looks for.
SameWithoutChildren(r1, r2, stray) ==
  /\ r1.uri = r2.uri
  /\ SameLists(r1.types, r2.types, HeadMatches(r1.types, r2.types))
  /\ SameLists(r1.interfaces, r2.interfaces, HeadMatches(r1.interfaces, r2.interfaces))
  /\ SameLists(r1.values, r2.values,
               {p \in Places(r1.values, r2.values) :
                  SameValue(r2.values[p[2]], r1.values[p[1]], stray)})

\* _representation_list_contain swaps them in the same way.
Same(r1, r2, stray) ==
  IF Null \in {r1, r2} THEN r1 = r2
  ELSE /\ SameWithoutChildren(r1, r2, stray)
       /\ SameLists(r1.next, r2.next,
                    {p \in Places(r1.next, r2.next) :
                       SameWithoutChildren(r2.next[p[2]], r1.next[p[1]], stray)})
-----------------------------------------------------------------------------
Init ==
  /\ host \in Hosts
  /\ built = Null /\ answer = Null /\ cached = Null /\ view = Null /\ told = FALSE

\* The answer of the server's daemon to what its program has built, received.
Received(r) == IF r = Null THEN Null ELSE DaemonFromGVariant(LibToGVariant(r))

\* What a client makes of the signal with a payload.  (A signal without one
\* leaves it nothing to read.)
Viewed(payload) == IF payload = Null THEN Null ELSE LibFromGVariant(DaemonToGVariant(payload))

\* The entry is looked up under the address the answer comes from.
Found == HostAddress(DevAddr(host.address, host.type), host.type) = host.address

\* The CACHING half of _worker_encap_get_cb, and the client's callback.
Answered(r) ==
  \E stray \in BOOLEAN :
    /\ built' = r
    /\ answer' = Received(r)
    /\ told' = (Found /\ ~Same(cached, answer', stray))
    /\ cached' = IF told' THEN answer' ELSE cached
    /\ view' = IF told' THEN Viewed(answer') ELSE view
    /\ UNCHANGED host

Next == \E r \in Built : Answered(r)

Spec == Init /\ [][Next]_vars
-----------------------------------------------------------------------------
\* What a representation says: types, interfaces, values and children come
\* in no order.
RECURSIVE Meaning(_)

OwnMeaning(r) ==
  LET item(x) == IF "next" \in DOMAIN x THEN Meaning(x) ELSE x
  IN [uri |-> r.uri, types |-> Range(r.types), interfaces |-> Range(r.interfaces),
      values |-> {[v EXCEPT !.items = [i \in DOMAIN @ |-> item(@[i])]] : v \in Range(r.values)}]

Meaning(r) ==
  IF r = Null THEN Null
  ELSE [own |-> OwnMeaning(r), children |-> {OwnMeaning(c) : c \in Range(r.next)}]

\* Every change is detected: what the entry has says what the resource last
\* answered, wherever the device is.
UpToDate == Meaning(cached) = Meaning(answer)

\* Only an answer that says something new is sent to the clients.  (With two
\* types or interfaces HeadMatches makes every answer look new.)
OnlyChangesTold == [][told' => Meaning(answer') # Meaning(cached)]_vars

\* What a representation of the library says, without its children.  What is
\* not visible, and an empty list anywhere in it, is not said.
RECURSIVE Said(_)

Said(values) ==
  {[v EXCEPT !.items = [i \in DOMAIN @ |-> IF "values" \in DOMAIN @[i]
                                           THEN [said |-> Said(@[i].values)] ELSE @[i]]] :
     v \in {w \in Range(values) : ~(w.type = "list" /\ w.items = <<>>)}}

Shown(r) ==
  [uri |-> r.uri, values |-> IF "repr" \in r.visible THEN Said(r.values) ELSE {},
   types |-> IF "prop" \in r.visible THEN Range(r.types) ELSE {},
   interfaces |-> IF "prop" \in r.visible THEN Range(r.interfaces) ELSE {}]

ShownChildren(r) == {Shown(c) : c \in Range(r.children)}

\* Two conversions on the server's side, a comparison and two conversions on
\* the client's side later, a caching program sees what the other program
\* showed, and all of its children; the children of a child may be lost or,
\* for the last child, appear as its siblings, but displace nothing.
ViewRight ==
  \/ Null \in {built, view} /\ built = view
  \/ /\ Null \notin {built, view}
     /\ Shown(view) = Shown(built)
     /\ ShownChildren(built) \subseteq ShownChildren(view)
     /\ (\A c \in Range(built.children) : c.children = <<>>)
          => ShownChildren(view) = ShownChildren(built)
=============================================================================
