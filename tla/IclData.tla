------------------------------ MODULE IclData ------------------------------
(***************************************************************************)
(* The data objects of the client library: lists, states, representations, *)
(* resource types, interfaces, options, and the requests and responses     *)
(* that carry them (lib/icl-list.c, icl-value.c, icl-state.c,              *)
(* icl-representation.c, icl-resource-types.c, icl-resource-interfaces.c,  *)
(* icl-options.c, icl-request.c, icl-response.c).                          *)
(*                                                                         *)
(* An object counts references: one for the application that created it    *)
(* and one for every place in another object that it was put into.  The    *)
(* application destroys what it has created or cloned, and uses without a  *)
(* reference of its own what a getter or a foreach function hands out.     *)
(*                                                                         *)
(* A value is a type and a content: a word for the basic types, an object  *)
(* for lists and states.  Allocations do not fail here; calls that the     *)
(* code refuses are no actions.                                            *)
(***************************************************************************)
EXTENDS Integers, FiniteSets, SequencesExt, IclQuery

CONSTANTS
  Ids,       \* addresses
  Keys,      \* keys of states, ids of options
  Words,     \* contents of basic values, names, data of options
  MaxItems,  \* items of a list, children, types, interfaces
  Scenes,    \* what a behaviour is about
  Null

ASSUME AddressesAssumption == IsFiniteSet(Ids)

ASSUME ContentsAssumption == Keys # {} /\ Words # {}

VARIABLES
  heap,       \* address -> object
  held,       \* what the application has created or cloned and not destroyed
  forgotten,  \* objects of a message whose creator's reference nobody has
  stray,      \* the representation removed from one it was not in, if any
  scene,      \* kinds of objects, types of values, whether getters are used
  left,       \* how many calls are left to a behaviour (a bound)
  last        \* the last clone, or Null

vars == <<heap, held, forgotten, stray, scene, left, last, queryVars>>

Basic == {"int", "bool", "double", "str", "bytes", "null"}
Nested == {"list", "state"}
Sets == {"types", "interfaces"}
Kinds == Nested \cup Sets \cup {"options", "repr", "request", "response"}
ICL_OPTIONS_MAX == 2
-----------------------------------------------------------------------------
(* Objects *)

\* shows is the visibility of a representation: its state, its properties.
Blank(kind, type) ==
  [kind |-> kind, type |-> type, refs |-> 1, items |-> <<>>, fields |-> <<>>,
   shows |-> {"state", "props"}]

Free == [Blank("free", "") EXCEPT !.refs = 0]

Value(type, v) == [type |-> type, v |-> v]

IsHandle(x) == x.type \in Kinds

Live(h) == {o \in Ids : h[o] # Free}
Room(h, n) == Cardinality(Ids \ Live(h)) >= n
NewId(h) == CHOOSE o \in Ids : h[o] = Free
New(h, obj) == [h EXCEPT ![NewId(h)] = obj]

\* Where an object has p, and how often.
Has(x, p) == IsHandle(x) /\ x.v = p
PlacesIn(obj, p) ==
  ({"item"} \X {i \in DOMAIN obj.items : Has(obj.items[i], p)})
  \cup ({"field"} \X {k \in DOMAIN obj.fields : Has(obj.fields[k], p)})
Uses(obj, p) == Cardinality(PlacesIn(obj, p))

\* The places of p in the objects of S.
Places(h, S, p) == UNION {{c} \X PlacesIn(h[c], p) : c \in S}

\* What a list hands out (get_nth and foreach functions), a state, a
\* representation, a request, a response: without a reference.
Contents(obj) == {x.v : x \in {y \in ToSet(obj.items) \cup ToSet(obj.fields) : IsHandle(y)}}

\* What n steps make of c.
After(n, Step(_), c) ==
  LET turn[i \in Nat] == IF i = 0 THEN c ELSE Step(turn[i - 1]) IN turn[n]

Reach(h, S) ==
  LET More(T) == T \cup UNION {Contents(h[o]) : o \in T}
  IN After(Cardinality(Live(h)), More, S)

Acyclic(h) == \A o \in Live(h) : o \notin Reach(h, Contents(h[o]))

\* What the application may use: its own objects, and, where it keeps what a
\* getter gave it, all that is in them.
Roots == held \cup {o \in Live(heap) : heap[o].kind = "request"}
Usable == IF scene.borrow THEN Reach(heap, Roots) ELSE held
UsableOf(kind) == {o \in Usable : heap[o].kind = kind}
-----------------------------------------------------------------------------
(* References *)

\* icl_list_ref, icl_state_ref and the others.
Ref(h, o) == [h EXCEPT ![o].refs = @ + 1]
RefValue(h, x) == IF IsHandle(x) THEN Ref(h, x.v) ELSE h

\* What p loses when o loses a reference and the objects of F go.
Lost(h, o, F, p) == Cardinality(Places(h, F, p)) + (IF p = o THEN 1 ELSE 0)

\* The destroy functions: an object that loses its last reference goes, and
\* what is in it loses one.  Nothing else goes, so what goes is the least set.
Going(h, o) ==
  LET Closed(F) == \A p \in Live(h) : Lost(h, o, F, p) >= h[p].refs => p \in F
  IN {p \in Live(h) : \A F \in SUBSET Live(h) : Closed(F) => p \in F}

Unref(h, o) ==
  LET F == Going(h, o)
  IN [p \in Ids |-> IF p \in F THEN Free ELSE [h[p] EXCEPT !.refs = @ - Lost(h, o, F, p)]]

\* icl_value_destroy
UnrefValue(h, x) == IF IsHandle(x) THEN Unref(h, x.v) ELSE h

Call == left > 0 /\ left' = left - 1 /\ UNCHANGED scene

Change(h) == Call /\ heap' = h /\ last' = Null
Store(h) == Change(h) /\ UNCHANGED stray
Keep(h) == Store(h) /\ UNCHANGED <<held, forgotten>>

\* An iotcon_*_create function.
Create(kind, type) ==
  /\ kind \in scene.kinds /\ Room(heap, 1)
  /\ Store([heap EXCEPT ![NewId(heap)] = Blank(kind, type)])
  /\ held' = held \cup {NewId(heap)}
  /\ UNCHANGED forgotten

\* An iotcon_*_destroy function.
Destroy(o) ==
  /\ o \in held
  /\ Store(Unref(heap, o))
  /\ held' = held \ {o}
  /\ UNCHANGED forgotten
-----------------------------------------------------------------------------
(* Lists *)

\* What iotcon_list_get_nth_int and the others find at a position.
Nth(l, pos) == heap[l].items[pos]

\* icl_list_insert: g_list_insert appends at a position beyond the end.
InsertNth(items, x, pos) ==
  IF pos \in 0 .. Len(items) THEN InsertAt(items, pos + 1, x) ELSE Append(items, x)

ListCreate(t) == t \in scene.types /\ Create("list", t)
ListDestroy(l) == heap[l].kind = "list" /\ Destroy(l)

\* iotcon_list_add_int and the others: a list has values of one type.
ListAdd(l, x, pos) ==
  /\ x.type = heap[l].type /\ x.type # "null"
  /\ Len(heap[l].items) < MaxItems
  /\ Keep([RefValue(heap, x) EXCEPT ![l].items = InsertNth(@, x, pos)])

\* iotcon_list_remove_nth
RemoveNth(l, pos) ==
  /\ pos \in DOMAIN heap[l].items
  /\ Keep(UnrefValue([heap EXCEPT ![l].items = RemoveAt(@, pos)], Nth(l, pos)))
-----------------------------------------------------------------------------
(* States *)

\* Mutant of SetField: the old value is overwritten.
SetFieldOver(h, o, k, x) == [RefValue(h, x) EXCEPT ![o].fields = Insert(@, k, x)]

\* A new value takes its reference before the old one loses it.
SetField(h, o, k, x) ==
  LET old == h[o].fields
      new == [RefValue(h, x) EXCEPT ![o].fields = Insert(@, k, x)]
  IN IF k \in DOMAIN old THEN UnrefValue(new, old[k]) ELSE new

ClearField(h, o, k) ==
  UnrefValue([h EXCEPT ![o].fields = [j \in DOMAIN @ \ {k} |-> @[j]]], h[o].fields[k])

StateCreate == Create("state", "")
StateDestroy(s) == heap[s].kind = "state" /\ Destroy(s)

\* iotcon_state_add_int and the others: g_hash_table_replace.
StateAdd(s, k, x) ==
  /\ ~IsHandle(x)
  /\ Keep(SetField(heap, s, k, x))

\* iotcon_state_add_list, iotcon_state_add_state
StateAddNested(s, k, x) ==
  /\ IsHandle(x)
  /\ Keep(SetField(heap, s, k, x))

StateRemove(s, k) ==
  /\ k \in DOMAIN heap[s].fields
  /\ Keep(ClearField(heap, s, k))

\* What an application can put into a list or a state.
Values ==
  {Value(t, w) : t \in scene.types \cap (Basic \ {"null"}), w \in Words}
  \cup {Value("null", Null) : t \in scene.types \cap {"null"}}
  \cup {Value(heap[o].kind, o) : o \in UsableOf("list") \cup UsableOf("state")}
-----------------------------------------------------------------------------
(* Resource types, interfaces, options *)

\* "Don't modify it. It is already set."
Open(o) == heap[o].refs <= 1

\* No name is contained twice.
NameAdd(o, name) ==
  /\ Open(o)
  /\ name \notin ToSet(heap[o].items) /\ Len(heap[o].items) < MaxItems
  /\ Keep([heap EXCEPT ![o].items = Append(@, name)])

NameRemove(o, name) ==
  /\ Open(o)
  /\ name \in ToSet(heap[o].items)
  /\ Keep([heap EXCEPT ![o].items = RemoveFirst(@, name)])

TypesCreate == Create("types", "")
TypesDestroy(o) == heap[o].kind = "types" /\ Destroy(o)
TypesAdd(o, w) == NameAdd(o, Value("str", w))
TypesRemove(o, w) == NameRemove(o, Value("str", w))

InterfacesCreate == Create("interfaces", "")
InterfacesDestroy(o) == heap[o].kind = "interfaces" /\ Destroy(o)
InterfacesAdd(o, w) == NameAdd(o, Value("str", w))
InterfacesRemove(o, w) == NameRemove(o, Value("str", w))

OptionsCreate == Create("options", "")
OptionsDestroy(o) == heap[o].kind = "options" /\ Destroy(o)

\* A full set takes nothing more, not even another value of an id it has.
OptionsAdd(o, k, w) ==
  /\ Open(o)
  /\ Cardinality(DOMAIN heap[o].fields) < ICL_OPTIONS_MAX
  /\ Keep(SetField(heap, o, k, Value("str", w)))

OptionsRemove(o, k) ==
  /\ Open(o)
  /\ k \in DOMAIN heap[o].fields
  /\ Keep(ClearField(heap, o, k))
-----------------------------------------------------------------------------
(* Representations *)

ReprCreate == Create("repr", "")
ReprDestroy(r) == heap[r].kind = "repr" /\ Destroy(r)

ReprSetUri(r, w) == Keep(SetField(heap, r, "uri", Value("str", w)))

\* The setters take NULL, too: the field is cleared.
ReprSet(r, k, o) ==
  \/ o # Null /\ Keep(SetField(heap, r, k, Value(k, o)))
  \/ o = Null /\ k \in DOMAIN heap[r].fields /\ Keep(ClearField(heap, r, k))

ReprSetTypes(r, o) == ReprSet(r, "types", o)
ReprSetInterfaces(r, o) == ReprSet(r, "interfaces", o)
ReprSetState(r, o) == ReprSet(r, "state", o)

AddChild(r, c) ==
  /\ Len(heap[r].items) < MaxItems
  /\ Keep([Ref(heap, c) EXCEPT ![r].items = Append(@, Value("repr", c))])

\* Whatever representation is given loses a reference, a child of r or not.
RemoveChild(r, c) ==
  LET x == Value("repr", c)
  IN /\ Change(Unref([heap EXCEPT ![r].items = RemoveFirst(@, x)], c))
     /\ stray' = IF x \in ToSet(heap[r].items) THEN {} ELSE {c}
     /\ UNCHANGED <<held, forgotten>>
-----------------------------------------------------------------------------
(* Clones *)

\* iotcon_state_clone, iotcon_resource_types_clone,
\* iotcon_resource_interfaces_clone; icl_value_clone: nested lists and states
\* are shared.
CloneFlat(h, o) ==
  LET n == NewId(h)
  IN [p \in Ids |-> IF p = n THEN [h[o] EXCEPT !.refs = 1]
                             ELSE [h[p] EXCEPT !.refs = @ + Uses(h[o], p)]]

\* Mutant of CloneField: what is empty is not cloned, as in icl_list_clone.
CloneFieldFilled(r, n, h, k) ==
  IF k \notin DOMAIN h[r].fields \/ h[h[r].fields[k].v] = Blank(k, "") THEN h
  ELSE [CloneFlat(h, h[r].fields[k].v) EXCEPT ![n].fields = Insert(@, k, Value(k, NewId(h)))]

\* What r has as k, cloned into n.
CloneField(r, n, h, k) ==
  IF k \notin DOMAIN h[r].fields THEN h
  ELSE [CloneFlat(h, h[r].fields[k].v) EXCEPT ![n].fields = Insert(@, k, Value(k, NewId(h)))]

\* The parts of a representation that are cloned with it.
Parts(obj) == DOMAIN obj.fields \ {"uri"}

\* iotcon_representation_clone into NewId(h), without the children: everything
\* but the visibility.
CloneAlone(h, r) ==
  LET n == NewId(h)
      uri == {"uri"} \cap DOMAIN h[r].fields
      new == New(h, [Blank("repr", "") EXCEPT !.fields = [k \in uri |-> h[r].fields[k]]])
  IN CloneField(r, n, CloneField(r, n, CloneField(r, n, new, "interfaces"), "types"), "state")

RoomFor(h, r) == Room(h, 1 + Cardinality(Parts(h[r])))

\* The representations that are being cloned, each with its copy; those whose
\* copy has fewer children.
Unfinished(c) == {p \in c.pairs : Len(c.heap[p[2]].items) < Len(c.heap[p[1]].items)}

\* One more child is cloned and given to its parent's copy.
CloneChild(c) ==
  LET p == CHOOSE p \in Unfinished(c) : TRUE
      child == c.heap[p[1]].items[Len(c.heap[p[2]].items) + 1].v
      n == NewId(c.heap)
      g == CloneAlone(c.heap, child)
      parent == [g[p[2]] EXCEPT !.items = Append(@, Value("repr", n))]
  IN IF Unfinished(c) = {} \/ ~RoomFor(c.heap, child) THEN c
     ELSE [heap |-> [o \in Ids |-> IF o = p[2] THEN parent ELSE g[o]],
           pairs |-> c.pairs \cup {<<child, n>>}]

\* Every step takes an address: there are no more steps than addresses.
CloneRepr(h, r) ==
  After(Cardinality(Ids), CloneChild, [heap |-> CloneAlone(h, r), pairs |-> {<<r, NewId(h)>>}])

Cloned(o, h) ==
  /\ heap' = h
  /\ held' = held \cup {NewId(heap)}
  /\ last' = [of |-> o, copy |-> NewId(heap)]
  /\ Call /\ UNCHANGED <<forgotten, stray>>

CloneState(s) == Room(heap, 1) /\ Cloned(s, CloneFlat(heap, s))
CloneTypes(o) == Room(heap, 1) /\ Cloned(o, CloneFlat(heap, o))
CloneInterfaces(o) == Room(heap, 1) /\ Cloned(o, CloneFlat(heap, o))

CloneRepresentation(r) ==
  /\ RoomFor(heap, r)
  /\ LET c == CloneRepr(heap, r) IN Unfinished(c) = {} /\ Cloned(r, c.heap)
-----------------------------------------------------------------------------
(* Requests and responses *)

\* icl_state_from_gvariant: the value of a nested list or state takes its own
\* reference, the one of the creation is given to nobody.
ReceivedList == [Blank("list", "int") EXCEPT !.refs = 2]
ReceivedState(x) == [Blank("state", "") EXCEPT !.fields = Insert(<<>>, CHOOSE k \in Keys : TRUE, x)]

\* _icl_request_handler up to the call of the application; the handler runs in
\* the main loop, one request at a time.
RequestArrives(nested, opts) ==
  /\ "request" \in scene.kinds /\ Roots = held
  /\ Room(heap, 3 + (IF nested THEN 1 ELSE 0) + (IF opts THEN 1 ELSE 0))
  /\ LET h1 == IF nested THEN New(heap, ReceivedList) ELSE heap
         x == IF nested THEN Value("list", NewId(heap)) ELSE Value("int", CHOOSE w \in Words : TRUE)
         h2 == New(h1, ReceivedState(x))
         h3 == New(h2, [Blank("repr", "") EXCEPT !.fields = Insert(<<>>, "state", Value("state", NewId(h1)))])
         h4 == IF opts THEN New(h3, Blank("options", "")) ELSE h3
         one == Insert(<<>>, "repr", Value("repr", NewId(h2)))
         parts == IF opts THEN Insert(one, "options", Value("options", NewId(h3))) ELSE one
     IN Store(New(h4, [Blank("request", "") EXCEPT !.fields = parts]))
  /\ forgotten' = forgotten \cup (IF nested THEN {NewId(heap)} ELSE {})
  /\ UNCHANGED held

\* The handler has returned: what came with the request is destroyed.
RequestHandled ==
  /\ \E q \in Roots \ held : Store(Unref(heap, q))
  /\ UNCHANGED <<held, forgotten>>

\* For a request that is being handled.
ResponseCreate == Roots # held /\ Create("response", "")

\* iotcon_response_destroy: responses count no references.
ResponseDestroy(p) == heap[p].kind = "response" /\ Destroy(p)

ResponseSetRepr(p, iface, r) ==
  LET h == SetField(heap, p, "iface", Value("str", iface))
  IN \/ r # Null /\ Keep(SetField(h, p, "repr", Value("repr", r)))
     \/ r = Null /\ Keep(IF "repr" \in DOMAIN h[p].fields THEN ClearField(h, p, "repr") ELSE h)

ResponseSetOptions(p, o) ==
  \/ o # Null /\ Keep(SetField(heap, p, "options", Value("options", o)))
  \/ o = Null /\ "options" \in DOMAIN heap[p].fields /\ Keep(ClearField(heap, p, "options"))

\* _icl_response_check_representation_visibility: kept in the representation.
ShowFor(h, iface, r) ==
  LET children == {x.v : x \in ToSet(h[r].items)}
  IN [o \in Ids |->
        IF o \in children
        THEN [h[o] EXCEPT !.shows = IF iface = "batch" THEN {"state"} ELSE {"props"}]
        ELSE IF o = r THEN [h[o] EXCEPT !.shows = IF iface \in {"link", "batch"} THEN {} ELSE {"state"}]
        ELSE h[o]]

ResponseSend(p) ==
  /\ Acyclic(heap)
  /\ LET f == heap[p].fields
     IN Keep(IF "repr" \in DOMAIN f THEN ShowFor(heap, f["iface"].v, f["repr"].v) ELSE heap)
-----------------------------------------------------------------------------
(* Behaviours *)

Init ==
  /\ heap = [o \in Ids |-> Free] /\ held = {} /\ forgotten = {} /\ stray = {} /\ last = Null
  /\ scene \in Scenes /\ left = scene.calls
  /\ QueryInit

\* The application calls with what it may use.
NextLists ==
  \/ \E t \in Basic \cup Nested : ListCreate(t)
  \/ \E l \in held : ListDestroy(l)
  \/ \E l \in UsableOf("list") :
       \/ \E x \in Values, pos \in {-1, 0} : ListAdd(l, x, pos)
       \/ \E pos \in 1 .. MaxItems : RemoveNth(l, pos)

NextStates ==
  \/ StateCreate
  \/ \E s \in held : StateDestroy(s)
  \/ \E s \in UsableOf("state") :
       \/ \E k \in Keys :
            \/ \E x \in Values : StateAdd(s, k, x) \/ StateAddNested(s, k, x)
            \/ StateRemove(s, k)
       \/ CloneState(s)

NextSets ==
  \/ TypesCreate \/ InterfacesCreate \/ OptionsCreate
  \/ \E o \in held : TypesDestroy(o) \/ InterfacesDestroy(o) \/ OptionsDestroy(o)
  \/ \E o \in UsableOf("types") :
       CloneTypes(o) \/ \E w \in Words : TypesAdd(o, w) \/ TypesRemove(o, w)
  \/ \E o \in UsableOf("interfaces") :
       CloneInterfaces(o) \/ \E w \in Words : InterfacesAdd(o, w) \/ InterfacesRemove(o, w)
  \/ \E o \in UsableOf("options"), k \in Keys :
       OptionsRemove(o, k) \/ \E w \in Words : OptionsAdd(o, k, w)

NextRepresentations ==
  \/ ReprCreate
  \/ \E r \in held : ReprDestroy(r)
  \/ \E r \in UsableOf("repr") :
       \/ \E w \in Words : ReprSetUri(r, w)
       \/ \E o \in UsableOf("types") \cup {Null} : ReprSetTypes(r, o)
       \/ \E o \in UsableOf("interfaces") \cup {Null} : ReprSetInterfaces(r, o)
       \/ \E o \in UsableOf("state") \cup {Null} : ReprSetState(r, o)
       \/ \E c \in UsableOf("repr") : AddChild(r, c) \/ RemoveChild(r, c)
       \/ CloneRepresentation(r)

NextMessages ==
  \/ \E nested, opts \in BOOLEAN : RequestArrives(nested, opts)
  \/ RequestHandled
  \/ ResponseCreate
  \/ \E p \in held : ResponseDestroy(p)
  \/ \E p \in UsableOf("response") :
       \/ \E iface \in {"link", "batch", "baseline"}, r \in UsableOf("repr") \cup {Null} :
            ResponseSetRepr(p, iface, r)
       \/ \E o \in UsableOf("options") \cup {Null} : ResponseSetOptions(p, o)
       \/ ResponseSend(p)

NextQuery == "query" \in scene.kinds /\ QueryNext /\ Store(heap) /\ UNCHANGED <<held, forgotten>>

\* A reference was taken from somebody who has not given it back: what the
\* program goes on to do with what may be freed is undefined.
Next ==
  /\ stray = {}
  /\ \/ NextQuery
     \/ /\ UNCHANGED queryVars
        /\ NextLists \/ NextStates \/ NextSets \/ NextRepresentations \/ NextMessages

Spec == Init /\ [][Next]_vars
-----------------------------------------------------------------------------
(* Properties *)

\* The references of every object are exactly those who have it: the
\* application or the library, the places in other objects, and the creator of
\* a received nested value, who forgot it.  So nothing is freed while it is in
\* something, and what nobody has is free.  One call breaks that, and nothing
\* else does: remove_child, for a representation that is no child, takes a
\* reference that is somebody else's, and that one only.
RefsExact ==
  \A o \in Ids :
    /\ heap[o].refs + Cardinality(stray \cap {o})
         = (IF o \in Roots THEN 1 ELSE 0) + Cardinality(Places(heap, Ids, o))
           + (IF o \in forgotten THEN 1 ELSE 0)
    /\ heap[o].refs = 0 => heap[o] = Free

\* A resource type or interface that is set is in the query: the add of which
\* the setters ignore the result cannot fail, but for an empty value.
SetTakes ==
  [][\A n \in ValueLengths \ {0} :
       /\ SetResourceType(n) => "rt" \in DOMAIN entries' /\ entries'["rt"] = n
       /\ SetInterface(n) => "if" \in DOMAIN entries' /\ entries'["if"] = n]_vars

\* What the daemon gets as a query is what was set, and no longer than a URI
\* has room for.
QuerySound == []QueryBounded /\ SetTakes

\* The pairs of objects that say the same but for what the pairs of R differ in.
SameValue(R, x, y) == x.type = y.type /\ (IF IsHandle(x) THEN <<x.v, y.v>> \in R ELSE x.v = y.v)
SameBut(h, R) ==
  {p \in Ids \X Ids :
     LET a == h[p[1]]
         b == h[p[2]]
     IN /\ a.kind = b.kind /\ a.type = b.type
        /\ DOMAIN a.items = DOMAIN b.items /\ DOMAIN a.fields = DOMAIN b.fields
        /\ \A i \in DOMAIN a.items : SameValue(R, a.items[i], b.items[i])
        /\ \A k \in DOMAIN a.fields : SameValue(R, a.fields[k], b.fields[k])}

\* Objects that say the same, references and addresses left aside: every turn
\* that tells some apart makes another class of objects.
Same(h) == LET Turn(R) == SameBut(h, R) IN After(Cardinality(Ids), Turn, Ids \X Ids)

\* A clone says what its source says.
CopyEqual == last # Null => <<last.of, last.copy>> \in Same(heap)
=============================================================================
