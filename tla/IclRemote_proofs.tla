-------------------------- MODULE IclRemote_proofs --------------------------
(***************************************************************************)
(* The lifetimes of IclRemote, for any number of resources, containers and *)
(* connects.                                                               *)
(*                                                                         *)
(* The invariant has two parts.  Boxed speaks of one container at a time:  *)
(* what its type says of its fields.  Linked speaks of the subscriptions   *)
(* and the resources they belong to, and is disturbed only by a step that  *)
(* makes, ends or frees a subscription, or makes or destroys a resource    *)
(* (SameLinks).  Stoppable needs that a resource has no two subscriptions  *)
(* of a kind (Unique), or the destroy notify of the first would clear the  *)
(* id of the second, and that a closed library has no subscription at all  *)
(* (Shape), or a destroy, which can stop nothing any more, would leave it. *)
(***************************************************************************)
EXTENDS IclRemote, FiniteSetTheorems, TLAPS

Boxes ==
  [type : Types \cup {"free"}, res : Resources \cup {None},
   gdbus : {"on", "off", "done"}, cb : BOOLEAN, timer : BOOLEAN,
   told : SUBSET {"found", "timeout"}, sub_id : BOOLEAN, handle : BOOLEAN,
   owned : BOOLEAN]

\* What the type of a container says of its fields.
Shape(b) ==
  /\ b.type \in Kinds \cup {"crud"} => b.res \in Resources
  /\ b.type = "crud" => b.gdbus = "done" /\ (b.cb => b.res \in held)
  /\ b.type = "free" => b.gdbus = "done" \/ "calls_at_disconnect" \in faults
  /\ b.timer => b.type \in Lookups
  /\ b.owned => b.type = "presence" /\ (b.gdbus = "done" \/ (b.sub_id /\ b.handle))
  /\ "timeout" \in b.told => b.gdbus # "on" /\ "found" \notin b.told
  /\ b.type \notin {"free", "watch"} /\ count = 0 => b.gdbus # "on"

Boxed ==
  /\ box \in [Containers -> Boxes]
  /\ \A c \in Containers : Shape(box[c])

Typed ==
  /\ faults \subseteq Faults
  /\ count \in 0 .. MaxConnects
  /\ refs \in [Resources -> Nat]
  /\ held \subseteq Resources
  /\ sub \in [Resources -> [Kinds -> Containers \cup {None}]]
  /\ cached \in [Resources -> BOOLEAN]
  /\ incall \in held \cup {None}

Ids ==
  \A r \in Resources, k \in Kinds :
    sub[r][k] # None => sub[r][k] \in Subscriptions(r) \cap Of(k)

Caches == \A r \in Resources : cached[r] => Subscriptions(r) \cap Of("caching") # {}

Unique ==
  "early_restart" \notin faults =>
    \A r \in Resources : \A c, d \in Subscriptions(r) : box[c].type = box[d].type => c = d

Linked == RefCountExact /\ Ids /\ Caches /\ Unique /\ Stoppable

IInv == Typed /\ Boxed /\ Linked

USE KindsAssumption

LEMMA KindNames ==
  /\ Kinds \cap {"free", "watch", "crud", "find", "info", "presence"} = {}
  /\ Lookups \cap {"free", "watch", "crud", "presence"} = {}
  BY DEF Lookups

-----------------------------------------------------------------------------
\* The operators on a container.
LEMMA NewBox ==
  ASSUME NEW type \in Types \cup {"free"}, NEW res \in Resources \cup {None}, NEW on \in {"on", "done"}
  PROVE  LET b == Container(type, res, on)
         IN /\ b \in Boxes /\ b.type = type /\ b.res = res /\ b.gdbus = on
            /\ b.told = {} /\ (b.timer <=> type \in Lookups) /\ b.cb
            /\ (b.owned <=> type = "presence") /\ (b.owned => b.sub_id /\ b.handle)
<1>1. (type \in Lookups) \in BOOLEAN /\ (type = "presence") \in BOOLEAN
  OBVIOUS
<1>2. {} \in SUBSET {"found", "timeout"}
  OBVIOUS
<1>. QED BY <1>1, <1>2 DEF Container, Boxes

LEMMA FreedBox ==
  ASSUME NEW b \in Boxes
  PROVE  /\ Freed(b) \in Boxes /\ Freed(b).type = "free" /\ Freed(b).told = {}
         /\ Freed(b).gdbus = b.gdbus /\ Freed(b).timer = b.timer /\ Freed(b).owned = b.owned
<1>1. {} \in SUBSET {"found", "timeout"}
  OBVIOUS
<1>. QED BY <1>1 DEF Freed, Boxes

LEMMA UnsubscribedBox ==
  ASSUME NEW b \in Boxes
  PROVE  LET u == Unsubscribed(b)
         IN /\ u \in Boxes /\ u.gdbus # "on" /\ (u.gdbus = "done") = (b.gdbus = "done")
            /\ u.type = b.type /\ u.res = b.res /\ u.cb = b.cb /\ u.timer = b.timer
            /\ u.told = b.told /\ u.sub_id = b.sub_id /\ u.handle = b.handle /\ u.owned = b.owned
BY DEF Unsubscribed, Boxes

\* An unsubscribed container keeps its shape.
LEMMA UnsubscribedShape ==
  ASSUME NEW b \in Boxes, Shape(b)
  PROVE  Unsubscribed(b) \in Boxes /\ Shape(Unsubscribed(b))
BY UnsubscribedBox DEF Shape

LEMMA CrudStopBox ==
  ASSUME NEW b \in Boxes, NEW r \in Resources
  PROVE  LET s == CrudStop(b, r)
         IN /\ s \in Boxes /\ s.type = b.type /\ s.res = b.res /\ s.gdbus = b.gdbus
            /\ s.timer = b.timer /\ s.told = b.told /\ s.owned = b.owned
            /\ s.sub_id = b.sub_id /\ s.handle = b.handle
            /\ s.cb => b.cb /\ ~(b.type = "crud" /\ b.res = r)
<1>1. CASE b.type = "crud" /\ b.res = r BY <1>1 DEF CrudStop, Boxes
<1>2. CASE ~(b.type = "crud" /\ b.res = r) BY <1>2 DEF CrudStop
<1>. QED BY <1>1, <1>2

LEMMA UnsubscribeAllShape ==
  ASSUME NEW b \in Boxes, Shape(b)
  PROVE  LET u == UnsubscribeAll(b)
         IN /\ u \in Boxes /\ Shape(u) /\ u.type = b.type /\ u.res = b.res
            /\ u.gdbus = "on" => b.gdbus = "on"
            /\ b.type \notin {"free", "watch"} => u.gdbus # "on"
<1>1. CASE b.type \in Kinds \cup Lookups \cup {"presence"}
  BY <1>1, UnsubscribedBox, UnsubscribedShape DEF UnsubscribeAll
<1>2. CASE b.type \notin Kinds \cup Lookups \cup {"presence"}
  <2>1. UnsubscribeAll(b) = b BY <1>2 DEF UnsubscribeAll
  <2>2. b.type \in {"free", "watch", "crud"} BY <1>2 DEF Boxes, Types
  <2>. QED BY <2>1, <2>2 DEF Shape
<1>. QED BY <1>1, <1>2

-----------------------------------------------------------------------------
\* A step that touches no subscription.
SameLinks ==
  /\ \A c \in Containers :
       box[c].type \in Kinds \/ box'[c].type \in Kinds =>
         /\ box'[c].type = box[c].type /\ box'[c].res = box[c].res
         /\ box'[c].gdbus = "on" => box[c].gdbus = "on"
  /\ UNCHANGED <<faults, refs, held, sub, cached>>

LEMMA SameSubscriptions ==
  ASSUME \A c \in Containers :
           box[c].type \in Kinds \/ box'[c].type \in Kinds =>
             box'[c].type = box[c].type /\ box'[c].res = box[c].res
  PROVE  /\ \A r \in Resources : Subscriptions(r)' = Subscriptions(r)
         /\ \A k \in Kinds : Of(k)' = Of(k)
BY DEF Subscriptions, Of

LEMMA LinksKept ==
  ASSUME Linked, SameLinks
  PROVE  Linked'
<1>1. /\ \A r \in Resources : Subscriptions(r)' = Subscriptions(r)
      /\ \A k \in Kinds : Of(k)' = Of(k)
  BY SameSubscriptions DEF SameLinks
<1>2. RefCountExact' BY <1>1 DEF Linked, RefCountExact, SameLinks
<1>3. Ids' BY <1>1 DEF Linked, Ids, SameLinks
<1>4. Caches'
  <2>1. CASE "caching" \in Kinds BY <1>1, <2>1 DEF Linked, Caches, SameLinks
  <2>2. CASE "caching" \notin Kinds
    <3>1. \A r \in Resources : Subscriptions(r) \cap Of("caching") = {}
      BY <2>2 DEF Subscriptions, Of
    <3>. QED BY <3>1 DEF Linked, Caches, SameLinks
  <2>. QED BY <2>1, <2>2
<1>5. Unique' BY <1>1 DEF Linked, Unique, SameLinks, Subscriptions
<1>6. Stoppable' BY <1>1 DEF Linked, Stoppable, SameLinks, Subscriptions
<1>. QED BY <1>2, <1>3, <1>4, <1>5, <1>6 DEF Linked

LEMMA InitInv == Init => IInv
<1>. SUFFICES ASSUME Init PROVE IInv
  OBVIOUS
<1>1. Typed BY DEF Init, Typed
<1>2. \A c \in Containers : box[c] \in Boxes /\ box[c].type = "free" /\ box[c].gdbus = "done"
                              /\ ~box[c].timer /\ ~box[c].owned /\ box[c].told = {}
  <2>1. LET b == Container("free", None, "done")
        IN b \in Boxes /\ b.gdbus = "done" /\ ~b.timer /\ ~b.owned
    <3>1. "free" \in Types \cup {"free"} /\ None \in Resources \cup {None}
          /\ "done" \in {"on", "done"}
      OBVIOUS
    <3>. QED BY <3>1, NewBox, KindNames
  <2>. QED BY <2>1, FreedBox DEF Init
<1>3. Boxed BY <1>2, KindNames DEF Init, Boxed, Shape
<1>4. \A r \in Resources : Subscriptions(r) = {} BY <1>2, KindNames DEF Subscriptions
<1>5. Cardinality({}) = 0 BY FS_EmptySet
<1>6. Linked
  <2>1. RefCountExact BY <1>4, <1>5 DEF Init, RefCountExact
  <2>2. Ids /\ Caches BY DEF Init, Ids, Caches
  <2>3. Unique /\ Stoppable BY <1>4 DEF Unique, Stoppable
  <2>. QED BY <2>1, <2>2, <2>3 DEF Linked
<1>. QED BY <1>1, <1>3, <1>6 DEF IInv
-----------------------------------------------------------------------------
(* The steps that touch no subscription. *)

\* One container changes, and keeps its shape.
LEMMA OneBox ==
  ASSUME Boxed, NEW c \in Containers, NEW b,
         b \in Boxes, Shape(b), box' = [box EXCEPT ![c] = b],
         UNCHANGED <<faults, count, held>>
  PROVE  Boxed'
<1>1. box' \in [Containers -> Boxes] BY DEF Boxed
<1>2. ASSUME NEW d \in Containers PROVE Shape(box[d])' BY DEF Boxed, Shape
<1>. QED BY <1>1, <1>2 DEF Boxed

LEMMA ConnectInv == IInv /\ Connect => IInv'
<1>. SUFFICES ASSUME IInv, Connect PROVE IInv'
  OBVIOUS
<1>1. Typed' BY DEF IInv, Typed, Connect
<1>2. Boxed' BY DEF IInv, Typed, Boxed, Shape, Connect
<1>3. SameLinks BY DEF SameLinks, Connect
<1>. QED BY <1>1, <1>2, <1>3, LinksKept DEF IInv

LEMMA DisconnectInv == IInv /\ Disconnect => IInv'
<1>. SUFFICES ASSUME IInv, Disconnect PROVE IInv'
  OBVIOUS
<1>1. Typed' BY DEF IInv, Typed, Disconnect, Open
<1>2. ASSUME NEW c \in Containers
      PROVE  /\ box'[c] \in Boxes /\ Shape(box[c])'
             /\ box[c].type \in Kinds \/ box'[c].type \in Kinds =>
                  /\ box'[c].type = box[c].type /\ box'[c].res = box[c].res
                  /\ box'[c].gdbus = "on" => box[c].gdbus = "on"
  <2>1. box[c] \in Boxes /\ Shape(box[c]) BY DEF IInv, Boxed
  <2>2. CASE count > 1
    <3>1. box'[c] = box[c] /\ count' # 0 BY <2>2 DEF Disconnect, IInv, Typed
    <3>. QED BY <2>1, <3>1 DEF Shape, Disconnect
  <2>3. CASE ~(count > 1) /\ box[c].type = "watch"
    <3>1. PICK on \in {"on", "off", "done"} :
            /\ box'[c] = Freed([box[c] EXCEPT !.gdbus = on])
            /\ on = "done" \/ "calls_at_disconnect" \in faults
      <4>1. box'[c] = Freed([box[c] EXCEPT !.gdbus = IF Of("crud") = {} THEN "done" ELSE @])
        BY <2>3 DEF Disconnect
      <4>2. CASE Of("crud") = {} BY <4>1, <4>2
      <4>3. CASE Of("crud") # {}
        <5>1. box'[c] = Freed([box[c] EXCEPT !.gdbus = box[c].gdbus]) BY <4>1, <4>3
        <5>2. "calls_at_disconnect" \in faults BY <2>3, <4>3 DEF Disconnect
        <5>. QED BY <5>1, <5>2, <2>1 DEF Boxes
      <4>. QED BY <4>2, <4>3
    <3> DEFINE b == [box[c] EXCEPT !.gdbus = on]
    <3>2. b \in Boxes /\ b.gdbus = on /\ ~b.timer /\ ~b.owned
      BY <2>1, <2>3, KindNames DEF Boxes, Shape
    <3>3. box'[c] \in Boxes /\ box'[c].type = "free" /\ box'[c].told = {}
          /\ box'[c].gdbus = on /\ ~box'[c].timer /\ ~box'[c].owned
      BY <3>1, <3>2, FreedBox
    <3>. QED BY <3>1, <3>3, <2>3, KindNames DEF Shape, Disconnect
  <2>4. CASE ~(count > 1) /\ box[c].type # "watch"
    <3>1. box'[c] = UnsubscribeAll(box[c]) BY <2>4 DEF Disconnect
    <3>2. LET u == box'[c]
          IN /\ u \in Boxes /\ Shape(u) /\ u.type = box[c].type /\ u.res = box[c].res
             /\ u.gdbus = "on" => box[c].gdbus = "on"
             /\ box[c].type \notin {"free", "watch"} => u.gdbus # "on"
      BY <2>1, <3>1, UnsubscribeAllShape
    <3>. QED BY <3>2 DEF Shape, Disconnect
  <2>. QED BY <2>2, <2>3, <2>4
<1>3. box' \in [Containers -> Boxes] BY <1>2 DEF Disconnect
<1>4. SameLinks BY <1>2 DEF SameLinks, Disconnect
<1>. QED BY <1>1, <1>2, <1>3, <1>4, LinksKept DEF IInv, Boxed

LEMMA NameOwnerNotifyInv == IInv /\ NameOwnerNotify => IInv'
<1>. SUFFICES ASSUME IInv, NameOwnerNotify PROVE IInv'
  OBVIOUS
<1>1. Typed' BY DEF IInv, Typed, NameOwnerNotify
<1>2. ASSUME NEW c \in Containers
      PROVE  /\ box'[c] \in Boxes /\ Shape(box[c])'
             /\ box'[c].type = box[c].type /\ box'[c].res = box[c].res
             /\ box'[c].gdbus = "on" => box[c].gdbus = "on"
  <2>1. box[c] \in Boxes /\ Shape(box[c]) BY DEF IInv, Boxed
  <2>2. box'[c] = UnsubscribeAll(box[c]) BY DEF NameOwnerNotify
  <2>3. LET u == box'[c]
        IN /\ u \in Boxes /\ Shape(u) /\ u.type = box[c].type /\ u.res = box[c].res
           /\ u.gdbus = "on" => box[c].gdbus = "on"
    BY <2>1, <2>2, UnsubscribeAllShape
  <2>. QED BY <2>3 DEF Shape, NameOwnerNotify
<1>3. box' \in [Containers -> Boxes] BY <1>2 DEF NameOwnerNotify
<1>4. SameLinks BY <1>2 DEF SameLinks, NameOwnerNotify
<1>. QED BY <1>1, <1>2, <1>3, <1>4, LinksKept DEF IInv, Boxed

\* A container that is no subscription of a resource changes, and becomes none.
LEMMA OtherBox ==
  ASSUME IInv, NEW c \in Containers, NEW b \in Boxes,
         Shape(b), box' = [box EXCEPT ![c] = b],
         box[c].type \notin Kinds, b.type \notin Kinds,
         UNCHANGED <<faults, count, refs, held, sub, cached, incall>>
  PROVE  IInv'
<1>1. Typed' BY DEF IInv, Typed
<1>2. Boxed' BY OneBox DEF IInv
<1>3. SameLinks BY DEF SameLinks, IInv, Boxed
<1>. QED BY <1>1, <1>2, <1>3, LinksKept DEF IInv

\* A new container for anything but a subscription of a resource.
LEMMA NewOther ==
  ASSUME IInv, NEW c \in FreeContainers, NEW type \in Types \ Kinds,
         NEW res \in Resources \cup {None}, NEW on \in {"on", "done"},
         type = "crud" => on = "done" /\ res \in held,
         Open, box' = [box EXCEPT ![c] = Container(type, res, on)],
         UNCHANGED <<faults, count, refs, held, sub, cached, incall>>
  PROVE  IInv'
<1> DEFINE b == Container(type, res, on)
<1>1. /\ b \in Boxes /\ b.type = type /\ b.res = res /\ b.gdbus = on /\ b.told = {}
      /\ (b.timer <=> type \in Lookups) /\ (b.owned <=> type = "presence")
      /\ (b.owned => b.sub_id /\ b.handle)
  BY NewBox
<1>2. type # "free" BY KindNames DEF Types
<1>3. Shape(b)
  <2>. HIDE DEF b
  <2>. QED BY <1>1, <1>2, KindNames DEF IInv, Typed, Shape, Open
<1>4. box[c].type \notin Kinds /\ c \in Containers BY KindNames DEF FreeContainers
<1>. QED BY <1>1, <1>3, <1>4, OtherBox

LEMMA NewOthersInv ==
  ASSUME IInv, NEW c \in Containers
  PROVE  /\ AddConnectionChangedCb(c) => IInv'
         /\ AddPresenceCb(c) => IInv'
         /\ \A r \in Resources : Crud(r, c) => IInv'
         /\ \A type \in Lookups : Lookup(type, c) => IInv'
<1>1. AddConnectionChangedCb(c) => IInv'
  BY NewOther, KindNames DEF AddConnectionChangedCb, Types
<1>2. AddPresenceCb(c) => IInv'
  BY NewOther, KindNames DEF AddPresenceCb, Types
<1>3. ASSUME NEW r \in Resources, Crud(r, c) PROVE IInv'
  BY <1>3, NewOther, KindNames DEF Crud, Types
<1>4. ASSUME NEW type \in Lookups, Lookup(type, c) PROVE IInv'
  <2>1. type \in Types \ Kinds /\ type # "crud" BY KindNames DEF Types, Lookups
  <2>. QED BY <1>4, <2>1, NewOther DEF Lookup
<1>. QED BY <1>1, <1>2, <1>3, <1>4

LEMMA RemoveConnectionChangedCbInv ==
  ASSUME IInv, NEW c \in Containers, RemoveConnectionChangedCb(c)
  PROVE  IInv'
<1> DEFINE d == [box[c] EXCEPT !.gdbus = "done"]
<1>1. box[c] \in Boxes /\ Shape(box[c]) /\ box[c].type = "watch"
  BY DEF IInv, Boxed, RemoveConnectionChangedCb, Of
<1>2. d \in Boxes /\ d.gdbus = "done" /\ ~d.timer /\ ~d.owned
  BY <1>1, KindNames DEF Boxes, Shape
<1>3. /\ Freed(d) \in Boxes /\ Freed(d).type = "free" /\ Freed(d).told = {}
      /\ Freed(d).gdbus = "done" /\ ~Freed(d).timer /\ ~Freed(d).owned
  <2>. HIDE DEF d
  <2>. QED BY <1>2, FreedBox
<1>4. Shape(Freed(d)) BY <1>3, KindNames DEF Shape
<1>5. box' = [box EXCEPT ![c] = Freed(d)] BY DEF RemoveConnectionChangedCb
<1>. HIDE DEF d
<1>. QED BY <1>1, <1>3, <1>4, <1>5, OtherBox, KindNames DEF RemoveConnectionChangedCb

LEMMA OnCrudCbInv ==
  ASSUME IInv, NEW c \in Containers, OnCrudCb(c)
  PROVE  IInv'
<1>1. Typed' BY DEF IInv, Typed, OnCrudCb
<1>2. ASSUME NEW d \in Containers
      PROVE  /\ box'[d] \in Boxes /\ Shape(box[d])'
             /\ box[d].type \in Kinds \/ box'[d].type \in Kinds => box'[d] = box[d]
  <2>1. box[d] \in Boxes /\ Shape(box[d]) BY DEF IInv, Boxed
  <2>2. CASE d = c
    <3>1. box'[d] = Freed(box[d]) /\ box[d].type = "crud" BY <2>2 DEF OnCrudCb, Of
    <3>2. /\ box'[d] \in Boxes /\ box'[d].type = "free" /\ box'[d].told = {}
          /\ box'[d].gdbus = "done" /\ ~box'[d].timer /\ ~box'[d].owned
      BY <3>1, <2>1, FreedBox, KindNames DEF Shape
    <3>. QED BY <3>1, <3>2, KindNames DEF Shape, OnCrudCb
  <2>3. CASE d # c /\ box'[d] = [box[d] EXCEPT !.gdbus = "done"] /\ box[d].type = "free"
    <3>1. /\ box'[d] \in Boxes /\ box'[d].type = "free" /\ box'[d].told = box[d].told
          /\ box'[d].gdbus = "done" /\ box'[d].timer = box[d].timer
          /\ box'[d].owned = box[d].owned
      BY <2>1, <2>3 DEF Boxes
    <3>. QED BY <2>1, <2>3, <3>1, KindNames DEF Shape, OnCrudCb
  <2>4. CASE box'[d] = box[d] BY <2>1, <2>4 DEF Shape, OnCrudCb
  <2>. QED BY <2>2, <2>3, <2>4 DEF OnCrudCb
<1>3. box' \in [Containers -> Boxes] BY <1>2 DEF OnCrudCb
<1>4. SameLinks BY <1>2 DEF SameLinks, OnCrudCb
<1>. QED BY <1>1, <1>2, <1>3, <1>4, LinksKept DEF IInv, Boxed

\* A search is told of what it has found.
LEMMA ToldFound ==
  ASSUME IInv, NEW c \in Containers, box[c].type \in Lookups, box[c].gdbus = "on"
  PROVE  LET b == [box[c] EXCEPT !.told = @ \cup {"found"}]
         IN /\ b \in Boxes /\ Shape(b) /\ b.type = box[c].type /\ b.res = box[c].res
            /\ b.gdbus = "on"
<1> DEFINE b == [box[c] EXCEPT !.told = @ \cup {"found"}]
<1>1. box[c] \in Boxes /\ Shape(box[c]) BY DEF IInv, Boxed
<1>2. box[c].told \cup {"found"} \in SUBSET {"found", "timeout"} BY <1>1 DEF Boxes
<1>3. /\ b \in Boxes /\ b.type = box[c].type /\ b.res = box[c].res /\ b.gdbus = "on"
      /\ b.told = box[c].told \cup {"found"} /\ b.timer = box[c].timer
      /\ b.owned = box[c].owned /\ b.cb = box[c].cb
  BY <1>1, <1>2 DEF Boxes
<1>4. Shape(b)
  <2>. HIDE DEF b
  <2>. QED BY <1>1, <1>3, KindNames DEF Shape
<1>. QED BY <1>3, <1>4

LEMMA InfoCbInv ==
  ASSUME IInv, NEW c \in Containers, InfoCb(c)
  PROVE  IInv'
<1> DEFINE b == [box[c] EXCEPT !.told = @ \cup {"found"}]
<1>1. box[c].type \in Lookups BY DEF InfoCb, Of, Lookups
<1>2. b \in Boxes /\ Shape(b) /\ b.type = box[c].type BY <1>1, ToldFound DEF InfoCb
<1>3. box' = [box EXCEPT ![c] = b] BY DEF InfoCb
<1>. HIDE DEF b
<1>. QED BY <1>1, <1>2, <1>3, OtherBox, KindNames DEF InfoCb, Lookups

LEMMA LookupTimeoutInv ==
  ASSUME IInv, NEW c \in Containers, LookupTimeout(c)
  PROVE  IInv'
<1> DEFINE u == Unsubscribed(box[c])
           b == TimedOut(box[c])
<1>1. box[c] \in Boxes /\ Shape(box[c]) /\ box[c].type \in Lookups
  BY DEF IInv, Boxed, LookupTimeout
<1>2. /\ u \in Boxes /\ Shape(u) /\ u.type = box[c].type /\ u.gdbus # "on"
      /\ u.told = box[c].told
  BY <1>1, UnsubscribedBox, UnsubscribedShape
<1>3. PICK told \in SUBSET {"found", "timeout"} :
        /\ b = [u EXCEPT !.timer = FALSE, !.told = told]
        /\ ~({"found", "timeout"} \subseteq told)
  <2>1. b = [u EXCEPT !.timer = FALSE,
                      !.told = IF "found" \in u.told THEN u.told ELSE u.told \cup {"timeout"}]
    BY DEF TimedOut
  <2>2. u.told \in SUBSET {"found", "timeout"} BY <1>2 DEF Boxes
  <2>3. CASE "found" \in u.told
    <3>1. "timeout" \notin u.told BY <1>2, <2>3 DEF Shape
    <3>. QED BY <2>1, <2>2, <2>3, <3>1
  <2>4. CASE "found" \notin u.told
    <3>1. u.told \cup {"timeout"} \in SUBSET {"found", "timeout"} BY <2>2
    <3>. QED BY <2>1, <2>4, <3>1
  <2>. QED BY <2>3, <2>4
<1>. HIDE DEF u, b
<1>4. /\ b \in Boxes /\ b.type = u.type /\ b.res = u.res /\ b.gdbus = u.gdbus /\ b.cb = u.cb
      /\ b.told = told /\ ~b.timer /\ b.owned = u.owned
  BY <1>2, <1>3 DEF Boxes
<1>5. Shape(b) BY <1>1, <1>2, <1>3, <1>4, KindNames DEF Shape
<1>6. box' = [box EXCEPT ![c] = b] BY DEF LookupTimeout, b
<1>. QED BY <1>1, <1>2, <1>4, <1>5, <1>6, OtherBox, KindNames DEF LookupTimeout, Lookups

LEMMA LookupCleanupInv ==
  ASSUME IInv, NEW c \in Containers, LookupCleanup(c)
  PROVE  IInv'
<1> DEFINE d == [box[c] EXCEPT !.gdbus = "done", !.timer = FALSE]
<1>1. box[c] \in Boxes /\ Shape(box[c]) /\ box[c].type \in Lookups
  BY DEF IInv, Boxed, LookupCleanup
<1>2. d \in Boxes /\ d.gdbus = "done" /\ ~d.timer /\ ~d.owned
  BY <1>1, KindNames DEF Boxes, Shape, Lookups
<1>3. /\ Freed(d) \in Boxes /\ Freed(d).type = "free" /\ Freed(d).told = {}
      /\ Freed(d).gdbus = "done" /\ ~Freed(d).timer /\ ~Freed(d).owned
  <2>. HIDE DEF d
  <2>. QED BY <1>2, FreedBox
<1>4. Shape(Freed(d)) BY <1>3, KindNames DEF Shape
<1>5. box' = [box EXCEPT ![c] = Freed(d)] BY DEF LookupCleanup
<1>. HIDE DEF d
<1>. QED BY <1>1, <1>3, <1>4, <1>5, OtherBox, KindNames DEF LookupCleanup, Lookups

LEMMA RemovePresenceCbInv ==
  ASSUME IInv, NEW c \in Containers, RemovePresenceCb(c)
  PROVE  IInv'
<1>1. /\ box[c] \in Boxes /\ Shape(box[c]) /\ box[c].type = "presence" /\ box[c].owned
      /\ box' = [box EXCEPT ![c] = Removed(box[c])]
  BY DEF IInv, Boxed, RemovePresenceCb, Of
<1>2. CASE box[c].sub_id
  <2> DEFINE d == [box[c] EXCEPT !.handle = FALSE, !.sub_id = FALSE, !.owned = FALSE]
  <2>1. /\ d \in Boxes /\ d.type = "presence" /\ d.gdbus = box[c].gdbus /\ ~d.owned
        /\ d.told = box[c].told /\ d.timer = box[c].timer
    BY <1>1 DEF Boxes
  <2>2. Shape(d)
    <3>. HIDE DEF d
    <3>. QED BY <1>1, <2>1, KindNames DEF Shape
  <2>3. Removed(box[c]) = Unsubscribed(d) BY <1>2 DEF Removed
  <2>. HIDE DEF d
  <2>4. Removed(box[c]) \in Boxes /\ Shape(Removed(box[c])) /\ Removed(box[c]).type = "presence"
    BY <2>1, <2>2, <2>3, UnsubscribedBox, UnsubscribedShape
  <2>. QED BY <1>1, <2>4, OtherBox, KindNames DEF RemovePresenceCb
<1>3. CASE ~box[c].sub_id
  <2> DEFINE d == [box[c] EXCEPT !.owned = FALSE]
  <2>1. d \in Boxes /\ d.gdbus = "done" /\ ~d.owned /\ ~d.timer
    BY <1>1, <1>3, KindNames DEF Boxes, Shape
  <2>2. Removed(box[c]) = Freed(d) BY <1>3 DEF Removed
  <2>. HIDE DEF d
  <2>3. LET f == Removed(box[c])
        IN /\ f \in Boxes /\ f.type = "free" /\ f.told = {}
           /\ f.gdbus = "done" /\ ~f.timer /\ ~f.owned
    BY <2>1, <2>2, FreedBox
  <2>4. Shape(Removed(box[c])) BY <2>3, KindNames DEF Shape
  <2>. QED BY <1>1, <2>3, <2>4, OtherBox, KindNames DEF RemovePresenceCb
<1>. QED BY <1>2, <1>3

LEMMA PresenceCleanupInv ==
  ASSUME IInv, NEW c \in Containers, PresenceCleanup(c)
  PROVE  IInv'
<1> DEFINE d == [box[c] EXCEPT !.gdbus = "done", !.sub_id = FALSE, !.handle = FALSE]
<1>1. /\ box[c] \in Boxes /\ Shape(box[c]) /\ box[c].type = "presence"
      /\ box[c].gdbus = "off" /\ box' = [box EXCEPT ![c] = Cleaned(box[c])]
  BY DEF IInv, Boxed, PresenceCleanup, Of
<1>2. /\ d \in Boxes /\ d.type = "presence" /\ d.gdbus = "done" /\ ~d.timer
      /\ d.owned = box[c].owned /\ d.told = box[c].told
  BY <1>1, KindNames DEF Boxes, Shape
<1>3. Cleaned(box[c]) = IF box[c].handle THEN d ELSE Freed(d) BY DEF Cleaned
<1>. HIDE DEF d
<1>4. CASE box[c].handle
  <2>1. Shape(d) BY <1>1, <1>2, KindNames DEF Shape
  <2>. QED BY <1>1, <1>2, <1>3, <1>4, <2>1, OtherBox, KindNames DEF PresenceCleanup
<1>5. CASE ~box[c].handle
  <2>1. ~d.owned BY <1>1, <1>2, <1>5 DEF Shape
  <2>2. /\ Freed(d) \in Boxes /\ Freed(d).type = "free" /\ Freed(d).told = {}
        /\ Freed(d).gdbus = "done" /\ ~Freed(d).timer /\ ~Freed(d).owned
    BY <1>2, <2>1, FreedBox
  <2>3. Shape(Freed(d)) BY <2>2, KindNames DEF Shape
  <2>. QED BY <1>1, <1>3, <1>5, <2>2, <2>3, OtherBox, KindNames DEF PresenceCleanup
<1>. QED BY <1>4, <1>5

LEMMA CachingCbInv ==
  ASSUME IInv, NEW c \in Containers, CachingCb(c)
  PROVE  IInv'
<1>1. box[c] \in Boxes /\ Shape(box[c]) /\ c \in Of("caching") BY DEF IInv, Boxed, CachingCb
<1>2. Typed' BY DEF IInv, Typed, CachingCb
<1>3. Boxed' BY DEF IInv, Boxed, Shape, CachingCb
<1>4. \A r \in Resources : Subscriptions(r)' = Subscriptions(r) BY DEF Subscriptions, CachingCb
<1>5. RefCountExact' BY <1>4 DEF IInv, Linked, RefCountExact, CachingCb
<1>6. Ids' BY <1>4 DEF IInv, Linked, Ids, CachingCb, Of
<1>7. Caches'
  <2>. SUFFICES ASSUME NEW r \in Resources, cached'[r], ~cached[r]
               PROVE  (Subscriptions(r) \cap Of("caching"))' # {}
    BY <1>4 DEF IInv, Linked, Caches, CachingCb, Of
  <2>1. box[c].res = r BY DEF CachingCb, IInv, Typed
  <2>2. "caching" \in Kinds => c \in Subscriptions(r) BY <1>1, <2>1 DEF Subscriptions, Of
  <2>3. "caching" \in Kinds BY <1>1 DEF Boxes, Types, Lookups, Of
  <2>. QED BY <1>1, <1>4, <2>2, <2>3 DEF Of, CachingCb
<1>8. Unique' BY <1>4 DEF IInv, Linked, Unique, CachingCb
<1>9. Stoppable' BY <1>4 DEF IInv, Linked, Stoppable, CachingCb
<1>. QED BY <1>2, <1>3, <1>5, <1>6, <1>7, <1>8, <1>9 DEF IInv, Linked

-----------------------------------------------------------------------------
(* The steps that make, end or free subscriptions and resources. *)

LEMMA SubscriptionsFinite ==
  ASSUME NEW r \in Resources
  PROVE  IsFiniteSet(Subscriptions(r)) /\ Cardinality(Subscriptions(r)) \in Nat
BY FS_Subset, FS_CardinalityType DEF Subscriptions

\* A resource that is freed has nobody who would give a reference back.
LEMMA FreeUnused ==
  ASSUME IInv, NEW r \in FreeResources
  PROVE  r \in Resources /\ r \notin held /\ Subscriptions(r) = {}
<1>1. r \in Resources /\ refs[r] = 0 BY DEF FreeResources
<1>2. IsFiniteSet(Subscriptions(r)) /\ Cardinality(Subscriptions(r)) \in Nat
  BY <1>1, SubscriptionsFinite
<1>3. refs[r] = (IF r \in held THEN 1 ELSE 0) + Cardinality(Subscriptions(r))
  BY <1>1 DEF IInv, Linked, RefCountExact
<1>4. r \notin held /\ Cardinality(Subscriptions(r)) = 0 BY <1>1, <1>2, <1>3
<1>. QED BY <1>1, <1>2, <1>4, FS_EmptySet

\* A new resource, while no container changes its type, resource or state.
LEMMA NewResourceLinks ==
  ASSUME IInv, NEW r \in FreeResources, NewResource(r), faults' = faults,
         \A c \in Containers : /\ box'[c].type = box[c].type /\ box'[c].res = box[c].res
                               /\ box'[c].gdbus = "on" => box[c].gdbus = "on"
  PROVE  Linked'
<1>1. r \in Resources /\ r \notin held /\ Subscriptions(r) = {} BY FreeUnused
<1>2. /\ \A q \in Resources : Subscriptions(q)' = Subscriptions(q)
      /\ \A type \in Types : Of(type)' = Of(type)
  BY DEF Subscriptions, Of
<1>3. RefCountExact'
  <2>1. Cardinality(Subscriptions(r)) = 0 BY <1>1, FS_EmptySet
  <2>2. ASSUME NEW q \in Resources
        PROVE  refs'[q] = (IF q \in held' THEN 1 ELSE 0) + Cardinality(Subscriptions(q)')
    <3>1. CASE q = r
      <4>1. refs'[q] = 1 /\ q \in held' BY <3>1, <1>1 DEF IInv, Typed, NewResource
      <4>2. Cardinality(Subscriptions(q)') = 0 BY <3>1, <1>2, <2>1
      <4>. QED BY <4>1, <4>2
    <3>2. CASE q # r
      <4>1. refs'[q] = refs[q] /\ (q \in held' <=> q \in held)
        BY <3>2 DEF IInv, Typed, NewResource
      <4>. QED BY <1>2, <4>1 DEF IInv, Linked, RefCountExact
    <3>. QED BY <3>1, <3>2
  <2>. QED BY <2>2 DEF RefCountExact
<1>4. Ids'
  <2>. SUFFICES ASSUME NEW q \in Resources, NEW k \in Kinds, sub'[q][k] # None
               PROVE  sub'[q][k] \in Subscriptions(q) \cap Of(k)
    BY <1>2 DEF Ids, Types
  <2>1. sub'[q][k] = sub[q][k] BY DEF NewResource, IInv, Typed
  <2>. QED BY <2>1 DEF IInv, Linked, Ids
<1>5. Caches'
  <2>1. CASE "caching" \in Kinds
    <3>. SUFFICES ASSUME NEW q \in Resources, cached'[q]
                 PROVE  Subscriptions(q) \cap Of("caching") # {}
      BY <1>2, <2>1 DEF Caches, Types
    <3>1. cached[q] BY DEF NewResource, IInv, Typed
    <3>. QED BY <3>1 DEF IInv, Linked, Caches
  <2>2. CASE "caching" \notin Kinds
    <3>1. \A q \in Resources : Subscriptions(q) \cap Of("caching") = {}
      BY <2>2 DEF Subscriptions, Of
    <3>2. \A q \in Resources : ~cached[q] BY <3>1 DEF IInv, Linked, Caches
    <3>. QED BY <3>2 DEF Caches, NewResource, IInv, Typed
  <2>. QED BY <2>1, <2>2
<1>6. Unique' BY <1>2 DEF IInv, Linked, Unique, Subscriptions
<1>7. Stoppable'
  <2>. SUFFICES ASSUME "early_restart" \notin faults, NEW q \in Resources,
                      NEW c \in Subscriptions(q), box[c].gdbus = "on"
               PROVE  /\ sub'[q][box[c].type] = c
                      /\ faults = {} => q \in held'
    BY <1>2 DEF Stoppable, Subscriptions
  <2>1. q # r BY <1>1
  <2>2. sub'[q] = sub[q] /\ (q \in held => q \in held') BY <2>1 DEF NewResource, IInv, Typed
  <2>. QED BY <2>2 DEF IInv, Linked, Stoppable
<1>. QED BY <1>3, <1>4, <1>5, <1>6, <1>7 DEF Linked

LEMMA NewResourceTyped ==
  ASSUME IInv, NEW r \in Resources, NewResource(r), UNCHANGED <<faults, count>>,
         incall' \in {incall, r}
  PROVE  Typed'
<1>1. [k \in Kinds |-> None] \in [Kinds -> Containers \cup {None}]
  OBVIOUS
<1>2. refs' \in [Resources -> Nat] BY DEF IInv, Typed, NewResource
<1>3. sub' \in [Resources -> [Kinds -> Containers \cup {None}]]
  BY <1>1 DEF IInv, Typed, NewResource
<1>. QED BY <1>2, <1>3 DEF IInv, Typed, NewResource

LEMMA CreateInv ==
  ASSUME IInv, NEW r \in Resources, Create(r)
  PROVE  IInv'
<1>1. Typed' BY NewResourceTyped DEF Create
<1>2. Boxed'
  <2>1. held \subseteq held' BY DEF Create, NewResource
  <2>. QED BY <2>1 DEF IInv, Boxed, Shape, Create
<1>3. Linked' BY NewResourceLinks DEF Create
<1>. QED BY <1>1, <1>2, <1>3 DEF IInv

LEMMA FoundCbInv ==
  ASSUME IInv, NEW c \in Containers, NEW r \in Resources, FoundCb(c, r)
  PROVE  IInv'
<1> DEFINE b == [box[c] EXCEPT !.told = @ \cup {"found"}]
<1>1. box[c].type \in Lookups BY DEF FoundCb, Of, Lookups
<1>2. b \in Boxes /\ Shape(b) /\ b.type = box[c].type /\ b.res = box[c].res /\ b.gdbus = "on"
  BY <1>1, ToldFound DEF FoundCb
<1>3. box' = [box EXCEPT ![c] = b] BY DEF FoundCb
<1>4. box[c].gdbus = "on" BY DEF FoundCb
<1>. HIDE DEF b
<1>5. Typed' BY NewResourceTyped DEF FoundCb
<1>6. \A d \in Containers : box'[d] = IF d = c THEN b ELSE box[d] BY <1>3 DEF IInv, Boxed
<1>7. Boxed'
  <2>1. held \subseteq held' BY DEF FoundCb, NewResource
  <2>2. box' \in [Containers -> Boxes] BY <1>2, <1>3 DEF IInv, Boxed
  <2>3. ASSUME NEW d \in Containers PROVE Shape(box[d])'
    <3>1. Shape(box'[d]) BY <1>2, <1>6 DEF IInv, Boxed
    <3>. QED BY <2>1, <3>1 DEF Shape, FoundCb
  <2>. QED BY <2>2, <2>3 DEF Boxed
<1>8. \A d \in Containers : /\ box'[d].type = box[d].type /\ box'[d].res = box[d].res
                            /\ box'[d].gdbus = "on" => box[d].gdbus = "on"
  BY <1>2, <1>4, <1>6
<1>9. Linked' BY <1>8, NewResourceLinks DEF FoundCb
<1>. QED BY <1>5, <1>7, <1>9 DEF IInv

\* A destroy: the id of a subscription that is not stopped stays, one that is
\* stopped is called back no more.
LEMMA DestroyResourceInv ==
  ASSUME IInv, NEW r \in held, NEW failed \in Failing, DestroyResource(r, failed),
         incall' \in (held \ {r}) \cup {None}
  PROVE  IInv'
<1>1. r \in Resources /\ failed \subseteq Kinds /\ (faults = {} /\ Open => failed = {})
      /\ (~Open => failed = Kinds) /\ ("daemon" \notin faults /\ Open => failed = {})
  BY DEF IInv, Typed, Failing
<1> DEFINE d(c) == IF c \in Ended(r, failed) THEN Unsubscribed(box[c]) ELSE box[c]
<1>2. \A c \in Containers : box'[c] = CrudStop(d(c), r) BY DEF DestroyResource
<1>3. ASSUME NEW c \in Containers
      PROVE  /\ box'[c] \in Boxes /\ Shape(box[c])'
             /\ box'[c].type = box[c].type /\ box'[c].res = box[c].res
             /\ box'[c].gdbus = "on" => box[c].gdbus = "on" /\ c \notin Ended(r, failed)
  <2>1. box[c] \in Boxes /\ Shape(box[c]) BY DEF IInv, Boxed
  <2>2. /\ d(c) \in Boxes /\ Shape(d(c)) /\ d(c).type = box[c].type /\ d(c).res = box[c].res
        /\ d(c).gdbus = "on" => box[c].gdbus = "on" /\ c \notin Ended(r, failed)
    <3>1. CASE c \in Ended(r, failed) BY <2>1, <3>1, UnsubscribedBox, UnsubscribedShape
    <3>2. CASE c \notin Ended(r, failed) BY <2>1, <3>2
    <3>. QED BY <3>1, <3>2
  <2>3. /\ box'[c] \in Boxes /\ box'[c].type = d(c).type /\ box'[c].res = d(c).res
        /\ box'[c].gdbus = d(c).gdbus /\ box'[c].timer = d(c).timer
        /\ box'[c].told = d(c).told /\ box'[c].owned = d(c).owned
        /\ box'[c].sub_id = d(c).sub_id /\ box'[c].handle = d(c).handle
        /\ box'[c].cb => d(c).cb /\ ~(d(c).type = "crud" /\ d(c).res = r)
    <3>1. box'[c] = CrudStop(d(c), r) /\ d(c) \in Boxes BY <1>2, <2>2
    <3>. HIDE DEF d
    <3>. QED BY <1>1, <3>1, CrudStopBox
  <2>. HIDE DEF d
  <2>4. Shape(box[c])'
    <3>1. held' = held \ {r} /\ count' = count /\ faults' = faults BY DEF DestroyResource
    <3>. QED BY <2>2, <2>3, <3>1 DEF Shape
  <2>. QED BY <2>2, <2>3, <2>4
<1>. HIDE DEF d
<1>4. Boxed'
  <2>1. box' \in [Containers -> Boxes] BY <1>3 DEF DestroyResource
  <2>. QED BY <1>3, <2>1 DEF Boxed
<1>5. /\ \A q \in Resources : Subscriptions(q)' = Subscriptions(q)
      /\ \A type \in Types : Of(type)' = Of(type)
  BY <1>3 DEF Subscriptions, Of
<1>6. refs[r] = 1 + Cardinality(Subscriptions(r)) /\ Cardinality(Subscriptions(r)) \in Nat
  BY <1>1, SubscriptionsFinite DEF IInv, Linked, RefCountExact
<1>7. \A q \in Resources : refs'[q] = IF q = r THEN Cardinality(Subscriptions(r)) ELSE refs[q]
  BY <1>1, <1>6 DEF IInv, Typed, DestroyResource, Unref
<1>8. \A q \in Resources, k \in Kinds :
        sub'[q][k] = IF q = r /\ k \notin failed THEN None ELSE sub[q][k]
  BY <1>1 DEF IInv, Typed, DestroyResource
<1>9. Typed'
  <2>1. refs' \in [Resources -> Nat] BY <1>6, <1>7 DEF IInv, Typed, DestroyResource, Unref
  <2>2. sub' \in [Resources -> [Kinds -> Containers \cup {None}]]
    <3>1. [k \in Kinds |-> IF k \in failed THEN sub[r][k] ELSE None]
            \in [Kinds -> Containers \cup {None}]
      BY <1>1 DEF IInv, Typed
    <3>2. sub' = [sub EXCEPT ![r] = [k \in Kinds |-> IF k \in failed THEN sub[r][k] ELSE None]]
      BY DEF DestroyResource
    <3>. QED BY <3>1, <3>2 DEF IInv, Typed
  <2>3. held' \subseteq Resources /\ incall' \in held' \cup {None}
    BY DEF IInv, Typed, DestroyResource
  <2>. QED BY <2>1, <2>2, <2>3 DEF IInv, Typed, DestroyResource
<1>10. RefCountExact'
  <2>1. ASSUME NEW q \in Resources
        PROVE  refs'[q] = (IF q \in held' THEN 1 ELSE 0) + Cardinality(Subscriptions(q)')
    <3>1. CASE q = r BY <1>5, <1>6, <1>7, <3>1 DEF DestroyResource
    <3>2. CASE q # r
      <4>1. refs'[q] = refs[q] /\ (q \in held' <=> q \in held) BY <1>7, <3>2 DEF DestroyResource
      <4>. QED BY <1>5, <4>1 DEF IInv, Linked, RefCountExact
    <3>. QED BY <3>1, <3>2
  <2>. QED BY <2>1 DEF RefCountExact
<1>11. Ids' BY <1>5, <1>8 DEF IInv, Linked, Ids, Types
<1>12. Caches'
  <2>1. cached' = cached BY DEF DestroyResource
  <2>2. Of("caching")' = Of("caching") BY <1>3 DEF Of
  <2>. QED BY <1>5, <2>1, <2>2 DEF IInv, Linked, Caches
<1>13. Unique'
  <2>1. faults' = faults BY DEF DestroyResource
  <2>. QED BY <1>3, <1>5, <2>1 DEF IInv, Linked, Unique, Subscriptions
<1>14. Stoppable'
  <2>0. faults' = faults /\ held' = held \ {r} BY DEF DestroyResource
  <2>. SUFFICES ASSUME "early_restart" \notin faults, NEW q \in Resources,
                      NEW c \in Subscriptions(q), box'[c].gdbus = "on"
               PROVE  /\ sub'[q][box'[c].type] = c
                      /\ faults = {} => q \in held'
    BY <1>5, <2>0 DEF Stoppable
  <2>1. /\ c \in Containers /\ box[c].type \in Kinds /\ box[c].res = q
        /\ box[c].gdbus = "on" /\ c \notin Ended(r, failed) /\ box'[c].type = box[c].type
    BY <1>3 DEF Subscriptions
  <2>2. sub[q][box[c].type] = c /\ (faults = {} => q \in held)
    BY <2>1 DEF IInv, Linked, Stoppable
  <2>3. Open BY <2>1, KindNames DEF IInv, Typed, Boxed, Shape, Open
  <2>4. q = r => box[c].type \in failed BY <2>1, <2>2 DEF Ended
  <2>. QED BY <1>1, <1>8, <2>0, <2>1, <2>2, <2>3, <2>4
<1>. QED BY <1>4, <1>9, <1>10, <1>11, <1>12, <1>13, <1>14 DEF IInv, Linked

LEMMA DestroyInv ==
  ASSUME IInv, NEW r \in Resources, Destroy(r)
  PROVE  IInv'
<1>1. PICK failed \in Failing : DestroyResource(r, failed) BY DEF Destroy
<1>2. r \in held /\ incall' = incall /\ incall # r BY DEF Destroy
<1>3. incall' \in (held \ {r}) \cup {None} BY <1>2 DEF IInv, Typed
<1>. QED BY <1>1, <1>2, <1>3, DestroyResourceInv

LEMMA FoundCbReturnsInv == IInv /\ FoundCbReturns => IInv'
<1>. SUFFICES ASSUME IInv, FoundCbReturns PROVE IInv'
  OBVIOUS
<1>1. PICK failed \in Failing : DestroyResource(incall, failed) BY DEF FoundCbReturns
<1>2. incall \in held /\ incall' = None BY DEF FoundCbReturns, Dispatching, IInv, Typed
<1>. QED BY <1>1, <1>2, DestroyResourceInv

LEMMA StartInv ==
  ASSUME IInv, NEW r \in Resources, NEW k \in Kinds, NEW c \in Containers, Start(r, k, c)
  PROVE  IInv'
<1> DEFINE b == Container(k, r, "on")
<1>1. box[c].type = "free" /\ r \in held /\ Open /\ sub[r][k] = None /\ box' = [box EXCEPT ![c] = b]
  BY DEF Start, FreeContainers
<1>2. /\ b \in Boxes /\ b.type = k /\ b.res = r /\ b.gdbus = "on" /\ b.told = {}
      /\ ~b.timer /\ ~b.owned
  BY NewBox, KindNames DEF Types, Lookups
<1>. HIDE DEF b
<1>3. UNCHANGED <<faults, count, held, cached, incall>> BY DEF Start
<1>4. Boxed'
  <2>1. Shape(b) BY <1>1, <1>2, KindNames DEF Shape, Open
  <2>. QED BY <1>1, <1>2, <1>3, <2>1, OneBox DEF IInv
<1>5. Typed'
  <2>1. refs' \in [Resources -> Nat] BY DEF IInv, Typed, Start, Ref
  <2>2. sub' \in [Resources -> [Kinds -> Containers \cup {None}]] BY DEF IInv, Typed, Start
  <2>. QED BY <1>3, <2>1, <2>2 DEF IInv, Typed
<1>6. \A d \in Containers : box'[d] = IF d = c THEN b ELSE box[d] BY <1>1 DEF IInv, Boxed
<1>7. /\ c \notin Subscriptions(r) /\ Subscriptions(r)' = Subscriptions(r) \cup {c}
      /\ \A q \in Resources \ {r} : Subscriptions(q)' = Subscriptions(q)
  BY <1>1, <1>2, <1>6, KindNames DEF Subscriptions
<1>8. RefCountExact'
  <2>1. Cardinality(Subscriptions(r)') = Cardinality(Subscriptions(r)) + 1
    BY <1>7, SubscriptionsFinite, FS_AddElement
  <2>2. refs'[r] = refs[r] + 1 /\ \A q \in Resources \ {r} : refs'[q] = refs[q]
    BY DEF IInv, Typed, Start, Ref
  <2>3. Cardinality(Subscriptions(r)) \in Nat BY SubscriptionsFinite
  <2>4. ASSUME NEW q \in Resources
        PROVE  refs'[q] = (IF q \in held' THEN 1 ELSE 0) + Cardinality(Subscriptions(q)')
    <3>1. refs[q] = (IF q \in held THEN 1 ELSE 0) + Cardinality(Subscriptions(q))
      BY DEF IInv, Linked, RefCountExact
    <3>2. CASE q = r BY <1>3, <2>1, <2>2, <2>3, <3>1, <3>2
    <3>3. CASE q # r BY <1>3, <1>7, <2>2, <3>1, <3>3
    <3>. QED BY <3>2, <3>3
  <2>. QED BY <2>4 DEF RefCountExact
<1>9. \A q \in Resources, j \in Kinds :
        sub'[q][j] = IF q = r /\ j = k THEN c ELSE sub[q][j]
  BY DEF IInv, Typed, Start
<1>10. Ids'
  <2>. SUFFICES ASSUME NEW q \in Resources, NEW j \in Kinds, sub'[q][j] # None
               PROVE  sub'[q][j] \in Subscriptions(q)' \cap Of(j)'
    BY DEF Ids
  <2>1. CASE q = r /\ j = k BY <1>2, <1>6, <1>7, <1>9, <2>1 DEF Of
  <2>2. CASE ~(q = r /\ j = k)
    <3>1. sub'[q][j] = sub[q][j] /\ sub[q][j] \in Subscriptions(q) \cap Of(j)
      BY <1>9, <2>2 DEF IInv, Linked, Ids
    <3>2. sub[q][j] # c BY <1>1, <3>1, KindNames DEF Of
    <3>. QED BY <1>6, <1>7, <3>1, <3>2 DEF Of, Subscriptions
  <2>. QED BY <2>1, <2>2
<1>11. Caches'
  <2>. SUFFICES ASSUME NEW q \in Resources, cached[q]
               PROVE  Subscriptions(q)' \cap Of("caching")' # {}
    BY <1>3 DEF Caches
  <2>1. PICK d \in Subscriptions(q) : d \in Of("caching") BY DEF IInv, Linked, Caches
  <2>2. d # c BY <1>1, <2>1 DEF Of
  <2>. QED BY <1>6, <2>1, <2>2 DEF Of, Subscriptions
<1>12. "early_restart" \notin faults =>
         \A d \in Subscriptions(r) : box[d].type # k
  BY DEF Start, NoEarlyRestart
<1>13. Unique'
  <2>. SUFFICES ASSUME "early_restart" \notin faults, NEW q \in Resources,
                      NEW d \in Subscriptions(q)', NEW e \in Subscriptions(q)',
                      box'[d].type = box'[e].type
               PROVE  d = e
    BY <1>3 DEF Unique
  <2>1. CASE d = c /\ e # c
    <3>1. q = r /\ e \in Subscriptions(r) /\ box[e].type = k
      BY <1>2, <1>6, <2>1 DEF Subscriptions
    <3>. QED BY <1>12, <3>1
  <2>2. CASE d # c /\ e = c
    <3>1. q = r /\ d \in Subscriptions(r) /\ box[d].type = k
      BY <1>2, <1>6, <2>2 DEF Subscriptions
    <3>. QED BY <1>12, <3>1
  <2>3. CASE d # c /\ e # c
    <3>1. /\ d \in Subscriptions(q) /\ e \in Subscriptions(q) /\ box[d].type = box[e].type
      BY <1>6, <2>3 DEF Subscriptions
    <3>. QED BY <3>1 DEF IInv, Linked, Unique
  <2>. QED BY <2>1, <2>2, <2>3
<1>14. Stoppable'
  <2>. SUFFICES ASSUME "early_restart" \notin faults, NEW q \in Resources,
                      NEW d \in Subscriptions(q)', box'[d].gdbus = "on"
               PROVE  /\ sub'[q][box'[d].type] = d
                      /\ faults = {} => q \in held
    BY <1>3 DEF Stoppable
  <2>1. CASE d = c
    <3>1. q = r /\ box'[d].type = k BY <1>2, <1>6, <2>1 DEF Subscriptions
    <3>. QED BY <1>1, <1>9, <2>1, <3>1
  <2>2. CASE d # c
    <3>1. /\ d \in Subscriptions(q) /\ box'[d] = box[d] /\ box[d].type \in Kinds
      BY <1>6, <2>2 DEF Subscriptions
    <3>2. sub[q][box[d].type] = d /\ (faults = {} => q \in held)
      BY <3>1 DEF IInv, Linked, Stoppable
    <3>3. ~(q = r /\ box[d].type = k) BY <1>12, <3>1
    <3>4. sub'[q][box[d].type] = sub[q][box[d].type] BY <1>9, <3>1, <3>3
    <3>. QED BY <3>1, <3>2, <3>4
  <2>. QED BY <2>1, <2>2
<1>. QED BY <1>4, <1>5, <1>8, <1>10, <1>11, <1>13, <1>14 DEF IInv, Linked

LEMMA StopInv ==
  ASSUME IInv, NEW r \in Resources, NEW k \in Kinds, Stop(r, k)
  PROVE  IInv'
<1> DEFINE c == sub[r][k]
<1>1. c \in Subscriptions(r) /\ c \in Of(k) /\ c \in Containers
  BY DEF Stop, IInv, Linked, Ids, Subscriptions
<1>2. /\ box' = [box EXCEPT ![c] = Unsubscribed(box[c])]
      /\ UNCHANGED <<faults, count, refs, held, cached, incall>>
  BY DEF Stop
<1>3. \A q \in Resources, j \in Kinds :
        sub'[q][j] = IF q = r /\ j = k THEN None ELSE sub[q][j]
  BY DEF IInv, Typed, Stop
<1>4. Typed'
  <2>1. sub' \in [Resources -> [Kinds -> Containers \cup {None}]] BY DEF IInv, Typed, Stop
  <2>. QED BY <1>2, <2>1 DEF IInv, Typed
<1>. HIDE DEF c
<1>5. /\ Unsubscribed(box[c]) \in Boxes /\ Shape(Unsubscribed(box[c]))
      /\ Unsubscribed(box[c]).type = box[c].type /\ Unsubscribed(box[c]).res = box[c].res
      /\ Unsubscribed(box[c]).gdbus # "on"
  BY <1>1, UnsubscribedShape, UnsubscribedBox DEF IInv, Boxed
<1>6. Boxed' BY <1>1, <1>2, <1>5, OneBox DEF IInv
<1>7. \A d \in Containers : /\ box'[d].type = box[d].type /\ box'[d].res = box[d].res
                            /\ box'[d].gdbus = "on" => box[d].gdbus = "on" /\ d # c
  BY <1>2, <1>5 DEF IInv, Boxed
<1>8. /\ \A q \in Resources : Subscriptions(q)' = Subscriptions(q)
      /\ \A j \in Kinds : Of(j)' = Of(j)
  BY <1>7 DEF Subscriptions, Of
<1>9. RefCountExact' BY <1>2, <1>8 DEF IInv, Linked, RefCountExact
<1>10. Ids' BY <1>3, <1>8 DEF IInv, Linked, Ids
<1>11. Caches'
  <2>1. Of("caching")' = Of("caching") BY <1>7 DEF Of
  <2>. QED BY <1>2, <1>8, <2>1 DEF IInv, Linked, Caches
<1>12. Unique' BY <1>2, <1>7, <1>8 DEF IInv, Linked, Unique, Subscriptions
<1>13. Stoppable'
  <2>. SUFFICES ASSUME "early_restart" \notin faults, NEW q \in Resources,
                      NEW d \in Subscriptions(q), box'[d].gdbus = "on"
               PROVE  /\ sub'[q][box'[d].type] = d
                      /\ faults = {} => q \in held
    BY <1>2, <1>8 DEF Stoppable
  <2>1. d \in Containers /\ box[d].type \in Kinds /\ box[d].gdbus = "on" /\ d # c
        /\ box'[d].type = box[d].type
    BY <1>7 DEF Subscriptions
  <2>2. sub[q][box[d].type] = d /\ (faults = {} => q \in held)
    BY <2>1 DEF IInv, Linked, Stoppable
  <2>3. ~(q = r /\ box[d].type = k) BY <2>1, <2>2 DEF c
  <2>4. sub'[q][box[d].type] = sub[q][box[d].type] BY <1>3, <2>1, <2>3
  <2>. QED BY <2>1, <2>2, <2>4
<1>. QED BY <1>4, <1>6, <1>9, <1>10, <1>11, <1>12, <1>13 DEF IInv, Linked

\* The destroy notify gives the reference back; without an early restart it is
\* its own id that it clears.
LEMMA ConnCleanupInv ==
  ASSUME IInv, NEW c \in Containers, ConnCleanup(c)
  PROVE  IInv'
<1> DEFINE d == [box[c] EXCEPT !.gdbus = "done"]
           f == Freed(d)
<1>1. /\ box[c] \in Boxes /\ Shape(box[c]) /\ box[c].type \in Kinds /\ box[c].gdbus = "off"
      /\ box[c].res \in Resources
  BY DEF IInv, Boxed, ConnCleanup, Shape
<1>2. PICK r \in Resources, k \in Kinds : box[c].res = r /\ box[c].type = k
  BY <1>1
<1>3. c \in Subscriptions(r) BY <1>2 DEF Subscriptions
<1>4. /\ box' = [box EXCEPT ![c] = f] /\ sub' = [sub EXCEPT ![r][k] = None] /\ Unref(r)
      /\ cached' = IF k = "caching" THEN [cached EXCEPT ![r] = FALSE] ELSE cached
      /\ UNCHANGED <<faults, count, held, incall>>
  BY <1>2 DEF ConnCleanup
<1>5. /\ f \in Boxes /\ f.type = "free" /\ f.told = {} /\ f.gdbus = "done"
      /\ ~f.timer /\ ~f.owned
  <2>1. d \in Boxes /\ d.gdbus = "done" /\ ~d.timer /\ ~d.owned
    BY <1>1, KindNames DEF Boxes, Shape, Lookups
  <2>. HIDE DEF d
  <2>. QED BY <2>1, FreedBox
<1>. HIDE DEF d, f
<1>6. Boxed'
  <2>1. Shape(f) BY <1>5, KindNames DEF Shape
  <2>. QED BY <1>4, <1>5, <2>1, OneBox DEF IInv
<1>7. \A e \in Containers : box'[e] = IF e = c THEN f ELSE box[e] BY <1>4 DEF IInv, Boxed
<1>8. /\ Subscriptions(r)' = Subscriptions(r) \ {c}
      /\ \A q \in Resources \ {r} : Subscriptions(q)' = Subscriptions(q)
  BY <1>2, <1>5, <1>7, KindNames DEF Subscriptions
<1>9. /\ Cardinality(Subscriptions(r)) \in Nat /\ Cardinality(Subscriptions(r)') \in Nat
      /\ Cardinality(Subscriptions(r)') = Cardinality(Subscriptions(r)) - 1
  <2>1. IsFiniteSet(Subscriptions(r)) /\ Cardinality(Subscriptions(r)) \in Nat
    BY <1>2, SubscriptionsFinite
  <2>2. /\ IsFiniteSet(Subscriptions(r) \ {c})
        /\ Cardinality(Subscriptions(r) \ {c}) = Cardinality(Subscriptions(r)) - 1
    BY <1>3, <2>1, FS_RemoveElement
  <2>. QED BY <1>8, <2>1, <2>2, FS_CardinalityType
<1>10. /\ refs'[r] = refs[r] - 1 /\ \A q \in Resources \ {r} : refs'[q] = refs[q]
       /\ refs[r] \in Nat /\ refs[r] = (IF r \in held THEN 1 ELSE 0) + Cardinality(Subscriptions(r))
  BY <1>2, <1>4 DEF IInv, Typed, Linked, RefCountExact, Unref
<1>11. \A q \in Resources, j \in Kinds :
         sub'[q][j] = IF q = r /\ j = k THEN None ELSE sub[q][j]
  BY <1>4 DEF IInv, Typed
<1>12. Typed'
  <2>1. refs'[r] \in Nat BY <1>9, <1>10
  <2>2. refs' \in [Resources -> Nat] BY <1>4, <1>10, <2>1 DEF IInv, Typed, Unref
  <2>3. sub' \in [Resources -> [Kinds -> Containers \cup {None}]] BY <1>4 DEF IInv, Typed
  <2>4. cached' \in [Resources -> BOOLEAN] BY <1>4 DEF IInv, Typed
  <2>. QED BY <1>4, <2>2, <2>3, <2>4 DEF IInv, Typed
<1>13. RefCountExact'
  <2>1. ASSUME NEW q \in Resources
        PROVE  refs'[q] = (IF q \in held' THEN 1 ELSE 0) + Cardinality(Subscriptions(q)')
    <3>1. CASE q = r BY <1>4, <1>9, <1>10, <3>1
    <3>2. CASE q # r
      <4>1. refs'[q] = refs[q] /\ Subscriptions(q)' = Subscriptions(q) BY <1>8, <1>10, <3>2
      <4>. QED BY <1>4, <4>1 DEF IInv, Linked, RefCountExact
    <3>. QED BY <3>1, <3>2
  <2>. QED BY <2>1 DEF RefCountExact
<1>14. Ids'
  <2>. SUFFICES ASSUME NEW q \in Resources, NEW j \in Kinds, sub'[q][j] # None
               PROVE  sub'[q][j] \in Subscriptions(q)' \cap Of(j)'
    BY DEF Ids
  <2>1. ~(q = r /\ j = k) /\ sub'[q][j] = sub[q][j] BY <1>11
  <2>2. sub[q][j] \in Subscriptions(q) /\ sub[q][j] \in Of(j) BY <2>1 DEF IInv, Linked, Ids
  <2>3. sub[q][j] # c BY <1>2, <2>1, <2>2 DEF Subscriptions, Of
  <2>. QED BY <1>7, <2>1, <2>2, <2>3 DEF Subscriptions, Of
<1>15. Caches'
  <2>. SUFFICES ASSUME NEW q \in Resources, cached'[q]
               PROVE  Subscriptions(q)' \cap Of("caching")' # {}
    BY DEF Caches
  <2>1. cached[q] /\ ~(q = r /\ k = "caching") BY <1>4 DEF IInv, Typed
  <2>2. PICK e \in Subscriptions(q) : e \in Of("caching") BY <2>1 DEF IInv, Linked, Caches
  <2>3. e # c BY <1>2, <2>1, <2>2 DEF Subscriptions, Of
  <2>. QED BY <1>7, <2>2, <2>3 DEF Subscriptions, Of
<1>16. \A q \in Resources : \A e \in Subscriptions(q)' :
         e # c /\ e \in Subscriptions(q) /\ box'[e] = box[e] /\ box[e].type \in Kinds
  BY <1>5, <1>7, KindNames DEF Subscriptions
<1>17. Unique' BY <1>4, <1>16 DEF IInv, Linked, Unique
<1>18. Stoppable'
  <2>. SUFFICES ASSUME "early_restart" \notin faults, NEW q \in Resources,
                      NEW e \in Subscriptions(q)', box'[e].gdbus = "on"
               PROVE  /\ sub'[q][box'[e].type] = e
                      /\ faults = {} => q \in held
    BY <1>4 DEF Stoppable
  <2>1. e # c /\ e \in Subscriptions(q) /\ box'[e] = box[e] /\ box[e].type \in Kinds BY <1>16
  <2>2. sub[q][box[e].type] = e /\ (faults = {} => q \in held)
    BY <2>1 DEF IInv, Linked, Stoppable
  <2>3. ~(q = r /\ box[e].type = k)
    BY <1>2, <1>3, <2>1 DEF IInv, Linked, Unique
  <2>4. sub'[q][box[e].type] = sub[q][box[e].type] BY <1>11, <2>1, <2>3
  <2>. QED BY <2>1, <2>2, <2>4
<1>. QED BY <1>6, <1>12, <1>13, <1>14, <1>15, <1>17, <1>18 DEF IInv, Linked

-----------------------------------------------------------------------------
LEMMA NextInv == IInv /\ [Next]_vars => IInv'
<1>. SUFFICES ASSUME IInv, [Next]_vars PROVE IInv'
  OBVIOUS
<1>1. CASE UNCHANGED vars
  <2>1. Typed' BY <1>1 DEF vars, IInv, Typed
  <2>2. Boxed' BY <1>1 DEF vars, IInv, Boxed, Shape
  <2>3. SameLinks BY <1>1 DEF vars, SameLinks
  <2>. QED BY <2>1, <2>2, <2>3, LinksKept DEF IInv
<1>2. CASE Connect BY <1>2, ConnectInv
<1>3. CASE Disconnect BY <1>3, DisconnectInv
<1>4. CASE NameOwnerNotify BY <1>4, NameOwnerNotifyInv
<1>5. CASE FoundCbReturns BY <1>5, FoundCbReturnsInv
<1>6. CASE \E r \in Resources : Create(r) \/ Destroy(r) BY <1>6, CreateInv, DestroyInv
<1>7. CASE \E r \in Resources, k \in Kinds : Stop(r, k) \/ \E c \in Containers : Start(r, k, c)
  BY <1>7, StopInv, StartInv
<1>8. CASE \E r \in Resources, c \in Containers : Crud(r, c) \/ FoundCb(c, r)
  BY <1>8, NewOthersInv, FoundCbInv
<1>9. ASSUME NEW c \in Containers,
             \/ AddConnectionChangedCb(c) \/ RemoveConnectionChangedCb(c)
             \/ ConnCleanup(c) \/ CachingCb(c) \/ OnCrudCb(c)
             \/ InfoCb(c) \/ LookupTimeout(c) \/ LookupCleanup(c)
             \/ AddPresenceCb(c) \/ RemovePresenceCb(c) \/ PresenceCleanup(c)
             \/ \E type \in Lookups : Lookup(type, c)
      PROVE  IInv'
  BY <1>9, NewOthersInv, RemoveConnectionChangedCbInv, ConnCleanupInv, CachingCbInv,
     OnCrudCbInv, InfoCbInv, LookupTimeoutInv, LookupCleanupInv, RemovePresenceCbInv,
     PresenceCleanupInv
<1>. QED BY <1>1, <1>2, <1>3, <1>4, <1>5, <1>6, <1>7, <1>8, <1>9 DEF Next

\* The invariant of the module's head, of which all that follows is a part.
THEOREM Invariant == Spec => []IInv
BY InitInv, NextInv, PTL DEF Spec

\* Every variable keeps its type, whatever the program does and when.
THEOREM TypeCorrect == Spec => []TypeOK
<1>1. IInv => TypeOK BY DEF IInv, Typed, Boxed, TypeOK, Boxes
<1>. QED BY <1>1, Invariant, PTL

\* ref_count is always the number of those who will give a reference back, so
\* a resource is freed exactly when the last of them has: never early, under a
\* destroy notify that is still to come.
THEOREM Counted == Spec => []RefCountExact
<1>1. IInv => RefCountExact BY DEF IInv, Linked
<1>. QED BY <1>1, Invariant, PTL

\* Nobody is left with the address of a freed container or resource.
THEOREM NoneDangle == Spec => []NothingDangles
<1>1. IInv => NothingDangles
  <2>. SUFFICES ASSUME IInv PROVE NothingDangles
    OBVIOUS
  <2>1. ASSUME NEW c \in FreeContainers
        PROVE  /\ ~box[c].timer /\ ~box[c].owned
               /\ "calls_at_disconnect" \notin faults => box[c].gdbus = "done"
    BY KindNames DEF IInv, Boxed, Shape, FreeContainers
  <2>2. \A c \in Of("crud") : box[c].cb => box[c].res \in held
    BY DEF IInv, Boxed, Shape, Of
  <2>. QED BY <2>1, <2>2 DEF IInv, Linked, Ids, Caches, NothingDangles
<1>. QED BY <1>1, Invariant, PTL

\* Whatever is still called back for a resource can be stopped, and is when
\* the resource is destroyed, if no subscription is made anew before the
\* destroy notify of the old one.
THEOREM AllStoppable == Spec => []Stoppable
<1>1. IInv => Stoppable BY DEF IInv, Linked
<1>. QED BY <1>1, Invariant, PTL

\* No search is told both that something was found and that nothing was.
THEOREM NotToldTwice == Spec => []ToldOnce
<1>1. IInv => ToldOnce BY DEF IInv, Boxed, Shape, ToldOnce
<1>. QED BY <1>1, Invariant, PTL
=============================================================================
