------------------------ MODULE IcdResource_proofs ------------------------
(***************************************************************************)
(* Theorems about IcdResource, for every set of applications, resources,   *)
(* handles and requests, every combination of conditions and every bound:  *)
(*   Kept          Spec => []NoOrphans                                     *)
(*   Alive         Spec => []ListsAlive                                    *)
(*   Owned         Spec => []HandlesOwn                                    *)
(*   InStep        Spec => []Paired                                        *)
(*   Answered      Spec => []AnsweredOnce                                  *)
(*   ChildrenAgree Spec => []ChildrenBound                                 *)
(*   Noticed       Spec => []ObserversKnown                                *)
(*   Reached       Spec => []NotifiesAll                                   *)
(* The first three follow from IInv; JInv, Single, Unlost, Bound and OInv  *)
(* are proved on top of it, in this order.                                 *)
(***************************************************************************)
EXTENDS IcdResource, FiniteSetTheorems, TLAPS

\* The types of what the theorems speak of, and of the requests under way,
\* which change the observers of an object.
Shape ==
  /\ conditions \in Conditions
  /\ oic \in [Handles -> Resources \cup {Null}]
  /\ entries \subseteq Entries /\ dying \subseteq Entries
  /\ number \in Nat
  /\ lib \in [Rsrcs -> Objects]
  /\ calls \in Seq(Calls)

\* A resource is in the list of its own client, not just in any.
Listed ==
  \A h \in Handles :
    oic[h] # Null => \/ Refused(oic[h].client)
                     \/ \E e \in entries \cup dying :
                          e.handle = h /\ e.client = oic[h].client

\* A handle of an object may be a dead one only where it cannot come to life
\* again; and no two objects hold the same.
Held ==
  Unambiguous =>
    /\ \A r \in Rsrcs :
         lib[r].handle \in Handles =>
           \/ oic[lib[r].handle] = Null /\ "reuse" \notin conditions
           \/ /\ oic[lib[r].handle] # Null
              /\ oic[lib[r].handle].client = lib[r].client
              /\ oic[lib[r].handle].number = lib[r].number
    /\ \A r, s \in Rsrcs :
         lib[r].handle \in Handles /\ lib[r].handle = lib[s].handle => r = s

\* A client that is being cleaned up has no objects, and its entries are in
\* no list any more.
Gone ==
  /\ entries \cap dying = {}
  /\ \A e \in dying, r \in Rsrcs : lib[r].client # e.client

IInv == Shape /\ Listed /\ ListsAlive /\ Held /\ Gone

LEMMA NullIsNoClient == Null \notin Clients /\ Null \notin Handles /\ Refusal \notin Handles
  BY NullAssumption

LEMMA NoObjectType == NoObject \in Objects
  BY DEF NoObject, Objects

LEMMA InitIInv == Init => IInv
<1> SUFFICES ASSUME Init PROVE IInv
  OBVIOUS
<1>1. Shape
  BY NoObjectType DEF Init, Shape
<1>2. Listed /\ ListsAlive /\ Gone
  BY DEF Init, Listed, ListsAlive, Gone
<1>3. Held
  BY NullIsNoClient DEF Init, Held, NoObject
<1>. QED
  BY <1>1, <1>2, <1>3 DEF IInv

\* A step that leaves the lists, and of every resource its owner, alone; an
\* object at most goes, or forgets its handle.
Harmless ==
  /\ conditions' = conditions /\ entries' = entries /\ dying' = dying
  /\ \A h \in Handles :
       /\ oic'[h] = Null <=> oic[h] = Null
       /\ oic[h] # Null => /\ oic'[h].client = oic[h].client
                           /\ oic'[h].number = oic[h].number
  /\ \A r \in Rsrcs :
       /\ lib'[r].client \in {lib[r].client, Null}
       /\ \/ lib'[r].handle \notin Handles
          \/ /\ lib'[r].client = lib[r].client /\ lib'[r].handle = lib[r].handle
             /\ lib'[r].number = lib[r].number

LEMMA HarmlessStep ==
  ASSUME IInv, Shape', Harmless
  PROVE  IInv'
<1>1. Listed'
  <2>1. \A c : Refused(c)' <=> Refused(c)
    BY DEF Harmless, Refused
  <2>. QED
    BY <2>1 DEF IInv, Listed, Harmless
<1>2. Unambiguous' <=> Unambiguous
  BY DEF Harmless, Unambiguous
<1>3. ListsAlive'
  <2>1. \A e \in entries \cup dying : e.handle \in Handles
    BY DEF IInv, Shape, Entries
  <2>. QED
    BY <1>2, <2>1 DEF IInv, ListsAlive, Harmless
<1>4. Held'
  BY <1>2 DEF IInv, Held, Harmless
<1>5. Gone'
  <2>1. \A e \in dying : e.client \in Clients
    BY DEF IInv, Shape, Entries
  <2>. QED
    BY <2>1, NullIsNoClient DEF IInv, Gone, Harmless
<1>. QED
  BY <1>1, <1>3, <1>4, <1>5 DEF IInv

LEMMA ReleasedType ==
  ASSUME NEW o \in Objects
  PROVE  /\ Released(o) \in Objects
         /\ Released(o).handle = Null /\ Released(o).client = o.client
  BY DEF Released, Objects

LEMMA ConnCleanupIInv ==
  ASSUME IInv, NEW r \in Rsrcs, ConnCleanup(r)
  PROVE  IInv'
<1>1. /\ conditions' = conditions /\ oic' = oic /\ entries' = entries /\ dying' = dying
      /\ number' = number /\ calls' = calls
  BY DEF ConnCleanup, daemon, requests
<1>2. PICK o \in Objects : /\ o.handle = Null /\ o.client \in {lib[r].client, Null}
                           /\ lib' = [lib EXCEPT ![r] = o]
  <2>1. lib[r] \in Objects
    BY DEF IInv, Shape
  <2>2. CASE lib[r].handle = Null
    BY <2>2, NoObjectType DEF ConnCleanup, NoObject
  <2>3. CASE lib[r].handle # Null
    <3> DEFINE o == [lib[r] EXCEPT !.handle = Null, !.state = "lost"]
    <3>1. o \in Objects /\ o.handle = Null /\ o.client = lib[r].client
      BY <2>1 DEF Objects
    <3>2. lib' = [lib EXCEPT ![r] = o]
      BY <2>3 DEF ConnCleanup
    <3>. QED
      BY <2>1, <3>1, <3>2
  <2>. QED
    BY <2>2, <2>3
<1>3. Shape'
  BY <1>1, <1>2 DEF IInv, Shape
<1>4. Harmless
  BY <1>1, <1>2, NullIsNoClient DEF IInv, Shape, Harmless
<1>. QED
  BY <1>3, <1>4, HarmlessStep

LEMMA SubscribeIInv ==
  ASSUME IInv, NEW r \in Rsrcs, Subscribe(r)
  PROVE  IInv'
<1>1. /\ conditions' = conditions /\ oic' = oic /\ entries' = entries /\ dying' = dying
      /\ number' = number /\ calls' = calls
  BY DEF Subscribe, daemon, requests
<1>2. CASE lib' = [lib EXCEPT ![r].state = "live"]
  <2>1. Shape'
    BY <1>1, <1>2 DEF IInv, Shape, Objects
  <2>2. Harmless
    BY <1>1, <1>2 DEF IInv, Shape, Objects, Harmless
  <2>. QED
    BY <2>1, <2>2, HarmlessStep
<1>3. CASE lib' = [lib EXCEPT ![r] = NoObject]
  <2>1. Shape'
    BY <1>1, <1>3, NoObjectType DEF IInv, Shape
  <2>2. Harmless
    BY <1>1, <1>3, NullIsNoClient DEF IInv, Shape, NoObject, Harmless
  <2>. QED
    BY <2>1, <2>2, HarmlessStep
<1>. QED
  BY <1>2, <1>3 DEF Subscribe

\* What icl_dbus_stop and the loss of the daemon do to an application.
LEMMA UnsubscribedIInv ==
  ASSUME IInv, NEW c \in Clients, lib' = Unsubscribed(c),
         UNCHANGED <<conditions, oic, daemon, requests>>
  PROVE  IInv'
<1>1. /\ conditions' = conditions /\ oic' = oic /\ entries' = entries /\ dying' = dying
      /\ number' = number /\ calls' = calls
  BY DEF daemon, requests
<1>2. \A r \in Rsrcs : /\ lib'[r] \in Objects
                       /\ lib'[r].client = lib[r].client /\ lib'[r].handle = lib[r].handle
                       /\ lib'[r].number = lib[r].number
  BY DEF Unsubscribed, IInv, Shape, Objects
<1>3. Shape'
  BY <1>1, <1>2 DEF IInv, Shape, Unsubscribed
<1>4. Harmless
  BY <1>1, <1>2 DEF Harmless
<1>. QED
  BY <1>3, <1>4, HarmlessStep

LEMMA OwnerKept ==
  ASSUME NEW o \in Resources
  PROVE  /\ \A s \in SUBSET Handles :
              LET n == [o EXCEPT !.children = s]
              IN  n \in Resources /\ n.client = o.client /\ n.number = o.number
         /\ \A s \in SUBSET Observers :
              LET n == [o EXCEPT !.observers = s]
              IN  n \in Resources /\ n.client = o.client /\ n.number = o.number
  BY DEF Resources

\* A resource that changes keeps its owner; the others stay as they are.
LEMMA ChangedResource ==
  ASSUME IInv, NEW k \in Handles, NEW n \in Resources, oic[k] \in Resources,
         n.client = oic[k].client, n.number = oic[k].number,
         oic' = [oic EXCEPT ![k] = n]
  PROVE  \A h \in Handles :
           /\ oic'[h] = Null <=> oic[h] = Null
           /\ oic[h] # Null => /\ oic'[h].client = oic[h].client
                               /\ oic'[h].number = oic[h].number
<1> SUFFICES ASSUME NEW h \in Handles
             PROVE  /\ oic'[h] = Null <=> oic[h] = Null
                    /\ oic[h] # Null => /\ oic'[h].client = oic[h].client
                                        /\ oic'[h].number = oic[h].number
  OBVIOUS
<1>1. CASE h = k
  BY <1>1, ResourcesAssumption DEF IInv, Shape
<1>2. CASE h # k
  BY <1>2 DEF IInv, Shape
<1>. QED
  BY <1>1, <1>2

LEMMA BindingIInv ==
  ASSUME IInv, NEW p \in Rsrcs, NEW r \in Rsrcs, BindChild(p, r) \/ UnbindChild(p, r)
  PROVE  IInv'
<1>1. /\ conditions' = conditions /\ entries' = entries /\ dying' = dying
      /\ number' = number /\ calls' = calls
  BY DEF BindChild, UnbindChild, daemon, requests
<1>2. /\ lib[p].handle \in Handles
      /\ oic[lib[p].handle] \in Resources /\ oic[lib[p].handle].children \subseteq Handles
      /\ \A q \in Rsrcs : lib[q] \in Objects
  <2>1. lib[p].handle \in Handles /\ oic[lib[p].handle] # Null
    BY DEF BindChild, UnbindChild, Known
  <2>2. oic[lib[p].handle] \in Resources
    BY <2>1 DEF IInv, Shape
  <2>. QED
    BY <2>1, <2>2 DEF IInv, Shape, Resources
<1>3. PICK s \in SUBSET Rsrcs : lib' \in {lib, [lib EXCEPT ![p].children = s]}
  <2>1. lib[p].children \subseteq Rsrcs
    BY <1>2 DEF Objects
  <2>2. CASE BindChild(p, r)
    <3>1. lib' \in {lib, [lib EXCEPT ![p].children = lib[p].children \cup {r}]}
      BY <2>2 DEF BindChild, IInv, Shape
    <3>. QED
      BY <2>1, <3>1
  <2>3. CASE UnbindChild(p, r)
    <3>1. lib' \in {lib, [lib EXCEPT ![p].children = lib[p].children \ {r}]}
      BY <2>3 DEF UnbindChild, Emptied, IInv, Shape
    <3>. QED
      BY <2>1, <3>1
  <2>. QED
    BY <2>2, <2>3
<1>4. \A q \in Rsrcs : /\ lib'[q] \in Objects
                       /\ lib'[q].client = lib[q].client /\ lib'[q].handle = lib[q].handle
                       /\ lib'[q].number = lib[q].number
  <2>1. CASE lib' = lib
    BY <1>2, <2>1
  <2>2. CASE lib' = [lib EXCEPT ![p].children = s]
    BY <1>2, <2>2 DEF IInv, Shape, Objects
  <2>. QED
    BY <1>3, <2>1, <2>2
<1>5. PICK t \in SUBSET Handles : oic' = [oic EXCEPT ![lib[p].handle].children = t]
  <2>1. CASE BindChild(p, r)
    <3>1. /\ oic' = [oic EXCEPT ![lib[p].handle].children =
                                   oic[lib[p].handle].children \cup {lib[r].handle}]
          /\ lib[p].handle \in Handles /\ lib[r].handle \in Handles
      BY <2>1 DEF BindChild, Known, IInv, Shape
    <3>. QED
      BY <1>2, <3>1
  <2>2. CASE UnbindChild(p, r)
    <3>1. oic' = [oic EXCEPT ![lib[p].handle].children =
                               oic[lib[p].handle].children \ {lib[r].handle}]
      BY <2>2 DEF UnbindChild
    <3>. QED
      BY <1>2, <3>1
  <2>. QED
    BY <2>1, <2>2
<1>6. Shape'
  <2>1. oic' \in [Handles -> Resources \cup {Null}]
    BY <1>2, <1>5, OwnerKept DEF IInv, Shape
  <2>2. lib' \in [Rsrcs -> Objects]
    BY <1>3, <1>4 DEF IInv, Shape
  <2>. QED
    BY <1>1, <2>1, <2>2 DEF IInv, Shape
<1>7. Harmless
  <2>1. \A h \in Handles :
          /\ oic'[h] = Null <=> oic[h] = Null
          /\ oic[h] # Null => /\ oic'[h].client = oic[h].client
                              /\ oic'[h].number = oic[h].number
    BY <1>2, <1>5, OwnerKept, ChangedResource
  <2>. QED
    BY <1>1, <1>4, <2>1 DEF Harmless
<1>. QED
  BY <1>6, <1>7, HarmlessStep

LEMMA RequestIInv ==
  ASSUME IInv, NEW h \in Handles, NEW q \in Reqs, NEW a \in Changes, Request(h, q, a)
  PROVE  IInv'
<1>1. /\ conditions' = conditions /\ entries' = entries /\ dying' = dying
      /\ number' = number /\ lib' = lib
  BY DEF Request, daemon
<1>2. oic[h] \in Resources /\ oic[h].observers \subseteq Observers
  BY DEF Request, Known, IInv, Shape, Resources
<1>3. Observing(oic[h].observers, a) \subseteq Observers
  BY <1>2 DEF Observing, Changes, NoChange
<1>4. PICK n \in Resources : /\ n.client = oic[h].client /\ n.number = oic[h].number
                             /\ oic' = [oic EXCEPT ![h] = n]
  <2>1. oic' = [oic EXCEPT ![h].observers = Observing(oic[h].observers, a)]
    BY DEF Request
  <2>. QED
    BY <1>2, <1>3, <2>1, OwnerKept
<1>5. calls' \in Seq(Calls)
  <2>1. CASE calls' = calls
    BY <2>1 DEF IInv, Shape
  <2>2. ASSUME NEW e \in entries,
               calls' = Append(calls, [client |-> e.client, number |-> e.number, req |-> q,
                                       handle |-> h, observe |-> a])
        PROVE  calls' \in Seq(Calls)
    <3>1. e \in Entries
      BY DEF IInv, Shape
    <3>2. [client |-> e.client, number |-> e.number, req |-> q, handle |-> h, observe |-> a]
            \in Calls
      BY <3>1 DEF Entries, Calls
    <3>. QED
      BY <2>2, <3>2 DEF IInv, Shape
  <2>. QED
    BY <2>1, <2>2 DEF Request
<1>6. Shape'
  BY <1>1, <1>4, <1>5 DEF IInv, Shape
<1>7. Harmless
  BY <1>1, <1>2, <1>4, ChangedResource DEF Harmless
<1>. QED
  BY <1>6, <1>7, HarmlessStep

LEMMA ObservedType ==
  ASSUME NEW f \in [Observers -> Nat], NEW a \in Changes
  PROVE  Observed(f, a) \in [Observers -> Nat]
<1>1. CASE a = NoChange
  BY <1>1 DEF Observed, NoChange
<1>2. CASE a.type = "register" /\ a.id \in Observers
  BY <1>2 DEF Observed
<1>3. CASE a.type = "deregister" /\ a.id \in Observers
  BY <1>3 DEF Observed
<1>. QED
  BY <1>1, <1>2, <1>3 DEF Changes

LEMMA RemoveAtType ==
  ASSUME NEW S, NEW s \in Seq(S), NEW i \in DOMAIN s
  PROVE  RemoveAt(s, i) \in Seq(S)
<1>1. SubSeq(s, 1, i - 1) \in Seq(S) /\ SubSeq(s, i + 1, Len(s)) \in Seq(S)
  OBVIOUS
<1>. QED
  BY <1>1 DEF RemoveAt

LEMMA DeliverIInv ==
  ASSUME IInv, NEW i \in DOMAIN calls, Deliver(i)
  PROVE  IInv'
<1>1. /\ conditions' = conditions /\ oic' = oic /\ entries' = entries /\ dying' = dying
      /\ number' = number
  BY DEF Deliver, daemon
<1>2. calls' \in Seq(Calls)
  BY RemoveAtType DEF Deliver, IInv, Shape
<1>3. calls[i].observe \in Changes
  <2>1. calls[i] \in Calls
    BY DEF IInv, Shape
  <2>. QED
    BY <2>1 DEF Calls
<1>4. PICK plain \in SUBSET Rsrcs :
        lib' = [r \in Rsrcs |->
                  IF r \in plain
                  THEN [lib[r] EXCEPT !.observers = Observed(lib[r].observers, calls[i].observe)]
                  ELSE lib[r]]
  BY DEF Deliver, Listening, ObjectsOf
<1>5. ASSUME NEW r \in Rsrcs
      PROVE  /\ lib'[r] \in Objects
             /\ lib'[r].client = lib[r].client /\ lib'[r].handle = lib[r].handle
             /\ lib'[r].number = lib[r].number
  <2>1. lib[r] \in Objects /\ lib[r].observers \in [Observers -> Nat]
    BY DEF IInv, Shape, Objects
  <2>2. Observed(lib[r].observers, calls[i].observe) \in [Observers -> Nat]
    BY <1>3, <2>1, ObservedType
  <2>. QED
    BY <1>4, <2>1, <2>2 DEF Objects
<1>6. Shape'
  <2>1. lib' \in [Rsrcs -> Objects]
    BY <1>4, <1>5
  <2>. QED
    BY <1>1, <1>2, <2>1 DEF IInv, Shape
<1>7. Harmless
  BY <1>1, <1>5 DEF Harmless
<1>. QED
  BY <1>6, <1>7, HarmlessStep

LEMMA Deleted ==
  ASSUME IInv, NEW k, OCDeleteResource(k)
  PROVE  /\ oic' \in [Handles -> Resources \cup {Null}]
         /\ \A h \in Handles : oic'[h] = IF h = k THEN Null ELSE oic[h]
  BY DEF IInv, Shape, OCDeleteResource, Known

\* The daemon's part of a destroy.
LEMMA UnregisterKeeps ==
  ASSUME IInv, NEW r \in Rsrcs, dying = {}, UNCHANGED <<conditions, dying>>,
         Unregister(lib[r].client, lib[r].handle)
  PROVE  Listed' /\ ListsAlive' /\ Gone'
<1> DEFINE c == lib[r].client
           h == lib[r].handle
<1>1. entries' = {e \in entries : ~(e.client = c /\ e.handle = h)}
  BY DEF Unregister
<1>2. \A d : Refused(d)' <=> Refused(d)
  BY DEF Refused
<1>3. Unambiguous' <=> Unambiguous
  BY DEF Unambiguous
<1>4. CASE Refused(c)
  <2>1. oic' = oic
    BY <1>4 DEF Unregister
  <2>2. Listed'
    BY <1>1, <1>2, <1>4, <2>1 DEF IInv, Listed
  <2>3. ListsAlive'
    BY <1>1, <1>3, <2>1 DEF IInv, ListsAlive
  <2>. QED
    BY <2>2, <2>3 DEF Gone
<1>5. CASE ~Refused(c)
  <2>1. \A k \in Handles : oic'[k] = IF k = h THEN Null ELSE oic[k]
    BY <1>5, Deleted DEF Unregister
  <2>2. Listed'
    BY <1>1, <1>2, <2>1 DEF IInv, Listed
  <2>3. ASSUME Unambiguous, NEW e \in entries'
        PROVE  e.handle # h /\ e.handle \in Handles /\ e \in entries
    <3>1. e \in entries /\ e.handle \in Handles
      BY <1>1 DEF IInv, Shape, Entries
    <3>2. /\ oic[e.handle] # Null
          /\ oic[e.handle].client = e.client
      BY <2>3, <3>1 DEF IInv, ListsAlive
    <3>3. h \in Handles /\ oic[h] # Null => oic[h].client = c
      BY <2>3 DEF IInv, Held
    <3>. QED
      BY <1>1, <3>1, <3>2, <3>3
  <2>4. ListsAlive'
    <3>1. CASE Unambiguous
      BY <1>1, <1>3, <2>1, <2>3, <3>1 DEF IInv, ListsAlive
    <3>2. CASE ~Unambiguous
      BY <1>3, <3>2 DEF ListsAlive
    <3>. QED
      BY <3>1, <3>2
  <2>. QED
    BY <2>2, <2>4 DEF Gone
<1>. QED
  BY <1>4, <1>5

LEMMA DestroyIInv ==
  ASSUME IInv, NEW r \in Rsrcs, Destroy(r)
  PROVE  IInv'
<1>1. /\ conditions' = conditions /\ dying' = dying /\ number' = number /\ calls' = calls
  BY DEF Destroy, requests
<1>2. lib[r] \in Objects
  BY DEF IInv, Shape
<1>3. CASE lib' = [lib EXCEPT ![r] = NoObject] /\ oic' = oic /\ entries' = entries
  <2>1. Shape'
    BY <1>1, <1>3, NoObjectType DEF IInv, Shape
  <2>2. Harmless
    BY <1>1, <1>3, NullIsNoClient DEF IInv, Shape, NoObject, Harmless
  <2>. QED
    BY <2>1, <2>2, HarmlessStep
<1>4. ASSUME Ready(lib[r].client), Unregister(lib[r].client, lib[r].handle),
             NEW arrives \in Arrivals,
             lib' = IF arrives THEN [lib EXCEPT ![r] = Released(lib[r])] ELSE lib
      PROVE  IInv'
  <2>1. dying = {}
    BY <1>4 DEF Ready, Cleaning
  <2>2. Listed' /\ ListsAlive' /\ Gone'
    BY <1>1, <1>4, <2>1, UnregisterKeeps
  <2>3. /\ oic' \in [Handles -> Resources \cup {Null}]
        /\ \A h \in Handles : oic'[h] \in {IF h = lib[r].handle THEN Null ELSE oic[h], oic[h]}
    BY <1>4, Deleted DEF Unregister, IInv, Shape
  <2>4. entries' \subseteq Entries
    BY <1>4 DEF Unregister, IInv, Shape
  <2>5. lib' \in [Rsrcs -> Objects]
    BY <1>2, <1>4, ReleasedType DEF IInv, Shape
  <2>6. Shape'
    BY <1>1, <2>3, <2>4, <2>5 DEF IInv, Shape
  <2>7. Held'
    <3>1. Unambiguous' <=> Unambiguous
      BY <1>1 DEF Unambiguous
    <3>2. CASE ~arrives
      <4>1. "lostReply" \in conditions /\ lib' = lib
        BY <1>4, <3>2 DEF Arrivals
      <4>. QED
        BY <1>1, <2>3, <3>1, <4>1 DEF IInv, Held, Unambiguous
    <3>3. CASE arrives
      <4>1. \A s \in Rsrcs : lib'[s] = IF s = r THEN Released(lib[r]) ELSE lib[s]
        BY <1>4, <3>3 DEF IInv, Shape
      <4>. QED
        BY <1>1, <1>2, <2>3, <3>1, <4>1, ReleasedType, NullIsNoClient DEF IInv, Held
    <3>. QED
      BY <3>2, <3>3
  <2>. QED
    BY <2>2, <2>6, <2>7 DEF IInv
<1>. QED
  BY <1>3, <1>4 DEF Destroy

\* A handle that the daemon gives is in nobody's hands.
LEMMA FreshHandle ==
  ASSUME IInv, NEW h \in FreshHandles
  PROVE  /\ h \in Handles /\ oic[h] = Null
         /\ Unambiguous => /\ \A r \in Rsrcs : lib[r].handle # h
                           /\ \A e \in entries \cup dying : e.handle # h
<1>1. h \in Handles /\ oic[h] = Null
  BY DEF FreshHandles
<1>2. Unambiguous => \A e \in entries \cup dying : e.handle # h
  BY <1>1 DEF IInv, ListsAlive
<1>3. Unambiguous => \A r \in Rsrcs : lib[r].handle # h
  <2>1. CASE "reuse" \in conditions
    BY <1>1, <2>1 DEF IInv, Held
  <2>2. CASE "reuse" \notin conditions
    BY <2>2 DEF FreshHandles
  <2>. QED
    BY <2>1, <2>2
<1>. QED
  BY <1>1, <1>2, <1>3

LEMMA CreateIInv ==
  ASSUME IInv, NEW c \in Clients, NEW r \in Rsrcs, NEW kind \in {"plain", "lite"},
         Create(c, r, kind)
  PROVE  IInv'
<1> DEFINE object == [NoObject EXCEPT !.state = "registering", !.client = c, !.kind = kind]
<1>1. /\ conditions' = conditions /\ dying' = dying /\ dying = {} /\ calls' = calls
  BY DEF Create, requests, Ready, Cleaning
<1>2. /\ \A h \in Handles \cup {Refusal}, n \in Nat :
           LET o == [object EXCEPT !.handle = h, !.number = n] IN
           o \in Objects /\ o.client = c /\ o.handle = h /\ o.number = n
      /\ LET o == [object EXCEPT !.handle = Refusal] IN
           o \in Objects /\ o.client = c /\ o.handle = Refusal
  BY DEF NoObject, Objects
<1>3. Gone'
  BY <1>1 DEF Gone
<1>4. Unambiguous' <=> Unambiguous
  BY <1>1 DEF Unambiguous
<1>5. \A d : Refused(d)' <=> Refused(d)
  BY <1>1 DEF Refused
<1>6. CASE /\ oic' = oic /\ entries' = entries /\ number' = number
           /\ lib' = [lib EXCEPT ![r] = [object EXCEPT !.handle = Refusal]]
  <2>1. Shape'
    BY <1>1, <1>2, <1>6 DEF IInv, Shape
  <2>2. Listed' /\ ListsAlive'
    BY <1>1, <1>4, <1>5, <1>6 DEF IInv, Listed, ListsAlive
  <2>3. Held'
    <3> DEFINE o == [object EXCEPT !.handle = Refusal]
    <3>1. \A q \in Rsrcs : lib'[q] = IF q = r THEN o ELSE lib[q]
      BY <1>6 DEF IInv, Shape
    <3>2. o.handle \notin Handles
      BY <1>2, NullIsNoClient
    <3>3. oic' = oic
      BY <1>6
    <3> HIDE DEF o
    <3>. QED
      BY <1>1, <1>4, <3>1, <3>2, <3>3 DEF IInv, Held
  <2>. QED
    BY <1>3, <2>1, <2>2, <2>3 DEF IInv
<1>7. ASSUME NEW h \in FreshHandles, NEW arrives \in Arrivals, NEW s \in EarlyObservers,
             oic' = [oic EXCEPT ![h] = Resource(c, number, s)],
             entries' = entries \cup {[client |-> c, handle |-> h, number |-> number]},
             number' = number + 1,
             lib' = IF arrives
                    THEN [lib EXCEPT ![r] = [object EXCEPT !.handle = h, !.number = number]]
                    ELSE lib
      PROVE  IInv'
  <2> DEFINE e == [client |-> c, handle |-> h, number |-> number]
  <2>1. /\ h \in Handles /\ oic[h] = Null /\ number \in Nat
        /\ Unambiguous => /\ \A q \in Rsrcs : lib[q].handle # h
                          /\ \A f \in entries \cup dying : f.handle # h
    BY FreshHandle DEF IInv, Shape
  <2>2. /\ Resource(c, number, s) \in Resources
        /\ Resource(c, number, s).client = c /\ Resource(c, number, s).number = number
    BY <2>1 DEF Resource, Resources, EarlyObservers, FreshObservers
  <2>3. /\ oic' \in [Handles -> Resources \cup {Null}]
        /\ oic'[h] # Null /\ oic'[h].client = c /\ oic'[h].number = number
        /\ \A k \in Handles : k # h => oic'[k] = oic[k]
    BY <1>7, <2>1, <2>2, ResourcesAssumption DEF IInv, Shape
  <2>4. e \in Entries /\ e.client = c /\ e.handle = h /\ e.number = number
    BY <2>1 DEF Entries
  <2>5. lib' \in [Rsrcs -> Objects]
    BY <1>2, <1>7, <2>1 DEF IInv, Shape
  <2>6. Shape'
    BY <1>1, <1>7, <2>1, <2>3, <2>4, <2>5 DEF IInv, Shape
  <2>7. Listed'
    BY <1>1, <1>5, <1>7, <2>3, <2>4 DEF IInv, Listed
  <2>8. ListsAlive'
    <3>1. \A f \in entries : f.handle \in Handles
      BY DEF IInv, Shape, Entries
    <3>. QED
      BY <1>1, <1>4, <1>7, <2>1, <2>3, <2>4, <3>1 DEF IInv, ListsAlive
  <2>9. Held'
    <3>1. CASE ~arrives
      BY <1>1, <1>4, <1>7, <2>1, <2>3, <3>1 DEF IInv, Held
    <3>2. CASE arrives
      <4> DEFINE o == [object EXCEPT !.handle = h, !.number = number]
      <4>1. \A q \in Rsrcs : lib'[q] = IF q = r THEN o ELSE lib[q]
        BY <1>7, <3>2 DEF IInv, Shape
      <4>2. o.client = c /\ o.handle = h /\ o.number = number
        BY <1>2, <2>1
      <4> HIDE DEF o
      <4>3. ASSUME Unambiguous, NEW q \in Rsrcs, q # r, lib[q].handle \in Handles
            PROVE  lib[q].handle # h /\ oic'[lib[q].handle] = oic[lib[q].handle]
        BY <2>1, <2>3, <4>3
      <4>. QED
        BY <1>1, <1>4, <2>1, <2>3, <4>1, <4>2, <4>3 DEF IInv, Held
    <3>. QED
      BY <3>1, <3>2
  <2>. QED
    BY <1>3, <2>6, <2>7, <2>8, <2>9 DEF IInv
<1>. QED
  BY <1>6, <1>7 DEF Create

\* The entries of a client that leaves are on their way to the cleanup, and
\* its objects are gone.
LEMMA ClientExitIInv ==
  ASSUME IInv, NEW c \in Clients, ClientExit(c)
  PROVE  IInv'
<1>1. /\ conditions' = conditions /\ oic' = oic /\ number' = number /\ calls' = calls
      /\ dying = {} /\ dying' = {e \in entries : e.client = c} /\ entries' = entries \ dying'
  BY DEF ClientExit, Cleaning
<1>2. entries' \cup dying' = entries \cup dying
  BY <1>1
<1>3. \A r \in Rsrcs : lib'[r] = IF lib[r].client = c THEN NoObject ELSE lib[r]
  BY DEF ClientExit
<1>4. NoObject.handle = Null /\ NoObject.client = Null
  BY DEF NoObject
<1>5. Shape'
  <2>1. lib' \in [Rsrcs -> Objects]
    BY NoObjectType DEF ClientExit, IInv, Shape
  <2>. QED
    BY <1>1, <2>1 DEF IInv, Shape
<1>6. Unambiguous' <=> Unambiguous
  BY <1>1 DEF Unambiguous
<1>7. \A d : Refused(d)' <=> Refused(d)
  BY <1>1 DEF Refused
<1>8. Listed' /\ ListsAlive'
  BY <1>1, <1>2, <1>6, <1>7 DEF IInv, Listed, ListsAlive
<1>9. Held'
  BY <1>1, <1>3, <1>4, <1>6, NullIsNoClient DEF IInv, Held
<1>10. Gone'
  BY <1>1, <1>3, <1>4, NullIsNoClient DEF Gone
<1>. QED
  BY <1>5, <1>8, <1>9, <1>10 DEF IInv

\* The handle of an entry that is cleaned up is nobody else's.
LEMMA CleanupIInv ==
  ASSUME IInv, NEW e \in dying, Cleanup(e)
  PROVE  IInv'
<1>1. /\ conditions' = conditions /\ entries' = entries /\ dying' = dying \ {e}
      /\ number' = number /\ lib' = lib /\ calls' = calls
  BY DEF Cleanup, requests
<1>2. e.handle \in Handles
  BY DEF IInv, Shape, Entries
<1>3. /\ oic' \in [Handles -> Resources \cup {Null}]
      /\ \A h \in Handles : oic'[h] = IF h = e.handle THEN Null ELSE oic[h]
  BY Deleted DEF Cleanup
<1>4. Unambiguous' <=> Unambiguous
  BY <1>1 DEF Unambiguous
<1>5. \A d : Refused(d)' <=> Refused(d)
  BY <1>1 DEF Refused
<1>6. Shape'
  BY <1>1, <1>3 DEF IInv, Shape
<1>7. Listed'
  BY <1>1, <1>3, <1>5 DEF IInv, Listed
<1>8. ListsAlive'
  <2>1. ASSUME Unambiguous, NEW f \in entries' \cup dying'
        PROVE  f \in entries \cup dying /\ f.handle \in Handles /\ f.handle # e.handle
    <3>1. f \in entries \cup dying /\ f.handle \in Handles
      BY <1>1 DEF IInv, Shape, Entries
    <3>2. f # e
      BY <1>1 DEF IInv, Gone
    <3>. QED
      BY <1>1, <2>1, <3>1, <3>2 DEF IInv, ListsAlive
  <2>. QED
    BY <1>1, <1>3, <1>4, <2>1 DEF IInv, ListsAlive
<1>9. Held'
  <2>1. ASSUME Unambiguous, NEW r \in Rsrcs, lib[r].handle \in Handles
        PROVE  lib[r].handle # e.handle
    <3>1. oic[e.handle] # Null /\ oic[e.handle].client = e.client
      BY <2>1 DEF IInv, ListsAlive
    <3>. QED
      BY <2>1, <3>1 DEF IInv, Held, Gone
  <2>. QED
    BY <1>1, <1>3, <1>4, <2>1 DEF IInv, Held
<1>10. Gone'
  BY <1>1 DEF IInv, Gone
<1>. QED
  BY <1>6, <1>7, <1>8, <1>9, <1>10 DEF IInv

LEMMA DaemonRestartIInv ==
  ASSUME IInv, DaemonRestart
  PROVE  IInv'
<1>1. /\ conditions' = conditions /\ "crash" \in conditions
      /\ oic' = [h \in Handles |-> Null] /\ entries' = {} /\ dying' = {}
      /\ number' = 0 /\ calls' = <<>> /\ lib' = lib
  BY DEF DaemonRestart
<1>2. Shape'
  BY <1>1 DEF IInv, Shape
<1>3. Listed' /\ ListsAlive' /\ Gone'
  BY <1>1 DEF Listed, ListsAlive, Gone
<1>4. Held'
  BY <1>1 DEF IInv, Held, Unambiguous
<1>. QED
  BY <1>2, <1>3, <1>4 DEF IInv

LEMMA NextIInv == IInv /\ [Next]_vars => IInv'
<1> SUFFICES ASSUME IInv, [Next]_vars
             PROVE  IInv'
  OBVIOUS
<1>1. ASSUME UNCHANGED <<conditions, oic, daemon, lib, calls>>
      PROVE  IInv'
  <2>1. Shape' /\ Harmless
    BY <1>1 DEF daemon, IInv, Shape, Harmless
  <2>. QED
    BY <2>1, HarmlessStep
<1>2. CASE UNCHANGED vars
  BY <1>1, <1>2 DEF vars, requests
<1>3. ASSUME NEW a \in todo, Respond(a)
      PROVE  IInv'
  BY <1>1, <1>3 DEF Respond
<1>4. ASSUME NEW c \in Clients, NameOwnerNotify(c) \/ Disconnect(c)
      PROVE  IInv'
  BY <1>4, UnsubscribedIInv DEF NameOwnerNotify, Disconnect
<1>. QED
  BY <1>2, <1>3, <1>4, CreateIInv, SubscribeIInv, DestroyIInv, ConnCleanupIInv, BindingIInv,
     RequestIInv, DeliverIInv, ClientExitIInv, CleanupIInv, DaemonRestartIInv
     DEF Next

\* Whatever the applications, the network and the failures do, IoTivity has
\* no resource that is in no list, but those that an application without the
\* privilege has destroyed (_dbus_handle_unregister_resource,
\* _icd_dbus_name_owner_changed_cb).
THEOREM Kept == Spec => []NoOrphans
<1>1. IInv => NoOrphans
  BY DEF IInv, Listed, NoOrphans
<1>. QED
  BY <1>1, InitIInv, NextIInv, PTL DEF Spec

\* An entry of a resource list always stands for one resource, of the same
\* client (_dbus_handle_register_resource, _icd_dbus_resource_list_remove).
THEOREM Alive == Spec => []ListsAlive
<1>1. IInv => ListsAlive
  BY DEF IInv
<1>. QED
  BY <1>1, InitIInv, NextIInv, PTL DEF Spec

\* An object of the lib never names another object's resource
\* (iotcon_resource_destroy, _icl_resource_conn_cleanup).
THEOREM Owned == Spec => []HandlesOwn
<1>1. IInv => HandlesOwn
  BY DEF IInv, Held, HandlesOwn
<1>. QED
  BY <1>1, InitIInv, NextIInv, PTL DEF Spec
-----------------------------------------------------------------------------
(***************************************************************************)
(* The numbers of the signals, and the two lists that lib and daemon keep  *)
(* of the same resources.                                                  *)
(***************************************************************************)

\* The application has the object, or soon will.
Standing(r) == lib[r].state \in {"registering", "live"}

\* It is an object of this life of the daemon, which did not refuse it.
Served(r) ==
  Standing(r) /\ lib[r].client \notin unaware /\ lib[r].handle \in Handles

Entry(r) == [client |-> lib[r].client, handle |-> lib[r].handle, number |-> lib[r].number]

\* A registration gave every object what it has.
Formed ==
  \A r \in Rsrcs :
    Standing(r) =>
      /\ lib[r].client \in Clients
      /\ \/ lib[r].handle \in Handles
         \/ lib[r].handle = Refusal /\ lib[r].kind = "lite" /\ Refused(lib[r].client)

\* No number is given twice, and the next one to no object yet.
Numbered ==
  /\ \A r \in Rsrcs : Served(r) => lib[r].number < number
  /\ \A r, s \in Rsrcs :
       Served(r) /\ Served(s) /\ lib[r].number = lib[s].number => r = s

\* An object has its entry, unless a reply that was lost hides that the
\* entry is gone.
Entered ==
  "lostReply" \notin conditions /\ Unambiguous =>
    \A r \in Rsrcs : Served(r) => Entry(r) \in entries

\* An entry has its object, unless something failed.
Twinned ==
  conditions \cap {"lostReply", "crash", "disconnect", "subscribeFail"} = {} =>
    /\ unaware = {}
    /\ \A r \in Rsrcs : /\ lib[r].state # "lost"
                        /\ lib[r].state = "ending" => lib[r].handle = Null
    /\ \A e \in entries : \E r \in Rsrcs : Standing(r) /\ Entry(r) = e

JInv == Formed /\ Numbered /\ Entered /\ Twinned

LEMMA InitJInv == Init => JInv
  BY DEF Init, JInv, Formed, Numbered, Entered, Twinned, Served, Standing, NoObject

\* Every step but a registration leaves at most the objects there were.
Fewer ==
  /\ conditions' = conditions
  /\ \A r \in Rsrcs :
       Standing(r)' =>
         /\ Standing(r)
         /\ lib'[r].client = lib[r].client /\ lib'[r].handle = lib[r].handle
         /\ lib'[r].number = lib[r].number /\ lib'[r].kind = lib[r].kind
         /\ lib[r].client \in unaware => lib'[r].client \in unaware'

\* A step that ends nothing, either.
Lasting ==
  /\ unaware' = unaware /\ entries' = entries
  /\ \A r \in Rsrcs :
       /\ Standing(r) => Standing(r)' /\ Entry(r)' = Entry(r)
       /\ lib[r].state # "lost" => lib'[r].state # "lost"
       /\ lib'[r].state = "ending" => lib[r].state = "ending" /\ lib'[r].handle = lib[r].handle

LEMMA FewerServed ==
  ASSUME Fewer, NEW r \in Rsrcs, Served(r)'
  PROVE  /\ Served(r)
         /\ lib'[r].client = lib[r].client /\ lib'[r].handle = lib[r].handle
         /\ lib'[r].number = lib[r].number /\ lib'[r].kind = lib[r].kind
         /\ Entry(r)' = Entry(r)
  BY DEF Fewer, Served, Entry

LEMMA FewerStep ==
  ASSUME IInv, IInv', JInv, Fewer, number' >= number
  PROVE  Formed' /\ Numbered' /\ (entries' = entries => Entered')
<1>1. \A d : Refused(d)' <=> Refused(d)
  BY DEF Fewer, Refused
<1>2. Formed'
  BY <1>1 DEF JInv, Formed, Fewer
<1>3. Numbered'
  <2>1. \A r \in Rsrcs : lib[r].number \in Nat
    BY DEF IInv, Shape, Objects
  <2>2. number \in Nat /\ number' \in Nat
    BY DEF IInv, Shape
  <2>3. \A r \in Rsrcs : Served(r)' => Served(r) /\ lib'[r].number = lib[r].number
    BY FewerServed
  <2>. QED
    BY <2>1, <2>2, <2>3 DEF JInv, Numbered
<1>4. entries' = entries => Entered'
  <2>1. Unambiguous' <=> Unambiguous
    BY DEF Fewer, Unambiguous
  <2>2. \A r \in Rsrcs : Served(r)' => Served(r) /\ Entry(r)' = Entry(r)
    BY FewerServed
  <2>3. conditions' = conditions
    BY DEF Fewer
  <2>. QED
    BY <2>1, <2>2, <2>3 DEF JInv, Entered
<1>. QED
  BY <1>2, <1>3, <1>4

LEMMA LastingStep ==
  ASSUME JInv, Lasting, conditions' = conditions
  PROVE  Twinned'
  BY DEF JInv, Twinned, Lasting

LEMMA SubscribeViews ==
  ASSUME IInv, NEW r \in Rsrcs, Subscribe(r)
  PROVE  Fewer /\ ("subscribeFail" \notin conditions => Lasting)
<1>1. /\ conditions' = conditions /\ entries' = entries /\ unaware' = unaware
      /\ lib[r].state = "registering"
  BY DEF Subscribe, daemon
<1>2. CASE lib' = [lib EXCEPT ![r].state = "live"]
  BY <1>1, <1>2 DEF IInv, Shape, Objects, Fewer, Lasting, Standing, Entry
<1>3. CASE lib' = [lib EXCEPT ![r] = NoObject] /\ "subscribeFail" \in conditions
  BY <1>1, <1>3 DEF IInv, Shape, NoObject, Fewer, Standing
<1>. QED
  BY <1>2, <1>3 DEF Subscribe

LEMMA ConnCleanupViews ==
  ASSUME IInv, NEW r \in Rsrcs, ConnCleanup(r)
  PROVE  Fewer /\ (lib[r].handle = Null => Lasting)
<1>1. /\ conditions' = conditions /\ entries' = entries /\ unaware' = unaware
      /\ lib[r].state = "ending"
  BY DEF ConnCleanup, daemon
<1>2. CASE lib[r].handle = Null
  <2>1. \A s \in Rsrcs : lib'[s] = IF s = r THEN NoObject ELSE lib[s]
    BY <1>2 DEF ConnCleanup, IInv, Shape
  <2>. QED
    BY <1>1, <2>1 DEF NoObject, Fewer, Lasting, Standing, Entry
<1>3. CASE lib[r].handle # Null
  <2>1. \A s \in Rsrcs : IF s = r THEN lib'[s].state = "lost" ELSE lib'[s] = lib[s]
    BY <1>3 DEF ConnCleanup, IInv, Shape, Objects
  <2>. QED
    BY <1>1, <1>3, <2>1 DEF Fewer, Standing
<1>. QED
  BY <1>2, <1>3

\* A step that changes of the objects the children and the observers only.
Quieter ==
  /\ conditions' = conditions /\ entries' = entries /\ unaware' = unaware
  /\ \A r \in Rsrcs :
       /\ lib'[r].state = lib[r].state /\ lib'[r].kind = lib[r].kind
       /\ lib'[r].client = lib[r].client /\ lib'[r].handle = lib[r].handle
       /\ lib'[r].number = lib[r].number

LEMMA QuieterViews == Quieter => Fewer /\ Lasting
  BY DEF Quieter, Fewer, Lasting, Standing, Entry

LEMMA BindingQuieter ==
  ASSUME IInv, NEW p \in Rsrcs, NEW r \in Rsrcs, BindChild(p, r) \/ UnbindChild(p, r)
  PROVE  Quieter
<1>1. conditions' = conditions /\ entries' = entries /\ unaware' = unaware
  BY DEF BindChild, UnbindChild, daemon
<1>2. PICK s : lib' \in {lib, [lib EXCEPT ![p].children = s]}
  <2>1. CASE BindChild(p, r)
    BY <2>1 DEF BindChild
  <2>2. CASE UnbindChild(p, r)
    BY <2>2 DEF UnbindChild
  <2>. QED
    BY <2>1, <2>2
<1>3. \A q \in Rsrcs : lib[q] \in Objects
  BY DEF IInv, Shape
<1>4. CASE lib' = lib
  BY <1>1, <1>4 DEF Quieter
<1>5. CASE lib' = [lib EXCEPT ![p].children = s]
  BY <1>1, <1>3, <1>5 DEF IInv, Shape, Objects, Quieter
<1>. QED
  BY <1>2, <1>4, <1>5

LEMMA DeliverQuieter ==
  ASSUME IInv, NEW i \in DOMAIN calls, Deliver(i)
  PROVE  Quieter
<1>1. conditions' = conditions /\ entries' = entries /\ unaware' = unaware
  BY DEF Deliver, daemon
<1>2. ASSUME NEW r \in Rsrcs
      PROVE  \/ lib'[r] = lib[r]
             \/ lib'[r] = [lib[r] EXCEPT !.observers =
                                       Observed(lib[r].observers, calls[i].observe)]
  BY DEF Deliver
<1>3. \A r \in Rsrcs : lib[r] \in Objects
  BY DEF IInv, Shape
<1>. QED
  BY <1>1, <1>2, <1>3 DEF Objects, Quieter

LEMMA UnsubscribedFewer ==
  ASSUME IInv, JInv, NEW c \in Clients, NameOwnerNotify(c) \/ Disconnect(c)
  PROVE  Fewer
<1>1. /\ conditions' = conditions /\ unaware' = unaware \ {c} /\ lib' = Unsubscribed(c)
      /\ ~Blocked(c)
  BY DEF NameOwnerNotify, Disconnect
<1>2. \A r \in Rsrcs : lib[r] \in Objects
  BY DEF IInv, Shape
<1>3. \A r \in Rsrcs :
        IF lib[r].client = c /\ lib[r].state = "live"
        THEN lib'[r].state = "ending"
        ELSE lib'[r] = lib[r]
  BY <1>1, <1>2 DEF Unsubscribed, Objects
<1>4. \A r \in Rsrcs : lib[r].client = c => lib[r].state # "registering"
  BY <1>1 DEF Blocked, ObjectsOf
<1>. QED
  BY <1>1, <1>3, <1>4 DEF Fewer, Standing

LEMMA ClientExitJInv ==
  ASSUME IInv, IInv', JInv, NEW c \in Clients, ClientExit(c)
  PROVE  JInv'
<1>1. /\ conditions' = conditions /\ number' = number
      /\ entries' = {e \in entries : e.client # c} /\ unaware' = unaware \ {c}
  BY DEF ClientExit
<1>2. \A r \in Rsrcs : lib'[r] = IF lib[r].client = c THEN NoObject ELSE lib[r]
  BY DEF ClientExit
<1>3. NoObject.state = "none" /\ NoObject.client = Null /\ NoObject.handle = Null
  BY DEF NoObject
<1>4. Fewer
  BY <1>1, <1>2, <1>3 DEF Fewer, Standing
<1>5. Formed' /\ Numbered'
  <2>1. number \in Nat
    BY DEF IInv, Shape
  <2>. QED
    BY <1>1, <1>4, <2>1, FewerStep
<1>6. Entered'
  <2>1. Unambiguous' <=> Unambiguous
    BY <1>1 DEF Unambiguous
  <2>2. \A r \in Rsrcs : Served(r)' => Served(r) /\ Entry(r)' = Entry(r) /\ lib[r].client # c
    BY <1>2, <1>3, <1>4, FewerServed DEF Served, Standing
  <2>. QED
    BY <1>1, <2>1, <2>2 DEF JInv, Entered, Entry
<1>7. Twinned'
  <2>1. ASSUME NEW r \in Rsrcs, Standing(r), NEW e \in entries, Entry(r) = e, e.client # c
        PROVE  Standing(r)' /\ Entry(r)' = e
    BY <1>2, <2>1 DEF Standing, Entry
  <2>2. \A r \in Rsrcs : lib[r].state # "lost" => lib'[r].state # "lost"
    BY <1>2, <1>3
  <2>3. \A r \in Rsrcs :
          lib'[r].state = "ending" => lib[r].state = "ending" /\ lib'[r].handle = lib[r].handle
    BY <1>2, <1>3
  <2>. QED
    BY <1>1, <2>1, <2>2, <2>3 DEF JInv, Twinned
<1>. QED
  BY <1>5, <1>6, <1>7 DEF JInv

LEMMA DaemonRestartJInv ==
  ASSUME IInv, JInv, DaemonRestart
  PROVE  JInv'
<1>1. conditions' = conditions /\ unaware' = Clients /\ lib' = lib /\ "crash" \in conditions
  BY DEF DaemonRestart
<1>2. \A d : Refused(d)' <=> Refused(d)
  BY <1>1 DEF Refused
<1>3. Formed'
  BY <1>1, <1>2 DEF JInv, Formed, Standing
<1>4. \A r \in Rsrcs : ~Served(r)'
  BY <1>1, <1>3 DEF Formed, Served, Standing
<1>. QED
  BY <1>1, <1>3, <1>4 DEF JInv, Numbered, Entered, Twinned

LEMMA DestroyJInv ==
  ASSUME IInv, IInv', JInv, NEW r \in Rsrcs, Destroy(r)
  PROVE  JInv'
<1>1. conditions' = conditions /\ number' = number /\ unaware' = unaware
  BY DEF Destroy
<1>2. lib[r] \in Objects /\ number \in Nat
  BY DEF IInv, Shape
<1>3. Unambiguous' <=> Unambiguous
  BY <1>1 DEF Unambiguous
<1>4. CASE /\ lib[r].state = "lost"
           /\ lib' = [lib EXCEPT ![r] = NoObject] /\ entries' = entries
  <2>1. \A s \in Rsrcs : lib'[s] = IF s = r THEN NoObject ELSE lib[s]
    BY <1>4 DEF IInv, Shape
  <2>2. Fewer
    BY <1>1, <2>1 DEF Fewer, Standing, NoObject
  <2>3. Formed' /\ Numbered' /\ Entered'
    BY <1>1, <1>2, <1>4, <2>2, FewerStep
  <2>4. Twinned'
    BY <1>1, <1>4 DEF JInv, Twinned
  <2>. QED
    BY <2>3, <2>4 DEF JInv
<1>5. ASSUME HasSubId(r), Unregister(lib[r].client, lib[r].handle), NEW arrives \in Arrivals,
             lib' = IF arrives THEN [lib EXCEPT ![r] = Released(lib[r])] ELSE lib
      PROVE  JInv'
  <2>1. entries' = {e \in entries : ~(e.client = lib[r].client /\ e.handle = lib[r].handle)}
    BY <1>5 DEF Unregister
  <2>2. "lostReply" \notin conditions => arrives
    BY <1>5 DEF Arrivals
  <2>3. CASE ~arrives
    <3>1. lib' = lib /\ "lostReply" \in conditions
      BY <1>5, <2>2, <2>3
    <3>2. Fewer
      BY <1>1, <3>1 DEF Fewer, Standing
    <3>. QED
      BY <1>1, <1>2, <3>1, <3>2, FewerStep DEF JInv, Entered, Twinned
  <2>4. CASE arrives
    <3>1. \A s \in Rsrcs : lib'[s] = IF s = r THEN Released(lib[r]) ELSE lib[s]
      BY <1>5, <2>4 DEF IInv, Shape
    <3>2. Released(lib[r]).state = "ending" /\ Released(lib[r]).handle = Null
      BY <1>2 DEF Released, Objects
    <3>3. Fewer
      BY <1>1, <3>1, <3>2 DEF Fewer, Standing
    <3>4. Formed' /\ Numbered'
      BY <1>1, <1>2, <3>3, FewerStep
    <3>5. Entered'
      <4>1. ASSUME Unambiguous, NEW s \in Rsrcs, Served(s)'
            PROVE  /\ Served(s) /\ Entry(s)' = Entry(s)
                   /\ lib[s].handle # lib[r].handle
        <5>1. Served(s) /\ Entry(s)' = Entry(s) /\ s # r
          BY <3>1, <3>2, <3>3, <4>1, FewerServed DEF Served, Standing
        <5>2. lib[s].handle \in Handles
          BY <5>1 DEF Served
        <5>. QED
          BY <4>1, <5>1, <5>2 DEF IInv, Held
      <4>2. \A s \in Rsrcs : Entry(s).handle = lib[s].handle
        BY DEF Entry
      <4>. QED
        BY <1>1, <1>3, <2>1, <4>1, <4>2 DEF JInv, Entered
    <3>6. Twinned'
      <4>1. ASSUME NEW e \in entries', NEW s \in Rsrcs, Standing(s), Entry(s) = e
            PROVE  Standing(s)' /\ Entry(s)' = e
        <5>1. s # r
          BY <2>1, <4>1 DEF Entry
        <5>. QED
          BY <3>1, <4>1, <5>1 DEF Standing, Entry
      <4>2. \A s \in Rsrcs : /\ lib[s].state # "lost" => lib'[s].state # "lost"
                             /\ \/ lib'[s] = lib[s]
                                \/ lib'[s].handle = Null
        BY <3>1, <3>2
      <4>. QED
        BY <1>1, <2>1, <4>1, <4>2 DEF JInv, Twinned
    <3>. QED
      BY <3>4, <3>5, <3>6 DEF JInv
  <2>. QED
    BY <2>3, <2>4
<1>. QED
  BY <1>4, <1>5 DEF Destroy

\* A registration that the daemon refuses, or that it served.
LEMMA CreateCases ==
  ASSUME IInv, NEW c \in Clients, NEW r \in Rsrcs, NEW kind \in {"plain", "lite"},
         Create(c, r, kind)
  PROVE  /\ conditions' = conditions /\ unaware' = unaware /\ calls' = calls
         /\ lib[r].state = "none"
         /\ \/ /\ oic' = oic /\ entries' = entries /\ number' = number
               /\ lib'[r].state = "registering" /\ lib'[r].client = c
               /\ lib'[r].handle = Refusal /\ lib'[r].kind = "lite" /\ Refused(c)
               /\ lib'[r].observers = [o \in Observers |-> 0]
               /\ \A s \in Rsrcs : s # r => lib'[s] = lib[s]
            \/ \E h \in FreshHandles, s \in EarlyObservers :
                 /\ oic' = [oic EXCEPT ![h] = Resource(c, number, s)]
                 /\ entries' = entries \cup {[client |-> c, handle |-> h, number |-> number]}
                 /\ number' = number + 1
                 /\ \/ lib' = lib /\ "lostReply" \in conditions
                    \/ /\ lib'[r].state = "registering" /\ lib'[r].client = c
                       /\ lib'[r].handle = h /\ lib'[r].number = number
                       /\ lib'[r].kind = kind /\ lib'[r].children = {}
                       /\ lib'[r].observers = [o \in Observers |-> 0]
                       /\ \A q \in Rsrcs : q # r => lib'[q] = lib[q]
<1> DEFINE object == [NoObject EXCEPT !.state = "registering", !.client = c, !.kind = kind]
<1>1. conditions' = conditions /\ unaware' = unaware /\ calls' = calls /\ lib[r].state = "none"
  BY DEF Create, FreshObject, requests
<1>2. CASE /\ kind = "lite" /\ Refused(c)
           /\ oic' = oic /\ entries' = entries /\ number' = number
           /\ lib' = [lib EXCEPT ![r] = [object EXCEPT !.handle = Refusal]]
  <2>1. \A s \in Rsrcs : lib'[s] = IF s = r THEN [object EXCEPT !.handle = Refusal] ELSE lib[s]
    BY <1>2 DEF IInv, Shape
  <2>2. /\ lib'[r].state = "registering" /\ lib'[r].client = c
        /\ lib'[r].handle = Refusal /\ lib'[r].kind = "lite"
        /\ lib'[r].observers = [x \in Observers |-> 0]
    <3> DEFINE o == [object EXCEPT !.handle = Refusal]
    <3>1. /\ o.state = "registering" /\ o.client = c /\ o.handle = Refusal /\ o.kind = kind
          /\ o.observers = [x \in Observers |-> 0]
      BY DEF NoObject
    <3>2. lib'[r] = o
      BY <2>1
    <3>. QED
      BY <1>2, <3>1, <3>2
  <2>3. \A s \in Rsrcs : s # r => lib'[s] = lib[s]
    BY <2>1
  <2>. QED
    BY <1>1, <1>2, <2>2, <2>3
<1>3. ASSUME NEW h \in FreshHandles, NEW arrives \in Arrivals, NEW s \in EarlyObservers,
             oic' = [oic EXCEPT ![h] = Resource(c, number, s)],
             entries' = entries \cup {[client |-> c, handle |-> h, number |-> number]},
             number' = number + 1,
             lib' = IF arrives
                    THEN [lib EXCEPT ![r] = [object EXCEPT !.handle = h, !.number = number]]
                    ELSE lib
      PROVE  \/ lib' = lib /\ "lostReply" \in conditions
             \/ /\ lib'[r].state = "registering" /\ lib'[r].client = c
                /\ lib'[r].handle = h /\ lib'[r].number = number
                /\ lib'[r].kind = kind /\ lib'[r].children = {}
                /\ lib'[r].observers = [o \in Observers |-> 0]
                /\ \A q \in Rsrcs : q # r => lib'[q] = lib[q]
  <2>1. CASE ~arrives
    BY <1>3, <2>1 DEF Arrivals
  <2>2. CASE arrives
    <3>1. \A q \in Rsrcs : lib'[q] = IF q = r
                                     THEN [object EXCEPT !.handle = h, !.number = number]
                                     ELSE lib[q]
      BY <1>3, <2>2 DEF IInv, Shape
    <3>. QED
      BY <3>1 DEF NoObject
  <2>. QED
    BY <2>1, <2>2
<1>. QED
  BY <1>1, <1>2, <1>3 DEF Create

LEMMA CreateJInv ==
  ASSUME IInv, IInv', JInv, NEW c \in Clients, NEW r \in Rsrcs, NEW kind \in {"plain", "lite"},
         Create(c, r, kind)
  PROVE  JInv'
<1>1. /\ conditions' = conditions /\ unaware' = unaware /\ lib[r].state = "none"
      /\ number \in Nat /\ \A s \in Rsrcs : lib[s].number \in Nat
  BY CreateCases DEF IInv, Shape, Objects
<1>2. (Unambiguous' <=> Unambiguous) /\ \A d : Refused(d)' <=> Refused(d)
  BY <1>1 DEF Unambiguous, Refused
<1>3. CASE /\ entries' = entries /\ number' = number
           /\ lib'[r].state = "registering" /\ lib'[r].client = c
           /\ lib'[r].handle = Refusal /\ lib'[r].kind = "lite" /\ Refused(c)
           /\ \A s \in Rsrcs : s # r => lib'[s] = lib[s]
  <2>1. Formed'
    BY <1>2, <1>3 DEF JInv, Formed, Standing
  <2>2. \A s \in Rsrcs : Served(s)' => s # r /\ Served(s) /\ Entry(s)' = Entry(s)
    BY <1>1, <1>3, NullIsNoClient DEF Served, Standing, Entry
  <2>3. Numbered'
    BY <1>3, <2>2 DEF JInv, Numbered
  <2>4. Entered'
    BY <1>1, <1>2, <1>3, <2>2 DEF JInv, Entered
  <2>5. \A s \in Rsrcs : Standing(s) => Standing(s)' /\ Entry(s)' = Entry(s)
    BY <1>1, <1>3 DEF Standing, Entry
  <2>6. \A s \in Rsrcs : lib'[s] = lib[s] \/ lib'[s].state = "registering"
    BY <1>3
  <2>7. Twinned'
    BY <1>1, <1>3, <2>5, <2>6 DEF JInv, Twinned
  <2>. QED
    BY <2>1, <2>3, <2>4, <2>7 DEF JInv
<1>4. ASSUME NEW h \in FreshHandles,
             entries' = entries \cup {[client |-> c, handle |-> h, number |-> number]},
             number' = number + 1,
             lib' = lib, "lostReply" \in conditions
      PROVE  JInv'
  <2>1. Fewer
    BY <1>1, <1>4 DEF Fewer, Standing
  <2>2. Formed' /\ Numbered'
    BY <1>1, <1>4, <2>1, FewerStep
  <2>. QED
    BY <1>1, <1>4, <2>2 DEF JInv, Entered, Twinned
<1>5. ASSUME NEW h \in FreshHandles,
             entries' = entries \cup {[client |-> c, handle |-> h, number |-> number]},
             number' = number + 1,
             lib'[r].state = "registering", lib'[r].client = c,
             lib'[r].handle = h, lib'[r].number = number,
             \A q \in Rsrcs : q # r => lib'[q] = lib[q]
      PROVE  JInv'
  <2>1. h \in Handles
    BY <1>5, FreshHandle
  <2>2. Formed'
    BY <1>2, <1>5, <2>1 DEF JInv, Formed, Standing
  <2>3. \A s \in Rsrcs : s # r /\ Served(s)' => Served(s) /\ Entry(s)' = Entry(s)
    BY <1>1, <1>5 DEF Served, Standing, Entry
  <2>4. Numbered'
    BY <1>1, <1>5, <2>3 DEF JInv, Numbered
  <2>5. Entry(r)' = [client |-> c, handle |-> h, number |-> number]
    BY <1>5 DEF Entry
  <2>6. Entered'
    BY <1>1, <1>2, <1>5, <2>3, <2>5 DEF JInv, Entered
  <2>7. Standing(r)' /\ \A s \in Rsrcs : Standing(s) => Standing(s)' /\ Entry(s)' = Entry(s)
    BY <1>1, <1>5 DEF Standing, Entry
  <2>8. \A s \in Rsrcs : lib'[s] = lib[s] \/ lib'[s].state = "registering"
    BY <1>5
  <2>9. Twinned'
    BY <1>1, <1>5, <2>5, <2>7, <2>8 DEF JInv, Twinned
  <2>. QED
    BY <2>2, <2>4, <2>6, <2>9 DEF JInv
<1>. QED
  BY <1>3, <1>4, <1>5, CreateCases

\* A step that is no registration, and leaves the lists and numbers alone.
LEMMA PlainJInv ==
  ASSUME IInv, IInv', JInv, Fewer, entries' = entries, number' = number, Twinned'
  PROVE  JInv'
<1>1. number \in Nat
  BY DEF IInv, Shape
<1>. QED
  BY <1>1, FewerStep DEF JInv

LEMMA NextJInv == IInv /\ IInv' /\ JInv /\ [Next]_vars => JInv'
<1> SUFFICES ASSUME IInv, IInv', JInv, [Next]_vars
             PROVE  JInv'
  OBVIOUS
<1>1. ASSUME Quieter, number' = number
      PROVE  JInv'
  BY <1>1, QuieterViews, LastingStep, PlainJInv DEF Quieter
<1>2. ASSUME UNCHANGED <<conditions, entries, number, lib, unaware>>
      PROVE  JInv'
  BY <1>1, <1>2 DEF Quieter
<1>3. CASE UNCHANGED vars
  BY <1>2, <1>3 DEF vars, daemon
<1>4. ASSUME NEW r \in Rsrcs, Subscribe(r)
      PROVE  JInv'
  <2>1. entries' = entries /\ number' = number /\ conditions' = conditions
    BY <1>4 DEF Subscribe, daemon
  <2>2. Fewer /\ ("subscribeFail" \notin conditions => Lasting)
    BY <1>4, SubscribeViews
  <2>3. Twinned'
    BY <2>1, <2>2, LastingStep DEF Twinned
  <2>. QED
    BY <2>1, <2>2, <2>3, PlainJInv
<1>5. ASSUME NEW r \in Rsrcs, ConnCleanup(r)
      PROVE  JInv'
  <2>1. /\ entries' = entries /\ number' = number /\ conditions' = conditions
        /\ lib[r].state = "ending"
    BY <1>5 DEF ConnCleanup, daemon
  <2>2. Fewer /\ (lib[r].handle = Null => Lasting)
    BY <1>5, ConnCleanupViews
  <2>3. Twinned'
    BY <2>1, <2>2, LastingStep DEF JInv, Twinned
  <2>. QED
    BY <2>1, <2>2, <2>3, PlainJInv
<1>6. ASSUME NEW p \in Rsrcs, NEW r \in Rsrcs, BindChild(p, r) \/ UnbindChild(p, r)
      PROVE  JInv'
  <2>1. number' = number
    BY <1>6 DEF BindChild, UnbindChild, daemon
  <2>. QED
    BY <1>1, <1>6, <2>1, BindingQuieter
<1>7. ASSUME NEW h \in Handles, NEW q \in Reqs, NEW a \in Changes, Request(h, q, a)
      PROVE  JInv'
  BY <1>2, <1>7 DEF Request, daemon
<1>8. ASSUME NEW i \in DOMAIN calls, Deliver(i)
      PROVE  JInv'
  <2>1. number' = number
    BY <1>8 DEF Deliver, daemon
  <2>. QED
    BY <1>1, <1>8, <2>1, DeliverQuieter
<1>9. ASSUME NEW a \in todo, Respond(a)
      PROVE  JInv'
  BY <1>2, <1>9 DEF Respond, daemon
<1>10. ASSUME NEW c \in Clients, NameOwnerNotify(c) \/ Disconnect(c)
       PROVE  JInv'
  <2>1. entries' = entries /\ number' = number /\ conditions' = conditions
    BY <1>10 DEF NameOwnerNotify, Disconnect, daemon
  <2>2. Fewer
    BY <1>10, UnsubscribedFewer
  <2>3. Twinned'
    BY <1>10, <2>1 DEF NameOwnerNotify, Disconnect, JInv, Twinned
  <2>. QED
    BY <2>1, <2>2, <2>3, PlainJInv
<1>11. ASSUME NEW e \in dying, Cleanup(e)
       PROVE  JInv'
  BY <1>2, <1>11 DEF Cleanup
<1>. QED
  BY <1>3, <1>4, <1>5, <1>6, <1>7, <1>8, <1>9, <1>10, <1>11, CreateJInv, DestroyJInv,
     ClientExitJInv, DaemonRestartJInv DEF Next

\* The two lists agree and a signal has one handler: the reply carries the
\* handle and the number of the entry that the daemon made, and the numbers
\* of a dead daemon go with the subscriptions before those of the new one
\* come (_dbus_handle_register_resource, _icl_dbus_name_owner_notify).
THEOREM InStep == Spec => []Paired
<1>1. IInv /\ JInv => Matched
  <2> SUFFICES ASSUME IInv, JInv,
                      conditions \cap {"lostReply", "crash", "disconnect", "subscribeFail"} = {}
               PROVE  /\ \A r \in Rsrcs :
                           lib[r].state \in {"registering", "live"} /\ lib[r].handle \in Handles
                             => Entry(r) \in entries
                      /\ \A e \in entries :
                           \E r \in ObjectsOf(e.client) :
                             /\ lib[r].state \in {"registering", "live"}
                             /\ lib[r].handle = e.handle /\ lib[r].number = e.number
    BY DEF Matched, Entry
  <2>1. unaware = {} /\ Unambiguous
    BY DEF JInv, Twinned, Unambiguous
  <2>2. \A r \in Rsrcs : Standing(r) /\ lib[r].handle \in Handles => Entry(r) \in entries
    BY <2>1 DEF JInv, Entered, Served
  <2>3. ASSUME NEW e \in entries
        PROVE  \E r \in ObjectsOf(e.client) :
                 /\ lib[r].state \in {"registering", "live"}
                 /\ lib[r].handle = e.handle /\ lib[r].number = e.number
    <3>1. PICK r \in Rsrcs : Standing(r) /\ Entry(r) = e
      BY DEF JInv, Twinned
    <3>2. e.client = lib[r].client /\ e.handle = lib[r].handle /\ e.number = lib[r].number
      BY <3>1 DEF Entry
    <3>. QED
      BY <3>1, <3>2 DEF ObjectsOf, Standing
  <2>. QED
    BY <2>2, <2>3 DEF Standing
<1>2. JInv => OneHandler
  <2> SUFFICES ASSUME JInv, NEW r \in Rsrcs, NEW s \in Rsrcs,
                      r # s, lib[r].client = lib[s].client, lib[r].client \notin unaware,
                      ~Refused(lib[r].client), lib[r].state = "live", lib[s].state = "live"
               PROVE  lib[r].number # lib[s].number
    BY DEF OneHandler
  <2>1. Served(r) /\ Served(s)
    BY DEF JInv, Formed, Served, Standing
  <2>. QED
    BY <2>1 DEF JInv, Numbered
<1>3. IInv /\ JInv => Paired
  BY <1>1, <1>2 DEF Paired
<1>. QED
  BY <1>3, InitIInv, NextIInv, InitJInv, NextJInv, PTL DEF Spec
-----------------------------------------------------------------------------
(***************************************************************************)
(* The requests of the remotes and their answers.                          *)
(***************************************************************************)

\* Where the elements of a sequence are once one of them is gone.
LEMMA RemoveAtElements ==
  ASSUME NEW S, NEW s \in Seq(S), NEW i \in DOMAIN s
  PROVE  /\ Len(RemoveAt(s, i)) = Len(s) - 1
         /\ \A j \in 1 .. Len(s) - 1 :
              RemoveAt(s, i)[j] = s[IF j < i THEN j ELSE j + 1]
<1> DEFINE a == SubSeq(s, 1, i - 1)
           b == SubSeq(s, i + 1, Len(s))
<1>1. i \in 1 .. Len(s) /\ Len(s) \in Nat
  OBVIOUS
<1>2. /\ a \in Seq(S) /\ Len(a) = i - 1
      /\ \A j \in 1 .. i - 1 : a[j] = s[j]
  BY <1>1
<1>3. /\ b \in Seq(S) /\ Len(b) = Len(s) - i
      /\ \A j \in 1 .. Len(s) - i : b[j] = s[i + j]
  BY <1>1
<1>4. RemoveAt(s, i) = a \o b
  BY DEF RemoveAt
<1> HIDE DEF a, b
<1>5. Len(a \o b) = Len(s) - 1
  BY <1>1, <1>2, <1>3
<1>6. ASSUME NEW j \in 1 .. Len(s) - 1
      PROVE  (a \o b)[j] = s[IF j < i THEN j ELSE j + 1]
  <2>1. (a \o b)[j] = IF j <= Len(a) THEN a[j] ELSE b[j - Len(a)]
    <3>1. j \in 1 .. Len(a) + Len(b)
      BY <1>1, <1>2, <1>3, <1>6
    <3>. QED
      BY <1>2, <1>3, <3>1
  <2>2. CASE j < i
    BY <1>1, <1>2, <2>1, <2>2
  <2>3. CASE ~(j < i)
    <3>1. j - (i - 1) \in 1 .. Len(s) - i /\ i + (j - (i - 1)) = j + 1
      BY <1>1, <1>6, <2>3
    <3>2. ~(j <= Len(a)) /\ j - Len(a) = j - (i - 1)
      BY <1>1, <1>2, <1>6, <2>3
    <3>3. (a \o b)[j] = b[j - (i - 1)]
      BY <2>1, <3>2
    <3>. QED
      BY <1>3, <2>3, <3>1, <3>3
  <2>. QED
    BY <2>2, <2>3
<1>. QED
  BY <1>4, <1>5, <1>6

LEMMA CallTypes ==
  ASSUME IInv
  PROVE  /\ calls \in Seq(Calls) /\ DOMAIN calls = 1 .. Len(calls) /\ Len(calls) \in Nat
         /\ \A i \in DOMAIN calls :
              /\ calls[i] \in Calls /\ calls[i].client \in Clients /\ calls[i].number \in Nat
              /\ calls[i].req \in Reqs /\ calls[i].handle \in Handles
              /\ calls[i].observe \in Changes
<1>1. calls \in Seq(Calls)
  BY DEF IInv, Shape
<1>2. DOMAIN calls = 1 .. Len(calls) /\ Len(calls) \in Nat /\ \A i \in DOMAIN calls : calls[i] \in Calls
  BY <1>1
<1>. QED
  BY <1>1, <1>2 DEF Calls

\* Every call that is left was there, and each is another one.
LEMMA CallsLeft ==
  ASSUME IInv, NEW i \in DOMAIN calls, calls' = RemoveAt(calls, i)
  PROVE  \A j \in DOMAIN calls' :
           LET k == IF j < i THEN j ELSE j + 1 IN
           k \in DOMAIN calls /\ k # i /\ calls'[j] = calls[k]
<1>1. calls \in Seq(Calls)
  BY DEF IInv, Shape
<1>2. /\ Len(calls') = Len(calls) - 1
      /\ \A j \in 1 .. Len(calls) - 1 : calls'[j] = calls[IF j < i THEN j ELSE j + 1]
  BY <1>1, RemoveAtElements
<1>3. DOMAIN calls' = 1 .. Len(calls) - 1 /\ DOMAIN calls = 1 .. Len(calls)
  <2>1. calls' \in Seq(Calls)
    BY <1>1, RemoveAtType
  <2>. QED
    BY <1>1, <1>2, <2>1
<1>. QED
  BY <1>1, <1>2, <1>3

\* Every other call is left.
LEMMA CallsStay ==
  ASSUME IInv, NEW i \in DOMAIN calls, calls' = RemoveAt(calls, i)
  PROVE  \A k \in DOMAIN calls : k # i => \E j \in DOMAIN calls' : calls'[j] = calls[k]
<1>1. calls \in Seq(Calls) /\ DOMAIN calls = 1 .. Len(calls) /\ Len(calls) \in Nat
  BY CallTypes
<1>2. /\ Len(calls') = Len(calls) - 1
      /\ \A j \in 1 .. Len(calls) - 1 : calls'[j] = calls[IF j < i THEN j ELSE j + 1]
  BY <1>1, RemoveAtElements
<1>3. DOMAIN calls' = 1 .. Len(calls) - 1
  <2>1. calls' \in Seq(Calls)
    BY <1>1, RemoveAtType
  <2>. QED
    BY <1>1, <1>2, <2>1
<1>4. ASSUME NEW k \in DOMAIN calls, k # i
      PROVE  \E j \in DOMAIN calls' : calls'[j] = calls[k]
  <2>1. CASE k < i
    BY <1>1, <1>2, <1>3, <1>4, <2>1
  <2>2. CASE k > i
    <3>1. k - 1 \in 1 .. Len(calls) - 1 /\ ~(k - 1 < i)
      BY <1>1, <1>4, <2>2
    <3>2. calls'[k - 1] = calls[k]
      BY <1>1, <1>2, <3>1
    <3>. QED
      BY <1>3, <3>1, <3>2
  <2>. QED
    BY <1>1, <1>4, <2>1, <2>2
<1>. QED
  BY <1>4

\* A request is on its way once, or one answer is to be sent; either knows
\* the resource it is for.
Single ==
  /\ reqs \in [Reqs -> Handles \cup {Null}] /\ todo \subseteq Answers
  /\ conditions \cap {"reuse", "crash"} = {} =>
       /\ unaware = {}
       /\ \A i, j \in DOMAIN calls : calls[i].req = calls[j].req => i = j
       /\ \A i \in DOMAIN calls, a \in todo : a.req # calls[i].req
       /\ \A a, b \in todo : a.req = b.req => a = b
       /\ \A i \in DOMAIN calls :
            reqs[calls[i].req] \in {calls[i].handle, Null}
       /\ \A a \in todo : reqs[a.req] \in {a.handle, Null}

LEMMA InitSingle == Init => Single
  BY DEF Init, Single

\* Answers go, and with them what IoTivity waits for.
LEMMA FewerAnswers ==
  ASSUME IInv, Single, conditions' = conditions, calls' = calls, unaware' \subseteq unaware,
         todo' \subseteq todo, reqs' \in [Reqs -> Handles \cup {Null}],
         \A q \in Reqs : reqs'[q] \in {reqs[q], Null}
  PROVE  Single'
<1>1. \A i \in DOMAIN calls : calls[i].req \in Reqs
  BY CallTypes
<1>2. \A a \in todo : a.req \in Reqs
  BY DEF Single, Answers
<1>. QED
  BY <1>1, <1>2 DEF Single

LEMMA AnsweredReqs ==
  ASSUME Single, NEW q \in Reqs, NEW allowed, DoResponse(q, allowed)
  PROVE  /\ reqs' \in [Reqs -> Handles \cup {Null}]
         /\ \A p \in Reqs : reqs'[p] \in {reqs[p], Null}
  BY DEF DoResponse, Single

LEMMA RequestSingle ==
  ASSUME IInv, Single, NEW h \in Handles, NEW q \in Reqs, NEW a \in Changes, Request(h, q, a)
  PROVE  Single'
<1>1. conditions' = conditions /\ todo' = todo /\ unaware' = unaware
  BY DEF Request
<1>2. CASE calls' = calls /\ reqs' = reqs
  BY <1>1, <1>2 DEF Single
<1>3. ASSUME NEW e \in entries,
             calls' = Append(calls, [client |-> e.client, number |-> e.number, req |-> q,
                                     handle |-> h, observe |-> a]),
             reqs' = [reqs EXCEPT ![q] = h]
      PROVE  Single'
  <2>1. /\ calls \in Seq(Calls) /\ DOMAIN calls = 1 .. Len(calls) /\ Len(calls) \in Nat
        /\ \A i \in DOMAIN calls : calls[i].req \in Reqs
    BY CallTypes
  <2>2. /\ DOMAIN calls' = 1 .. Len(calls) + 1
        /\ calls'[Len(calls) + 1].req = q /\ calls'[Len(calls) + 1].handle = h
        /\ \A i \in DOMAIN calls : calls'[i] = calls[i]
    BY <1>3, <2>1
  <2>3. \A b \in todo : b.req \in Reqs
    BY DEF Single, Answers
  <2>4. "reuse" \notin conditions =>
          /\ \A b \in todo : b.req # q
          /\ \A i \in DOMAIN calls : calls[i].req # q
    BY DEF Request, FreshReqs
  <2>5. /\ reqs' \in [Reqs -> Handles \cup {Null}] /\ reqs'[q] = h
        /\ \A p \in Reqs : p # q => reqs'[p] = reqs[p]
    BY <1>3 DEF Single
  <2>6. ASSUME conditions \cap {"reuse", "crash"} = {}
        PROVE  /\ \A i, j \in DOMAIN calls' : calls'[i].req = calls'[j].req => i = j
               /\ \A i \in DOMAIN calls', b \in todo : b.req # calls'[i].req
               /\ \A i \in DOMAIN calls' : reqs'[calls'[i].req] \in {calls'[i].handle, Null}
               /\ \A b \in todo : reqs'[b.req] \in {b.handle, Null}
    <3>1. \A i \in DOMAIN calls' : i \in DOMAIN calls \/ i = Len(calls) + 1
      BY <2>1, <2>2
    <3>2. \A i, j \in DOMAIN calls' : calls'[i].req = calls'[j].req => i = j
      BY <2>2, <2>4, <2>6, <3>1 DEF Single
    <3>3. \A i \in DOMAIN calls', b \in todo : b.req # calls'[i].req
      BY <2>2, <2>4, <2>6, <3>1 DEF Single
    <3>4. \A i \in DOMAIN calls' : reqs'[calls'[i].req] \in {calls'[i].handle, Null}
      BY <2>1, <2>2, <2>4, <2>5, <2>6, <3>1 DEF Single
    <3>5. \A b \in todo : reqs'[b.req] \in {b.handle, Null}
      BY <2>3, <2>4, <2>5, <2>6 DEF Single
    <3>. QED
      BY <3>2, <3>3, <3>4, <3>5
  <2>. QED
    BY <1>1, <2>5, <2>6 DEF Single
<1>. QED
  BY <1>2, <1>3 DEF Request

LEMMA DeliverSingle ==
  ASSUME IInv, JInv, Single, NEW i \in DOMAIN calls, Deliver(i)
  PROVE  Single'
<1> DEFINE m == calls[i]
           plain == {r \in Listening(m) : lib[r].kind = "plain"}
           Answer(r) == [client |-> m.client, rsrc |-> r, req |-> m.req, handle |-> m.handle]
<1>1. conditions' = conditions /\ unaware' = unaware
  BY DEF Deliver
<1>2. m \in Calls /\ m.req \in Reqs
  BY CallTypes
<1>3. /\ reqs' \in [Reqs -> Handles \cup {Null}]
      /\ \A p \in Reqs : reqs'[p] \in {reqs[p], Null}
  BY <1>2, AnsweredReqs DEF Deliver
<1>4. /\ todo' = todo \cup {Answer(r) : r \in plain}
      /\ \A r \in plain : /\ Answer(r) \in Answers
                          /\ Answer(r).req = m.req /\ Answer(r).handle = m.handle
  <2>1. plain \subseteq Rsrcs
    BY DEF Listening, ObjectsOf
  <2>2. todo' = todo \cup {Answer(r) : r \in plain}
    BY DEF Deliver
  <2>. QED
    BY <1>2, <2>1, <2>2 DEF Calls, Answers
<1>5. /\ \A j \in DOMAIN calls' :
           LET k == IF j < i THEN j ELSE j + 1 IN
           k \in DOMAIN calls /\ k # i /\ calls'[j] = calls[k]
      /\ DOMAIN calls \subseteq Nat /\ DOMAIN calls' \subseteq Nat
  <2>1. calls' = RemoveAt(calls, i) /\ calls \in Seq(Calls)
    BY DEF Deliver, IInv, Shape
  <2>2. calls' \in Seq(Calls)
    BY <2>1, RemoveAtType
  <2>. QED
    BY <2>1, <2>2, CallsLeft
<1>6. unaware = {} => \A r, s \in plain : r = s
  <2>1. ASSUME unaware = {}, NEW r \in plain
        PROVE  r \in Rsrcs /\ Served(r) /\ lib[r].number = m.number
    BY <2>1 DEF Listening, ObjectsOf, JInv, Formed, Served, Standing
  <2>. QED
    BY <2>1 DEF JInv, Numbered
<1>7. /\ \A j \in DOMAIN calls : calls[j].req \in Reqs
      /\ \A a \in todo : a.req \in Reqs
  BY CallTypes DEF Single, Answers
<1>8. ASSUME conditions \cap {"reuse", "crash"} = {}
      PROVE  /\ unaware = {}
             /\ \A j, k \in DOMAIN calls' : calls'[j].req = calls'[k].req => j = k
             /\ \A j \in DOMAIN calls', a \in todo' : a.req # calls'[j].req
             /\ \A a, b \in todo' : a.req = b.req => a = b
             /\ \A j \in DOMAIN calls' : reqs'[calls'[j].req] \in {calls'[j].handle, Null}
             /\ \A a \in todo' : reqs'[a.req] \in {a.handle, Null}
  <2> DEFINE At(j) == IF j < i THEN j ELSE j + 1
  <2>1. /\ unaware = {}
        /\ \A j, k \in DOMAIN calls : calls[j].req = calls[k].req => j = k
        /\ \A j \in DOMAIN calls, a \in todo : a.req # calls[j].req
        /\ \A a, b \in todo : a.req = b.req => a = b
        /\ \A j \in DOMAIN calls : reqs[calls[j].req] \in {calls[j].handle, Null}
        /\ \A a \in todo : reqs[a.req] \in {a.handle, Null}
    BY <1>8 DEF Single
  <2>2. \A j \in DOMAIN calls' : At(j) \in DOMAIN calls /\ At(j) # i /\ calls'[j] = calls[At(j)]
    BY <1>5
  <2>3. \A j, k \in DOMAIN calls' : calls'[j].req = calls'[k].req => j = k
    <3>1. \A j, k \in DOMAIN calls' : At(j) = At(k) => j = k
      BY <1>5
    <3> HIDE DEF At
    <3>. QED
      BY <2>1, <2>2, <3>1
  <2> HIDE DEF At
  <2>4. \A j \in DOMAIN calls', a \in todo' : a.req # calls'[j].req
    BY <1>4, <2>1, <2>2
  <2>5. \A a, b \in todo' : a.req = b.req => a = b
    <3>1. \A a, b \in {Answer(r) : r \in plain} : a = b
      BY <1>6, <2>1
    <3>2. \A a \in todo, b \in {Answer(r) : r \in plain} : a.req # b.req
      BY <1>4, <2>1
    <3>. QED
      BY <1>4, <2>1, <3>1, <3>2
  <2>6. \A j \in DOMAIN calls' : reqs'[calls'[j].req] \in {calls'[j].handle, Null}
    BY <1>3, <1>7, <2>1, <2>2
  <2>7. \A a \in todo' : reqs'[a.req] \in {a.handle, Null}
    BY <1>2, <1>3, <1>4, <1>7, <2>1
  <2>. QED
    BY <2>1, <2>3, <2>4, <2>5, <2>6, <2>7
<1>9. todo' \subseteq Answers
  BY <1>4 DEF Single
<1>. QED
  BY <1>1, <1>3, <1>8, <1>9 DEF Single

LEMMA NextSingle == IInv /\ JInv /\ Single /\ [Next]_vars => Single'
<1> SUFFICES ASSUME IInv, JInv, Single, [Next]_vars
             PROVE  Single'
  OBVIOUS
<1>1. ASSUME UNCHANGED <<conditions, calls, reqs>>, unaware' \subseteq unaware,
             todo' \subseteq todo
      PROVE  Single'
  BY <1>1, FewerAnswers DEF Single
<1>2. CASE UNCHANGED vars
  BY <1>1, <1>2 DEF vars, requests
<1>3. ASSUME NEW c \in Clients, NEW r \in Rsrcs, NEW kind \in {"plain", "lite"},
             Create(c, r, kind)
      PROVE  Single'
  BY <1>1, <1>3 DEF Create, requests
<1>4. ASSUME NEW r \in Rsrcs, Subscribe(r) \/ Destroy(r) \/ ConnCleanup(r)
      PROVE  Single'
  BY <1>1, <1>4 DEF Subscribe, Destroy, ConnCleanup, requests
<1>5. ASSUME NEW p \in Rsrcs, NEW r \in Rsrcs, BindChild(p, r) \/ UnbindChild(p, r)
      PROVE  Single'
  BY <1>1, <1>5 DEF BindChild, UnbindChild, requests
<1>6. ASSUME NEW a \in todo, Respond(a)
      PROVE  Single'
  <2>1. /\ UNCHANGED <<conditions, calls, unaware>> /\ todo' \subseteq todo
        /\ DoResponse(a.req, ~Refused(a.client))
    BY <1>6 DEF Respond
  <2>2. a.req \in Reqs
    BY DEF Single, Answers
  <2>. QED
    BY <2>1, <2>2, AnsweredReqs, FewerAnswers
<1>7. ASSUME NEW c \in Clients, ClientExit(c) \/ NameOwnerNotify(c) \/ Disconnect(c)
      PROVE  Single'
  BY <1>1, <1>7 DEF ClientExit, NameOwnerNotify, Disconnect, requests
<1>8. ASSUME NEW e \in dying, Cleanup(e)
      PROVE  Single'
  BY <1>1, <1>8 DEF Cleanup, requests
<1>9. CASE DaemonRestart
  <2>1. conditions' = conditions /\ "crash" \in conditions /\ todo' = todo
        /\ reqs' = [q \in Reqs |-> Null]
    BY <1>9 DEF DaemonRestart
  <2>. QED
    BY <2>1 DEF Single
<1>. QED
  BY <1>2, <1>3, <1>4, <1>5, <1>6, <1>7, <1>8, <1>9, RequestSingle, DeliverSingle DEF Next

\* A request under way, and an answer to be sent, are for the application
\* whose object has the resource; and no request that such an object serves
\* is lost.
Unlost ==
  conditions \cap {"reuse", "crash", "early"} = {} =>
    /\ \A i \in DOMAIN calls, r \in Rsrcs :
         Standing(r) /\ lib[r].handle = calls[i].handle =>
           lib[r].client = calls[i].client /\ lib[r].number = calls[i].number
    /\ \A a \in todo, r \in Rsrcs :
         Standing(r) /\ lib[r].handle = a.handle => lib[r].client = a.client
    /\ \A r \in Rsrcs, q \in Reqs :
         Standing(r) /\ reqs[q] = lib[r].handle /\ reqs[q] # Null
           /\ ~Refused(lib[r].client) =>
             \/ \E i \in DOMAIN calls : calls[i].req = q
             \/ \E a \in todo : a.req = q

LEMMA InitUnlost == Init => Unlost
  BY DEF Init, Unlost

\* A step that registers no object and passes no request on keeps it.
LEMMA FewerKept ==
  ASSUME Unlost, Fewer, UNCHANGED requests
  PROVE  Unlost'
  BY DEF Unlost, Fewer, Refused, requests

\* A new object's resource is at an address that no request names.
LEMMA CreateKept ==
  ASSUME IInv, Single, Unlost, NEW c \in Clients, NEW r \in Rsrcs,
         NEW kind \in {"plain", "lite"}, Create(c, r, kind)
  PROVE  Unlost'
<1>1. /\ conditions' = conditions /\ UNCHANGED <<calls, todo, reqs>>
      /\ \A d : Refused(d)' <=> Refused(d)
  BY DEF Create, requests, Refused
<1>2. /\ \A i \in DOMAIN calls : calls[i].handle \in Handles
      /\ \A a \in todo : a.handle \in Handles
      /\ \A q \in Reqs : reqs[q] \in Handles \cup {Null}
  BY CallTypes DEF Single, Answers
<1>3. CASE lib' = lib
  BY <1>1, <1>3 DEF Unlost, Standing
<1>4. CASE /\ lib'[r].handle = Refusal
           /\ \A s \in Rsrcs : s # r => lib'[s] = lib[s]
  BY <1>1, <1>2, <1>4, NullIsNoClient, NullAssumption DEF Unlost, Standing
<1>5. ASSUME NEW h \in FreshHandles, lib'[r].handle = h,
             \A s \in Rsrcs : s # r => lib'[s] = lib[s]
      PROVE  Unlost'
  <2>1. "reuse" \notin conditions =>
          /\ \A i \in DOMAIN calls : calls[i].handle # h
          /\ \A a \in todo : a.handle # h
          /\ \A q \in Reqs : reqs[q] # h
    BY DEF FreshHandles
  <2>. QED
    BY <1>1, <1>5, <2>1 DEF Unlost, Standing
<1>. QED
  BY <1>3, <1>4, <1>5, CreateCases

\* A request goes to the application of the list entry, which is that of the
\* object.
LEMMA RequestKept ==
  ASSUME IInv, Single, Unlost, NEW h \in Handles, NEW q \in Reqs, NEW a \in Changes,
         Request(h, q, a)
  PROVE  Unlost'
<1>1. /\ UNCHANGED <<conditions, lib, todo, entries>>
      /\ oic[h] # Null
  BY ResourcesAssumption DEF Request, daemon, Known
<1>2. CASE calls' = calls /\ reqs' = reqs
  BY <1>1, <1>2 DEF Unlost, Standing, Refused
<1>3. ASSUME NEW e \in entries, e.handle = h,
             calls' = Append(calls, [client |-> e.client, number |-> e.number, req |-> q,
                                     handle |-> h, observe |-> a]),
             reqs' = [reqs EXCEPT ![q] = h],
             conditions \cap {"reuse", "crash", "early"} = {}
      PROVE  Unlost'
  <2>1. calls \in Seq(Calls) /\ DOMAIN calls = 1 .. Len(calls) /\ Len(calls) \in Nat
    BY CallTypes
  <2>2. /\ DOMAIN calls' = DOMAIN calls \cup {Len(calls) + 1}
        /\ \A i \in DOMAIN calls : calls'[i] = calls[i]
        /\ calls'[Len(calls) + 1].client = e.client /\ calls'[Len(calls) + 1].number = e.number
        /\ calls'[Len(calls) + 1].req = q /\ calls'[Len(calls) + 1].handle = h
    BY <1>3, <2>1
  <2>3. \A p \in Reqs : p # q => reqs'[p] = reqs[p]
    BY <1>3 DEF Single
  <2>4. \A r \in Rsrcs : lib[r].handle = h => lib[r].client = e.client /\ lib[r].number = e.number
    BY <1>1, <1>3 DEF IInv, Held, ListsAlive, Unambiguous
  <2>5. \A i \in DOMAIN calls', r \in Rsrcs :
          Standing(r)' /\ lib'[r].handle = calls'[i].handle =>
            lib'[r].client = calls'[i].client /\ lib'[r].number = calls'[i].number
    BY <1>1, <1>3, <2>2, <2>4 DEF Unlost, Standing
  <2>6. \A r \in Rsrcs, p \in Reqs :
          Standing(r)' /\ reqs'[p] = lib'[r].handle /\ reqs'[p] # Null
            /\ ~Refused(lib[r].client)' =>
              \/ \E i \in DOMAIN calls' : calls'[i].req = p
              \/ \E b \in todo' : b.req = p
    <3> SUFFICES ASSUME NEW r \in Rsrcs, NEW p \in Reqs, Standing(r)',
                        reqs'[p] = lib'[r].handle, reqs'[p] # Null, ~Refused(lib[r].client)'
                 PROVE  \/ \E i \in DOMAIN calls' : calls'[i].req = p
                        \/ \E b \in todo' : b.req = p
      OBVIOUS
    <3>1. CASE p = q
      BY <2>2, <3>1
    <3>2. CASE p # q
      <4>1. \/ \E i \in DOMAIN calls : calls[i].req = p
            \/ \E b \in todo : b.req = p
        BY <1>1, <1>3, <2>3, <3>2 DEF Unlost, Standing, Refused
      <4>. QED
        BY <1>1, <2>2, <4>1
    <3>. QED
      BY <3>1, <3>2
  <2>7. \A b \in todo', r \in Rsrcs :
          Standing(r)' /\ lib'[r].handle = b.handle => lib'[r].client = b.client
    BY <1>1, <1>3 DEF Unlost, Standing
  <2>. QED
    BY <2>5, <2>6, <2>7 DEF Unlost
<1>4. ASSUME ~(conditions \cap {"reuse", "crash", "early"} = {})
      PROVE  Unlost'
  BY <1>1, <1>4 DEF Unlost
<1>. QED
  BY <1>2, <1>3, <1>4 DEF Request

\* What is delivered is heard by the object: its subscription is there, for
\* while it is not, the main loop does not run.
LEMMA DeliverKept ==
  ASSUME IInv, Single, Unlost, NEW i \in DOMAIN calls, Deliver(i)
  PROVE  Unlost'
<1> DEFINE m == calls[i]
           plain == {r \in Listening(m) : lib[r].kind = "plain"}
           Answer(r) == [client |-> m.client, rsrc |-> r, req |-> m.req, handle |-> m.handle]
<1>1. Quieter /\ conditions' = conditions
  BY DeliverQuieter DEF Deliver
<1>2. /\ \A r \in Rsrcs : /\ lib'[r].client = lib[r].client /\ lib'[r].handle = lib[r].handle
                          /\ lib'[r].number = lib[r].number
                          /\ Standing(r)' <=> Standing(r)
      /\ \A d : Refused(d)' <=> Refused(d)
  BY <1>1 DEF Quieter, Standing, Refused
<1>3. m.req \in Reqs /\ m.handle \in Handles /\ m.client \in Clients
  BY CallTypes
<1>4. todo' = todo \cup {Answer(r) : r \in plain}
  BY DEF Deliver
<1>5. /\ \A p \in Reqs : reqs'[p] \in {reqs[p], Null}
      /\ AnsweredAtOnce(Listening(m)) /\ ~Refused(m.client) => reqs'[m.req] = Null
  BY <1>3, AnsweredReqs DEF Deliver, DoResponse, Single
<1>6. \A j \in DOMAIN calls' : \E k \in DOMAIN calls : calls'[j] = calls[k]
  BY CallsLeft DEF Deliver
<1>7. \A k \in DOMAIN calls : k # i => \E j \in DOMAIN calls' : calls'[j] = calls[k]
  BY CallsStay DEF Deliver
<1>8. ASSUME conditions \cap {"reuse", "crash", "early"} = {}
      PROVE  /\ \A j \in DOMAIN calls', r \in Rsrcs :
                  Standing(r)' /\ lib'[r].handle = calls'[j].handle =>
                    lib'[r].client = calls'[j].client /\ lib'[r].number = calls'[j].number
             /\ \A a \in todo', r \in Rsrcs :
                  Standing(r)' /\ lib'[r].handle = a.handle => lib'[r].client = a.client
             /\ \A r \in Rsrcs, q \in Reqs :
                  Standing(r)' /\ reqs'[q] = lib'[r].handle /\ reqs'[q] # Null
                    /\ ~Refused(lib[r].client)' =>
                      \/ \E j \in DOMAIN calls' : calls'[j].req = q
                      \/ \E a \in todo' : a.req = q
  <2>1. \A j \in DOMAIN calls', r \in Rsrcs :
          Standing(r)' /\ lib'[r].handle = calls'[j].handle =>
            lib'[r].client = calls'[j].client /\ lib'[r].number = calls'[j].number
    BY <1>2, <1>6, <1>8 DEF Unlost
  <2>2. \A a \in todo', r \in Rsrcs :
          Standing(r)' /\ lib'[r].handle = a.handle => lib'[r].client = a.client
    BY <1>2, <1>4, <1>8 DEF Unlost
  <2>3. ASSUME NEW r \in Rsrcs, NEW q \in Reqs, Standing(r)', reqs'[q] = lib'[r].handle,
               reqs'[q] # Null, ~Refused(lib[r].client)'
        PROVE  \/ \E j \in DOMAIN calls' : calls'[j].req = q
               \/ \E a \in todo' : a.req = q
    <3>1. Standing(r) /\ reqs[q] = lib[r].handle /\ reqs[q] # Null /\ ~Refused(lib[r].client)
      BY <1>2, <1>5, <2>3
    <3>2. \/ \E j \in DOMAIN calls : calls[j].req = q
          \/ \E a \in todo : a.req = q
      BY <1>8, <3>1 DEF Unlost
    <3>3. CASE \E a \in todo : a.req = q
      BY <1>4, <3>3
    <3>4. ASSUME NEW j \in DOMAIN calls, calls[j].req = q, j # i
          PROVE  \E k \in DOMAIN calls' : calls'[k].req = q
      BY <1>7, <3>4
    <3>5. CASE m.req = q
      <4>1. m.handle = lib[r].handle
        BY <1>8, <3>1, <3>5 DEF Single
      <4>2. lib[r].client = m.client /\ lib[r].number = m.number
        BY <1>8, <3>1, <4>1 DEF Unlost
      <4>3. r \in ObjectsOf(m.client) /\ lib[r].state # "registering"
        <5>1. r \in ObjectsOf(m.client)
          BY <4>2 DEF ObjectsOf
        <5>2. ~Blocked(m.client)
          BY <1>8 DEF Deliver
        <5>. QED
          BY <5>1, <5>2 DEF Blocked
      <4>4. r \in Listening(m)
        BY <3>1, <4>2, <4>3 DEF Standing, Listening
      <4>5. lib[r].kind # "lite"
        BY <1>5, <2>3, <3>1, <3>5, <4>2, <4>4 DEF AnsweredAtOnce
      <4>6. lib[r].kind = "plain"
        BY <4>5 DEF IInv, Shape, Objects
      <4>7. Answer(r) \in todo' /\ Answer(r).req = q
        BY <1>4, <3>5, <4>4, <4>6
      <4>. QED
        BY <4>7
    <3>. QED
      BY <3>2, <3>3, <3>4, <3>5
  <2>. QED
    BY <2>1, <2>2, <2>3
<1>. QED
  BY <1>1, <1>8 DEF Unlost

LEMMA NextUnlost ==
  IInv /\ JInv /\ Single /\ Unlost /\ [Next]_vars => Unlost'
<1> SUFFICES ASSUME IInv, JInv, Single, Unlost, [Next]_vars
             PROVE  Unlost'
  OBVIOUS
<1>1. CASE UNCHANGED vars
  <2>1. Fewer /\ UNCHANGED requests
    BY <1>1 DEF vars, Fewer, Standing
  <2>. QED
    BY <2>1, FewerKept
<1>2. ASSUME NEW r \in Rsrcs, Subscribe(r) \/ ConnCleanup(r)
      PROVE  Unlost'
  <2>1. UNCHANGED requests
    BY <1>2 DEF Subscribe, ConnCleanup
  <2>. QED
    BY <1>2, <2>1, SubscribeViews, ConnCleanupViews, FewerKept
<1>3. ASSUME NEW r \in Rsrcs, Destroy(r)
      PROVE  Unlost'
  <2>1. UNCHANGED <<conditions, unaware, requests>> /\ lib[r] \in Objects
    BY <1>3 DEF Destroy, IInv, Shape
  <2>2. lib' \in {lib, [lib EXCEPT ![r] = NoObject], [lib EXCEPT ![r] = Released(@)]}
    BY <1>3 DEF Destroy
  <2>3. \A s \in Rsrcs : lib'[s] = lib[s] \/ lib'[s].state \in {"none", "ending"}
    <3>1. NoObject.state = "none" /\ Released(lib[r]).state = "ending"
      BY <2>1 DEF NoObject, Released, Objects
    <3>2. lib \in [Rsrcs -> Objects]
      BY DEF IInv, Shape
    <3>. QED
      BY <2>2, <3>1, <3>2
  <2>4. Fewer
    BY <2>1, <2>3 DEF Fewer, Standing
  <2>. QED
    BY <2>1, <2>4, FewerKept
<1>4. ASSUME NEW p \in Rsrcs, NEW r \in Rsrcs, BindChild(p, r) \/ UnbindChild(p, r)
      PROVE  Unlost'
  <2>1. UNCHANGED requests
    BY <1>4 DEF BindChild, UnbindChild
  <2>. QED
    BY <1>4, <2>1, BindingQuieter, QuieterViews, FewerKept
<1>5. ASSUME NEW c \in Clients, NameOwnerNotify(c) \/ Disconnect(c)
      PROVE  Unlost'
  <2>1. UNCHANGED requests
    BY <1>5 DEF NameOwnerNotify, Disconnect
  <2>. QED
    BY <1>5, <2>1, UnsubscribedFewer, FewerKept
<1>6. ASSUME NEW e \in dying, Cleanup(e)
      PROVE  Unlost'
  <2>1. Fewer /\ UNCHANGED requests
    BY <1>6 DEF Cleanup, Fewer, Standing
  <2>. QED
    BY <2>1, FewerKept
<1>7. ASSUME NEW c \in Clients, ClientExit(c)
      PROVE  Unlost'
  <2>1. /\ UNCHANGED <<conditions, calls, reqs>>
        /\ todo' = {a \in todo : a.client # c}
        /\ \A r \in Rsrcs : Standing(r)' =>
             Standing(r) /\ lib[r].client # c /\ lib'[r] = lib[r]
    BY <1>7 DEF ClientExit, Standing, NoObject
  <2>2. todo' \subseteq todo /\ \A a \in todo : a.client # c => a \in todo'
    BY <2>1
  <2>3. \A q \in Reqs, a \in todo : reqs[q] # Null /\ a.req = q /\ "reuse" \notin conditions
                                      /\ "crash" \notin conditions => a.handle = reqs[q]
    BY DEF Single
  <2>. QED
    BY <2>1, <2>2, <2>3 DEF Unlost, Refused
<1>8. ASSUME NEW a \in todo, Respond(a)
      PROVE  Unlost'
  <2>1. /\ UNCHANGED <<conditions, lib, calls>>
        /\ todo' \subseteq todo /\ \A b \in todo : b # a => b \in todo'
        /\ DoResponse(a.req, ~Refused(a.client))
    BY <1>8 DEF Respond
  <2>2. a.req \in Reqs
    BY DEF Single, Answers
  <2>3. /\ \A p \in Reqs : reqs'[p] \in {reqs[p], Null}
        /\ ~Refused(a.client) => reqs'[a.req] = Null
    BY <2>1, <2>2, AnsweredReqs DEF DoResponse, Single
  <2>4. \A q \in Reqs : reqs[q] # Null /\ a.req = q /\ "reuse" \notin conditions
                          /\ "crash" \notin conditions => a.handle = reqs[q]
    BY DEF Single
  <2>. QED
    BY <2>1, <2>2, <2>3, <2>4 DEF Unlost, Standing, Refused
<1>9. CASE DaemonRestart
  BY <1>9 DEF DaemonRestart, Unlost
<1>. QED
  BY <1>1, <1>2, <1>3, <1>4, <1>5, <1>6, <1>7, <1>8, <1>9, CreateKept, RequestKept, DeliverKept
  DEF Next

\* A request that waits is never with two who would answer it, even when a
\* response is repeated because its reply was lost; and as long as an object
\* serves its resource, it is with one (_icl_request_handler,
\* iotcon_response_send, icd_ioty_send_response).
THEOREM Answered == Spec => []AnsweredOnce
<1>1. IInv /\ Single /\ Unlost => AnsweredOnce
  <2> SUFFICES ASSUME IInv, Single, Unlost, conditions \cap {"reuse", "crash"} = {},
                      NEW q \in Reqs, reqs[q] # Null
               PROVE  LET U == {i \in DOMAIN calls : calls[i].req = q}
                          A == {a \in todo : a.req = q}
                      IN /\ Cardinality(U) + Cardinality(A) <= 1
                         /\ \A a \in A : a.handle = reqs[q]
                         /\ "early" \notin conditions /\ (\E r \in Rsrcs : Serves(r, reqs[q]))
                              => Cardinality(U) + Cardinality(A) = 1
    BY DEF AnsweredOnce
  <2> DEFINE U == {i \in DOMAIN calls : calls[i].req = q}
             A == {a \in todo : a.req = q}
  <2>1. /\ \A i, j \in U : i = j
        /\ \A a, b \in A : a = b
        /\ U = {} \/ A = {}
        /\ \A a \in A : a.handle = reqs[q]
    BY DEF Single
  <2>2. "early" \notin conditions /\ (\E r \in Rsrcs : Serves(r, reqs[q])) => ~(U = {} /\ A = {})
    BY DEF Unlost, Serves, Standing
  <2>3. ASSUME NEW T, \A x, y \in T : x = y
        PROVE  Cardinality(T) = IF T = {} THEN 0 ELSE 1
    <3>1. CASE T = {}
      BY <3>1, FS_EmptySet
    <3>2. ASSUME NEW x \in T
          PROVE  Cardinality(T) = 1 /\ T # {}
      <4>1. T = {x}
        BY <2>3, <3>2
      <4>. QED
        BY <4>1, FS_Singleton
    <3>. QED
      BY <3>1, <3>2
  <2> HIDE DEF U, A
  <2>4. /\ Cardinality(U) = IF U = {} THEN 0 ELSE 1
        /\ Cardinality(A) = IF A = {} THEN 0 ELSE 1
    BY <2>1, <2>3
  <2>5. /\ Cardinality(U) + Cardinality(A) <= 1
        /\ ~(U = {} /\ A = {}) => Cardinality(U) + Cardinality(A) = 1
    BY <2>1, <2>4
  <2>. QED
    BY <2>1, <2>2, <2>5 DEF U, A
<1>. QED
  BY <1>1, InitIInv, NextIInv, InitJInv, NextJInv, InitSingle, NextSingle, InitUnlost,
     NextUnlost, PTL DEF Spec
-----------------------------------------------------------------------------
(***************************************************************************)
(* The bindings.                                                           *)
(***************************************************************************)

\* A step that only takes away: objects, or resources of IoTivity.
Withdrawal ==
  /\ Fewer
  /\ \A r \in Rsrcs :
       Standing(r)' =>
         /\ lib'[r].children = lib[r].children /\ lib'[r].observers = lib[r].observers
         /\ lib'[r].state = "registering" => lib[r].state = "registering"
  /\ \A h \in Handles : oic'[h] \in {oic[h], Null}

LEMMA ObjectWithdrawn ==
  ASSUME IInv, Fewer, NEW r \in Rsrcs, lib'[r].state # "registering",
         Standing(r)' => /\ lib'[r].children = lib[r].children
                         /\ lib'[r].observers = lib[r].observers,
         \A s \in Rsrcs : s # r => lib'[s] = lib[s],
         \A h \in Handles : oic'[h] \in {oic[h], Null}
  PROVE  Withdrawal
<1>1. \A s \in Rsrcs :
        Standing(s)' =>
          /\ lib'[s].children = lib[s].children /\ lib'[s].observers = lib[s].observers
          /\ lib'[s].state = "registering" => lib[s].state = "registering"
  <2> TAKE s \in Rsrcs
  <2>1. CASE s = r
    BY <2>1
  <2>2. CASE s # r
    BY <2>2
  <2>. QED
    BY <2>1, <2>2
<1>. QED
  BY <1>1 DEF Withdrawal

LEMMA WithdrawnObject ==
  ASSUME IInv, JInv, NEW r \in Rsrcs, Subscribe(r) \/ Destroy(r) \/ ConnCleanup(r)
  PROVE  Withdrawal
<1>1. conditions' = conditions /\ unaware' = unaware /\ lib[r] \in Objects
  BY DEF Subscribe, Destroy, ConnCleanup, IInv, Shape
<1>2. NoObject.state = "none" /\ Released(lib[r]).state = "ending"
  BY <1>1 DEF NoObject, Released, Objects
<1>3. \A s \in Rsrcs : s # r => lib'[s] = lib[s]
  BY DEF Subscribe, Destroy, ConnCleanup, IInv, Shape
<1>4. /\ lib'[r].state # "registering"
      /\ Standing(r)' => /\ lib'[r] = [lib[r] EXCEPT !.state = lib'[r].state]
                         /\ Standing(r)
  <2>1. CASE Subscribe(r)
    BY <1>1, <1>2, <2>1 DEF Subscribe, Standing, IInv, Shape, Objects
  <2>2. CASE Destroy(r)
    <3>1. lib'[r] \in {NoObject, Released(lib[r]), lib[r]}
      BY <2>2 DEF Destroy, IInv, Shape
    <3>2. lib'[r] = lib[r] => lib[r].state # "registering"
      <4>1. CASE lib[r].state = "lost"
        BY <4>1
      <4>2. CASE HasSubId(r)
        BY <4>2 DEF HasSubId
      <4>. QED
        BY <2>2, <4>1, <4>2 DEF Destroy
    <3>. QED
      BY <1>1, <1>2, <3>1, <3>2 DEF Standing, Objects
  <2>3. CASE ConnCleanup(r)
    <3>1. \/ lib'[r] = NoObject
          \/ lib'[r] = [lib[r] EXCEPT !.handle = Null, !.state = "lost"]
      BY <2>3 DEF ConnCleanup, IInv, Shape
    <3>. QED
      BY <1>1, <1>2, <3>1 DEF Standing, Objects
  <2>. QED
    BY <2>1, <2>2, <2>3
<1>5. Fewer
  BY <1>1, <1>3, <1>4 DEF Fewer, Standing, Objects
<1>6. \A h \in Handles : oic'[h] \in {oic[h], Null}
  BY Deleted DEF Subscribe, Destroy, Unregister, ConnCleanup
<1>. QED
  BY <1>1, <1>3, <1>4, <1>5, <1>6, ObjectWithdrawn DEF Objects

LEMMA WithdrawnClient ==
  ASSUME IInv, JInv, NEW c \in Clients, ClientExit(c) \/ NameOwnerNotify(c) \/ Disconnect(c)
  PROVE  Withdrawal
<1>1. conditions' = conditions /\ unaware' = unaware \ {c} /\ oic' = oic
  BY DEF ClientExit, NameOwnerNotify, Disconnect
<1>2. \A r \in Rsrcs : lib[r] \in Objects
  BY DEF IInv, Shape
<1>3. ASSUME NEW r \in Rsrcs, Standing(r)'
      PROVE  lib'[r] = lib[r] /\ lib[r].client # c
  <2>1. CASE ClientExit(c)
    BY <1>3, <2>1 DEF ClientExit, Standing, NoObject
  <2>2. CASE NameOwnerNotify(c) \/ Disconnect(c)
    <3>1. lib' = Unsubscribed(c) /\ ~Blocked(c)
      BY <2>2 DEF NameOwnerNotify, Disconnect
    <3>2. lib[r].client = c => lib[r].state # "registering"
      BY <3>1 DEF Blocked, ObjectsOf
    <3>. QED
      BY <1>2, <1>3, <3>1, <3>2 DEF Unsubscribed, Standing, Objects
  <2>. QED
    BY <2>1, <2>2
<1>. QED
  BY <1>1, <1>3 DEF Withdrawal, Fewer, Standing

LEMMA WithdrawnResources ==
  ASSUME IInv, JInv, DaemonRestart \/ \E e \in dying : Cleanup(e)
  PROVE  Withdrawal
<1>1. conditions' = conditions /\ lib' = lib
  BY DEF DaemonRestart, Cleanup
<1>2. \A h \in Handles : oic'[h] \in {oic[h], Null}
  BY Deleted DEF DaemonRestart, Cleanup
<1>3. \A r \in Rsrcs : Standing(r) /\ lib[r].client \in unaware => lib[r].client \in unaware'
  BY DEF DaemonRestart, Cleanup, JInv, Formed
<1>. QED
  BY <1>1, <1>2, <1>3 DEF Withdrawal, Fewer, Standing

LEMMA WithdrawnNothing ==
  ASSUME UNCHANGED <<conditions, oic, lib, unaware>>
  PROVE  Withdrawal
  BY DEF Withdrawal, Fewer, Standing

\* An object in use names a resource that IoTivity has.
LEMMA ServedKnown ==
  ASSUME IInv, JInv, "lostReply" \notin conditions, Unambiguous, NEW r \in Rsrcs, Served(r)
  PROVE  oic[lib[r].handle] # Null
<1>1. Entry(r) \in entries /\ Entry(r).handle = lib[r].handle
  BY DEF JInv, Entered, Entry
<1>. QED
  BY <1>1 DEF IInv, ListsAlive

LEMMA ServedApart ==
  ASSUME IInv, Unambiguous, NEW r \in Rsrcs, NEW s \in Rsrcs, lib[r].handle \in Handles,
         lib[r].handle = lib[s].handle
  PROVE  r = s
  BY DEF IInv, Held

\* children[] of one object and the children of its resource.
Bound ==
  conditions \cap {"lostReply", "reuse"} = {} =>
    \A p, r \in Rsrcs :
      Served(p) /\ Served(r) /\ lib[p].client = lib[r].client =>
        (r \in lib[p].children <=> lib[r].handle \in oic[lib[p].handle].children)

LEMMA InitBound == Init => Bound
  BY DEF Init, Bound, Served, Standing, NoObject

\* Neither side of any binding changes.
LEMMA SameChildren ==
  ASSUME IInv', JInv', Bound, Fewer,
         \A r \in Rsrcs : Standing(r)' => lib'[r].children = lib[r].children,
         \A h \in Handles : oic'[h] # Null => oic'[h].children = oic[h].children
  PROVE  Bound'
<1> SUFFICES ASSUME conditions \cap {"lostReply", "reuse"} = {},
                    NEW p \in Rsrcs, NEW r \in Rsrcs, Served(p)', Served(r)',
                    lib'[p].client = lib'[r].client
             PROVE  r \in lib'[p].children <=> lib'[r].handle \in oic'[lib'[p].handle].children
  BY DEF Bound, Fewer
<1>1. /\ Served(p) /\ lib'[p].client = lib[p].client /\ lib'[p].handle = lib[p].handle
      /\ Served(r) /\ lib'[r].client = lib[r].client /\ lib'[r].handle = lib[r].handle
  BY FewerServed
<1>2. Unambiguous' /\ conditions' = conditions
  BY DEF Unambiguous, Fewer
<1>3. oic'[lib'[p].handle] # Null /\ lib'[p].handle \in Handles
  <2>1. Entry(p)' \in entries' /\ Entry(p)'.handle = lib'[p].handle
    BY <1>2 DEF JInv, Entered, Entry
  <2>. QED
    BY <1>2, <2>1 DEF IInv, ListsAlive, Served
<1>4. lib'[p].children = lib[p].children
  BY DEF Served
<1>. QED
  BY <1>1, <1>3, <1>4 DEF Bound

LEMMA CreateBound ==
  ASSUME IInv, IInv', JInv, JInv', Bound, NEW c \in Clients, NEW r \in Rsrcs,
         NEW kind \in {"plain", "lite"}, Create(c, r, kind)
  PROVE  Bound'
<1>1. /\ conditions' = conditions /\ unaware' = unaware /\ lib[r].state = "none"
      /\ "reuse" \notin conditions => \A p \in Rsrcs : r \notin lib[p].children
  BY CreateCases DEF Create, FreshObject
<1>2. CASE /\ oic' = oic
           /\ lib'[r].handle = Refusal
           /\ \A s \in Rsrcs : s # r => lib'[s] = lib[s]
  <2>1. \A s \in Rsrcs : Served(s)' => Served(s) /\ lib'[s] = lib[s]
    BY <1>1, <1>2, NullIsNoClient DEF Served, Standing
  <2>. QED
    BY <1>1, <1>2, <2>1 DEF Bound
<1>3. ASSUME NEW h \in FreshHandles, NEW s \in EarlyObservers,
             oic' = [oic EXCEPT ![h] = Resource(c, number, s)]
      PROVE  /\ h \in Handles /\ oic[h] = Null /\ oic'[h].children = {}
             /\ \A k \in Handles : k # h => oic'[k] = oic[k]
             /\ "reuse" \notin conditions =>
                  \A k \in Handles : oic[k] # Null => h \notin oic[k].children
  <2>1. h \in Handles /\ oic[h] = Null
    BY <1>3, FreshHandle
  <2>2. oic'[h] = Resource(c, number, s) /\ \A k \in Handles : k # h => oic'[k] = oic[k]
    BY <1>3, <2>1 DEF IInv, Shape
  <2>3. "reuse" \notin conditions =>
          \A k \in Handles : oic[k] # Null => h \notin oic[k].children
    BY DEF FreshHandles
  <2>. QED
    BY <2>1, <2>2, <2>3 DEF Resource
<1>4. ASSUME "lostReply" \in conditions
      PROVE  Bound'
  BY <1>1, <1>4 DEF Bound
<1>5. ASSUME NEW h \in FreshHandles, NEW s \in EarlyObservers,
             oic' = [oic EXCEPT ![h] = Resource(c, number, s)],
             lib'[r].handle = h, lib'[r].children = {},
             \A q \in Rsrcs : q # r => lib'[q] = lib[q]
      PROVE  Bound'
  <2> SUFFICES ASSUME conditions \cap {"lostReply", "reuse"} = {},
                      NEW p \in Rsrcs, NEW q \in Rsrcs, Served(p)', Served(q)',
                      lib'[p].client = lib'[q].client
               PROVE  q \in lib'[p].children <=> lib'[q].handle \in oic'[lib'[p].handle].children
    BY <1>1 DEF Bound
  <2>1. \A t \in Rsrcs : t # r /\ Served(t)' => Served(t) /\ lib'[t] = lib[t]
    BY <1>1, <1>5 DEF Served, Standing
  <2>2. CASE p = r
    BY <1>3, <1>5, <2>2
  <2>3. CASE p # r
    <3>1. Served(p) /\ lib'[p] = lib[p] /\ lib[p].handle \in Handles /\ Unambiguous
      BY <2>1, <2>3 DEF Served, Unambiguous
    <3>2. oic[lib[p].handle] # Null
      BY <3>1, ServedKnown
    <3>3. oic'[lib[p].handle] = oic[lib[p].handle]
      BY <1>3, <1>5, <3>1, <3>2
    <3>4. CASE q = r
      <4>1. r \notin lib[p].children
        BY <1>1
      <4>2. h \notin oic[lib[p].handle].children
        BY <1>3, <1>5, <3>1, <3>2
      <4>. QED
        BY <1>5, <3>1, <3>3, <3>4, <4>1, <4>2
    <3>5. CASE q # r
      BY <2>1, <3>1, <3>3, <3>5 DEF Bound
    <3>. QED
      BY <3>4, <3>5
  <2>. QED
    BY <2>2, <2>3
<1>. QED
  BY <1>2, <1>4, <1>5, CreateCases

LEMMA BindingBound ==
  ASSUME IInv, IInv', JInv, JInv', Bound, NEW p \in Rsrcs, NEW r \in Rsrcs,
         BindChild(p, r) \/ UnbindChild(p, r)
  PROVE  Bound'
<1> DEFINE hp == lib[p].handle
           hr == lib[r].handle
<1> SUFFICES ASSUME conditions \cap {"lostReply", "reuse"} = {},
                    NEW x \in Rsrcs, NEW y \in Rsrcs, Served(x)', Served(y)',
                    lib'[x].client = lib'[y].client
             PROVE  y \in lib'[x].children <=> lib'[y].handle \in oic'[lib'[x].handle].children
  BY BindingQuieter DEF Bound, Quieter
<1>1. /\ Served(x) /\ lib'[x].client = lib[x].client /\ lib'[x].handle = lib[x].handle
      /\ Served(y) /\ lib'[y].client = lib[y].client /\ lib'[y].handle = lib[y].handle
  BY BindingQuieter, QuieterViews, FewerServed
<1>2. Unambiguous /\ lib[x].handle \in Handles /\ lib[y].handle \in Handles
  BY <1>1 DEF Unambiguous, Served
<1>3. hp \in Handles /\ oic[hp] \in Resources
  <2>1. hp \in Handles /\ oic[hp] # Null
    BY DEF BindChild, UnbindChild, Known
  <2>. QED
    BY <2>1 DEF IInv, Shape
<1>4. y \in lib[x].children <=> lib[y].handle \in oic[lib[x].handle].children
  BY <1>1 DEF Bound
<1>5. (x = p <=> lib[x].handle = hp) /\ (y = r <=> lib[y].handle = hr)
  BY <1>2, ServedApart
<1>6. lib[p] \in Objects /\ Arrivals = {TRUE}
  BY DEF IInv, Shape, Arrivals
<1>7. CASE BindChild(p, r)
  <2>1. lib' = [lib EXCEPT ![p].children = lib[p].children \cup {r}]
    BY <1>6, <1>7 DEF BindChild
  <2>2. lib'[x].children = IF x = p THEN lib[x].children \cup {r} ELSE lib[x].children
    BY <1>6, <2>1 DEF IInv, Shape, Objects
  <2>3. oic'[lib[x].handle].children =
          IF lib[x].handle = hp
          THEN oic[lib[x].handle].children \cup {hr}
          ELSE oic[lib[x].handle].children
    BY <1>2, <1>3, <1>7 DEF BindChild, IInv, Shape, Resources
  <2>. QED
    BY <1>1, <1>4, <1>5, <2>2, <2>3
<1>8. CASE UnbindChild(p, r)
  <2>1. lib' = [lib EXCEPT ![p].children = lib[p].children \ {r}]
    BY <1>6, <1>8 DEF UnbindChild, Emptied
  <2>2. lib'[x].children = IF x = p THEN lib[x].children \ {r} ELSE lib[x].children
    BY <1>6, <2>1 DEF IInv, Shape, Objects
  <2>3. oic'[lib[x].handle].children =
          IF lib[x].handle = hp
          THEN oic[lib[x].handle].children \ {hr}
          ELSE oic[lib[x].handle].children
    BY <1>2, <1>3, <1>8 DEF UnbindChild, IInv, Shape, Resources
  <2>. QED
    BY <1>1, <1>4, <1>5, <2>2, <2>3
<1>. QED
  BY <1>7, <1>8

\* What a request does in IoTivity, and its way to the application.
LEMMA RequestCases ==
  ASSUME IInv, NEW h \in Handles, NEW q \in Reqs, NEW a \in Changes, Request(h, q, a)
  PROVE  /\ conditions' = conditions /\ lib' = lib /\ unaware' = unaware
         /\ entries' = entries /\ number' = number
         /\ oic[h] \in Resources /\ oic'[h] # Null
         /\ oic'[h].children = oic[h].children
         /\ oic'[h].observers = Observing(oic[h].observers, a)
         /\ \A k \in Handles : k # h => oic'[k] = oic[k]
<1>1. oic[h] \in Resources /\ oic[h] # Null
  BY DEF Request, Known, IInv, Shape
<1>2. oic' = [oic EXCEPT ![h].observers = Observing(oic[h].observers, a)]
  BY DEF Request
<1>3. [oic[h] EXCEPT !.observers = Observing(oic[h].observers, a)] \in Resources
  <2>1. oic[h].observers \subseteq Observers
    BY <1>1 DEF Resources
  <2>2. Observing(oic[h].observers, a) \subseteq Observers
    BY <2>1 DEF Observing, Changes, NoChange
  <2>. QED
    BY <1>1, <2>2, OwnerKept
<1>4. oic'[h] # Null
  BY <1>2, <1>3, ResourcesAssumption DEF IInv, Shape
<1>. QED
  BY <1>1, <1>2, <1>4 DEF Request, daemon, IInv, Shape, Resources

LEMMA NextBound ==
  IInv /\ IInv' /\ JInv /\ JInv' /\ Bound /\ [Next]_vars => Bound'
<1> SUFFICES ASSUME IInv, IInv', JInv, JInv', Bound, [Next]_vars
             PROVE  Bound'
  OBVIOUS
<1>1. ASSUME Withdrawal
      PROVE  Bound'
  <2>1. \A h \in Handles : oic'[h] # Null => oic'[h].children = oic[h].children
    BY <1>1 DEF Withdrawal
  <2>. QED
    BY <1>1, <2>1, SameChildren DEF Withdrawal
<1>2. CASE UNCHANGED vars
  BY <1>1, <1>2, WithdrawnNothing DEF vars
<1>3. ASSUME NEW r \in Rsrcs, Subscribe(r) \/ Destroy(r) \/ ConnCleanup(r)
      PROVE  Bound'
  BY <1>1, <1>3, WithdrawnObject
<1>4. ASSUME NEW h \in Handles, NEW q \in Reqs, NEW a \in Changes, Request(h, q, a)
      PROVE  Bound'
  <2>1. /\ UNCHANGED <<conditions, lib, unaware>>
        /\ \A k \in Handles : oic'[k] # Null => oic'[k].children = oic[k].children
    BY <1>4, RequestCases
  <2>2. Fewer /\ \A r \in Rsrcs : Standing(r)' => lib'[r].children = lib[r].children
    BY <2>1 DEF Fewer, Standing
  <2>. QED
    BY <2>1, <2>2, SameChildren
<1>5. ASSUME NEW i \in DOMAIN calls, Deliver(i)
      PROVE  Bound'
  <2>1. oic' = oic
    BY <1>5 DEF Deliver
  <2>2. Fewer
    BY <1>5, DeliverQuieter, QuieterViews
  <2>3. ASSUME NEW r \in Rsrcs
        PROVE  lib'[r].children = lib[r].children
    <3>1. \/ lib'[r] = lib[r]
          \/ lib'[r] = [lib[r] EXCEPT !.observers =
                                    Observed(lib[r].observers, calls[i].observe)]
      BY <1>5 DEF Deliver
    <3>2. lib[r] \in Objects
      BY DEF IInv, Shape
    <3>. QED
      BY <3>1, <3>2 DEF Objects
  <2>. QED
    BY <2>1, <2>2, <2>3, SameChildren
<1>6. ASSUME NEW a \in todo, Respond(a)
      PROVE  Bound'
  BY <1>1, <1>6, WithdrawnNothing DEF Respond
<1>7. ASSUME NEW c \in Clients, ClientExit(c) \/ NameOwnerNotify(c) \/ Disconnect(c)
      PROVE  Bound'
  BY <1>1, <1>7, WithdrawnClient
<1>8. ASSUME DaemonRestart \/ \E e \in dying : Cleanup(e)
      PROVE  Bound'
  BY <1>1, <1>8, WithdrawnResources
<1>. QED
  BY <1>2, <1>3, <1>4, <1>5, <1>6, <1>7, <1>8, CreateBound, BindingBound DEF Next

\* What is in children[] of an object is bound to its resource, and nothing
\* else is; a new object or resource at no address that is still in a list
\* (iotcon_resource_bind_child_resource, iotcon_resource_unbind_child_resource).
THEOREM ChildrenAgree == Spec => []ChildrenBound
<1>1. JInv /\ Bound => ChildrenBound
  <2> SUFFICES ASSUME JInv, Bound, conditions \cap {"lostReply", "reuse"} = {},
                      NEW p \in Rsrcs, NEW r \in Rsrcs,
                      lib[p].state = "live", lib[r].state = "live",
                      {lib[p].handle, lib[r].handle} \subseteq Handles,
                      lib[p].client = lib[r].client, lib[p].client \notin unaware
               PROVE  r \in lib[p].children <=> lib[r].handle \in oic[lib[p].handle].children
    BY DEF ChildrenBound
  <2>. QED
    BY DEF Bound, Served, Standing
<1>. QED
  BY <1>1, InitIInv, NextIInv, InitJInv, NextJInv, InitBound, NextBound, PTL DEF Spec
-----------------------------------------------------------------------------
(***************************************************************************)
(* The observers: what the lib has noted, what is on its way to it, and    *)
(* what IoTivity has.                                                      *)
(***************************************************************************)

\* A number belongs to one resource, and one object.
OneNumber ==
  \A h \in Handles :
    oic[h] # Null =>
      /\ oic[h].number < number
      /\ \A r \in Rsrcs : Served(r) /\ lib[r].number = oic[h].number => lib[r].handle = h

\* A request that is under way is for the object that has its number.
Addressed ==
  Unambiguous =>
    \A i \in DOMAIN calls :
      /\ calls[i].number < number
      /\ \A r \in Rsrcs :
           Served(r) /\ lib[r].client = calls[i].client /\ lib[r].number = calls[i].number
             => lib[r].handle = calls[i].handle

\* The requests under way that change what object r has noted of observer o,
\* and those of them that make it an observer.
Pending(r, o) ==
  {i \in DOMAIN calls :
     /\ calls[i].client = lib[r].client /\ calls[i].number = lib[r].number
     /\ calls[i].observe.type # "none" /\ calls[i].observe.id = o}
Joining(r, o) == {i \in Pending(r, o) : calls[i].observe.type = "register"}

\* Does IoTivity have the observer, as a number.
Has(r, o) == IF o \in oic[lib[r].handle].observers THEN 1 ELSE 0

\* P are the changes under way, Q those that add, n is how often the observer
\* is noted and w whether IoTivity has it: the changes take turns, begin at n
\* and end at w.  A registration that came too early is missing in n.
TakesTurns(P, Q, n, w, c) ==
  /\ P = {} => n <= w /\ ("early" \notin c => n = w)
  /\ \A i \in P : (\A j \in P : i <= j) =>
       /\ i \in Q => n = 0
       /\ i \notin Q /\ "early" \notin c => n = 1
  /\ \A i \in P : (\A j \in P : j <= i) => (i \in Q <=> w = 1)
  /\ \A i, j \in P : i < j /\ (\A k \in P : k <= i \/ j <= k) => (i \in Q <=> j \notin Q)

Traced ==
  InOrder =>
    \A r \in Rsrcs, o \in Observers :
      Served(r) /\ lib[r].kind = "plain" /\ oic[lib[r].handle] # Null =>
        /\ lib[r].observers[o] \in {0, 1}
        /\ lib[r].state = "registering" => lib[r].observers[o] = 0
        /\ TakesTurns(Pending(r, o), Joining(r, o), lib[r].observers[o], Has(r, o), conditions)

\* A lite resource notes nobody.
Unnoted ==
  \A r \in Rsrcs :
    Standing(r) /\ lib[r].kind = "lite" => \A o \in Observers : lib[r].observers[o] = 0

OInv == OneNumber /\ Addressed /\ Traced /\ Unnoted

LEMMA TurnAppended ==
  ASSUME NEW P \in SUBSET Nat, NEW Q \in SUBSET P, NEW n \in {0, 1}, NEW w \in {0, 1}, NEW c,
         TakesTurns(P, Q, n, w, c), NEW m \in Nat, \A i \in P : i < m
  PROVE  /\ w = 0 => TakesTurns(P \cup {m}, Q \cup {m}, n, 1, c)
         /\ w = 1 => TakesTurns(P \cup {m}, Q, n, 0, c)
<1> DEFINE R == IF w = 0 THEN Q \cup {m} ELSE Q
           T == P \cup {m}
<1>1. T # {} /\ m \in T /\ m \notin Q /\ m \notin P /\ T \subseteq Nat
  OBVIOUS
<1>2. ASSUME NEW i \in T, \A j \in T : i <= j
      PROVE  /\ i \in R => n = 0
             /\ i \notin R /\ "early" \notin c => n = 1
  <2>1. CASE i = m
    <3>1. P = {}
      BY <1>2, <2>1
    <3>. QED
      BY <2>1, <3>1 DEF TakesTurns
  <2>2. CASE i # m
    BY <1>2, <2>2 DEF TakesTurns
  <2>. QED
    BY <2>1, <2>2
<1>3. ASSUME NEW i \in T, \A j \in T : j <= i
      PROVE  i \in R <=> w = 0
  BY <1>1, <1>3
<1>4. ASSUME NEW i \in T, NEW j \in T, i < j, \A k \in T : k <= i \/ j <= k
      PROVE  i \in R <=> j \notin R
  <2>1. i \in P
    BY <1>4
  <2>2. CASE j = m
    <3>1. \A k \in P : k <= i
      BY <1>4, <2>2
    <3>2. i \in Q <=> w = 1
      BY <2>1, <3>1 DEF TakesTurns
    <3>. QED
      BY <1>1, <2>1, <2>2, <3>2
  <2>3. CASE j # m
    BY <1>4, <2>1, <2>3 DEF TakesTurns
  <2>. QED
    BY <2>2, <2>3
<1>. QED
  BY <1>1, <1>2, <1>3, <1>4 DEF TakesTurns

\* The first request has been delivered: the others move up.
Up(P) == {i \in Nat : i >= 1 /\ i + 1 \in P}

LEMMA UpMembers ==
  ASSUME NEW P \in SUBSET Nat, 0 \notin P
  PROVE  /\ Up(P) \subseteq Nat
         /\ \A i \in Up(P) : i + 1 \in P /\ i + 1 > 1
         /\ \A j \in P : j # 1 => j - 1 \in Up(P)
  BY DEF Up

LEMMA TurnPassed ==
  ASSUME NEW P \in SUBSET Nat, 0 \notin P, NEW Q \in SUBSET P, NEW n \in {0, 1},
         NEW w \in {0, 1}, NEW c, TakesTurns(P, Q, n, w, c)
  PROVE  /\ 1 \notin P => TakesTurns(Up(P), Up(Q), n, w, c)
         /\ 1 \in P => TakesTurns(Up(P), Up(Q), IF 1 \in Q THEN 1 ELSE 0, w, c)
         /\ 1 \in P /\ "early" \in c => TakesTurns(Up(P), Up(Q), 0, w, c)
<1>1. /\ Up(P) \subseteq Nat
      /\ \A i \in Up(P) : i + 1 \in P /\ i + 1 > 1
      /\ \A j \in P : j # 1 => j - 1 \in Up(P)
      /\ \A i \in Up(P) : i \in Up(Q) <=> i + 1 \in Q
      /\ \A i \in P : i >= 1
  BY UpMembers DEF Up
<1>2. ASSUME NEW i \in Up(P), NEW j \in Up(P), i < j, \A k \in Up(P) : k <= i \/ j <= k
      PROVE  i \in Up(Q) <=> j \notin Up(Q)
  <2>1. \A k \in P : k <= i + 1 \/ j + 1 <= k
    <3> TAKE k \in P
    <3>1. CASE k = 1
      BY <1>1, <3>1
    <3>2. CASE k # 1
      BY <1>1, <1>2, <3>2
    <3>. QED
      BY <3>1, <3>2
  <2>2. i + 1 \in P /\ j + 1 \in P /\ i + 1 < j + 1
    BY <1>1, <1>2
  <2>3. i + 1 \in Q <=> j + 1 \notin Q
    BY <2>1, <2>2 DEF TakesTurns
  <2>. QED
    BY <1>1, <2>3
<1>3. ASSUME NEW i \in Up(P), \A j \in Up(P) : j <= i
      PROVE  i \in Up(Q) <=> w = 1
  <2>1. \A k \in P : k <= i + 1
    <3> TAKE k \in P
    <3>1. CASE k = 1
      BY <1>1, <3>1
    <3>2. CASE k # 1
      BY <1>1, <1>3, <3>2
    <3>. QED
      BY <3>1, <3>2
  <2>2. i + 1 \in Q <=> w = 1
    BY <1>1, <2>1 DEF TakesTurns
  <2>. QED
    BY <1>1, <2>2
<1>4. CASE 1 \notin P
  <2>1. Up(P) = {} => P = {}
    BY <1>1, <1>4
  <2>2. ASSUME NEW i \in Up(P), \A j \in Up(P) : i <= j
        PROVE  /\ i \in Up(Q) => n = 0
               /\ i \notin Up(Q) /\ "early" \notin c => n = 1
    <3>1. \A k \in P : i + 1 <= k
      BY <1>1, <1>4, <2>2
    <3>2. i + 1 \in P
      BY <1>1
    <3>3. /\ i + 1 \in Q => n = 0
          /\ i + 1 \notin Q /\ "early" \notin c => n = 1
      BY <3>1, <3>2 DEF TakesTurns
    <3>. QED
      BY <1>1, <3>3
  <2>3. Up(P) = {} => n <= w /\ ("early" \notin c => n = w)
    BY <2>1 DEF TakesTurns
  <2>. QED
    BY <1>2, <1>3, <1>4, <2>2, <2>3 DEF TakesTurns
<1>5. CASE 1 \in P
  <2>1. Up(P) = {} => (1 \in Q <=> w = 1)
    <3>1. Up(P) = {} => \A k \in P : k <= 1
      BY <1>1
    <3>. QED
      BY <1>5, <3>1 DEF TakesTurns
  <2>2. ASSUME NEW i \in Up(P), \A j \in Up(P) : i <= j
        PROVE  i \in Up(Q) <=> 1 \notin Q
    <3>1. \A k \in P : k <= 1 \/ i + 1 <= k
      BY <1>1, <2>2
    <3>2. i + 1 \in P /\ 1 < i + 1
      BY <1>1
    <3>3. 1 \in Q <=> i + 1 \notin Q
      BY <1>5, <3>1, <3>2 DEF TakesTurns
    <3>. QED
      BY <1>1, <3>3
  <2>. QED
    BY <1>2, <1>3, <1>5, <2>1, <2>2 DEF TakesTurns
<1>. QED
  BY <1>4, <1>5

LEMMA InitOInv == Init => OInv
  BY DEF Init, OInv, OneNumber, Addressed, Traced, Unnoted, Served, Standing, NoObject

LEMMA BindingCases ==
  ASSUME IInv, NEW p \in Rsrcs, NEW r \in Rsrcs, BindChild(p, r) \/ UnbindChild(p, r)
  PROVE  /\ number' = number /\ calls' = calls
         /\ \A h \in Handles : oic'[h] # Null =>
              /\ oic[h] # Null
              /\ oic'[h].number = oic[h].number /\ oic'[h].observers = oic[h].observers
         /\ \A s \in Rsrcs : lib'[s].observers = lib[s].observers
<1>1. number' = number /\ calls' = calls
  BY DEF BindChild, UnbindChild, daemon, requests
<1>2. lib[p].handle \in Handles /\ oic[lib[p].handle] \in Resources /\ oic[lib[p].handle] # Null
  <2>1. lib[p].handle \in Handles /\ oic[lib[p].handle] # Null
    BY DEF BindChild, UnbindChild, Known
  <2>. QED
    BY <2>1 DEF IInv, Shape
<1>3. PICK s, t : /\ oic' = [oic EXCEPT ![lib[p].handle].children = s]
                  /\ lib' \in {lib, [lib EXCEPT ![p].children = t]}
  <2>1. CASE BindChild(p, r)
    BY <2>1 DEF BindChild
  <2>2. CASE UnbindChild(p, r)
    BY <2>2 DEF UnbindChild
  <2>. QED
    BY <2>1, <2>2
<1>4. \A h \in Handles : oic'[h] # Null =>
        /\ oic[h] # Null
        /\ oic'[h].number = oic[h].number /\ oic'[h].observers = oic[h].observers
  BY <1>2, <1>3 DEF IInv, Shape, Resources
<1>5. \A q \in Rsrcs : lib'[q].observers = lib[q].observers
  <2>1. \A q \in Rsrcs : lib[q] \in Objects
    BY DEF IInv, Shape
  <2>2. CASE lib' = [lib EXCEPT ![p].children = t]
    BY <2>1, <2>2 DEF IInv, Shape, Objects
  <2>. QED
    BY <1>3, <2>2
<1>. QED
  BY <1>1, <1>4, <1>5

\* Of the resources the ones that are left keep number and observers, and of
\* the objects those that are left what they have noted.
LEMMA LeftOver ==
  ASSUME IInv, OInv, Fewer, number' = number, calls' = calls,
         \A h \in Handles : oic'[h] # Null =>
           /\ oic[h] # Null
           /\ oic'[h].number = oic[h].number /\ oic'[h].observers = oic[h].observers,
         \A r \in Rsrcs : Standing(r)' =>
           /\ lib'[r].observers = lib[r].observers
           /\ lib'[r].state = "registering" => lib[r].state = "registering"
  PROVE  OInv'
<1>1. \A r \in Rsrcs : Served(r)' =>
        /\ Served(r) /\ lib[r].handle \in Handles /\ lib'[r].handle = lib[r].handle
        /\ lib'[r].client = lib[r].client /\ lib'[r].number = lib[r].number
        /\ lib'[r].kind = lib[r].kind /\ lib'[r].observers = lib[r].observers
        /\ lib'[r].state = "registering" => lib[r].state = "registering"
  BY FewerServed DEF Served
<1>2. conditions' = conditions /\ (Unambiguous' <=> Unambiguous) /\ (InOrder' <=> InOrder)
  BY DEF Fewer, Unambiguous, InOrder
<1>3. OneNumber'
  BY <1>1 DEF OInv, OneNumber
<1>4. Addressed'
  BY <1>1, <1>2 DEF OInv, Addressed
<1>5. Traced'
  <2> SUFFICES ASSUME InOrder, NEW r \in Rsrcs, NEW o \in Observers, Served(r)',
                      lib'[r].kind = "plain", oic'[lib'[r].handle] # Null
               PROVE  /\ lib'[r].observers[o] \in {0, 1}
                      /\ lib'[r].state = "registering" => lib'[r].observers[o] = 0
                      /\ TakesTurns(Pending(r, o)', Joining(r, o)', lib'[r].observers[o],
                                    Has(r, o)', conditions')
    BY <1>2 DEF Traced
  <2>1. Pending(r, o)' = Pending(r, o)
    BY <1>1 DEF Pending
  <2>2. Joining(r, o)' = Joining(r, o)
    BY <2>1 DEF Joining
  <2>3. Has(r, o)' = Has(r, o) /\ oic[lib[r].handle] # Null
    BY <1>1 DEF Has
  <2>. QED
    BY <1>1, <1>2, <2>1, <2>2, <2>3 DEF OInv, Traced
<1>6. Unnoted'
  BY DEF OInv, Unnoted, Fewer
<1>. QED
  BY <1>3, <1>4, <1>5, <1>6 DEF OInv

LEMMA WithdrawalOInv ==
  ASSUME IInv, OInv, Withdrawal, number' = number, calls' = calls
  PROVE  OInv'
<1>1. \A h \in Handles : oic'[h] # Null =>
        /\ oic[h] # Null
        /\ oic'[h].number = oic[h].number /\ oic'[h].observers = oic[h].observers
  BY DEF Withdrawal
<1>. QED
  BY <1>1, LeftOver DEF Withdrawal

LEMMA DaemonRestartOInv ==
  ASSUME IInv, JInv, OInv, DaemonRestart
  PROVE  OInv'
<1>1. /\ lib' = lib /\ calls' = <<>> /\ \A h \in Handles : oic'[h] = Null
      /\ unaware' = Clients
  BY DEF DaemonRestart
<1>2. \A r \in Rsrcs : Served(r)' => lib'[r].handle \in Handles
  BY DEF Served
<1>. QED
  BY <1>1, <1>2 DEF OInv, OneNumber, Addressed, Traced, Unnoted, Standing

LEMMA CreateOInv ==
  ASSUME IInv, JInv, OInv, NEW c \in Clients, NEW r \in Rsrcs,
         NEW kind \in {"plain", "lite"}, Create(c, r, kind)
  PROVE  OInv'
<1>1. /\ conditions' = conditions /\ unaware' = unaware /\ calls' = calls
      /\ lib[r].state = "none" /\ number \in Nat
      /\ \A i \in DOMAIN calls : calls[i].number \in Nat
      /\ \A h \in Handles : oic[h] # Null => oic[h].number \in Nat
  BY CreateCases, CallTypes DEF IInv, Shape, Resources
<1>2. (Unambiguous' <=> Unambiguous) /\ (InOrder' <=> InOrder) /\ (InOrder => Unambiguous)
  BY <1>1 DEF Unambiguous, InOrder
\* The objects that were there.
<1>3. ASSUME \A q \in Rsrcs : q # r => lib'[q] = lib[q],
             \A k \in Handles, q \in Rsrcs :
               Unambiguous /\ q # r /\ lib[q].handle = k => oic'[k] = oic[k]
      PROVE  /\ \A q \in Rsrcs : q # r /\ Served(q)' => Served(q) /\ lib'[q] = lib[q]
             /\ InOrder => \A q \in Rsrcs, o \in Observers :
                  /\ q # r /\ Served(q)' /\ lib'[q].kind = "plain"
                  /\ oic'[lib'[q].handle] # Null
                  => /\ lib'[q].observers[o] \in {0, 1}
                     /\ lib'[q].state = "registering" => lib'[q].observers[o] = 0
                     /\ TakesTurns(Pending(q, o)', Joining(q, o)', lib'[q].observers[o],
                                   Has(q, o)', conditions')
  <2>1. ASSUME NEW q \in Rsrcs, q # r, Served(q)'
        PROVE  Served(q) /\ lib'[q] = lib[q] /\ lib[q].handle \in Handles
    BY <1>1, <1>3, <2>1 DEF Served, Standing
  <2>2. ASSUME InOrder, NEW q \in Rsrcs, NEW o \in Observers, q # r, Served(q)',
               lib'[q].kind = "plain", oic'[lib'[q].handle] # Null
        PROVE  /\ lib'[q].observers[o] \in {0, 1}
               /\ lib'[q].state = "registering" => lib'[q].observers[o] = 0
               /\ TakesTurns(Pending(q, o)', Joining(q, o)', lib'[q].observers[o],
                             Has(q, o)', conditions')
    <3>1. Served(q) /\ lib'[q] = lib[q] /\ lib[q].handle \in Handles
      BY <2>1, <2>2
    <3>2. oic'[lib[q].handle] = oic[lib[q].handle]
      BY <1>2, <1>3, <2>2, <3>1
    <3>3. Pending(q, o)' = Pending(q, o)
      BY <1>1, <3>1 DEF Pending
    <3>4. Joining(q, o)' = Joining(q, o)
      BY <1>1, <3>3 DEF Joining
    <3>5. Has(q, o)' = Has(q, o)
      BY <3>1, <3>2 DEF Has
    <3>. QED
      BY <1>1, <2>2, <3>1, <3>2, <3>3, <3>4, <3>5 DEF OInv, Traced
  <2>. QED
    BY <2>1, <2>2
<1>4. CASE /\ oic' = oic /\ number' = number
           /\ lib'[r].handle = Refusal
           /\ lib'[r].observers = [o \in Observers |-> 0]
           /\ \A q \in Rsrcs : q # r => lib'[q] = lib[q]
  <2>1. ~Served(r)'
    BY <1>4, NullIsNoClient DEF Served
  <2>2. \A q \in Rsrcs : Served(q)' => Served(q) /\ lib'[q] = lib[q]
    BY <1>3, <1>4, <2>1
  <2>3. OneNumber'
    BY <1>4, <2>2 DEF OInv, OneNumber
  <2>4. Addressed'
    BY <1>1, <1>2, <1>4, <2>2 DEF OInv, Addressed
  <2>5. Traced'
    BY <1>2, <1>3, <1>4, <2>1 DEF Traced
  <2>6. Unnoted'
    BY <1>4 DEF OInv, Unnoted, Standing
  <2>. QED
    BY <2>3, <2>4, <2>5, <2>6 DEF OInv
<1>5. ASSUME NEW h \in FreshHandles, NEW s \in EarlyObservers,
             oic' = [oic EXCEPT ![h] = Resource(c, number, s)],
             number' = number + 1,
             \/ lib' = lib
             \/ /\ lib'[r].handle = h /\ lib'[r].number = number
                /\ lib'[r].observers = [o \in Observers |-> 0]
                /\ \A q \in Rsrcs : q # r => lib'[q] = lib[q]
      PROVE  OInv'
  <2>1. /\ h \in Handles /\ oic'[h] = Resource(c, number, s)
        /\ oic'[h].number = number /\ oic'[h].observers = s
        /\ \A k \in Handles : k # h => oic'[k] = oic[k]
        /\ Unambiguous => \A q \in Rsrcs : lib[q].handle # h
    <3>1. h \in Handles /\ (Unambiguous => \A q \in Rsrcs : lib[q].handle # h)
      BY FreshHandle
    <3>2. oic'[h] = Resource(c, number, s) /\ \A k \in Handles : k # h => oic'[k] = oic[k]
      BY <1>5, <3>1 DEF IInv, Shape
    <3>. QED
      BY <3>1, <3>2 DEF Resource
  <2>2. \A q \in Rsrcs : q # r => lib'[q] = lib[q]
    BY <1>5
  <2>3. \A k \in Handles, q \in Rsrcs :
          Unambiguous /\ q # r /\ lib[q].handle = k => oic'[k] = oic[k]
    BY <2>1
  <2>4. Served(r)' => /\ lib'[r].handle = h /\ lib'[r].number = number
                      /\ lib'[r].observers = [o \in Observers |-> 0]
    BY <1>1, <1>5 DEF Served, Standing
  <2>5. \A q \in Rsrcs : q # r /\ Served(q)' => Served(q) /\ lib'[q] = lib[q]
    BY <1>3, <2>2, <2>3
  <2>6. \A q \in Rsrcs : Served(q) => lib[q].number < number /\ lib[q].number \in Nat
    BY DEF JInv, Numbered, IInv, Shape, Objects
  <2>7. OneNumber'
    <3> SUFFICES ASSUME NEW k \in Handles, oic'[k] # Null
                 PROVE  /\ oic'[k].number < number'
                        /\ \A q \in Rsrcs :
                             Served(q)' /\ lib'[q].number = oic'[k].number => lib'[q].handle = k
      BY DEF OneNumber
    <3>1. CASE k = h
      <4>1. \A q \in Rsrcs : q # r /\ Served(q)' => lib'[q].number # number
        BY <1>1, <2>5, <2>6
      <4>. QED
        BY <1>1, <1>5, <2>1, <2>4, <3>1, <4>1
    <3>2. CASE k # h
      <4>1. oic'[k] = oic[k] /\ oic[k].number < number /\ oic[k].number \in Nat
        BY <1>1, <2>1, <3>2 DEF OInv, OneNumber
      <4>. QED
        BY <1>1, <1>5, <2>4, <2>5, <4>1 DEF OInv, OneNumber
    <3>. QED
      BY <3>1, <3>2
  <2>8. Addressed'
    <3> SUFFICES ASSUME Unambiguous, NEW i \in DOMAIN calls
                 PROVE  /\ calls[i].number < number + 1
                        /\ \A q \in Rsrcs :
                             /\ Served(q)' /\ lib'[q].client = calls[i].client
                             /\ lib'[q].number = calls[i].number
                             => lib'[q].handle = calls[i].handle
      BY <1>1, <1>2, <1>5 DEF Addressed
    <3>1. calls[i].number < number /\ calls[i].number \in Nat
      BY <1>1 DEF OInv, Addressed
    <3>. QED
      BY <1>1, <2>4, <2>5, <3>1 DEF OInv, Addressed
  <2>9. Traced'
    <3>1. ASSUME InOrder, NEW o \in Observers, Served(r)'
          PROVE  /\ lib'[r].observers[o] = 0
                 /\ TakesTurns(Pending(r, o)', Joining(r, o)', lib'[r].observers[o],
                               Has(r, o)', conditions')
      <4>1. lib'[r].observers[o] = 0 /\ lib'[r].number = number /\ lib'[r].handle = h
        BY <2>4, <3>1
      <4>2. \A i \in DOMAIN calls : calls[i].number < number
        BY <1>2, <3>1 DEF OInv, Addressed
      <4>3. Pending(r, o)' = {}
        BY <1>1, <4>1, <4>2 DEF Pending
      <4>4. "early" \notin conditions => s = {}
        BY DEF EarlyObservers
      <4>5. Has(r, o)' \in {0, 1} /\ ("early" \notin conditions => Has(r, o)' = 0)
        BY <2>1, <4>1, <4>4 DEF Has
      <4>. QED
        BY <1>1, <4>1, <4>3, <4>5 DEF TakesTurns
    <3>2. ASSUME InOrder, NEW q \in Rsrcs, NEW o \in Observers, Served(q)',
                 lib'[q].kind = "plain", oic'[lib'[q].handle] # Null
          PROVE  /\ lib'[q].observers[o] \in {0, 1}
                 /\ lib'[q].state = "registering" => lib'[q].observers[o] = 0
                 /\ TakesTurns(Pending(q, o)', Joining(q, o)', lib'[q].observers[o],
                               Has(q, o)', conditions')
      <4>1. CASE q = r
        BY <3>1, <3>2, <4>1
      <4>2. CASE q # r
        BY <1>3, <2>2, <2>3, <3>2, <4>2
      <4>. QED
        BY <4>1, <4>2
    <3>. QED
      BY <1>2, <3>2 DEF Traced
  <2>10. Unnoted'
    BY <1>1, <1>5 DEF OInv, Unnoted, Standing
  <2>. QED
    BY <2>7, <2>8, <2>9, <2>10 DEF OInv
<1>. QED
  BY <1>4, <1>5, CreateCases

\* The entry of an object whose resource IoTivity has.
LEMMA ServedEntry ==
  ASSUME IInv, JInv, InOrder, NEW r \in Rsrcs, Served(r), oic[lib[r].handle] # Null
  PROVE  /\ \E e \in entries : e.handle = lib[r].handle
         /\ \A e \in entries : e.handle = lib[r].handle =>
              e.client = lib[r].client /\ e.number = lib[r].number
<1>1. /\ Unambiguous /\ lib[r].handle \in Handles
      /\ oic[lib[r].handle].client = lib[r].client
      /\ oic[lib[r].handle].number = lib[r].number
  BY DEF IInv, Held, InOrder, Served
<1>2. \A e \in entries : e.handle = lib[r].handle =>
        e.client = lib[r].client /\ e.number = lib[r].number
  BY <1>1 DEF IInv, ListsAlive
<1>3. \E e \in entries : e.handle = lib[r].handle
  <2>1. CASE "lostReply" \notin conditions
    BY <1>1, <2>1 DEF JInv, Entered, Entry
  <2>2. CASE "denied" \notin conditions
    <3>1. PICK e \in entries \cup dying :
            e.handle = lib[r].handle /\ e.client = oic[lib[r].handle].client
      BY <1>1, <2>2 DEF IInv, Listed, Refused
    <3>2. e \notin dying
      BY <1>1, <3>1 DEF IInv, Gone
    <3>. QED
      BY <3>1, <3>2
  <2>. QED
    BY <2>1, <2>2 DEF InOrder
<1>. QED
  BY <1>2, <1>3

LEMMA PendingTypes ==
  ASSUME IInv, NEW r \in Rsrcs, NEW o \in Observers
  PROVE  /\ Pending(r, o) \in SUBSET Nat /\ 0 \notin Pending(r, o)
         /\ \A i \in Pending(r, o) : i < Len(calls) + 1
         /\ Joining(r, o) \in SUBSET Pending(r, o)
         /\ Has(r, o) \in {0, 1}
  BY CallTypes DEF Pending, Joining, Has

\* Is the request about what object r has noted of observer o?
Concerns(m, r, o) ==
  /\ m.client = lib[r].client /\ m.number = lib[r].number
  /\ m.observe.type # "none" /\ m.observe.id = o

LEMMA PendingAppended ==
  ASSUME IInv, NEW m, calls' = Append(calls, m), lib' = lib, NEW r \in Rsrcs, NEW o \in Observers
  PROVE  LET n == Len(calls) + 1 IN
         /\ ~Concerns(m, r, o) =>
              Pending(r, o)' = Pending(r, o) /\ Joining(r, o)' = Joining(r, o)
         /\ Concerns(m, r, o) =>
              /\ Pending(r, o)' = Pending(r, o) \cup {n}
              /\ Joining(r, o)' = IF m.observe.type = "register"
                                  THEN Joining(r, o) \cup {n}
                                  ELSE Joining(r, o)
<1> DEFINE n == Len(calls) + 1
<1>1. calls \in Seq(Calls) /\ DOMAIN calls = 1 .. Len(calls) /\ Len(calls) \in Nat
  BY CallTypes
<1>2. /\ DOMAIN calls' = DOMAIN calls \cup {n} /\ n \notin DOMAIN calls
      /\ calls'[n] = m /\ \A i \in DOMAIN calls : calls'[i] = calls[i]
  BY <1>1
<1> HIDE DEF n
<1>3. CASE ~Concerns(m, r, o)
  <2>1. Pending(r, o)' = Pending(r, o)
    BY <1>2, <1>3 DEF Pending, Concerns
  <2>2. Joining(r, o)' = Joining(r, o)
    BY <1>2, <2>1 DEF Joining, Pending
  <2>. QED
    BY <1>3, <2>1, <2>2
<1>4. CASE Concerns(m, r, o)
  <2>1. Pending(r, o)' = Pending(r, o) \cup {n}
    BY <1>2, <1>4 DEF Pending, Concerns
  <2>2. Joining(r, o)' = IF m.observe.type = "register"
                         THEN Joining(r, o) \cup {n}
                         ELSE Joining(r, o)
    BY <1>2, <2>1 DEF Joining, Pending
  <2>. QED
    BY <1>4, <2>1, <2>2 DEF n
<1>. QED
  BY <1>3, <1>4 DEF n

LEMMA RequestAddressed ==
  ASSUME IInv, IInv', JInv, OInv, NEW h \in Handles, NEW q \in Reqs, NEW a \in Changes,
         Request(h, q, a)
  PROVE  OneNumber' /\ Addressed' /\ Unnoted'
<1>1. /\ conditions' = conditions /\ lib' = lib /\ unaware' = unaware /\ number' = number
      /\ (Unambiguous' <=> Unambiguous)
  BY RequestCases DEF Unambiguous
<1>2. \A r \in Rsrcs : Served(r)' <=> Served(r)
  BY <1>1 DEF Served, Standing
<1>3. \A k \in Handles : oic'[k] # Null => oic[k] # Null /\ oic'[k].number = oic[k].number
  <2>1. oic' = [oic EXCEPT ![h].observers = Observing(oic[h].observers, a)]
    BY DEF Request
  <2>2. oic[h] \in Resources /\ oic[h] # Null
    BY RequestCases, ResourcesAssumption
  <2>. QED
    BY <2>1, <2>2 DEF IInv, Shape, Resources
<1>4. OneNumber'
  BY <1>1, <1>2, <1>3 DEF OInv, OneNumber
<1>5. Addressed'
  <2>1. CASE calls' = calls
    BY <1>1, <1>2, <2>1 DEF OInv, Addressed
  <2>2. ASSUME NEW e \in entries, e.handle = h,
               calls' = Append(calls, [client |-> e.client, number |-> e.number, req |-> q,
                                       handle |-> h, observe |-> a])
        PROVE  Addressed'
    <3> DEFINE m == [client |-> e.client, number |-> e.number, req |-> q,
                     handle |-> h, observe |-> a]
    <3>1. Unambiguous =>
            /\ m.number < number
            /\ \A r \in Rsrcs :
                 Served(r) /\ lib[r].client = m.client /\ lib[r].number = m.number
                   => lib[r].handle = m.handle
      <4>1. Unambiguous => oic[h] # Null /\ oic[h].number = e.number
        BY <2>2 DEF IInv, ListsAlive
      <4>. QED
        BY <4>1 DEF OInv, OneNumber
    <3>2. calls \in Seq(Calls) /\ DOMAIN calls = 1 .. Len(calls) /\ Len(calls) \in Nat
      BY CallTypes
    <3> HIDE DEF m
    <3>3. \A i \in DOMAIN calls' : (i \in DOMAIN calls /\ calls'[i] = calls[i]) \/ calls'[i] = m
      BY <2>2, <3>2 DEF m
    <3>. QED
      BY <1>1, <1>2, <3>1, <3>3 DEF OInv, Addressed
  <2>. QED
    BY <2>1, <2>2 DEF Request
<1>6. Unnoted'
  BY <1>1 DEF OInv, Unnoted, Standing
<1>. QED
  BY <1>4, <1>5, <1>6

LEMMA RequestTraced ==
  ASSUME IInv, IInv', JInv, OInv, NEW h \in Handles, NEW q \in Reqs, NEW a \in Changes,
         Request(h, q, a)
  PROVE  Traced'
<1>1. /\ conditions' = conditions /\ lib' = lib /\ unaware' = unaware
      /\ (InOrder' <=> InOrder) /\ (InOrder => Unambiguous)
      /\ oic'[h].observers = Observing(oic[h].observers, a)
      /\ \A k \in Handles : k # h => oic'[k] = oic[k]
      /\ oic[h] # Null
  BY RequestCases, ResourcesAssumption DEF Unambiguous, InOrder
<1> SUFFICES ASSUME InOrder, NEW r \in Rsrcs, NEW o \in Observers, Served(r)',
                    lib[r].kind = "plain", oic'[lib[r].handle] # Null
             PROVE  /\ lib[r].observers[o] \in {0, 1}
                    /\ lib[r].state = "registering" => lib[r].observers[o] = 0
                    /\ TakesTurns(Pending(r, o)', Joining(r, o)', lib[r].observers[o],
                                  Has(r, o)', conditions)
  BY <1>1 DEF Traced
<1>2. Served(r) /\ lib[r].handle \in Handles /\ oic[lib[r].handle] # Null
  BY <1>1 DEF Served, Standing
<1>3. /\ lib[r].observers[o] \in {0, 1}
      /\ lib[r].state = "registering" => lib[r].observers[o] = 0
      /\ TakesTurns(Pending(r, o), Joining(r, o), lib[r].observers[o], Has(r, o), conditions)
  BY <1>2 DEF OInv, Traced
<1>4. /\ \E e \in entries : e.handle = lib[r].handle
      /\ \A e \in entries : e.handle = lib[r].handle =>
           e.client = lib[r].client /\ e.number = lib[r].number
  BY <1>2, ServedEntry
<1>5. ASSUME Pending(r, o)' = Pending(r, o), Joining(r, o)' = Joining(r, o),
             Has(r, o)' = Has(r, o)
      PROVE  TakesTurns(Pending(r, o)', Joining(r, o)', lib[r].observers[o],
                        Has(r, o)', conditions)
  BY <1>3, <1>5
<1>6. CASE calls' = calls /\ \A e \in entries : e.handle # h
  <2>1. lib[r].handle # h
    BY <1>4, <1>6
  <2>2. Pending(r, o)' = Pending(r, o) /\ Joining(r, o)' = Joining(r, o)
    BY <1>1, <1>6 DEF Pending, Joining
  <2>3. Has(r, o)' = Has(r, o)
    BY <1>1, <1>2, <2>1 DEF Has
  <2>. QED
    BY <1>3, <1>5, <2>2, <2>3
<1>7. ASSUME NEW e \in entries, e.handle = h,
             calls' = Append(calls, [client |-> e.client, number |-> e.number, req |-> q,
                                     handle |-> h, observe |-> a])
      PROVE  TakesTurns(Pending(r, o)', Joining(r, o)', lib[r].observers[o],
                        Has(r, o)', conditions)
  <2> DEFINE m == [client |-> e.client, number |-> e.number, req |-> q,
                   handle |-> h, observe |-> a]
             n == Len(calls) + 1
  <2>1. m.client = e.client /\ m.number = e.number /\ m.observe = a /\ calls' = Append(calls, m)
    BY <1>7
  <2>2. oic[h].number = e.number
    BY <1>1, <1>7 DEF IInv, ListsAlive
  <2> HIDE DEF m
  <2>3. CASE lib[r].handle # h
    <3>1. ~Concerns(m, r, o)
      BY <1>1, <1>2, <2>1, <2>2, <2>3 DEF OInv, OneNumber, Concerns
    <3>2. Pending(r, o)' = Pending(r, o) /\ Joining(r, o)' = Joining(r, o)
      BY <1>1, <2>1, <3>1, PendingAppended
    <3>3. Has(r, o)' = Has(r, o)
      BY <1>1, <1>2, <2>3 DEF Has
    <3>. QED
      BY <1>5, <3>2, <3>3
  <2>4. CASE lib[r].handle = h
    <3>1. m.client = lib[r].client /\ m.number = lib[r].number
      BY <1>4, <1>7, <2>1, <2>4
    <3>2. Has(r, o)' = IF o \in Observing(oic[h].observers, a) THEN 1 ELSE 0
      BY <1>1, <2>4 DEF Has
    <3>3. Has(r, o) = IF o \in oic[h].observers THEN 1 ELSE 0
      BY <2>4 DEF Has
    <3>4. CASE a.type = "none" \/ a.id # o
      <4>1. ~Concerns(m, r, o)
        BY <2>1, <3>4 DEF Concerns
      <4>2. Pending(r, o)' = Pending(r, o) /\ Joining(r, o)' = Joining(r, o)
        BY <1>1, <2>1, <4>1, PendingAppended
      <4>3. Has(r, o)' = Has(r, o)
        BY <3>2, <3>3, <3>4 DEF Observing
      <4>. QED
        BY <1>5, <4>2, <4>3
    <3>5. ASSUME a.type = "register" \/ a.type = "deregister", a.id = o
          PROVE  TakesTurns(Pending(r, o)', Joining(r, o)', lib[r].observers[o],
                            Has(r, o)', conditions)
      <4>1. Concerns(m, r, o)
        BY <2>1, <3>1, <3>5 DEF Concerns
      <4>2. /\ Pending(r, o)' = Pending(r, o) \cup {n}
            /\ Joining(r, o)' = IF a.type = "register"
                                THEN Joining(r, o) \cup {n}
                                ELSE Joining(r, o)
        BY <1>1, <2>1, <4>1, PendingAppended
      <4>3. /\ Pending(r, o) \in SUBSET Nat /\ \A i \in Pending(r, o) : i < n
            /\ Joining(r, o) \in SUBSET Pending(r, o) /\ Has(r, o) \in {0, 1} /\ n \in Nat
        BY PendingTypes, CallTypes
      <4>4. IF a.type = "register"
            THEN Has(r, o) = 0 /\ Has(r, o)' = 1
            ELSE Has(r, o) = 1 /\ Has(r, o)' = 0
        <5>1. a \in ChangesAt(h)
          BY DEF Request
        <5>2. CASE a.type = "register"
          <6>1. o \in FreshObservers
            BY <3>5, <5>1, <5>2 DEF ChangesAt, NoChange
          <6>2. o \notin oic[h].observers
            BY <1>1, <6>1 DEF FreshObservers
          <6>. QED
            BY <3>2, <3>3, <3>5, <5>2, <6>2 DEF Observing
        <5>3. CASE a.type = "deregister"
          <6>1. o \in oic[h].observers
            BY <3>5, <5>1, <5>3 DEF ChangesAt, NoChange
          <6>. QED
            BY <3>2, <3>3, <3>5, <5>3, <6>1 DEF Observing
        <5>. QED
          BY <3>5, <5>2, <5>3
      <4> HIDE DEF n
      <4> DEFINE P == Pending(r, o)
                 Q == Joining(r, o)
                 w == Has(r, o)
                 noted == lib[r].observers[o]
      <4>5. /\ P \in SUBSET Nat /\ Q \in SUBSET P /\ noted \in {0, 1} /\ w \in {0, 1}
            /\ TakesTurns(P, Q, noted, w, conditions)
            /\ n \in Nat /\ \A i \in P : i < n
        BY <1>3, <4>3
      <4>6. CASE a.type = "register"
        <5>1. /\ w = 0 /\ Pending(r, o)' = P \cup {n} /\ Joining(r, o)' = Q \cup {n}
              /\ Has(r, o)' = 1
          BY <4>2, <4>4, <4>6
        <5> HIDE DEF P, Q, w, noted
        <5>2. TakesTurns(P \cup {n}, Q \cup {n}, noted, 1, conditions)
          BY <4>5, <5>1, TurnAppended
        <5>. QED
          BY <5>1, <5>2 DEF noted
      <4>7. CASE a.type # "register"
        <5>1. /\ w = 1 /\ Pending(r, o)' = P \cup {n} /\ Joining(r, o)' = Q
              /\ Has(r, o)' = 0
          BY <4>2, <4>4, <4>7
        <5> HIDE DEF P, Q, w, noted
        <5>2. TakesTurns(P \cup {n}, Q, noted, 0, conditions)
          BY <4>5, <5>1, TurnAppended
        <5>. QED
          BY <5>1, <5>2 DEF noted
      <4>. QED
        BY <4>6, <4>7
    <3>. QED
      BY <3>4, <3>5 DEF Changes, NoChange
  <2>. QED
    BY <2>3, <2>4
<1>8. "noWorker" \notin conditions
  BY DEF InOrder
<1>. QED
  BY <1>3, <1>6, <1>7, <1>8 DEF Request

\* The first request is delivered: the others are still to come.
LEMMA PendingPassed ==
  ASSUME IInv, Quieter, 1 \in DOMAIN calls, calls' = RemoveAt(calls, 1),
         NEW r \in Rsrcs, NEW o \in Observers
  PROVE  Pending(r, o)' = Up(Pending(r, o)) /\ Joining(r, o)' = Up(Joining(r, o))
<1>1. calls \in Seq(Calls) /\ DOMAIN calls = 1 .. Len(calls) /\ Len(calls) \in Nat
  BY CallTypes
<1>2. /\ DOMAIN calls' = 1 .. Len(calls) - 1
      /\ \A j \in 1 .. Len(calls) - 1 : calls'[j] = calls[j + 1]
  <2>1. /\ Len(calls') = Len(calls) - 1
        /\ \A j \in 1 .. Len(calls) - 1 : calls'[j] = calls[IF j < 1 THEN j ELSE j + 1]
    BY <1>1, RemoveAtElements
  <2>2. calls' \in Seq(Calls)
    BY <1>1, RemoveAtType
  <2>. QED
    BY <1>1, <2>1, <2>2
<1>3. lib'[r].client = lib[r].client /\ lib'[r].number = lib[r].number
  BY DEF Quieter
<1>4. \A i \in Nat : i >= 1 /\ i + 1 \in DOMAIN calls <=> i \in DOMAIN calls'
  BY <1>1, <1>2
<1>5. \A i \in DOMAIN calls' : i \in Nat /\ i >= 1 /\ calls'[i] = calls[i + 1]
  BY <1>1, <1>2
<1>6. Pending(r, o)' = Up(Pending(r, o))
  BY <1>3, <1>4, <1>5 DEF Pending, Up
<1>7. Joining(r, o)' = Up(Joining(r, o))
  <2>1. Joining(r, o)' = {i \in Up(Pending(r, o)) : calls'[i].observe.type = "register"}
    BY <1>6 DEF Joining
  <2>2. \A i \in Up(Pending(r, o)) : calls'[i] = calls[i + 1] /\ i \in Nat /\ i >= 1
    BY <1>4, <1>5 DEF Up, Pending
  <2>. QED
    BY <2>1, <2>2 DEF Up, Joining
<1>. QED
  BY <1>6, <1>7

LEMMA DeliverTraced ==
  ASSUME IInv, IInv', JInv, OInv, NEW i \in DOMAIN calls, Deliver(i)
  PROVE  Traced'
<1>1. /\ conditions' = conditions /\ unaware' = unaware /\ oic' = oic
      /\ (InOrder' <=> InOrder) /\ Quieter
  BY DeliverQuieter DEF Deliver, Unambiguous, InOrder
<1> SUFFICES ASSUME InOrder, NEW r \in Rsrcs, NEW o \in Observers, Served(r)',
                    lib'[r].kind = "plain", oic[lib'[r].handle] # Null
             PROVE  /\ lib'[r].observers[o] \in {0, 1}
                    /\ lib'[r].state = "registering" => lib'[r].observers[o] = 0
                    /\ TakesTurns(Pending(r, o)', Joining(r, o)', lib'[r].observers[o],
                                  Has(r, o)', conditions)
  BY <1>1 DEF Traced
<1> DEFINE m == calls[1]
           n == lib[r].observers[o]
<1>2. i = 1 /\ 1 \in DOMAIN calls /\ calls' = RemoveAt(calls, 1)
  BY DEF Deliver, InOrder
<1>3. /\ Served(r) /\ lib[r].kind = "plain" /\ oic[lib[r].handle] # Null
      /\ lib'[r].state = lib[r].state /\ lib'[r].handle = lib[r].handle
  BY <1>1, QuieterViews, FewerServed DEF Quieter
<1>4. /\ n \in {0, 1} /\ (lib[r].state = "registering" => n = 0)
      /\ TakesTurns(Pending(r, o), Joining(r, o), n, Has(r, o), conditions)
  BY <1>3 DEF OInv, Traced
<1>5. /\ Pending(r, o)' = Up(Pending(r, o)) /\ Joining(r, o)' = Up(Joining(r, o))
      /\ Has(r, o)' = Has(r, o)
  BY <1>1, <1>2, <1>3, PendingPassed DEF Has
<1>6. /\ Pending(r, o) \in SUBSET Nat /\ 0 \notin Pending(r, o)
      /\ Joining(r, o) \in SUBSET Pending(r, o) /\ Has(r, o) \in {0, 1}
  BY PendingTypes
<1>7. /\ 1 \in Pending(r, o) <=> Concerns(m, r, o)
      /\ 1 \in Joining(r, o) <=> Concerns(m, r, o) /\ m.observe.type = "register"
  BY <1>2 DEF Pending, Joining, Concerns
<1>8. m.observe \in Changes /\ lib[r] \in Objects /\ lib[r].observers \in [Observers -> Nat]
  BY <1>2, CallTypes DEF IInv, Shape, Objects
<1>9. lib'[r] = IF r \in Listening(m)
                THEN [lib[r] EXCEPT !.observers = Observed(lib[r].observers, m.observe)]
                ELSE lib[r]
  BY <1>2, <1>3 DEF Deliver
<1>10. r \in Listening(m) <=>
         lib[r].state = "live" /\ lib[r].client = m.client /\ lib[r].number = m.number
  BY DEF Listening, ObjectsOf
<1>11. lib'[r].observers = IF r \in Listening(m)
                           THEN Observed(lib[r].observers, m.observe)
                           ELSE lib[r].observers
  BY <1>8, <1>9 DEF Objects
<1>12. CASE ~Concerns(m, r, o)
  <2>1. lib'[r].observers[o] = n
    <3>1. CASE r \notin Listening(m)
      BY <1>11, <3>1
    <3>2. CASE r \in Listening(m)
      <4>1. m.observe.type = "none" \/ m.observe.id # o
        BY <1>10, <1>12, <3>2 DEF Concerns
      <4>2. Observed(lib[r].observers, m.observe)[o] = n
        BY <1>8, <4>1 DEF Observed
      <4>. QED
        BY <1>11, <3>2, <4>2
    <3>. QED
      BY <3>1, <3>2
  <2>2. TakesTurns(Up(Pending(r, o)), Up(Joining(r, o)), n, Has(r, o), conditions)
    BY <1>4, <1>6, <1>7, <1>12, TurnPassed
  <2>. QED
    BY <1>3, <1>4, <1>5, <2>1, <2>2
<1>13. CASE Concerns(m, r, o) /\ lib[r].state = "live"
  <2>1. r \in Listening(m)
    BY <1>10, <1>13 DEF Concerns
  <2>2. 1 \in Joining(r, o) => n = 0
    <3>1. \A j \in Pending(r, o) : 1 <= j
      BY <1>6
    <3>. QED
      BY <1>4, <1>6, <3>1 DEF TakesTurns
  <2>3. Observed(lib[r].observers, m.observe)[o] = IF 1 \in Joining(r, o) THEN 1 ELSE 0
    <3>1. CASE m.observe.type = "register"
      BY <1>7, <1>8, <1>13, <2>2, <3>1 DEF Observed, Concerns
    <3>2. CASE m.observe.type = "deregister"
      <4>1. m.observe.id = o /\ 1 \notin Joining(r, o)
        BY <1>7, <1>13, <3>2 DEF Concerns
      <4>2. CASE n > 0
        BY <1>4, <1>8, <3>2, <4>1, <4>2 DEF Observed
      <4>3. CASE ~(n > 0)
        BY <1>4, <1>8, <3>2, <4>1, <4>3 DEF Observed
      <4>. QED
        BY <4>2, <4>3
    <3>. QED
      BY <1>8, <1>13, <3>1, <3>2 DEF Concerns, Changes, NoChange
  <2>4. lib'[r].observers[o] = IF 1 \in Joining(r, o) THEN 1 ELSE 0
    BY <1>11, <2>1, <2>3
  <2>5. TakesTurns(Up(Pending(r, o)), Up(Joining(r, o)), IF 1 \in Joining(r, o) THEN 1 ELSE 0,
                   Has(r, o), conditions)
    BY <1>4, <1>6, <1>7, <1>13, TurnPassed
  <2>. QED
    BY <1>3, <1>5, <1>13, <2>4, <2>5
<1>14. CASE Concerns(m, r, o) /\ lib[r].state = "registering"
  <2>1. lib'[r].observers = lib[r].observers
    BY <1>10, <1>11, <1>14
  <2>2. "early" \in conditions
    <3>1. Blocked(m.client)
      BY <1>14 DEF Blocked, ObjectsOf, Concerns
    <3>. QED
      BY <1>2, <3>1 DEF Deliver
  <2>3. n = 0
    BY <1>4, <1>14
  <2>4. TakesTurns(Up(Pending(r, o)), Up(Joining(r, o)), 0, Has(r, o), conditions)
    BY <1>4, <1>6, <1>7, <1>14, <2>2, TurnPassed
  <2>. QED
    BY <1>5, <2>1, <2>3, <2>4
<1>. QED
  BY <1>3, <1>12, <1>13, <1>14 DEF Served, Standing

LEMMA DeliverOInv ==
  ASSUME IInv, IInv', JInv, OInv, NEW i \in DOMAIN calls, Deliver(i)
  PROVE  OInv'
<1>1. oic' = oic /\ conditions' = conditions /\ number' = number /\ Quieter
  BY DeliverQuieter DEF Deliver, daemon
<1>2. \A r \in Rsrcs : Served(r)' =>
        /\ Served(r) /\ lib'[r].client = lib[r].client /\ lib'[r].handle = lib[r].handle
        /\ lib'[r].number = lib[r].number
  BY <1>1, QuieterViews, FewerServed
<1>3. OneNumber'
  BY <1>1, <1>2 DEF OInv, OneNumber
<1>4. Addressed'
  <2>1. \A j \in DOMAIN calls' : \E k \in DOMAIN calls : calls'[j] = calls[k]
    BY CallsLeft DEF Deliver
  <2>2. Unambiguous' <=> Unambiguous
    BY <1>1 DEF Unambiguous
  <2>. QED
    BY <1>1, <1>2, <2>1, <2>2 DEF OInv, Addressed
<1>5. Unnoted'
  <2>1. ASSUME NEW r \in Rsrcs, lib[r].kind = "lite"
        PROVE  lib'[r] = lib[r]
    BY <2>1 DEF Deliver
  <2>. QED
    BY <1>1, <2>1 DEF OInv, Unnoted, Standing, Quieter
<1>. QED
  BY <1>3, <1>4, <1>5, DeliverTraced DEF OInv

LEMMA NextOInv == IInv /\ IInv' /\ JInv /\ OInv /\ [Next]_vars => OInv'
<1> SUFFICES ASSUME IInv, IInv', JInv, OInv, [Next]_vars
             PROVE  OInv'
  OBVIOUS
<1>1. CASE UNCHANGED vars
  BY <1>1, WithdrawnNothing, WithdrawalOInv DEF vars, daemon, requests
<1>2. ASSUME NEW r \in Rsrcs, Subscribe(r) \/ Destroy(r) \/ ConnCleanup(r)
      PROVE  OInv'
  <2>1. number' = number /\ calls' = calls
    BY <1>2 DEF Subscribe, Destroy, ConnCleanup, daemon, requests
  <2>. QED
    BY <1>2, <2>1, WithdrawnObject, WithdrawalOInv
<1>3. ASSUME NEW p \in Rsrcs, NEW r \in Rsrcs, BindChild(p, r) \/ UnbindChild(p, r)
      PROVE  OInv'
  <2>1. Quieter /\ Fewer
    BY <1>3, BindingQuieter, QuieterViews
  <2>. QED
    BY <1>3, <2>1, BindingCases, LeftOver DEF Quieter
<1>4. ASSUME NEW h \in Handles, NEW q \in Reqs, NEW a \in Changes, Request(h, q, a)
      PROVE  OInv'
  BY <1>4, RequestAddressed, RequestTraced DEF OInv
<1>5. ASSUME NEW a \in todo, Respond(a)
      PROVE  OInv'
  BY <1>5, WithdrawnNothing, WithdrawalOInv DEF Respond, daemon
<1>6. ASSUME NEW c \in Clients, ClientExit(c) \/ NameOwnerNotify(c) \/ Disconnect(c)
      PROVE  OInv'
  <2>1. number' = number /\ calls' = calls
    BY <1>6 DEF ClientExit, NameOwnerNotify, Disconnect, daemon, requests
  <2>. QED
    BY <1>6, <2>1, WithdrawnClient, WithdrawalOInv
<1>7. ASSUME NEW e \in dying, Cleanup(e)
      PROVE  OInv'
  <2>1. number' = number /\ calls' = calls
    BY <1>7 DEF Cleanup, requests
  <2>. QED
    BY <1>7, <2>1, WithdrawnResources, WithdrawalOInv
<1>. QED
  BY <1>1, <1>2, <1>3, <1>4, <1>5, <1>6, <1>7, CreateOInv, DeliverOInv, DaemonRestartOInv
     DEF Next

\* An object that can notify, with no request under way to it.
LEMMA QuietTraced ==
  ASSUME IInv, JInv, OInv, InOrder, NEW r \in Rsrcs, Quiet(r), NEW o \in Observers
  PROVE  /\ lib[r].kind = "lite" => lib[r].observers[o] = 0
         /\ lib[r].kind = "plain" =>
              /\ lib[r].observers[o] \in {0, 1}
              /\ lib[r].observers[o] <= Has(r, o)
              /\ "early" \notin conditions => lib[r].observers[o] = Has(r, o)
<1>1. Served(r) /\ oic[lib[r].handle] # Null
  BY DEF Quiet, Known, Served, Standing
<1>2. Pending(r, o) = {}
  BY <1>1 DEF Quiet, Pending, OInv, Addressed, InOrder
<1>. QED
  BY <1>1, <1>2 DEF OInv, Traced, Unnoted, TakesTurns, Served

\* Once its requests have arrived, what an object has noted are observers
\* that IoTivity has: the requests that change them reach it in turn, and it
\* is the object whose entry they were sent to (_icl_request_handler,
\* iotcon_observers_add, iotcon_observers_remove).
THEOREM Noticed == Spec => []ObserversKnown
<1>1. IInv /\ JInv /\ OInv => ObserversKnown
  <2> SUFFICES ASSUME IInv, JInv, OInv, InOrder, NEW r \in Rsrcs, Quiet(r), NEW o \in Noted(r)
               PROVE  o \in oic[lib[r].handle].observers /\ lib[r].observers[o] = 1
    BY DEF ObserversKnown
  <2>1. o \in Observers /\ lib[r].observers[o] > 0
    BY DEF Noted
  <2>2. lib[r].kind \in {"plain", "lite"}
    BY DEF IInv, Shape, Objects
  <2>. QED
    BY <2>1, <2>2, QuietTraced DEF Has
<1>. QED
  BY <1>1, InitIInv, NextIInv, InitJInv, NextJInv, InitOInv, NextOInv, PTL DEF Spec

\* Where no registration comes too early, a notification reaches every
\* observer (iotcon_resource_notify, icd_ioty_notify).
THEOREM Reached == Spec => []NotifiesAll
<1>1. IInv /\ JInv /\ OInv => NotifiesAll
  <2> SUFFICES ASSUME IInv, JInv, OInv, InOrder, "early" \notin conditions,
                      NEW r \in Rsrcs, Quiet(r)
               PROVE  Notified(r) = oic[lib[r].handle].observers
    BY DEF NotifiesAll
  <2>1. oic[lib[r].handle].observers \subseteq Observers
    BY DEF Quiet, Known, IInv, Shape, Resources
  <2>2. lib[r].kind \in {"plain", "lite"}
    BY DEF IInv, Shape, Objects
  <2>3. CASE lib[r].kind = "lite"
    BY <2>3 DEF Notified
  <2>4. CASE lib[r].kind = "plain"
    <3>1. \A o \in Observers : lib[r].observers[o] = Has(r, o)
      BY <2>4, QuietTraced
    <3>2. Noted(r) = oic[lib[r].handle].observers
      BY <2>1, <3>1 DEF Noted, Has
    <3>. QED
      BY <2>4, <3>2 DEF Notified
  <2>. QED
    BY <2>2, <2>3, <2>4
<1>. QED
  BY <1>1, InitIInv, NextIInv, InitJInv, NextJInv, InitOInv, NextOInv, PTL DEF Spec
=============================================================================
