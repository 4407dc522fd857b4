---------------------------- MODULE IcdResource ----------------------------
(***************************************************************************)
(* The resources that applications serve: how a resource object of the lib *)
(* and a resource of IoTivity come and go together, who is asked when a    *)
(* request arrives, and which observers a notification reaches.            *)
(*                                                                         *)
(*   lib/icl-resource.c, lib/icl-lite-resource.c, lib/icl-response.c       *)
(*   lib/icl-dbus.c       subscriptions, the loss of the daemon            *)
(*   daemon/icd-dbus.c    the handlers, the resource lists, the cleanup    *)
(*   daemon/icd-ioty.c, daemon/icd-ioty-ocprocess.c                        *)
(*                                                                         *)
(* An application is single-threaded: its main loop does not run while a   *)
(* synchronous call is out.  The daemon's main thread runs one handler or  *)
(* one cleanup at a time; requests arrive on the packet thread and are     *)
(* emitted by a worker thread each.  The types, interfaces and states of   *)
(* resources are data and left out; so are calls that change nothing:      *)
(* every call while disconnected, every refused one, a registration that   *)
(* finds no memory (the daemon takes it back), and notify, which Notified  *)
(* describes.                                                              *)
(***************************************************************************)
EXTENDS Naturals, FiniteSets, SequencesExt

CONSTANTS
  Clients,     \* applications, by unique bus name
  Rsrcs,       \* iotcon_resource_h and iotcon_lite_resource_h, of any of them
  Denied,      \* the applications that cynara refuses, if "denied"
  Handles,     \* OCResourceHandle values
  Reqs,        \* OCRequestHandle values
  Observers,   \* observe ids
  Conditions,  \* what a behaviour may meet together: see AllConditions
  MaxNumber,   \* bounds the signal numbers of one life of the daemon
  MaxCalls,    \* bounds the workers under way
  MaxRestarts, \* bounds the restarts of the daemon
  MaxChildren, \* ICL_CONTAINED_RESOURCES_MAX
  MaxNoted,    \* bounds how often a lib notes the same observer
  Refusal,     \* the error code that a refused registration returns as handle
  Null

(***************************************************************************)
(* "lite"          applications have lite resources too                    *)
(* "lostReply"     a call times out after the daemon served it             *)
(* "crash"         the daemon dies and is restarted                        *)
(* "disconnect"    iotcon_disconnect while there are resources             *)
(* "subscribeFail" g_dbus_connection_signal_subscribe returns 0            *)
(* "early"         a request comes before the resource is in the list, or  *)
(*                 its signal before the subscription                      *)
(* "overtake"      workers emit in another order than they were started    *)
(* "noWorker"      the context or the thread of a worker cannot be had     *)
(* "denied"        the applications in Denied lack the privileges          *)
(* "reuse"         an address somebody still holds is allocated again      *)
(***************************************************************************)
AllConditions ==
  {"lite", "lostReply", "crash", "disconnect", "subscribeFail", "early", "overtake",
   "noWorker", "denied", "reuse"}

ASSUME DeniedAssumption == Denied \subseteq Clients
ASSUME ConditionsAssumption == Conditions \subseteq SUBSET AllConditions
ASSUME BoundsAssumption == 
  {MaxNumber, MaxCalls, MaxRestarts, MaxChildren, MaxNoted} \subseteq Nat
ASSUME NullAssumption ==
  {Refusal, Null} \cap Handles = {} /\ Refusal # Null /\ Null \notin Clients

VARIABLES
  conditions, \* those of this behaviour
  oic,        \* the resources IoTivity has for the daemon
  entries,    \* the entries of all the clients' resource_list
  dying,      \* entries of a removed client, not cleaned up yet
  number,     \* icd_dbus_generate_signal_number
  lib,        \* the resource objects of the applications
  calls,      \* requests on their way to an application, by worker
  reqs,       \* requests IoTivity waits to be answered, with their resources
  todo,       \* answers the applications have yet to send
  restarts,   \* of the daemon, so far
  unaware     \* clients whose main loop has not yet seen the daemon go

daemon == <<entries, dying, number>>
requests == <<calls, reqs, todo>>
vars == <<conditions, oic, daemon, lib, requests, restarts, unaware>>
-----------------------------------------------------------------------------
\* client and number are those of the registration; the daemon has them in
\* the resource list only.
Resource(c, n, s) == [client |-> c, number |-> n, observers |-> s, children |-> {}]
Resources == [client : Clients, number : Nat, observers : SUBSET Observers,
              children : SUBSET Handles]

ASSUME ResourcesAssumption == Null \notin Resources

Entries == [client : Clients, handle : Handles, number : Nat]

(***************************************************************************)
(* state is "registering" from the reply of the daemon to the subscription,*)
(* "live" while subscribed, "ending" until GDBus runs the destroy notify   *)
(* of a subscription that is gone, "lost" when that has cleared handle and *)
(* sub_id and the application still has the object.  observers counts how  *)
(* often an id is in the list.                                             *)
(***************************************************************************)
NoObject == [state |-> "none", client |-> Null, kind |-> "plain", handle |-> Null,
             number |-> 0, children |-> {}, observers |-> [o \in Observers |-> 0]]
Objects == [state : {"none", "registering", "live", "ending", "lost"},
            client : Clients \cup {Null}, kind : {"plain", "lite"},
            handle : Handles \cup {Refusal, Null}, number : Nat,
            children : SUBSET Rsrcs, observers : [Observers -> Nat]]

NoChange == [type |-> "none", id |-> Null]
Changes == {NoChange} \cup [type : {"register", "deregister"}, id : Observers]
Calls == [client : Clients, number : Nat, req : Reqs, handle : Handles, observe : Changes]
Answers == [client : Clients, rsrc : Rsrcs, req : Reqs, handle : Handles]
-----------------------------------------------------------------------------
ObjectsOf(c) == {r \in Rsrcs : lib[r].client = c}
Blocked(c) == \E r \in ObjectsOf(c) : lib[r].state = "registering"
Cleaning == dying # {}

\* The application may call, and the daemon's main thread serve it.
Ready(c) == ~Blocked(c) /\ ~Cleaning

\* icd_cynara_check_network.
Refused(c) == c \in Denied /\ "denied" \in conditions

\* Does the reply of a served call arrive in time?
Arrivals == IF "lostReply" \in conditions THEN BOOLEAN ELSE {TRUE}

\* An address nobody holds, unless addresses are reused.
FreshHandles ==
  {h \in Handles : /\ oic[h] = Null
                   /\ \/ "reuse" \in conditions
                      \/ /\ \A r \in Rsrcs : lib[r].handle # h
                         /\ \A e \in entries \cup dying : e.handle # h
                         /\ \A k \in Handles : oic[k] # Null => h \notin oic[k].children
                         /\ \A q \in Reqs : reqs[q] # h
                         /\ \A a \in todo : a.handle # h
                         /\ \A i \in DOMAIN calls : calls[i].handle # h}

FreshReqs ==
  {q \in Reqs : /\ reqs[q] = Null
                /\ \/ "reuse" \in conditions
                   \/ /\ \A a \in todo : a.req # q
                      /\ \A i \in DOMAIN calls : calls[i].req # q}

FreshObject(r) ==
  /\ lib[r].state = "none"
  /\ \/ "reuse" \in conditions
     \/ \A p \in Rsrcs : r \notin lib[p].children

\* IoTivity gives every observation an id of its own.
FreshObservers ==
  {o \in Observers : \A h \in Handles : oic[h] # Null => o \notin oic[h].observers}

\* The observers a resource may have before it is in the list.
EarlyObservers == IF "early" \in conditions THEN SUBSET FreshObservers ELSE {{}}

\* sub_id is not 0: destroy and the destroy notify clear it.
HasSubId(r) == lib[r].state = "live" \/ (lib[r].state = "ending" /\ lib[r].handle # Null)

\* IoTivity looks a handle up among its resources.
Known(h) == h \in Handles /\ oic[h] # Null

\* OCDeleteResource: an unknown handle is an error.
OCDeleteResource(h) ==
  oic' = IF Known(h) THEN [oic EXCEPT ![h] = Null] ELSE oic
-----------------------------------------------------------------------------
\* iotcon_resource_create and iotcon_lite_resource_create up to the reply,
\* _dbus_handle_register_resource.  Only lite resources are checked, and the
\* error code of the check is returned as the handle.  A request that comes
\* before the list entry is refused, but IoTivity keeps its observer.
Create(c, r, kind) ==
  LET object == [NoObject EXCEPT !.state = "registering", !.client = c, !.kind = kind] IN
  /\ FreshObject(r) /\ Ready(c)
  /\ kind = "lite" => "lite" \in conditions
  /\ IF kind = "lite" /\ Refused(c)
     THEN /\ lib' = [lib EXCEPT ![r] = [object EXCEPT !.handle = Refusal]]
          /\ UNCHANGED <<oic, entries, number>>
     ELSE /\ number < MaxNumber
          /\ \E h \in FreshHandles, arrives \in Arrivals, s \in EarlyObservers :
               /\ oic' = [oic EXCEPT ![h] = Resource(c, number, s)]
               /\ entries' = entries \cup {[client |-> c, handle |-> h, number |-> number]}
               /\ lib' = IF arrives
                         THEN [lib EXCEPT ![r] = [object EXCEPT !.handle = h,
                                                                !.number = number]]
                         ELSE lib
          /\ number' = number + 1
  /\ UNCHANGED <<conditions, dying, requests, restarts, unaware>>

\* The rest of the two: the subscription to the resource's signal.
Subscribe(r) ==
  /\ lib[r].state = "registering"
  /\ \/ lib' = [lib EXCEPT ![r].state = "live"]
     \/ /\ "subscribeFail" \in conditions
        /\ lib' = [lib EXCEPT ![r] = NoObject]
  /\ UNCHANGED <<conditions, oic, daemon, requests, restarts, unaware>>

\* Mutants of Unregister: the whole list of the sender goes, or none of it.
UnregisterAll(c, h) ==
  /\ entries' = {e \in entries : e.client # c}
  /\ IF Refused(c) THEN oic' = oic ELSE OCDeleteResource(h)

UnregisterUnlisted(c, h) ==
  /\ entries' = entries
  /\ IF Refused(c) THEN oic' = oic ELSE OCDeleteResource(h)

\* Mutant: the list entry goes, the resource stays.
UnregisterListOnly(c, h) ==
  /\ entries' = {e \in entries : ~(e.client = c /\ e.handle = h)}
  /\ oic' = oic

\* _dbus_handle_unregister_resource: the list first, then the check.
Unregister(c, h) ==
  /\ entries' = {e \in entries : ~(e.client = c /\ e.handle = h)}
  /\ IF Refused(c) THEN oic' = oic ELSE OCDeleteResource(h)

\* Mutant of Released: the handle is kept.
ReleasedWithHandle(o) == [o EXCEPT !.state = "ending"]

\* What a destroy that the daemon has served leaves for the destroy notify.
Released(o) == [o EXCEPT !.state = "ending", !.handle = Null]

\* iotcon_resource_destroy and iotcon_lite_resource_destroy.
Destroy(r) ==
  /\ \/ /\ lib[r].state = "lost"
        /\ ~Blocked(lib[r].client)
        /\ lib' = [lib EXCEPT ![r] = NoObject]
        /\ UNCHANGED <<oic, entries>>
     \/ /\ HasSubId(r) /\ Ready(lib[r].client)
        /\ Unregister(lib[r].client, lib[r].handle)
        /\ \E arrives \in Arrivals :
             lib' = IF arrives THEN [lib EXCEPT ![r] = Released(@)] ELSE lib
  /\ UNCHANGED <<conditions, dying, number, requests, restarts, unaware>>

\* _icl_resource_conn_cleanup, _icl_lite_resource_conn_cleanup: the destroy
\* notify of a subscription, which GDBus runs from the main loop.
ConnCleanup(r) ==
  /\ lib[r].state = "ending" /\ ~Blocked(lib[r].client)
  /\ lib' = [lib EXCEPT ![r] = IF @.handle = Null
                               THEN NoObject
                               ELSE [@ EXCEPT !.handle = Null, !.state = "lost"]]
  /\ UNCHANGED <<conditions, oic, daemon, requests, restarts, unaware>>
-----------------------------------------------------------------------------
\* Both ends of a binding have a resource object of the same application.
Pair(p, r) ==
  /\ p # r /\ lib[p].client = lib[r].client
  /\ lib[p].kind = "plain" /\ lib[r].kind = "plain"
  /\ HasSubId(p) /\ HasSubId(r)
  /\ Ready(lib[p].client)

\* iotcon_resource_bind_child_resource, _dbus_handle_bind_resource and
\* icd_ioty_bind_resource.  OCBindResource refuses unknown handles.
BindChild(p, r) ==
  LET hp == lib[p].handle
      hr == lib[r].handle IN
  /\ Pair(p, r) /\ ~Refused(lib[p].client)
  /\ r \notin lib[p].children
  /\ Cardinality(lib[p].children) < MaxChildren
  /\ Known(hp) /\ Known(hr)
  /\ oic' = [oic EXCEPT ![hp].children = @ \cup {hr}]
  /\ \E arrives \in Arrivals :
       lib' = IF arrives THEN [lib EXCEPT ![p].children = @ \cup {r}] ELSE lib
  /\ UNCHANGED <<conditions, daemon, requests, restarts, unaware>>

\* Mutant of Emptied: the slot is not cleared.
EmptiedNever(slots, r) == slots

\* children[] after an unbinding.
Emptied(slots, r) == slots \ {r}

\* iotcon_resource_unbind_child_resource.  OCUnBindResource refuses what is
\* not bound.
UnbindChild(p, r) ==
  LET hp == lib[p].handle
      hr == lib[r].handle IN
  /\ Pair(p, r) /\ ~Refused(lib[p].client)
  /\ Known(hp) /\ hr \in oic[hp].children
  /\ oic' = [oic EXCEPT ![hp].children = @ \ {hr}]
  /\ \E arrives \in Arrivals :
       lib' = IF arrives THEN [lib EXCEPT ![p].children = Emptied(@, r)] ELSE lib
  /\ UNCHANGED <<conditions, daemon, requests, restarts, unaware>>
-----------------------------------------------------------------------------
\* IoTivity's own list of observers after a request.
Observing(s, a) ==
  CASE a.type = "register" -> s \cup {a.id}
    [] a.type = "deregister" -> s \ {a.id}
    [] OTHER -> s

ChangesAt(h) ==
  {NoChange}
    \cup {[type |-> "register", id |-> o] :
            o \in {o \in FreshObservers :
                     \A r \in Rsrcs : lib[r].observers[o] < MaxNoted}}
    \cup {[type |-> "deregister", id |-> o] : o \in oic[h].observers}

\* A remote's request.  icd_ioty_ocprocess_req_handler finds the application
\* in the resource lists and starts a worker; a resource that is in no list
\* any more, or a worker that cannot be had, makes it an error at once.
Request(h, q, a) ==
  /\ Known(h) /\ q \in FreshReqs /\ a \in ChangesAt(h)
  /\ oic' = [oic EXCEPT ![h].observers = Observing(@, a)]
  /\ \/ \E e \in entries :
          /\ e.handle = h /\ Len(calls) < MaxCalls
          /\ calls' = Append(calls, [client |-> e.client, number |-> e.number, req |-> q,
                                     handle |-> h, observe |-> a])
          /\ reqs' = [reqs EXCEPT ![q] = h]
     \/ /\ "noWorker" \in conditions \/ \A e \in entries : e.handle # h
        /\ UNCHANGED <<calls, reqs>>
  /\ UNCHANGED <<conditions, daemon, lib, todo, restarts, unaware>>

\* Mutant of Listening: the signal is not the resource's own.
ListeningAnyNumber(m) == {r \in ObjectsOf(m.client) : lib[r].state = "live"}

\* The objects whose subscription a signal reaches.
Listening(m) ==
  {r \in ObjectsOf(m.client) : lib[r].state = "live" /\ lib[r].number = m.number}

\* Mutant of Observed: an observer that leaves stays in the list.
ObservedForever(f, a) ==
  CASE a.type = "register" -> [f EXCEPT ![a.id] = @ + 1]
    [] OTHER -> f

\* iotcon_observers_add and iotcon_observers_remove (one of the equal ids).
Observed(f, a) ==
  CASE a.type = "register" -> [f EXCEPT ![a.id] = @ + 1]
    [] a.type = "deregister" /\ f[a.id] > 0 -> [f EXCEPT ![a.id] = @ - 1]
    [] OTHER -> f

\* _icl_lite_resource_request_handler answers by itself, whatever the request
\* and whatever goes wrong.
AnsweredAtOnce(heard) == \E r \in heard : lib[r].kind = "lite"

\* icd_ioty_send_response: OCDoResponse knows a request by its handle alone.
DoResponse(q, allowed) ==
  reqs' = IF allowed THEN [reqs EXCEPT ![q] = Null] ELSE reqs

\* _worker_req_handler emits the signal, _icl_request_handler notes observers
\* and calls the application, which creates a response.  A signal that finds
\* no subscription is lost; what is subscribed waits for the main loop.
Deliver(i) ==
  LET m == calls[i]
      heard == Listening(m)
      plain == {r \in heard : lib[r].kind = "plain"} IN
  /\ i = 1 \/ "overtake" \in conditions
  /\ Blocked(m.client) => "early" \in conditions /\ heard = {}
  /\ AnsweredAtOnce(heard) => Ready(m.client)
  /\ calls' = RemoveAt(calls, i)
  /\ lib' = [r \in Rsrcs |->
               IF r \in plain
               THEN [lib[r] EXCEPT !.observers = Observed(@, m.observe)]
               ELSE lib[r]]
  /\ todo' = todo \cup {[client |-> m.client, rsrc |-> r, req |-> m.req,
                           handle |-> m.handle] : r \in plain}
  /\ DoResponse(m.req, AnsweredAtOnce(heard) /\ ~Refused(m.client))
  /\ UNCHANGED <<conditions, oic, daemon, restarts, unaware>>

\* iotcon_response_send; after an error the application may send again.
Respond(a) ==
  /\ Ready(a.client)
  /\ DoResponse(a.req, ~Refused(a.client))
  /\ \E arrives \in Arrivals : todo' = IF arrives THEN todo \ {a} ELSE todo
  /\ UNCHANGED <<conditions, oic, daemon, lib, calls, restarts, unaware>>

\* The list iotcon_resource_notify sends when the application gives none.
Noted(r) == {o \in Observers : lib[r].observers[o] > 0}

\* Mutant of Notified: a lite resource uses the list as well.
NotifiedByList(r) == Noted(r) \cap oic[lib[r].handle].observers

\* icd_ioty_notify: with a representation IoTivity sends to those it knows of
\* the list; a lite resource gives none, and all are notified.
Notified(r) ==
  LET registered == oic[lib[r].handle].observers IN
  IF lib[r].kind = "lite" THEN registered ELSE Noted(r) \cap registered
-----------------------------------------------------------------------------
\* _icd_dbus_name_owner_changed_cb for a client that left the bus.
ClientExit(c) ==
  /\ ~Cleaning
  /\ dying' = {e \in entries : e.client = c}
  /\ entries' = entries \ dying'
  /\ lib' = [r \in Rsrcs |-> IF lib[r].client = c THEN NoObject ELSE lib[r]]
  /\ todo' = {a \in todo : a.client # c}
  /\ unaware' = unaware \ {c}
  /\ UNCHANGED <<conditions, oic, number, calls, reqs, restarts>>

\* _icd_dbus_cleanup_resource_list, an entry at a time; IoTivity may ask for
\* the resources in between.
Cleanup(e) ==
  /\ dying' = dying \ {e}
  /\ OCDeleteResource(e.handle)
  /\ UNCHANGED <<conditions, entries, number, lib, requests, restarts, unaware>>

\* The daemon dies, systemd restarts it: the signal numbers start over.
DaemonRestart ==
  /\ "crash" \in conditions /\ restarts < MaxRestarts
  /\ restarts' = restarts + 1
  /\ oic' = [h \in Handles |-> Null]
  /\ entries' = {} /\ dying' = {} /\ number' = 0
  /\ calls' = <<>> /\ reqs' = [q \in Reqs |-> Null]
  /\ unaware' = Clients
  /\ UNCHANGED <<conditions, lib, todo>>

\* _icl_dbus_cleanup: every subscription of the client ends.
Unsubscribed(c) ==
  [r \in Rsrcs |-> IF lib[r].client = c /\ lib[r].state = "live"
                   THEN [lib[r] EXCEPT !.state = "ending"]
                   ELSE lib[r]]

\* _icl_dbus_name_owner_notify, in the main loop.
NameOwnerNotify(c) ==
  /\ c \in unaware /\ ~Blocked(c)
  /\ lib' = Unsubscribed(c)
  /\ unaware' = unaware \ {c}
  /\ UNCHANGED <<conditions, oic, daemon, requests, restarts>>

\* iotcon_disconnect, the last one: icl_dbus_stop.  While disconnected every
\* call returns an error, so the application may as well be connected again.
Disconnect(c) ==
  /\ "disconnect" \in conditions /\ ~Blocked(c)
  /\ lib' = Unsubscribed(c)
  /\ unaware' = unaware \ {c}
  /\ UNCHANGED <<conditions, oic, daemon, requests, restarts>>
-----------------------------------------------------------------------------
Init ==
  /\ conditions \in Conditions
  /\ oic = [h \in Handles |-> Null]
  /\ entries = {} /\ dying = {} /\ number = 0
  /\ lib = [r \in Rsrcs |-> NoObject]
  /\ calls = <<>> /\ reqs = [q \in Reqs |-> Null] /\ todo = {}
  /\ restarts = 0 /\ unaware = {}

Next ==
  \/ \E c \in Clients, r \in Rsrcs, kind \in {"plain", "lite"} : Create(c, r, kind)
  \/ \E r \in Rsrcs : Subscribe(r) \/ Destroy(r) \/ ConnCleanup(r)
  \/ \E p, r \in Rsrcs : BindChild(p, r) \/ UnbindChild(p, r)
  \/ \E h \in Handles, q \in Reqs, a \in Changes : Request(h, q, a)
  \/ \E i \in DOMAIN calls : Deliver(i)
  \/ \E a \in todo : Respond(a)
  \/ \E c \in Clients : ClientExit(c) \/ NameOwnerNotify(c) \/ Disconnect(c)
  \/ \E e \in dying : Cleanup(e)
  \/ DaemonRestart

Spec == Init /\ [][Next]_vars
-----------------------------------------------------------------------------
\* The state has the shape the code's declarations give it.
TypeOK ==
  /\ conditions \in Conditions
  /\ oic \in [Handles -> Resources \cup {Null}]
  /\ entries \subseteq Entries /\ dying \subseteq Entries
  /\ number \in 0 .. MaxNumber
  /\ lib \in [Rsrcs -> Objects]
  /\ \A r \in Rsrcs : Cardinality(lib[r].children) <= MaxChildren
  /\ calls \in Seq(Calls) /\ Len(calls) <= MaxCalls
  /\ reqs \in [Reqs -> Handles \cup {Null}]
  /\ todo \subseteq Answers
  /\ restarts \in 0 .. MaxRestarts /\ unaware \subseteq Clients

\* Nothing gives a number or an address a second meaning.
Unambiguous == "reuse" \notin conditions \/ conditions \cap {"lostReply", "crash"} = {}

\* icd-dbus.c: every entry of a resource list, that of a client being cleaned
\* up too, stands for a resource that IoTivity still has for this client, and
\* for one of its own: a cleanup takes away nobody else's resource, and a
\* request is never sent to the wrong application.
ListsAlive ==
  Unambiguous =>
    /\ \A e \in entries \cup dying :
         /\ oic[e.handle] # Null
         /\ oic[e.handle].client = e.client /\ oic[e.handle].number = e.number
    /\ \A e, f \in entries \cup dying : e.handle = f.handle => e = f

\* icd-dbus.c: a resource is in a list as long as IoTivity has it, so it goes
\* at the latest when its client does.  An application without the privilege
\* is the exception: its destroy empties the list and leaves the resource.
NoOrphans ==
  \A h \in Handles :
    oic[h] # Null => \/ Refused(oic[h].client)
                     \/ \E e \in entries \cup dying : e.handle = h

\* icl-resource.c: the handle of a resource object names this object's own
\* resource in IoTivity or none: whatever the application does with the
\* object after lost replies, restarts and reconnections (destroy, bind,
\* notify), it never does to another resource.
HandlesOwn ==
  Unambiguous =>
    \A r \in Rsrcs :
      LET h == lib[r].handle IN
      h \in Handles => \/ oic[h] = Null
                       \/ /\ oic[h].client = lib[r].client
                          /\ oic[h].number = lib[r].number

\* Without failures between lib and daemon, a resource object the application
\* can use is a list entry, and a list entry is an object that is subscribed
\* or about to be.
Matched ==
  conditions \cap {"lostReply", "crash", "disconnect", "subscribeFail"} = {} =>
    /\ \A r \in Rsrcs :
         lib[r].state \in {"registering", "live"} /\ lib[r].handle \in Handles =>
           [client |-> lib[r].client, handle |-> lib[r].handle, number |-> lib[r].number]
             \in entries
    /\ \A e \in entries :
         \E r \in ObjectsOf(e.client) : /\ lib[r].state \in {"registering", "live"}
                                        /\ lib[r].handle = e.handle
                                        /\ lib[r].number = e.number

\* A signal of the daemon reaches one handler of an application at most, even
\* though the numbers start over in a new daemon.
OneHandler ==
  \A r, s \in Rsrcs :
    /\ r # s /\ lib[r].client = lib[s].client /\ lib[r].client \notin unaware
    /\ ~Refused(lib[r].client)
    /\ lib[r].state = "live" /\ lib[s].state = "live"
    => lib[r].number # lib[s].number

\* Lib and daemon speak of the same resources by the same numbers.
Paired == Matched /\ OneHandler

\* An object the application can notify with, once no request is under way.
Quiet(r) ==
  /\ lib[r].state = "live" /\ lib[r].client \notin unaware
  /\ Known(lib[r].handle)
  /\ \A i \in DOMAIN calls : calls[i].handle # lib[r].handle

\* The requests of a resource reach the object that lives, one by one.  After
\* a destroy that was refused they reach nobody any more: the list entry is
\* gone, the resource is not, and a lost reply hides that from the object.
InOrder ==
  /\ conditions \cap {"overtake", "noWorker"} = {}
  /\ Unambiguous /\ ~({"lostReply", "denied"} \subseteq conditions)

\* icl-resource.c: the observers the lib has noted are observers that
\* IoTivity still has, each noted once.
ObserversKnown ==
  InOrder =>
    \A r \in Rsrcs : Quiet(r) =>
      /\ Noted(r) \subseteq oic[lib[r].handle].observers
      /\ \A o \in Noted(r) : lib[r].observers[o] = 1

\* iotcon-resource.h: "If observers is NULL, the msg will notify to all
\* observers."  So it is when every registration reaches the lib, in order.
NotifiesAll ==
  InOrder /\ "early" \notin conditions =>
    \A r \in Rsrcs : Quiet(r) => Notified(r) = oic[lib[r].handle].observers

\* Has the application an object for the resource h, and may it answer?
Serves(r, h) ==
  /\ lib[r].state \in {"registering", "live"} /\ lib[r].handle = h
  /\ ~Refused(lib[r].client)

\* A request that IoTivity waits for is never answered by two: it is on its
\* way to one object, or one object has the answer to send, even when a
\* response was sent again after its reply was lost.  And it is not lost as
\* long as the application has the object of its resource: somebody will
\* answer.  (Not before the subscription, condition early; and a refused
\* application may give its answer up.)
AnsweredOnce ==
  conditions \cap {"reuse", "crash"} = {} =>
    \A q \in Reqs :
      LET under_way == {i \in DOMAIN calls : calls[i].req = q}
          answers == {a \in todo : a.req = q}
          holders == Cardinality(under_way) + Cardinality(answers) IN
      reqs[q] # Null =>
        /\ holders <= 1
        /\ \A a \in answers : a.handle = reqs[q]
        /\ "early" \notin conditions /\ (\E r \in Rsrcs : Serves(r, reqs[q])) => holders = 1

\* icl-resource.c: children[] of a resource agrees with what is bound in
\* IoTivity, as far as the children are still served.
ChildrenBound ==
  conditions \cap {"lostReply", "reuse"} = {} =>
    \A p, r \in Rsrcs :
      /\ lib[p].state = "live" /\ lib[r].state = "live"
      /\ {lib[p].handle, lib[r].handle} \subseteq Handles
      /\ lib[p].client = lib[r].client /\ lib[p].client \notin unaware
      => (r \in lib[p].children <=> lib[r].handle \in oic[lib[p].handle].children)
=============================================================================
