------------------------------ MODULE IclRemote ------------------------------
(***************************************************************************)
(* What a client program's library keeps on its heap for callbacks, and    *)
(* for how long: lib/icl-remote-resource*.c, icl-device.c, icl-presence.c, *)
(* icl-dbus.c.                                                             *)
(*                                                                         *)
(* Every request with a callback has a container ("cb_container"), of      *)
(* which these are told apart by type:                                     *)
(*   Kinds       observe, monitoring, caching: a subscription of a remote  *)
(*               resource, of which it holds a reference                   *)
(*   "crud"      a GET, PUT, POST or DELETE under way                      *)
(*   "find"      a search for resources, "info" one for device or platform *)
(*               information: a subscription and a timer                   *)
(*   "presence"  the subscription is also the application's handle         *)
(*   "watch"     a callback for changes of the connection                  *)
(* The subscriptions are GDBus's: after g_dbus_connection_signal_unsubs-   *)
(* cribe there are no more callbacks, but the destroy notify that frees a  *)
(* container is run later, from the main loop (on the default main         *)
(* context).  Subscription ids are not reused while a container lives, so  *)
(* the container stands for its id.                                        *)
(*                                                                         *)
(* The program has one thread.  Its calls happen between two dispatches of *)
(* the main loop or in a callback; which of the two only matters in the    *)
(* callback of a search, at whose end the library destroys the resource it *)
(* has handed over.  The program destroys its handles once and uses none   *)
(* after that.                                                             *)
(***************************************************************************)
EXTENDS Naturals, FiniteSets

CONSTANTS
  Resources,   \* addresses of remote resources
  Containers,  \* addresses of callback containers
  Kinds,       \* kinds of subscriptions of a resource, "caching" among them
  Faults,      \* what may go wrong, see faults
  MaxConnects, \* bound of icl_dbus_count
  None

ASSUME KindsAssumption ==
  /\ Kinds \subseteq {"observe", "monitoring", "caching"}
  /\ Faults \subseteq {"daemon", "early_restart", "calls_at_disconnect"}
  /\ None \notin Resources \cup Containers
  /\ IsFiniteSet(Containers) /\ MaxConnects \in Nat

VARIABLES
  faults,  \* what may go wrong in this run: calls of the daemon fail and its
           \* name goes; a subscription is made anew before the main loop ran
           \* the old one's destroy notify; the last disconnect comes while a
           \* GET, PUT, POST or DELETE is under way
  count,   \* icl_dbus_count
  refs,    \* ref_count of a resource; 0: it is freed
  held,    \* the resources that somebody will destroy
  sub,     \* caching_sub_id, monitoring_sub_id; observe_sub_id and _handle
  cached,  \* is there a cached_repr?
  box,     \* the containers
  incall   \* the resource handed to a search's callback, while that runs

vars == <<faults, count, refs, held, sub, cached, box, incall>>

Lookups == {"find", "info"}
Types == Kinds \cup Lookups \cup {"crud", "presence", "watch"}

\* gdbus: is the container subscribed ("on"), unsubscribed with the destroy
\* notify to come ("off"), or is GDBus done with it?  sub_id and handle are
\* those of a presence (are they not 0?), owned is: has the program this
\* handle?  told: what the callback of a search was called for.
Container(type, res, gdbus) ==
  [type |-> type, res |-> res, gdbus |-> gdbus, cb |-> TRUE, timer |-> type \in Lookups,
   told |-> {}, sub_id |-> type = "presence", handle |-> type = "presence",
   owned |-> type = "presence"]

\* What is freed is not forgotten: it should be in nobody's hands.
Freed(b) == [b EXCEPT !.type = "free", !.res = None, !.cb = FALSE, !.told = {},
                      !.sub_id = FALSE, !.handle = FALSE]
Unsubscribed(b) == [b EXCEPT !.gdbus = IF @ = "on" THEN "off" ELSE @]

Open == count > 0
FreeContainers == {c \in Containers : box[c].type = "free"}
FreeResources == {r \in Resources : refs[r] = 0}
Of(type) == {c \in Containers : box[c].type = type}
Subscriptions(r) == {c \in Containers : box[c].type \in Kinds /\ box[c].res = r}

\* Has the main loop returned from the last callback?
Dispatching == incall = None
-----------------------------------------------------------------------------
\* iotcon_connect, iotcon_disconnect.  The last disconnect unsubscribes all
\* and frees the watches' containers.  The handlers of these go with the
\* proxy, which a call under way keeps.
Connect ==
  /\ count < MaxConnects
  /\ count' = count + 1
  /\ UNCHANGED <<faults, refs, held, sub, cached, box, incall>>

UnsubscribeAll(b) == IF b.type \in Kinds \cup Lookups \cup {"presence"} THEN Unsubscribed(b) ELSE b

Disconnect ==
  /\ Open
  /\ "calls_at_disconnect" \in faults \/ Of("crud") = {} \/ count > 1
  /\ count' = count - 1
  /\ box' = [c \in Containers |->
               IF count > 1 THEN box[c]
               ELSE IF box[c].type = "watch"
                    THEN Freed([box[c] EXCEPT !.gdbus = IF Of("crud") = {} THEN "done" ELSE @])
                    ELSE UnsubscribeAll(box[c])]
  /\ UNCHANGED <<faults, refs, held, sub, cached, incall>>

\* _icl_dbus_name_owner_notify
NameOwnerNotify ==
  /\ "daemon" \in faults /\ Dispatching /\ Open
  /\ box' = [c \in Containers |-> UnsubscribeAll(box[c])]
  /\ UNCHANGED <<faults, count, refs, held, sub, cached, incall>>

AddConnectionChangedCb(c) ==
  /\ Open /\ c \in FreeContainers
  /\ box' = [box EXCEPT ![c] = Container("watch", None, "on")]
  /\ UNCHANGED <<faults, count, refs, held, sub, cached, incall>>

RemoveConnectionChangedCb(c) ==
  /\ Open /\ c \in Of("watch")
  /\ box' = [box EXCEPT ![c] = Freed([@ EXCEPT !.gdbus = "done"])]
  /\ UNCHANGED <<faults, count, refs, held, sub, cached, incall>>
-----------------------------------------------------------------------------
\* Mutant of Ref: forgotten.
RefForgotten(r) == refs' = refs

\* icl_remote_resource_ref
Ref(r) == refs' = [refs EXCEPT ![r] = @ + 1]

\* icl_remote_resource_unref
Unref(r) == refs' = [refs EXCEPT ![r] = @ - 1]

NewResource(r) ==
  /\ refs' = [refs EXCEPT ![r] = 1]
  /\ held' = held \cup {r}
  /\ sub' = [sub EXCEPT ![r] = [k \in Kinds |-> None]]
  /\ cached' = [cached EXCEPT ![r] = FALSE]

\* iotcon_remote_resource_create and _clone
Create(r) ==
  /\ r \in FreeResources
  /\ NewResource(r)
  /\ UNCHANGED <<faults, count, box, incall>>

\* Mutant of CrudStop: forgotten.
CrudStopForgotten(b, r) == b

\* icl_remote_resource_crud_stop
CrudStop(b, r) == IF b.type = "crud" /\ b.res = r THEN [b EXCEPT !.cb = FALSE] ELSE b

\* Mutant of Ended: the observation is forgotten.
EndedUnobserved(r, failed) == {sub[r][k] : k \in Kinds \ (failed \cup {"observe"})}

\* The subscriptions that a destroy stops; a stop may fail.
Ended(r, failed) == {sub[r][k] : k \in Kinds \ failed}

\* iotcon_remote_resource_destroy
DestroyResource(r, failed) ==
  /\ box' = [c \in Containers |->
               CrudStop(IF c \in Ended(r, failed) THEN Unsubscribed(box[c]) ELSE box[c], r)]
  /\ sub' = [sub EXCEPT ![r] = [k \in Kinds |-> IF k \in failed THEN @[k] ELSE None]]
  /\ Unref(r)
  /\ held' = held \ {r}
  /\ UNCHANGED <<faults, count, cached>>

\* The sets of stops that may fail together.
Failing == IF ~Open THEN {Kinds} ELSE IF "daemon" \in faults THEN SUBSET Kinds ELSE {{}}

Destroy(r) ==
  /\ r \in held /\ r # incall
  /\ \E failed \in Failing : DestroyResource(r, failed)
  /\ UNCHANGED incall
-----------------------------------------------------------------------------
\* iotcon_remote_resource_start_caching, _start_monitoring, _observe_register
NoEarlyRestart(r, k) == \A c \in Subscriptions(r) : box[c].type # k

Start(r, k, c) ==
  /\ Open /\ r \in held /\ sub[r][k] = None /\ c \in FreeContainers
  /\ "early_restart" \in faults \/ NoEarlyRestart(r, k)
  /\ box' = [box EXCEPT ![c] = Container(k, r, "on")]
  /\ sub' = [sub EXCEPT ![r][k] = c]
  /\ Ref(r)
  /\ UNCHANGED <<faults, count, held, cached, incall>>

\* iotcon_remote_resource_stop_caching, _stop_monitoring, _observe_deregister
Stop(r, k) ==
  /\ Open /\ r \in held /\ sub[r][k] # None
  /\ box' = [box EXCEPT ![sub[r][k]] = Unsubscribed(@)]
  /\ sub' = [sub EXCEPT ![r][k] = None]
  /\ UNCHANGED <<faults, count, refs, held, cached, incall>>

\* _icl_caching_conn_cleanup, _icl_monitoring_conn_cleanup,
\* _icl_observe_conn_cleanup
ConnCleanup(c) ==
  LET r == box[c].res  k == box[c].type
  IN /\ Dispatching /\ k \in Kinds /\ box[c].gdbus = "off"
     /\ cached' = IF k = "caching" THEN [cached EXCEPT ![r] = FALSE] ELSE cached
     /\ sub' = [sub EXCEPT ![r][k] = None]
     /\ Unref(r)
     /\ box' = [box EXCEPT ![c] = Freed([@ EXCEPT !.gdbus = "done"])]
     /\ UNCHANGED <<faults, count, held, incall>>

\* _icl_caching_cb; the callbacks of the others change nothing.
CachingCb(c) ==
  /\ Dispatching /\ c \in Of("caching") /\ box[c].gdbus = "on"
  /\ cached' = [cached EXCEPT ![box[c].res] = TRUE]
  /\ UNCHANGED <<faults, count, refs, held, sub, box, incall>>
-----------------------------------------------------------------------------
\* iotcon_remote_resource_get, _put, _post, _delete
Crud(r, c) ==
  /\ Open /\ r \in held /\ c \in FreeContainers
  /\ box' = [box EXCEPT ![c] = Container("crud", r, "done")]
  /\ UNCHANGED <<faults, count, refs, held, sub, cached, incall>>

\* _icl_on_crud_cb.  With the last call under way a proxy that was given up
\* goes, and its handlers.
OnCrudCb(c) ==
  /\ Dispatching /\ c \in Of("crud")
  /\ box' = [d \in Containers |->
               IF d = c THEN Freed(box[d])
               ELSE IF Of("crud") = {c} /\ box[d].type = "free" THEN [box[d] EXCEPT !.gdbus = "done"]
               ELSE box[d]]
  /\ UNCHANGED <<faults, count, refs, held, sub, cached, incall>>
-----------------------------------------------------------------------------
\* iotcon_find_resource, iotcon_get_device_info, iotcon_get_platform_info
Lookup(type, c) ==
  /\ Open /\ c \in FreeContainers
  /\ box' = [box EXCEPT ![c] = Container(type, None, "on")]
  /\ UNCHANGED <<faults, count, refs, held, sub, cached, incall>>

\* _icl_device_info_cb, _icl_platform_info_cb
InfoCb(c) ==
  /\ Dispatching /\ c \in Of("info") /\ box[c].gdbus = "on"
  /\ box' = [box EXCEPT ![c].told = @ \cup {"found"}]
  /\ UNCHANGED <<faults, count, refs, held, sub, cached, incall>>

\* _icl_found_resource_cb: the callback is called with a new resource,
FoundCb(c, r) ==
  /\ Dispatching /\ c \in Of("find") /\ box[c].gdbus = "on" /\ r \in FreeResources
  /\ box' = [box EXCEPT ![c].told = @ \cup {"found"}]
  /\ NewResource(r)
  /\ incall' = r
  /\ UNCHANGED <<faults, count>>

\* and when it returns the resource is destroyed.
FoundCbReturns ==
  /\ ~Dispatching
  /\ \E failed \in Failing : DestroyResource(incall, failed)
  /\ incall' = None

\* Mutant of TimedOut: no unsubscription.
TimedOutOnly(b) ==
  [b EXCEPT !.timer = FALSE, !.told = IF "found" \in @ THEN @ ELSE @ \cup {"timeout"}]

\* _icl_timeout_find_resource, _icl_timeout_get_device_info, _platform_info
TimedOut(b) ==
  [Unsubscribed(b) EXCEPT !.timer = FALSE,
                          !.told = IF "found" \in @ THEN @ ELSE @ \cup {"timeout"}]

LookupTimeout(c) ==
  /\ Dispatching /\ box[c].type \in Lookups /\ box[c].timer
  /\ box' = [box EXCEPT ![c] = TimedOut(@)]
  /\ UNCHANGED <<faults, count, refs, held, sub, cached, incall>>

\* _icl_find_resource_conn_cleanup, _icl_device_info_conn_cleanup
LookupCleanup(c) ==
  /\ Dispatching /\ box[c].type \in Lookups /\ box[c].gdbus = "off"
  /\ box' = [box EXCEPT ![c] = Freed([@ EXCEPT !.gdbus = "done", !.timer = FALSE])]
  /\ UNCHANGED <<faults, count, refs, held, sub, cached, incall>>
-----------------------------------------------------------------------------
\* iotcon_add_presence_cb
AddPresenceCb(c) ==
  /\ Open /\ c \in FreeContainers
  /\ box' = [box EXCEPT ![c] = Container("presence", None, "on")]
  /\ UNCHANGED <<faults, count, refs, held, sub, cached, incall>>

\* iotcon_remove_presence_cb: the destroy notify will free the container,
\* unless it has run already.
Removed(b) ==
  IF b.sub_id THEN Unsubscribed([b EXCEPT !.handle = FALSE, !.sub_id = FALSE, !.owned = FALSE])
  ELSE Freed([b EXCEPT !.owned = FALSE])

RemovePresenceCb(c) ==
  /\ c \in Of("presence") /\ box[c].owned
  /\ box[c].sub_id => Open
  /\ box' = [box EXCEPT ![c] = Removed(@)]
  /\ UNCHANGED <<faults, count, refs, held, sub, cached, incall>>

\* Mutant of Cleaned: the handle is not looked at.
CleanedAlways(b) == Freed([b EXCEPT !.gdbus = "done", !.sub_id = FALSE])

\* _icl_presence_conn_cleanup
Cleaned(b) ==
  LET done == [b EXCEPT !.gdbus = "done", !.sub_id = FALSE, !.handle = FALSE]
  IN IF b.handle THEN done ELSE Freed(done)

PresenceCleanup(c) ==
  /\ Dispatching /\ c \in Of("presence") /\ box[c].gdbus = "off"
  /\ box' = [box EXCEPT ![c] = Cleaned(@)]
  /\ UNCHANGED <<faults, count, refs, held, sub, cached, incall>>
-----------------------------------------------------------------------------
Init ==
  /\ faults \in SUBSET Faults
  /\ count = 0
  /\ refs = [r \in Resources |-> 0]
  /\ held = {}
  /\ sub = [r \in Resources |-> [k \in Kinds |-> None]]
  /\ cached = [r \in Resources |-> FALSE]
  /\ box = [c \in Containers |-> Freed(Container("free", None, "done"))]
  /\ incall = None

Next ==
  \/ Connect \/ Disconnect \/ NameOwnerNotify \/ FoundCbReturns
  \/ \E r \in Resources : Create(r) \/ Destroy(r)
  \/ \E r \in Resources, k \in Kinds : Stop(r, k) \/ \E c \in Containers : Start(r, k, c)
  \/ \E r \in Resources, c \in Containers : Crud(r, c) \/ FoundCb(c, r)
  \/ \E c \in Containers :
       \/ AddConnectionChangedCb(c) \/ RemoveConnectionChangedCb(c)
       \/ ConnCleanup(c) \/ CachingCb(c) \/ OnCrudCb(c)
       \/ InfoCb(c) \/ LookupTimeout(c) \/ LookupCleanup(c)
       \/ AddPresenceCb(c) \/ RemovePresenceCb(c) \/ PresenceCleanup(c)
       \/ \E type \in Lookups : Lookup(type, c)

\* The program's callbacks return, and its main loop is not so busy with
\* signals for ever that a timer or a destroy notify never gets its turn.
Fairness ==
  /\ WF_vars(FoundCbReturns)
  /\ \A c \in Containers : SF_vars(ConnCleanup(c) \/ LookupTimeout(c) \/ LookupCleanup(c))

Spec == Init /\ [][Next]_vars /\ Fairness
-----------------------------------------------------------------------------
TypeOK ==
  /\ faults \subseteq Faults
  /\ count \in 0 .. MaxConnects
  /\ refs \in [Resources -> Nat]
  /\ held \subseteq Resources
  /\ sub \in [Resources -> [Kinds -> Containers \cup {None}]]
  /\ cached \in [Resources -> BOOLEAN]
  /\ box \in [Containers ->
              [type : Types \cup {"free"}, res : Resources \cup {None},
               gdbus : {"on", "off", "done"}, cb : BOOLEAN, timer : BOOLEAN,
               told : SUBSET {"found", "timeout"}, sub_id : BOOLEAN, handle : BOOLEAN,
               owned : BOOLEAN]]
  /\ incall \in held \cup {None}

\* ref_count is the number of those who will give a reference back: whoever
\* destroys the handle, and the subscriptions whose destroy notify is still
\* to come, whatever became of sub_id.
RefCountExact ==
  \A r \in Resources :
    refs[r] = (IF r \in held THEN 1 ELSE 0) + Cardinality(Subscriptions(r))

\* Nobody is left with the address of something freed: not GDBus, a timer or
\* the program with a container's, not a call under way with that of a
\* resource (it would hand it to a callback), not a resource with the id of
\* a subscription gone, not the heap with the representation of a resource
\* that is gone.  (A watch may be called after the last disconnect, if that
\* came while a call was under way.)
NothingDangles ==
  /\ \A c \in FreeContainers :
       /\ ~box[c].timer /\ ~box[c].owned
       /\ "calls_at_disconnect" \notin faults => box[c].gdbus = "done"
  /\ \A c \in Of("crud") : box[c].cb => box[c].res \in held
  /\ \A r \in Resources, k \in Kinds :
       sub[r][k] # None => sub[r][k] \in Subscriptions(r) \cap Of(k)
  /\ \A r \in Resources : cached[r] => Subscriptions(r) \cap Of("caching") # {}

\* Whatever is still called back for a resource can be stopped: the resource
\* has its id.  And it is stopped when the resource is destroyed.
Stoppable ==
  "early_restart" \notin faults =>
    \A r \in Resources : \A c \in Subscriptions(r) :
      box[c].gdbus = "on" => /\ sub[r][box[c].type] = c
                             /\ faults = {} => r \in held

\* A search ends with IOTCON_ERROR_TIMEOUT or has found something, not both.
ToldOnce == \A c \in Containers : box[c].told # {"found", "timeout"}

\* Every resource destroyed, and every search, is freed in the end, if stops
\* do not fail and subscriptions are not made anew before their time.
AllFreed ==
  /\ \A r \in Resources :
       (faults \cap {"daemon", "early_restart"} = {} /\ r \notin held) ~> (refs[r] = 0 \/ r \in held)
  /\ \A c \in Containers : (box[c].type \in Lookups) ~> (box[c].type = "free")
=============================================================================
