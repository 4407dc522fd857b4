------------------------------ MODULE IcdEncap ------------------------------
(***************************************************************************)
(* The daemon's shared subscriptions: monitoring and caching of remote     *)
(* resources (the encap table) and presence (the presence table), the      *)
(* per-client lists that remember who must be cleaned up, and the IoTivity *)
(* transactions and worker contexts behind them.                           *)
(*                                                                         *)
(*   daemon/icd-ioty.c   the two tables and the worker contexts            *)
(*   daemon/icd-dbus.c   the D-Bus handlers, the client list and the       *)
(*                       cleanup of a client that left the bus             *)
(*   daemon/icd-ioty-ocprocess.c   the end of an observe transaction       *)
(*   lib/icl-remote-resource-{monitoring,caching}.c, lib/icl-presence.c    *)
(*                       which calls a client makes, and what it remembers *)
(*                       of their results                                  *)
(*                                                                         *)
(* The handlers run one at a time on the daemon's main thread; only the    *)
(* callbacks of IoTivity come from another thread.  A call that the        *)
(* privilege check refuses (icd_cynara_check_network) changes nothing, so  *)
(* it is a stuttering step.  The timer of an entry, whose owner is not     *)
(* always the entry, is modelled in EncapTimer.                            *)
(***************************************************************************)
EXTENDS Naturals, FiniteSets

CONSTANTS
  Clients,   \* applications, by unique bus name
  Uris,      \* uri paths of remote resources
  Hosts,     \* host addresses, the multicast address included
  EncapIds,    \* tell equal encap_list entries apart; bound the lists
  PresenceIds, \* the same for the presence lists
  Handles,   \* OCDoHandle values; bounds the live transactions
  Ctxs,      \* addresses of worker contexts
  Faults,    \* what may go wrong, see AllFaults
  Null

(***************************************************************************)
(* "deregister"     the remote ends an observation nobody cancelled        *)
(* "lateDeregister" a cancelled observation ends when the answer comes,    *)
(*                  not inside OCCancel (it is sent with OC_HIGH_QOS)      *)
(* "quickRestart"   a caching starts anew before an observation of the     *)
(*                  same entry that was cancelled has ended                *)
(* "cancelFail"     OCCancel may fail on a live transaction                *)
(* "lostReply"      a client's call times out after the daemon served it   *)
(* "release"        a client gives up a well-known name and lives on       *)
(* "crash"          the daemon dies and is restarted                       *)
(* "reuse"          malloc gives a new OCDoHandle an address that a table, *)
(*                  a list or a client's lib still holds                   *)
(***************************************************************************)
AllFaults ==
  {"deregister", "lateDeregister", "cancelFail", "lostReply", "release", "crash",
   "reuse", "quickRestart"}

ASSUME FaultsAssumption == Faults \subseteq AllFaults
ASSUME NullAssumption == Null \notin (Uris \cup Hosts \cup Handles \cup Ctxs)

VARIABLES
  encaps,         \* the entries of all the clients' encap_list
  presences,      \* the entries of all the clients' presence_list
  dying,          \* encap entries of a removed client, not cleaned up yet
  dyingPresences, \* presence entries of a removed client, not cleaned up yet
  table,          \* icd_ioty_encap_table
  presenceTable,  \* icd_ioty_presence_table
  txns,           \* the transactions IoTivity has for this daemon
  ctx,            \* the worker contexts
  held,           \* monitorings and cachings the clients' libs believe in
  subscribed,     \* presence subscriptions the clients' libs believe in
  unaware         \* clients whose main loop has not yet seen the daemon go

lists == <<encaps, presences, dying, dyingPresences>>
tables == <<table, presenceTable>>
ioty == <<txns, ctx>>
libs == <<held, subscribed>>
vars == <<lists, tables, ioty, libs, unaware>>
-----------------------------------------------------------------------------
Types == {"monitoring", "caching"}
Other(t) == IF t = "monitoring" THEN "caching" ELSE "monitoring"

Keys == [uri : Uris, host : Hosts]

EncapHandles == [id : EncapIds, client : Clients, type : Types, key : Keys]
PresenceHandles == [id : PresenceIds, client : Clients, host : Hosts, handle : Handles]

\* A missing key of the table reads as NoEntry; the pair monitoring_count,
\* caching_count is the function count, presence_handle, observe_handle the
\* function handle.
NoEntry == [count |-> [t \in Types |-> 0],
            handle |-> [t \in Types |-> Null],
            worker_ctx |-> Null]
Entries == [count : [Types -> Nat],
            handle : [Types -> Handles \cup {Null}],
            worker_ctx : Ctxs \cup {Null}]

NoPresence == [client_count |-> 0, handle |-> Null]
PresenceInfos == [client_count : Nat, handle : Handles \cup {Null}]

\* The kind of a transaction names its callback: "monitoring" is
\* encap_presence_cb, "caching" encap_observe_cb, "presence" presence_cb.
NoTxn == [kind |-> "none", uri |-> Null, host |-> Null, ctx |-> Null,
          cancelling |-> FALSE]
Txns == [kind : Types \cup {"presence", "none"}, uri : Uris \cup {Null},
         host : Hosts \cup {Null}, ctx : Ctxs \cup {Null}, cancelling : BOOLEAN]

\* presence_flag and observe_flag are the function flag.
NewCtx == [allocated |-> TRUE, flag |-> [t \in Types |-> FALSE], is_valid |-> TRUE]
FreedCtx == [allocated |-> FALSE, flag |-> [t \in Types |-> FALSE], is_valid |-> FALSE]
WorkerCtxs == [allocated : BOOLEAN, flag : [Types -> BOOLEAN], is_valid : BOOLEAN]
-----------------------------------------------------------------------------
InTable(k) == table[k].worker_ctx # Null

Live(h) == h \in Handles /\ txns[h].kind # "none"

\* A context no entry and no transaction points at has an address calloc may
\* hand out again, or is lost for good: either way its identity is free.
FreshCtxs == Ctxs \ ({table[k].worker_ctx : k \in Keys} \cup {txns[h].ctx : h \in Handles})

WorkerCtx(k) == IF InTable(k) THEN {table[k].worker_ctx} ELSE FreshCtxs

\* Mutants of LastUser: the other type's users are ignored; off by one.
LastUserIgnoresOther(t, k) == TRUE
LastUserOffByOne(t, k) == table[k].count[Other(t)] = 1

\* Is the last user of type t on key k also the last one of the entry?
LastUser(t, k) == table[k].count[Other(t)] = 0

\* Mutant of FreeWorkerCtx: the other flag is not looked at.
FreeWorkerCtxAlways(f, t, w) == [f EXCEPT ![w] = FreedCtx]

\* _free_encap_worker_presence_ctx and _free_encap_worker_observe_ctx on w:
\* drop the own flag, free the context unless the other flag is set.
FreeWorkerCtx(f, t, w) ==
  [f EXCEPT ![w] = IF @.flag[Other(t)] THEN [@ EXCEPT !.flag[t] = FALSE]
                                       ELSE FreedCtx]

\* IoTivity deletes a transaction and calls its cd callback, if it has one.
CtxAfterDelete(f, h) ==
  IF txns[h].kind \in Types THEN FreeWorkerCtx(f, txns[h].kind, txns[h].ctx) ELSE f

\* OCCancel(h).  With OC_HIGH_QOS an observation is only asked to end.
OCCancel(h, highQos, f, ok) ==
  \/ /\ ~ok
     /\ ~Live(h) \/ "cancelFail" \in Faults
     /\ txns' = txns
     /\ ctx' = f
  \/ /\ ok
     /\ Live(h)
     /\ IF highQos /\ txns[h].kind = "caching" /\ "lateDeregister" \in Faults
        THEN /\ txns' = [txns EXCEPT ![h].cancelling = TRUE]
             /\ ctx' = f
        ELSE /\ txns' = [txns EXCEPT ![h] = NoTxn]
             /\ ctx' = CtxAfterDelete(f, h)

\* The handles somebody has, live or not.
KnownHandles ==
  {p.handle : p \in presences \cup dyingPresences \cup subscribed}
    \cup {presenceTable[host].handle : host \in Hosts}
    \cup {table[k].handle[t] : k \in Keys, t \in Types}

\* OCDoResource for a presence or observe request: h is its new handle.
OCDoResource(h, kind, uri, host, w) ==
  /\ ~Live(h)
  /\ h \in KnownHandles => "reuse" \in Faults
  /\ txns' = [txns EXCEPT ![h] = [kind |-> kind, uri |-> uri, host |-> host,
                                  ctx |-> w, cancelling |-> FALSE]]
-----------------------------------------------------------------------------
\* icd_ioty_subscribe_presence: the subscribers of an address share one
\* transaction, whose callback is the first subscriber's.
SubscribePresence(kind, uri, host, w, h) ==
  \/ /\ presenceTable[host].client_count > 0
     /\ h = presenceTable[host].handle
     /\ presenceTable' = [presenceTable EXCEPT ![host].client_count = @ + 1]
     /\ UNCHANGED txns
  \/ /\ presenceTable[host].client_count = 0
     /\ presenceTable' = [presenceTable EXCEPT ![host] = [client_count |-> 1, handle |-> h]]
     /\ OCDoResource(h, kind, uri, host, w)

\* Mutants of PresenceTableRemove: the count is not kept, or not decremented.
PresenceTableRemoveAlways(info) == NoPresence
PresenceTableRemoveNever(info) ==
  IF info.client_count > 1 THEN info ELSE NoPresence

\* _icd_ioty_presence_table_remove: what is left of the address's record.
PresenceTableRemove(info) ==
  IF info.client_count > 1 THEN [info EXCEPT !.client_count = @ - 1] ELSE NoPresence

\* icd_ioty_unsubscribe_presence: OCCancel gets the caller's handle.
UnsubscribePresence(h, host, f, ok) ==
  /\ presenceTable' = [presenceTable EXCEPT ![host] = PresenceTableRemove(@)]
  /\ IF presenceTable[host].client_count = 1
     THEN OCCancel(h, FALSE, f, ok)
     ELSE ok /\ txns' = txns /\ ctx' = f

\* icd_ioty_start_encap, when somebody already uses the key for type t.
StartEncapShared(t, k) ==
  /\ table[k].count[t] > 0
  /\ table' = [table EXCEPT ![k].count[t] = @ + 1]
  /\ UNCHANGED <<presenceTable, txns, ctx>>

\* icd_ioty_start_encap, the first user of type t on the key.
StartEncapFirst(t, k) ==
  /\ table[k].count[t] = 0
  /\ \E w \in WorkerCtx(k), h \in Handles :
       /\ table' = [table EXCEPT ![k] = [@ EXCEPT !.count[t] = 1, !.handle[t] = h,
                                                  !.worker_ctx = w]]
       /\ ctx' = [ctx EXCEPT ![w] = [(IF InTable(k) THEN @ ELSE NewCtx)
                                       EXCEPT !.flag[t] = TRUE]]
       /\ \/ /\ t = "monitoring"
             /\ SubscribePresence(t, k.uri, k.host, w, h)
          \/ /\ t = "caching"
             /\ OCDoResource(h, t, k.uri, k.host, w)
             /\ UNCHANGED presenceTable

\* icd_ioty_start_encap when OCDoResource fails: a new entry is removed
\* again; an old one loses its handle, and the observe path runs cd.
StartEncapFails(t, k) ==
  /\ table[k].count[t] = 0
  /\ t = "monitoring" => presenceTable[k.host].client_count = 0
  /\ IF InTable(k)
     THEN /\ table' = [table EXCEPT ![k].handle[t] = Null]
          /\ ctx' = IF t = "caching" THEN FreeWorkerCtx(ctx, t, table[k].worker_ctx) ELSE ctx
     ELSE UNCHANGED <<table, ctx>>
  /\ UNCHANGED <<presenceTable, txns>>

StartEncap(t, k, ok) ==
  \/ ok /\ StartEncapShared(t, k)
  \/ ok /\ StartEncapFirst(t, k)
  \/ ~ok /\ StartEncapFails(t, k)

\* icd_ioty_stop_encap: NO_DATA or INVALID_PARAMETER.
StopEncapUnknown(t, k) ==
  /\ table[k].count[t] = 0
  /\ UNCHANGED <<tables, ioty>>

\* icd_ioty_stop_encap: others of the same type remain.
StopEncapShared(t, k) ==
  /\ table[k].count[t] > 1
  /\ table' = [table EXCEPT ![k].count[t] = @ - 1]
  /\ UNCHANGED <<presenceTable, txns, ctx>>

\* _icd_ioty_stop_encap_get tells the callbacks that the entry is gone.
Invalidate(f, w) == [f EXCEPT ![w].is_valid = FALSE]

\* icd_ioty_stop_encap, the last user of type t: _icd_ioty_stop_encap_get
\* drops the entry when no other type uses it, then the presence or observe
\* request is cancelled.
StopEncapLast(t, k, ok) ==
  /\ table[k].count[t] = 1
  /\ table' = [table EXCEPT ![k] = IF LastUser(t, k) THEN NoEntry
                                   ELSE [@ EXCEPT !.count[t] = 0]]
  /\ LET f == IF LastUser(t, k) THEN Invalidate(ctx, table[k].worker_ctx) ELSE ctx
     IN \/ /\ t = "monitoring"
           /\ UnsubscribePresence(table[k].handle[t], k.host, f, ok)
        \/ /\ t = "caching"
           /\ OCCancel(table[k].handle[t], TRUE, f, ok)
           /\ UNCHANGED presenceTable

StopEncap(t, k, ok) ==
  \/ ~ok /\ StopEncapUnknown(t, k)
  \/ ok /\ StopEncapShared(t, k)
  \/ StopEncapLast(t, k, ok)
-----------------------------------------------------------------------------
Cleaning == dying # {} \/ dyingPresences # {}

\* Mutant of EncapListMatches: the type is not compared.
EncapListMatchesAnyType(e) ==
  {m \in encaps : m.client = e.client /\ m.key = e.key}

\* _icd_dbus_encap_list_remove takes the first entry of the sender that
\* matches; equal entries differ in their id only.
EncapListMatches(e) ==
  IF e \in encaps THEN {e}
  ELSE {m \in encaps : m.client = e.client /\ m.type = e.type /\ m.key = e.key}
EncapListRemove(e) ==
  IF EncapListMatches(e) = {} THEN UNCHANGED encaps
  ELSE \E m \in EncapListMatches(e) : encaps' = encaps \ {m}

\* _icd_dbus_presence_list_remove compares the handle only.
PresenceListMatches(p) ==
  IF p \in presences THEN {p}
  ELSE {m \in presences : m.client = p.client /\ m.handle = p.handle}
PresenceListRemove(p) ==
  IF PresenceListMatches(p) = {} THEN UNCHANGED presences
  ELSE \E m \in PresenceListMatches(p) : presences' = presences \ {m}

FreshEncapIds == EncapIds \ {e.id : e \in encaps \cup dying \cup held}
FreshPresenceIds == PresenceIds \ {p.id : p \in presences \cup dyingPresences \cup subscribed}

\* Does the reply reach the client?
Replied(arrives) == arrives \/ "lostReply" \in Faults

\* Is an observation of the entry that was cancelled still to end?
Ending(k) ==
  InTable(k) /\ \E h \in Handles : txns[h].cancelling /\ txns[h].ctx = table[k].worker_ctx

\* iotcon_remote_resource_start_monitoring / _start_caching and the
\* handlers _dbus_handle_start_monitoring / _start_caching.
Start(c, t, k) ==
  /\ ~Cleaning
  /\ t = "caching" /\ Ending(k) => "quickRestart" \in Faults
  /\ \/ /\ StartEncap(t, k, FALSE)
        /\ UNCHANGED <<encaps, held>>
     \/ /\ StartEncap(t, k, TRUE)
        /\ \E i \in FreshEncapIds, arrives \in BOOLEAN :
             LET e == [id |-> i, client |-> c, type |-> t, key |-> k]
             IN /\ Replied(arrives)
                /\ encaps' = encaps \cup {e}
                /\ held' = IF arrives THEN held \cup {e} ELSE held
  /\ UNCHANGED <<presences, dying, dyingPresences, subscribed, unaware>>

\* iotcon_remote_resource_stop_monitoring / _stop_caching and their handlers:
\* the entry goes, and the lib forgets, only if icd_ioty_stop_encap succeeds.
Stop(e) ==
  /\ ~Cleaning
  /\ \/ /\ StopEncap(e.type, e.key, FALSE)
        /\ UNCHANGED <<encaps, held>>
     \/ /\ StopEncap(e.type, e.key, TRUE)
        /\ EncapListRemove(e)
        /\ \E arrives \in BOOLEAN :
             /\ Replied(arrives)
             /\ held' = IF arrives THEN held \ {e} ELSE held
  /\ UNCHANGED <<presences, dying, dyingPresences, subscribed, unaware>>

\* iotcon_add_presence_cb and _dbus_handle_subscribe_presence.  When
\* OCDoResource fails nothing changes.
AddPresence(c, host) ==
  /\ ~Cleaning
  /\ \E h \in Handles, i \in FreshPresenceIds, arrives \in BOOLEAN :
       LET p == [id |-> i, client |-> c, host |-> host, handle |-> h]
       IN /\ SubscribePresence("presence", Null, host, Null, h)
          /\ Replied(arrives)
          /\ presences' = presences \cup {p}
          /\ subscribed' = IF arrives THEN subscribed \cup {p} ELSE subscribed
  /\ UNCHANGED <<encaps, dying, dyingPresences, table, ctx, held, unaware>>

\* iotcon_remove_presence_cb and _dbus_handle_unsubscribe_presence: the
\* entry goes before the result of icd_ioty_unsubscribe_presence is known.
RemovePresence(p) ==
  /\ ~Cleaning
  /\ PresenceListRemove(p)
  /\ \E ok, arrives \in BOOLEAN :
       /\ UnsubscribePresence(p.handle, p.host, ctx, ok)
       /\ Replied(arrives)
       /\ subscribed' = IF ok /\ arrives THEN subscribed \ {p} ELSE subscribed
  /\ UNCHANGED <<encaps, dying, dyingPresences, table, held, unaware>>
-----------------------------------------------------------------------------
EncapsOf(c) == {e \in encaps : e.client = c}
PresencesOf(c) == {p \in presences : p.client = c}

\* _icd_dbus_name_owner_changed_cb: NameOwnerChanged with an empty new
\* owner takes the record of old_owner out of the client list.
NameOwnerChanged(c) ==
  /\ ~Cleaning
  /\ dying' = EncapsOf(c)
  /\ encaps' = encaps \ EncapsOf(c)
  /\ dyingPresences' = PresencesOf(c)
  /\ presences' = presences \ PresencesOf(c)
  /\ UNCHANGED <<tables, ioty>>

\* The client leaves the bus: NameOwnerChanged for its unique name.
ClientExit(c) ==
  /\ NameOwnerChanged(c)
  /\ held' = {e \in held : e.client # c}
  /\ subscribed' = {p \in subscribed : p.client # c}
  /\ unaware' = unaware \ {c}

\* The client gives up a well-known name: same signal, same old_owner.
ReleaseName(c) ==
  /\ "release" \in Faults
  /\ NameOwnerChanged(c)
  /\ UNCHANGED <<libs, unaware>>

\* _icd_dbus_cleanup_presence_list, then _icd_dbus_cleanup_encap_list, one
\* entry at a time; the main thread does nothing else meanwhile.
CleanupPresence(p) ==
  /\ dyingPresences' = dyingPresences \ {p}
  /\ \E ok \in BOOLEAN : UnsubscribePresence(p.handle, p.host, ctx, ok)
  /\ UNCHANGED <<encaps, presences, dying, table, libs, unaware>>

CleanupEncap(e) ==
  /\ dyingPresences = {}
  /\ dying' = dying \ {e}
  /\ \E ok \in BOOLEAN : StopEncap(e.type, e.key, ok)
  /\ UNCHANGED <<encaps, presences, dyingPresences, libs, unaware>>

\* icd_ioty_ocprocess_encap_observe_cb gets OC_OBSERVE_DEREGISTER and returns
\* OC_STACK_DELETE_TRANSACTION.
ObserveDeregister(h) ==
  /\ txns[h].kind = "caching"
  /\ txns[h].cancelling \/ "deregister" \in Faults
  /\ txns' = [txns EXCEPT ![h] = NoTxn]
  /\ ctx' = CtxAfterDelete(ctx, h)
  /\ UNCHANGED <<lists, tables, libs, unaware>>

\* The daemon dies, at any point of a cleanup, and systemd restarts it.
DaemonRestart ==
  /\ "crash" \in Faults
  /\ encaps' = {} /\ presences' = {} /\ dying' = {} /\ dyingPresences' = {}
  /\ table' = [k \in Keys |-> NoEntry]
  /\ presenceTable' = [host \in Hosts |-> NoPresence]
  /\ txns' = [h \in Handles |-> NoTxn]
  /\ ctx' = [w \in Ctxs |-> FreedCtx]
  /\ unaware' = Clients
  /\ UNCHANGED libs

\* _icl_dbus_name_owner_notify: a client's main loop learns that the daemon
\* lost its name and drops every subscription.
NameOwnerNotify(c) ==
  /\ c \in unaware
  /\ unaware' = unaware \ {c}
  /\ held' = {e \in held : e.client # c}
  /\ subscribed' = {p \in subscribed : p.client # c}
  /\ UNCHANGED <<lists, tables, ioty>>
-----------------------------------------------------------------------------
Init ==
  /\ encaps = {} /\ presences = {} /\ dying = {} /\ dyingPresences = {}
  /\ table = [k \in Keys |-> NoEntry]
  /\ presenceTable = [host \in Hosts |-> NoPresence]
  /\ txns = [h \in Handles |-> NoTxn]
  /\ ctx = [w \in Ctxs |-> FreedCtx]
  /\ held = {} /\ subscribed = {} /\ unaware = {}

Next ==
  \/ \E c \in Clients, t \in Types, k \in Keys : Start(c, t, k)
  \/ \E e \in held : Stop(e)
  \/ \E c \in Clients, host \in Hosts : AddPresence(c, host)
  \/ \E p \in subscribed : RemovePresence(p)
  \/ \E c \in Clients : ClientExit(c)
  \/ \E c \in Clients : ReleaseName(c)
  \/ \E p \in dyingPresences : CleanupPresence(p)
  \/ \E e \in dying : CleanupEncap(e)
  \/ \E h \in Handles : ObserveDeregister(h)
  \/ DaemonRestart
  \/ \E c \in Clients : NameOwnerNotify(c)

Spec == Init /\ [][Next]_vars
-----------------------------------------------------------------------------
(***************************************************************************)
(* Properties.                                                             *)
(***************************************************************************)
\* Every variable has its type (the tables of icd-ioty.c, the client list of
\* icd-dbus.c, the handles of the libs).
TypeOK ==
  /\ encaps \subseteq EncapHandles
  /\ presences \subseteq PresenceHandles
  /\ dying \subseteq EncapHandles
  /\ dyingPresences \subseteq PresenceHandles
  /\ table \in [Keys -> Entries]
  /\ presenceTable \in [Hosts -> PresenceInfos]
  /\ txns \in [Handles -> Txns]
  /\ ctx \in [Ctxs -> WorkerCtxs]
  /\ held \subseteq EncapHandles
  /\ subscribed \subseteq PresenceHandles
  /\ unaware \subseteq Clients

\* The list entries that stand for users of type t on key k.
UsersOf(t, k) == {e \in encaps \cup dying : e.type = t /\ e.key = k}
Subscribers(host) == {p \in presences \cup dyingPresences : p.host = host}
\* The keys whose monitoring holds the host's presence subscription.
MonitoredOn(host) == {k \in Keys : k.host = host /\ table[k].count["monitoring"] > 0}

\* Whatever goes wrong, monitoring_count and caching_count never exceed the
\* entries of the client lists, so what icd_ioty_start_encap set up is never
\* kept for a client that nobody remembers.
CountsCovered ==
  \A t \in Types, k \in Keys : table[k].count[t] <= Cardinality(UsersOf(t, k))

\* Likewise client_count of the presence table: it is covered by the entries
\* of the presence lists and by the monitored resources on the host.  A
\* reused handle breaks it: _icd_dbus_presence_list_remove compares handles
\* only, and may take the entry of another host.
PresenceCovered ==
  "reuse" \notin Faults =>
  \A host \in Hosts :
    presenceTable[host].client_count
      <= Cardinality(Subscribers(host)) + Cardinality(MonitoredOn(host))

\* When the last client is gone and cleaned up, both tables are empty,
\* whatever went wrong before; the presence table only if no handle was
\* reused.  (What of an entry's timer is left is a question for EncapTimer.)
NoOrphans ==
  encaps \cup dying = {} =>
    /\ \A k \in Keys : ~InTable(k)
    /\ (presences \cup dyingPresences = {} /\ "reuse" \notin Faults) =>
         \A host \in Hosts : presenceTable[host].client_count = 0

\* Nothing can make a count disagree with the lists but these faults.
Exact == Faults \cap {"deregister", "cancelFail", "lostReply", "release", "crash"} = {}

\* Without those faults the counts are the numbers of list entries, and the
\* lists are what the libs believe.
CountsExact ==
  Exact =>
    /\ \A t \in Types, k \in Keys : table[k].count[t] = Cardinality(UsersOf(t, k))
    /\ \A host \in Hosts :
         presenceTable[host].client_count
           = Cardinality(Subscribers(host)) + Cardinality(MonitoredOn(host))
    /\ held = encaps /\ subscribed = presences

\* A monitoring or caching a client started and did not stop is served by the
\* daemon: its entry and its presence or observe request are there.
HeldServed ==
  \A e \in held :
    LET entry == table[e.key]
        h == entry.handle[e.type]
    IN /\ entry.count[e.type] > 0
       /\ Live(h) /\ ~txns[h].cancelling /\ txns[h].host = e.key.host

\* A presence callback a client added is backed by the host's presence
\* request, and remove_presence_cb will cancel that very request.
SubscribedServed ==
  \A p \in subscribed :
    /\ presenceTable[p.host].client_count > 0
    /\ presenceTable[p.host].handle = p.handle
    /\ Live(p.handle) /\ txns[p.handle].host = p.host

\* What the libs believe in, the daemon serves.
Served == HeldServed /\ SubscribedServed

\* Every request that is not being cancelled belongs to an entry of a table:
\* no observation or presence subscription is leaked in IoTivity.
NoLeakedTxn ==
  \A h \in Handles : (Live(h) /\ ~txns[h].cancelling) =>
    \/ \E host \in Hosts : /\ presenceTable[host].client_count > 0
                           /\ presenceTable[host].handle = h
    \/ \E k \in Keys : /\ table[k].count["caching"] > 0
                       /\ table[k].handle["caching"] = h

\* The worker context a table entry or a callback will use has not been freed.
CtxAllocated ==
  /\ \A k \in Keys : InTable(k) => ctx[table[k].worker_ctx].allocated
  /\ \A h \in Handles : txns[h].kind \in Types => ctx[txns[h].ctx].allocated

\* A context that passes _worker_encap_get's is_valid check belongs to an
\* entry of the table, so the callback's worker never works for a stopped one.
ValidCtxInTable ==
  \A h \in Handles : (txns[h].kind \in Types /\ ctx[txns[h].ctx].is_valid) =>
    \E k \in Keys : table[k].worker_ctx = txns[h].ctx

\* The context that entry and transactions share is there as long
\* as one of them may use it, and valid no longer than its entry.
ContextsSafe == CtxAllocated /\ ValidCtxInTable

\* A client's stop never ends what another client still has: the daemon
\* counts one user less, and it is the caller.
StopLeavesOthers ==
  [][\A s \in held : Stop(s) =>
       \A e \in held : (e.client # s.client /\ table[e.key].count[e.type] > 0)
                        => table'[e.key].count[e.type] > 0]_vars

\* The daemon implements SharedService: a monitoring or caching runs (its
\* presence or observe request is live and not being cancelled) exactly
\* while some client list has an entry for it.
Services == Types \X Keys
Running(t, k) ==
  /\ table[k].count[t] > 0
  /\ Live(table[k].handle[t])
  /\ ~txns[table[k].handle[t]].cancelling
Service == INSTANCE SharedService WITH
  Users <- EncapHandles,
  users <- [s \in Services |-> UsersOf(s[1], s[2])],
  running <- {s \in Services : Running(s[1], s[2])}
ImplementsService == Service!Spec

\* An application that added a presence callback gets it called: the host's
\* request has the callback that emits the PRESENCE signal.
PresenceDelivered ==
  \A p \in subscribed : Live(p.handle) => txns[p.handle].kind = "presence"
=============================================================================
