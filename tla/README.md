# iotcon: a TLA+ verification project

iotcon is Tizen's IoT connectivity framework. Applications link `lib/` (libiotcon);
one daemon, `daemon/` (iotcon-daemon), owns the IoTivity stack and serves all
applications over D-Bus. The specifications in this directory model what the two
programs do together, TLC checks them on small instances, and TLAPS proves some of
their invariants for every instance. Source paths below are relative to the
repository's root.

## 1. Inventory

    application --- lib ===== D-Bus ===== daemon: icd-dbus.c --- icd-ioty.c --- IoTivity --- remote
                     ^                        main thread              |
                     |                                                 | callbacks, packet thread
                     +------ D-Bus signals ------ workers <------------+ icd-ioty-ocprocess.c

The lib is single-threaded: every operation is a synchronous D-Bus call (with a
timeout) or a callback run by the application's main loop. The daemon has a main
thread (GLib main loop: D-Bus handlers, timers), a packet thread that runs
`OCProcess` and with it all IoTivity callbacks, and one detached worker thread for
every answer a callback takes. `icd_ioty_csdk_lock` guards IoTivity; a mutex guards
the client list; nothing guards the encap and presence tables.

| Component | State | Operations | Hard behaviour | What makes it correct |
|---|---|---|---|---|
| Shared subscriptions: monitoring, caching, presence (`daemon/icd-ioty.c`, `daemon/icd-dbus.c`, `lib/icl-remote-resource-{monitoring,caching}.c`, `lib/icl-presence.c`) | encap table (two counts, two request handles, timer, worker context per resource), presence table (count, handle per host), each client's encap and presence list, the libs' subscription ids | start and stop of monitoring and caching, add and remove of presence callbacks, cleanup after a client, callbacks that end a request | counts shared by types and clients; a stop half done when `OCCancel` fails; lost replies; restart; name-owner signals; reused addresses | a count equals the list entries that stand for it; a stop takes away the caller's use and nobody else's; nothing outlives its last user; what a lib believes in is served |
| Encap workers (`daemon/icd-ioty.c`, `daemon/icd-ioty-ocprocess.c`) | state and representation of the entry, GETs, answers and workers under way, signals | periodic GET, answer, compare, write, emit | answers overtake each other; entry freed under a worker; signals before the subscription; first update only | the entry and the clients come to have what the resource has; no duplicate news |
| Comparison of representations (`daemon/icd-payload.c`) | none | `icd_payload_representation_compare` | unordered lists, nested objects, byte strings | exactly the changes are detected |
| Client records (`daemon/icd-dbus.c`) | per client: lists of resources, observations, presence and encap handles | add and remove by handler, cleanup on name loss | list changed before or after the operation that may fail | lists and IoTivity agree |
| Client lib: connection (`lib/icl-dbus.c`) | connect count, proxy, subscription ids, callbacks | connect, disconnect, subscribe, name-owner notify | destroy notifies that run later; re-entrance from callbacks | an id belongs to a live subscription; disconnect leaves none |
| CRUD requests (`lib/icl-remote-resource-crud.c`, both ioty files) | one context per call | get, put, post, delete | error and timeout paths; cancelled by nobody | every call completes exactly once |
| Find, device and platform info (`lib/icl-remote-resource.c`, `lib/icl-device.c`, both ioty files) | discovery request, its timer, its signal | find, get info, timeout | late answers, timer against cancel | no callback after the timeout's, no leaked request |
| Server resources (`lib/icl-resource.c`, `lib/icl-request.c`, `lib/icl-response.c`, daemon) | resources, children, observers, pending requests | register, bind, unbind, set, unregister, notify, respond | unregister with requests under way; list entry removed before the privilege check | a request gets at most one answer; observers are those who registered |
| Observation (`lib/icl-remote-resource.c`, daemon) | observe handle, list entry | register, deregister, observe answers | stop when the list entry is gone already | one notification stream per registration |
| Lite resource (`lib/icl-lite-resource.c`) | attributes, observers | create, update, destroy, handle request | update while a request is under way | attribute and notification agree |
| Daemon lifecycle (`daemon/icd.c`, `daemon/icd-ioty-ocprocess.c`) | alive flag, thread, bus name | init, run, stop | stop before the thread runs; failures of init | the daemon ends, and only then |
| Data (`lib/icl-representation.c`, `icl-state.c`, `icl-value.c`, `icl-list.c`, `icl-query.c`, `icl-options.c`, `icl-resource-types.c`, `icl-resource-interfaces.c`) | reference counts, maps, lists | add, get, delete, clone, iterate | reference counts, types of nested lists | a clone equals its original and shares nothing mutable |
| Payload conversion (`daemon/icd-payload.c`, `lib/icl-payload.c`, `icd-ioty-type.c`, `icl-dbus-type.c`) | none | to and from GVariant | null values, byte strings, nested arrays | the round trip keeps the meaning |
| Privilege check (`daemon/icd-cynara.c`) | session with cynara | check | initialisation may fail | a refused call changes nothing |

`PROJECT.json` lists the components again with their status, the hazards of the code
at their lines, and the lines that each definition stands for.

## 2. Modules

| Module | What it is |
|---|---|
| `SharedService` | What the daemon promises about monitoring and caching: users join and leave services, a service runs exactly while it has users. |
| `IcdEncap` | Monitoring, caching and presence: the tables, the client lists, worker contexts, IoTivity's transactions, the libs, seven faults. |
| `EncapRefresh` | How a change of one resource travels through GETs, workers, the entry and signals to the clients. |
| `EncapTimer` | The timer of one entry's periodic GET, and the main thread and the workers that replace it. |
| `IcdRequests` | Requests to remote resources in the daemon: GET, PUT, POST, DELETE, searches, information, observations; the processing thread and the daemon's start and end. |
| `IcdResource` | Resources that applications serve: registration, binding, requests, observers, responses, cleanup and restart. |
| `IclRemote` | What a client's library keeps for callbacks and for how long: references of remote resources, subscriptions, containers, timers. |
| `PayloadConvert` | The four conversions of a representation on its way from one library to another, as pure operators. |
| `PayloadCompare` | The comparison that decides whether an answer is a change, and the worker's use of it on converted representations. |
| `IclData`, `IclQuery` | The library's data objects and their reference counts; the length of a query. |
| `IcdEncap_proofs`, `EncapService_proofs`, `EncapRefresh_proofs`, `EncapTimer_proofs`, `IcdRequests_proofs`, `IcdResource_proofs`, `IclRemote_proofs`, `IclData_proofs` | Theorems and proofs; `EncapService_proofs` builds on `IcdEncap_proofs`. |
| `MCIcdEncap`, `MCEncapRefresh`, `MCEncapTimer`, `MCIcdRequests`, `MCIcdResource`, `MCIclRemote`, `MCPayloadCompare`, `MCIclData` | Symmetry sets, sets of answers, of conditions and of scenes, for TLC. |

The modules share no variables. They meet in the daemon's client record, whose four lists
are split among them (encap and presence lists in `IcdEncap`, observations in
`IcdRequests`, resources in `IcdResource`), and at the D-Bus signals, which `EncapRefresh`,
`IcdRequests` and `IcdResource` send and `IclRemote` receives. `PayloadCompare` is what
`EncapRefresh` leaves abstract in its step `Compare`. `EncapTimer` takes the timer, which is
one bit per key in `IcdEncap`, apart into GLib sources. `IcdEncap` implements `SharedService`,
`PayloadCompare` extends `PayloadConvert` and `IclData` extends `IclQuery`.

### IcdEncap

| Variable | In the code |
|---|---|
| `encaps`, `presences` | the entries of all clients' `encap_list` and `presence_list` in `icd_dbus_client_list`; equal entries of the C lists are told apart by an `id` |
| `dying`, `dyingPresences` | the entries of a client already unlinked by `_icd_dbus_name_owner_changed_cb` and not yet cleaned up |
| `table` | `icd_ioty_encap_table`: `monitoring_count` and `caching_count` are `count`, `presence_handle` and `observe_handle` are `handle` |
| `presenceTable` | `icd_ioty_presence_table` |
| `txns` | IoTivity's transactions: the callback (`kind`), its context, and whether it is being cancelled |
| `ctx` | the `icd_encap_worker_ctx_s` contexts with their two flags and `is_valid` |
| `held`, `subscribed` | nonzero `monitoring_sub_id`, `caching_sub_id` and presence subscriptions of the libs |
| `unaware` | clients whose main loop has not yet seen the daemon's name go |

One D-Bus handler is one action: the main thread runs it to its end, and the IoTivity
callbacks it may meet touch only transactions and contexts. `Start` and `Stop` are
`_dbus_handle_{start,stop}_{monitoring,caching}` together with `icd_ioty_start_encap`
and `icd_ioty_stop_encap`, every error path included, and with what the lib does with
the answer. `AddPresence` and `RemovePresence` are the same for presence. `ClientExit`,
`ReleaseName`, `CleanupPresence` and `CleanupEncap` are the name-owner callback and the
cleanup of the lists, an entry at a time (presence first, as the code does).
`ObserveDeregister` is the remote ending an observation or answering a cancellation;
`DaemonRestart` is the crash and the restart by systemd (`packaging/iotcon.service`);
`NameOwnerNotify` is `_icl_dbus_name_owner_notify` in a client. IoTivity (`OCDoResource`,
`OCCancel`, the `cd` callback) is modelled as this code uses it: a cancellation with high
quality of service may complete later, a delete calls `cd`.

`Faults` says what may go wrong: the remote ends an observation, a cancellation completes
late or fails, a reply times out after the daemon served the call, a client releases a
well-known name, the daemon dies, or malloc gives a request an address that somebody
still holds. Requests to IoTivity may always be refused, and so may `calloc`; a privilege
refusal changes nothing and is not an action.

### EncapRefresh

Its `remote` is the resource; `gets` the GETs, answers and workers under way, `shown` the
entry's `resource_state` and `oic_payload`, `users` and `number` its counts and signal
number, `sub`, `queue` and `view` a client's subscription, the signals on the bus for it,
and what it was last told, each by type: in which order the callbacks of the two types run
is left open, as they share nothing. A stop drops what is on its way, because GDBus finds
the subscriber gone when the signal's turn comes. A worker's steps (`LookUp`, `Compare`, `Write`, `Emit`) are
separate because a worker of an answer holds only the mutex of its own answer. When the
entry it found has been removed, a `Compare` may come out either way and `Write` and
`Emit` go nowhere, or, with `"reuse"`, to a new entry at the same address.

`conditions`, which never changes, says what a behaviour may meet: GETs that overlap
(`"overlap"`), reused addresses (`"reuse"`), and, to keep the product small, only one
client that uses the resource at a time (`"alone"`). A run gives the set of combinations
it asks about, so that one run compares the quiet case with the hard one, and a property
that holds in the quiet case only says so.

### EncapTimer

| Variable | In the code |
|---|---|
| `conditions` | what the behaviour may meet; never changes |
| `number`, `last` | the entry of the key in `icd_ioty_encap_table`, numbered, and the entries made so far; an entry's `worker_ctx` has its number |
| `get_timer_id` | of the entry in the table |
| `valid`, `requests` | the contexts with `is_valid`; those that a request of IoTivity still points at, which are not freed |
| `locked` | the contexts whose `icd_worker_mutex` is taken |
| `sources` | the GLib timers that are attached, with the entry that is their user data |
| `main`, `worker` | what the main thread is in the middle of; a worker's context, step and the entry it found |

Calls that another thread can come between are two actions: `StartEncap` and `AddTimer`
(`icd_ioty_start_encap` for the first user), `SetTimeInterval` and `AddTimer`,
`StopEncapGet` and `EncapTableRemove` (`_icd_ioty_stop_encap_get` for the last user).
`EncapCb` is the observe and the presence callback, which start a worker; `WorkerLookup`,
`WorkerRemove` and `WorkerAdd` are `_worker_encap_get`. The observe and the presence request
of an entry are one here, as either keeps the context alive, and `CtxFree` is the last of
their `cd` callbacks. Users after the first and before the last do not touch the timer. A
worker that reads a freed context may see any `is_valid`, and one that has an entry that was
freed may remove any timer. Each of three conditions lets in an order of steps that nothing
in the code excludes: `"earlyAnswer"` (an answer comes before `AddTimer`), `"setInterval"`
(the interval changes while a worker is between `WorkerLookup` and `WorkerAdd`, or the
reverse) and `"freedCtx"` (`cd` runs while a worker has been started with the context).

### IcdRequests

| Variable | In the code |
|---|---|
| `faults` | what may go wrong; never changes |
| `life`, `thread`, `alive` | where `main()` is, the processing thread, `icd_ioty_alive` |
| `main` | the handler under way between a call of the stack and what follows it, with the handles it has in hand |
| `gone`, `list` | clients that have left the bus; the `observe_list` of each client |
| `req` | a D-Bus call: its kind, the replies sent, the handle its client or its timer has, and the notifications made and shown |
| `tx` | IoTivity's transactions, by the address the code knows them by |
| `workers` | the detached worker threads |

`Crud`, `Lookup` and `ObserverStart` are the handlers with `_icd_ioty_crud`,
`icd_ioty_find_resource` (and the two information requests) and `icd_ioty_observer_start`.
Where another thread can come in between, a handler is several actions: an observation is
requested (`ObserverStart`), added to the list (`ObserveListAdd`) and answered
(`ObserverStarted`); a stop takes the handle from the list (`ObserverStop`) and cancels
(`ObserverStopped`); a cleanup takes the whole list and cancels one at a time
(`CleanupObserve`). `CrudCb`, `LookupCb`, `ObserveCb` and `ObserveEnds` are the callbacks,
`WorkerRuns` a worker's reply or signal, `LookupTimeout` is `_icd_ioty_discovery_timeout`,
whose `OCCancel` may fail like any other.
`EnterLoop`, `Deinit`, `Join`, `ThreadStarts` and `ThreadEnds` are `main()` and the
processing thread. An address may be given to a new transaction as soon as the old one has
ended, which is what most of the properties are about.

### IcdResource

| Variable | In the code |
|---|---|
| `conditions` | what the behaviour may meet; never changes |
| `oic` | the resources that IoTivity has for the daemon, by handle, with their observers and children; `client` and `number` are those of the registration |
| `entries`, `dying` | the entries of all clients' `resource_list`, and those of a removed client that are not cleaned up yet |
| `number` | `icd_dbus_generate_signal_number` |
| `lib` | the `icl_resource_s` and `icl_lite_resource_s` objects: the handle, the signal number of the subscription, `children[]`, `observers`, and where in its life an object is |
| `calls` | requests whose worker has been started and has not emitted the signal |
| `reqs` | IoTivity's requests that wait for `OCDoResponse`, with the resource they were for |
| `todo` | responses that applications hold and have not sent |
| `restarts`, `unaware` | restarts of the daemon so far; clients whose main loop has not seen the name go |

`Create` and `Subscribe` are the two halves of `iotcon_resource_create` and
`iotcon_lite_resource_create` (with `_dbus_handle_register_resource`): a request may come
between them, which is when it is lost. `Destroy` is both destroy functions with
`_dbus_handle_unregister_resource`, which takes the list entry away before it checks the
privilege. Destroy only unsubscribes; the object goes in `ConnCleanup`, the destroy notify
that GDBus runs from the main loop, and that is also how an object ends whose daemon went
(`NameOwnerNotify`) or whose connection the application closed (`Disconnect`): it keeps its
memory and loses its handle (`"lost"`). `BindChild` and `UnbindChild` are the two calls with
`OCBindResource` and `OCUnBindResource`. `Request` is `icd_ioty_ocprocess_req_handler`,
`Deliver` the worker's signal with `_icl_request_handler` or
`_icl_lite_resource_request_handler`, `Respond` is `iotcon_response_send`. `ClientExit` and
`Cleanup` are the name-owner callback and `_icd_dbus_cleanup_resource_list`.

Calls that change nothing (while disconnected, refused before anything is done) are no
actions. Notify changes nothing here either: `Notified` says whom it reaches. Types,
interfaces, states and attributes are data. IoTivity is modelled as this code uses it: it
allocates handles, gives every observation an id of its own, keeps the observer of a
request that was refused, and knows a request by its handle alone.

### IclRemote

| Variable | In the code |
|---|---|
| `faults` | what may go wrong; never changes |
| `count` | `icl_dbus_count` |
| `refs`, `held`, `incall` | `ref_count` of a remote resource, the resources somebody will destroy, and the one a search's callback has in hand |
| `sub`, `cached` | `caching_sub_id`, `monitoring_sub_id`, `observe_sub_id`, `cached_repr` |
| `box` | the callback containers: what for, for which resource, whether GDBus still calls them (`"on"`), has only the destroy notify left (`"off"`) or is done, their timer, and for presence the ids and the application's handle |

The program is single-threaded; its calls and the main loop's dispatches are the actions.
`Start` and `Stop` are the three subscriptions of a resource, `ConnCleanup` their destroy
notifies, which GDBus runs later. `Destroy` is `iotcon_remote_resource_destroy`, which stops
what is subscribed, detaches the calls under way (`CrudStop`) and gives back a reference; a
stop in it may fail. `FoundCb` hands a new resource to the application and `FoundCbReturns`
destroys it. `Disconnect` and `NameOwnerNotify` unsubscribe everything.

### PayloadConvert and PayloadCompare

A representation goes through `lib/icl-payload.c`, `daemon/icd-payload.c` of the server's
daemon, IoTivity, `daemon/icd-payload.c` of the client's daemon, and `lib/icl-payload.c`
again. `PayloadConvert` has an operator for each of the four conversions and their helpers.
Integers, doubles, Booleans and strings are words, treated alike; a GVariant is a signature
and items, and the linked lists of `OCRepPayload` are sequences. What the conversions do to
the data is kept: the placeholder for a missing URI, byte strings inside of arrays, the type
of an array taken from its first item, null values, the parts that a visibility hides.

In `PayloadCompare`, `SameLists` is the shared shape of the three list comparisons (equal
length, one contained in the other), `HeadMatches` the membership test of string lists,
`SameValue` the switch over the types, and `Same` the whole. The operands are in the order of
the code, which looks for the new values in the cached ones, and for the cached children in
the new: `memcmp` takes the length, and an array comparison the type, of the second. The two
reads outside of an object (a second byte string longer than the first, an array of another
type) take their outcome from `stray`.
`Meaning` is the reference: types, interfaces, values and children are sets. The state is a
remote representation, the daemon's entry and the view of the client.

### IclData and IclQuery

`heap` is the objects by address, with type, reference count and contents; `held` is what
the application has created and not destroyed; `forgotten` the nested objects of received
messages, which keep the reference of their creation; `stray` the representation, if any, that
was removed from one it was not in, where a behaviour ends; `last` the last clone made, for
the properties; `scene` and `left` bound a behaviour, which uses only some kinds of
objects and makes a few calls. The actions are the public functions that create, put, take,
clone, destroy and send; getters lend an object without a reference.

The code destroys and clones by recursion; here both are written so that they can be reasoned
about. `Places` are the items and fields in which an object stands. A destroy (`Unref`) frees
the least set of objects (`Going`) in which every object has lost its last reference: one for
each place in an object that goes. `CloneRepr` clones a representation and then one child
after the other (`CloneChild`) until every copy has the children of its source; `After` is
such a repetition. The addresses of the copies are taken in another order than in the code.
Two objects are `Same` when no number of turns of `SameBut`, a comparison one level deep,
tells them apart.
In `IclQuery`, `entries` and `len` are the table and the length beside it.

## 3. What TLC checks

| Run | Instance | Checks |
|---|---|---|
| `encap_exact` | 2 clients, 2 resources on one host, 3 monitorings or cachings, 1 presence callback, 3 contexts; late cancellations, reused handles | `CountsExact`, `Served`, `NoLeakedTxn`, `ContextsSafe`, `StopLeavesOthers`, `ImplementsService` |
| `encap_faults` | 2 clients, 1 resource, 2 monitorings or cachings, 1 presence callback; every fault but reuse | `CountsCovered`, `PresenceCovered`, `NoOrphans` |
| `presence_shared` | 1 monitoring or caching, 1 presence callback, no fault | `PresenceDelivered` is violated |
| `refresh_one` | 2 clients, 2 values, 2 entries, 2 signals; one GET at a time, or two overlapping GETs with reused addresses and one client after the other | `NoUpdateLost`, `SubscribedToEntry`, `OnlyNews` |
| `refresh_settles` | 1 client, 2 values, 2 GETs at a time, fairness | `Settles` |
| `timer_owned` | 2 workers, 3 entries one after the other, 4 timers; every combination of three conditions, fairness | `TimerOwned`, `EntryKept`, `Polled` |
| `daemon_requests` | 2 clients, 2 requests, 2 addresses, 1 notification each; five sets of faults (`MCFaultSets`), fairness | `OneHolder`, `HandlesOwn`, `NoOrphans`, `Answered`, `ShutdownEnds` |
| `server_life` | 2 applications, 2 objects, 2 handles, 2 requests, 1 observe id, 3 registrations, 2 workers, 1 restart, 1 child slot; six combinations of conditions (`OneAtATime`) | `ListsAlive`, `NoOrphans`, `HandlesOwn`, `Paired`, `ObserversKnown`, `NotifiesAll`, `AnsweredOnce`, `ChildrenBound` |
| `remote_life` | 2 resources, 2 containers, all three kinds of subscription, 2 connects; every combination of three faults, fairness | `RefCountExact`, `NothingDangles`, `Stoppable`, `AllFreed` |
| `payload_plain` | representations with values of every type but byte strings in either order, nested lists, states, children, one type and one interface at most | `UpToDate`, `ViewRight`, `OnlyChangesTold` |
| `payload_bytes` | representations with a byte string among their values | `UpToDate` is violated |
| `data_life` | 6 addresses, lists of 2, 1 word; seven scenes of 5 to 8 calls (`MCScenes`) | `RefsExact`, `CopyEqual`, `QuerySound` |

**Bounds.** Two clients and two list entries are what sharing takes: an entry used by both
types, by two clients, or by one client and a client being cleaned up. Two resources on
one host share the host's presence request between monitorings; two hosts are needed to
confuse presence handles, which is left to the theorem `Covered`. Handles and contexts are
at least the requests and entries that can be live together, so that "no free handle" is
the refusal of an allocation and not an artefact. `EncapIds` and `PresenceIds` bound the lists. In `EncapRefresh` `MaxNumber` bounds
how often the entry is added, `MaxSignals` a client's queue (a worker waits for room),
`Gets` the answers under way: two are enough for one to overtake another. In `EncapTimer` `MaxNumber` bounds the entries
(an old one whose worker is late, a new one, and one more), and `Timers` the sources, of
which whoever begins leaves enough for all who have begun (`Room`), so that running out of
them never stops anybody half-way. In `IcdRequests`
two requests and two addresses are an old and a new transaction, of one client or of two,
at the same address or not; `MaxNotes` bounds the notifications of an observation. In
`IcdResource` `MaxNumber` bounds the registrations in one life of the daemon (three: one goes and its
handle comes back while another stays), `MaxCalls` the workers under way (two, so that one
overtakes the other), `MaxRestarts` the restarts (one makes the signal numbers start over),
`MaxChildren` is the code's slot count, made small so that the slots run out, and `MaxNoted`
bounds how often a lib notes the same id. Two objects are a parent and a child, or the
resources of two applications. The six combinations of `OneAtATime` take the conditions one
or a few at a time: their product is out of reach and seldom of interest. In `IclRemote`
two containers are a subscription and another callback, or an old subscription and the one
made anew, and `MaxConnects` lets a disconnect be the last or not. In `IclData` `Ids` bounds
the objects alive together, `MaxItems` what an object contains, and a scene the kinds of
objects and the calls (`left`); `ICL_QUERY_LENGTH_MAX` is made small, so that a few entries
reach it.

Deadlock is checked where a behaviour always has something left to do (`refresh_one`,
`refresh_settles`, `remote_life`, `payload_plain`, `payload_bytes`). The ids, numbers,
requests and calls of the others are bounded and run out, and the daemon of `IcdRequests`
ends.

**Fairness.** `FairSpec` of `EncapRefresh` assumes that the periodic timer of an entry
fires (`WF` on `Refresh`), that IoTivity answers or times out and threads run (`SF` on the
steps of a worker: the bound on the queues may disable `Emit` again and again), that a
client's call returns (`WF`) and its main loop runs between its calls (`SF` on `Deliver`).
`EncapTimer` assumes that threads are scheduled (`WF` on the main thread's continuation of a
call and on a worker that has found its entry).
`IcdRequests` assumes the same (`WF` on the main thread's steps in a
handler, on the processing thread and on the workers), that IoTivity calls the callback of a
GET, PUT, POST or DELETE, with an answer or an error (`WF` on `CrudCb`), and that the main
loop, which handlers of other calls may keep busy, comes round to a timer (`SF` on
`LookupTimeout`). `IclRemote` assumes that an application's callback returns (`WF` on
`FoundCbReturns`) and that the main loop, which every callback keeps from dispatching,
comes round to timers and destroy notifies (`SF`). Nothing is assumed of applications
(they need not start, stop or destroy anything), or of the remote: `Answered` promises
nothing where the stack drops a request, nor for a search whose `OCCancel` may fail.

### What the runs show

*Sharing.* The counting is right as long as nothing fails between the daemon and its two
neighbours: `encap_exact` has the counts equal to the list entries, everything held served,
and nothing leaked, and the daemon implements `SharedService`. With faults the weaker,
one-sided `CountsCovered` still holds: a resource may be dropped too early but is never
kept for nobody, so that both tables are empty when everybody is gone (`NoOrphans`). What
remains of an entry's timer is a question for `EncapTimer`. Three of the properties of `encap_exact` depend on its faults. A remote that
ends an observation breaks `StopLeavesOthers` (`"deregister"`): `icd_ioty_stop_encap` takes
a user off the shared count without asking whether the sender has an entry; the stop fails
in `OCCancel` and reports an error, the lib keeps its subscription, and the second stop hits
whoever has started caching in between. A stop repeated because its reply was lost does the
same (`"lostReply"`). A client that gives up a well-known name breaks `Served`
(`"release"`): `_icd_dbus_name_owner_changed_cb` asks for an old owner and an empty new one
only, so the client is cleaned up while it lives. And a caching that starts anew
before its cancelled observation has ended breaks `ContextsSafe` (`"quickRestart"`): the
late `cd` callback clears the flag of the new one, and the context may be freed in use.
`PresenceCovered` is limited to handles that are not reused, because
`_icd_dbus_presence_list_remove` compares handles without hosts.

*Freshness.* An answer that is overtaken harms the entry only until the next GET
(`Settles`). `NoUpdateLost` and `OnlyNews` are limited to one GET at a time: two workers may
write in one order and emit in the other. A signal is sent when the entry changes, never
because a client has joined: a client that joins later, or whose subscription is a moment
later than the first answer, knows nothing until the next change, of the representation or
of the state. `NoUpdateLost` therefore speaks of what a client has been told.

*The timer.* The mutex of the context does what it is there for: a stop waits for the worker
that has the entry in hand (`EntryKept`), and whoever takes the timer away gives the entry
another (`Polled`). That there is no more than one (`TimerOwned`) needs all three conditions
away. A start adds its timer after the request is out, an interval change takes no mutex:
in both a worker may have added a timer of its own, whose number is then overwritten. It
is never removed, and when the entry is freed it fires with the entry's old address
(`icd_ioty_encap_get` reads `dev_addr` and `uri_path` there). A worker whose context was
freed before it locked the mutex may take the same way. The freed context alone also breaks
`EntryKept`.

*Requests.* Whatever comes between two steps of a handler, an invocation is completed by
one (`OneHolder`) and a handle in the daemon's hands is that of the request it was got for
(`HandlesOwn`). The conditions that the properties name are weaknesses: nothing
tells an old handle from a new transaction at the same address, so where a server ends an
observation, or the reply to a stop is lost, a stop may cancel another client's request,
whose call is then never answered. When `OCCancel` fails during a cleanup the observation
stays for ever (`NoOrphans`), and when that of a search's timer does, the search (`Answered`). A stop of the daemon requested before the processing thread
has run is lost, because the thread sets `icd_ioty_alive` itself (`ShutdownEnds`).

*Served resources.* The properties of `server_life` name the conditions they need, and each
of these marks a weakness of the code. A refused registration of a lite
resource returns the error code as the handle, and the object lives on with it
(`Paired`, `HandlesOwn` leave it out). A refused destroy has emptied the resource list
and left the resource in IoTivity (`NoOrphans`). A request that comes before the list entry
is an error for the remote, and one whose signal comes before the subscription is never
answered (`AnsweredOnce` promises only "not by two" there); in both cases IoTivity has an
observer the lib never notes (`NotifiesAll`).
Workers that overtake each other leave an observer noted who has gone (`ObserversKnown`).
Both need that the requests of a resource reach the object that lives (`InOrder`). That
fails, besides, where an application is refused and a reply is lost: the refused destroy has
taken the list entry, the lost reply leaves the object alive, and IoTivity goes on giving
the resource observers that nobody notes. It also fails where an address is used again after
a lost reply or a crash: a list entry then stands for another registration.
With reused addresses and a lost reply or a restart, a handle in the lib may come to name
another application's resource (`HandlesOwn`); with reused addresses or a restart, a stale
response may answer another request (`AnsweredOnce`). A child that is destroyed keeps its
slot in `children[]`, and a parent whose slots are full cannot bind another
(`ChildrenBound` speaks of children that are served).

*The library.* References and containers are right in every order of calls and dispatches,
whatever fails (`RefCountExact`, `NothingDangles`). `Stoppable` needs that a subscription is
not made anew before the main loop ran the old one's destroy notify (`"early_restart"`),
which otherwise clears the new one's id: the subscription can then not be stopped, and keeps
its reference of the resource. A disconnect while a call is under way leaves the handlers of
connection changes to the proxy, with a container already freed
(`"calls_at_disconnect"`).

*Data.* `data_life` has the references exact, but for one call.
`iotcon_representation_remove_child` gives back a reference of whatever representation it is
given (`icl-representation.c:240`): removed from one it was not in, a representation loses a
reference that somebody else has, and is freed while that one still uses it. `RefsExact` counts
that reference (`stray`) and says that nothing else goes wrong in the call. A clone of a
representation, called a deep copy by its header, shares nested lists and states with its
source: `CopyEqual` says only that the copy is equal when it is made. A list or state nested
in a received representation is left with one reference too many (`icl-payload.c`), which
leaks it. A second value for a key of a query leaves the length of the first in the sum, so
that a query may be refused too early, never too late (`QuerySound`).
`_oic_string_list_contain` looks at the head of the list in every turn, so a resource with
two types or two interfaces counts as changed at every GET: `OnlyChangesTold` is checked
for one at most, and a list of two in an answer breaks it.

Two runs show the code disagree with the repository's own documents:

- `presence_shared`: a presence callback added on a host that a monitoring already uses
  shares the monitoring's request, whose callback emits no PRESENCE signal.
- `payload_bytes`: the byte-string case of `_representation_compare_value` is inverted.

## 4. What is proved

TLAPS checks the following for every set of clients, resources, hosts, requests, handles,
contexts, containers, addresses, keys, words and faults, and every limit of a query. The
assumptions are the named `ASSUME`s of the modules: `Null` or `None` is none of the things it
stands beside, the sets of faults and conditions are made of those the modules name, `Denied`
are clients, the error code is no handle, bounds and lengths are natural numbers, a query
knows the keys `rt` and `if`, keys and words are not empty, and where a property counts, what
it counts is finite.

| Theorem | Statement |
|---|---|
| `IcdEncap_proofs!TypeCorrect` | `Spec => []TypeOK` |
| `IcdEncap_proofs!Covered` | `Spec => []CountsCovered` |
| `IcdEncap_proofs!PresencesCovered` | `Spec => []PresenceCovered` |
| `IcdEncap_proofs!NothingOrphaned` | `Spec => []NoOrphans` |
| `EncapService_proofs!CountsAgree` | `Spec => []CountsExact` |
| `EncapService_proofs!AllServed` | `Exact => (Spec => []Served)` |
| `EncapService_proofs!NothingLeaked` | `Exact => (Spec => []NoLeakedTxn)` |
| `EncapService_proofs!OthersKept` | `Exact => (Spec => StopLeavesOthers)` |
| `EncapService_proofs!ServiceRefined` | `Exact => (Spec => ImplementsService)` |
| `EncapService_proofs!ContextsKept` | `Orderly => (Spec => []ContextsSafe)` |
| `EncapTimer_proofs!Owned` | `Spec => []TimerOwned` |
| `EncapTimer_proofs!Kept` | `Spec => []EntryKept` |
| `EncapRefresh_proofs!TypeCorrect` | `Spec => []TypeOK` |
| `EncapRefresh_proofs!Subscribed` | `Spec => []SubscribedToEntry` |
| `EncapRefresh_proofs!NoneLost` | `Spec => []NoUpdateLost` |
| `EncapRefresh_proofs!ToldNews` | `Spec => OnlyNews` |
| `IcdRequests_proofs!Owned` | `Spec => []NoOrphans` |
| `IcdRequests_proofs!OwnOnly` | `Spec => []HandlesOwn` |
| `IcdRequests_proofs!OneAnswer` | `Spec => []OneHolder` |
| `IcdResource_proofs!Kept` | `Spec => []NoOrphans` |
| `IcdResource_proofs!Alive` | `Spec => []ListsAlive` |
| `IcdResource_proofs!Owned` | `Spec => []HandlesOwn` |
| `IcdResource_proofs!InStep` | `Spec => []Paired` |
| `IcdResource_proofs!Answered` | `Spec => []AnsweredOnce` |
| `IcdResource_proofs!ChildrenAgree` | `Spec => []ChildrenBound` |
| `IcdResource_proofs!Noticed` | `Spec => []ObserversKnown` |
| `IcdResource_proofs!Reached` | `Spec => []NotifiesAll` |
| `IclRemote_proofs!TypeCorrect` | `Spec => []TypeOK` |
| `IclRemote_proofs!Counted` | `Spec => []RefCountExact` |
| `IclRemote_proofs!NoneDangle` | `Spec => []NothingDangles` |
| `IclRemote_proofs!AllStoppable` | `Spec => []Stoppable` |
| `IclRemote_proofs!NotToldTwice` | `Spec => []ToldOnce` |
| `IclData_proofs!QueryRight` | `Spec => QuerySound` |
| `IclData_proofs!ReferencesExact` | `Spec => []RefsExact` |
| `IclData_proofs!ClonesEqual` | `Spec => []CopyEqual` |

The inductive invariant of `IcdEncap` adds two parts to the properties. `FiniteLists`: the
lists stay finite although the sets of ids need not be, without which their cardinality
says nothing. `HandlesNameHosts`: unless addresses are reused, a presence handle names one
host in the lists, the libs and the table; without it the removal of a presence entry could
take another host's entry while the count of this one goes down. The argument: a start adds
a list entry in the step in which it raises the count (or raises nothing); a stop lowers the
count before it removes the entry; a cleanup stops before it forgets; a restart empties
everything. Each helper (start, stop, subscribe, unsubscribe) has a lemma that says what it
does to the counts, each action a lemma that it keeps the invariant.

`EncapService_proofs` adds the invariant of the quiet daemon, in which none of the faults
happens that `Exact` excludes. `ListsAgree`: the lists of the daemon and of the libs are the
same, and no entry is both alive and being cleaned up. `TableCounts` and `HostCounts` are
equalities where `IcdEncap_proofs` has inequalities. `Requests`: a cached key has a live
observe request of its own, a subscribed host a live presence request, whose handle its
monitorings share, and every live request serves one of them; without it a stop might find
that its `OCCancel` fails. `CallbacksShare` says the same of presence callbacks. With these a stop takes one
user off, always succeeds, and every step is `Join` or `Leave` of `SharedService` for one
user, or leaves its variables alone; the lemmas of the actions state both at once
(`UserJoins`, `UserLeaves`, `UsersKept`).

The last part of `EncapService_proofs` is about the context that an entry, its timer and two transactions
share, which three functions free. `Orderly` is `Exact` without a caching that starts anew
before its cancelled observation has ended, which breaks the property (section 3). `CtxInv`
says that whoever uses a context has set the flag of its type (`UsersFlagged`,
`TxnsFlagged`) and that a flag keeps the context (`FlagKeeps`): so no function frees what
another still needs. It also says that a flag stands for no second user: a context belongs
to one entry (`OwnCtx`), and of each type there is one transaction with it (`OneTxn`), for
the entry's resource (`TxnsForEntry`). Or else the `cd` callback of the one would clear the
flag of the other. `EndingUnused` is where `quickRestart` bites: what is still to end is an
observation whose entry has no caching.

In `EncapTimer` the invariant has a part per condition. `Exclusive`, while no context is freed
under a worker: who is replacing the timer has the entry of the table and its mutex, so is
alone and the main thread is not stopping. `OneTimer`, when there is no condition at all: a
timer that is attached is the one whose number the entry has, and there is none from
`WorkerRemove` to `WorkerAdd`, before `AddTimer` and after a stop.

`SubscribedToEntry` is inductive together with the types of the variables it names. A stop
removes an entry only when it has no users of either type, so no subscription survives it;
a start that adds an entry therefore finds no subscription to an older one.

`NoUpdateLost` and `OnlyNews` need `Turns`, which holds while no GET is sent before the last
one's worker is done, and is checked by TLC in the same instance. `OneTurn`: one GET or
worker is under way. `OwnEntry`: the entry a worker looked up is the present one, or there
is none, since adding an entry sends a GET. `Announced`: what a worker is about to write
differs from what the entry shows; what it is about to emit is what the entry shows, and
differs from what every subscribed client is told last. `Informed`: a client that was told
something was told what the entry shows, unless it is just being emitted. `Chained`: each
signal on its way differs from what comes before it, which is what a step of `Deliver`
needs. A client that subscribes between a write and its emit was told nothing before
(`Unheard`), so the signal is news to it, too.

The first three theorems of `IcdResource` share one inductive invariant, whose parts are
`ListsAlive` itself and four more. `Shape`: the types of the variables it names. `Listed`:
a resource is in the list of its own client, not just in any, or a cleanup of another client
could be what holds it. `Held`: a handle in an object is dead, and then only where addresses
are not reused, so that nothing brings it to life again, or names the object's own
registration; no two objects hold the same handle. `Gone`: a client that is being cleaned up
has no objects, so no handle is left behind when its entries go. `ListsAlive` and `Held`
need each other: a destroy takes the right resource away only if its handle is right, and
the handle stays right only if a cleanup deletes what its entry stands for.

The other five need more. `Paired` needs that a registration gave every object what
it has (`Formed`), that no number is given twice (`Numbered`), and both directions between
objects and list entries: an object has its entry unless replies are lost (`Entered`), an
entry has its object unless something fails (`Twinned`). `AnsweredOnce` is proved without
counting: `Single` says that no two of the workers and the answers are for one request, and
that each knows the resource it was for. That a request whose resource has an object is with
somebody is `Unlost`: an object's resource is at an address that no older request names, a
worker finds the object by its number, and only a refused application gives an answer up. `Bound` is `ChildrenBound` for objects that are
being registered, too, and for clients that are unaware. `ObserversKnown` and `NotifiesAll`
share `OInv`. A request is addressed to the object that has its number, which is nobody
else's (`OneNumber`, `Addressed`). The heart is `Traced`, for one object and one observer:
the requests that register and deregister it take turns in `calls` (`TakesTurns`), the first
one changes what the object has noted, and the last one is what IoTivity has. So once the
queue is empty the two agree. A new request goes to the end and the next to be delivered is
the first (`TurnAppended`, `TurnPassed`), which is where `"overtake"` would break it.

In `IcdRequests`, `NoOrphans` needs `MainShape`: between `OCDoResource` and the entry in the
list nobody touches the handle of an observation, which only the main thread knows. `HandlesOwn` needs that an
address is in one list once and that whoever has it has one that is not being ended
(`Held`, `InMain`): the answer to a cancellation may come at any moment, and the address is
free from then on. `OneHolder` is proved without counting: `Single` says
that no two transactions or workers are of one call, and none of an answered one (`Alone`).
That there is one left to answer needs `HandlesOwn`, or a cancel by an old handle would take
another's transaction away.

The invariant of `IclRemote` has two parts. `Boxed` says of one container what its type says
of its fields: a free one has neither timer nor owner, a presence that its application still
has was unsubscribed together with its ids, a search told of its timeout is called back no
more. `Linked` is about the subscriptions and the resources they belong to, and only a step
that makes, ends or frees one disturbs it. `Stoppable` needs that a resource has no two
subscriptions of a kind (`Unique`) and that a closed library has none that is still called
(`Shape`): a destroy after the last disconnect can stop nothing any more.

`IclData_proofs` has one inductive invariant, `StateOk`. `Good` says that an object has as
many references as it has places in other objects and holders outside (`OutsideOf`: the
application, the library for a request, the forgotten creator), that what has none is free,
and that every object holds what its kind may: a handle names an object of the kind that its
type says, a child of a representation is a representation. The last part keeps the other
two: a destroy that trusted a wrong type would free another object. `StateOk` adds that
nobody else holds a request. `Good` takes the holders as a parameter, so that each helper has
a lemma for the moments when a reference is taken and its place not yet made, or the other
way round (`Plus`, `Owned`). For a destroy (`UnrefGood`) the
argument is that the least set of objects that goes loses every reference it has, so nothing
that stays can name one of them, and that what stays loses exactly its places in what goes
and keeps at least one reference. Objects that name each other in a circle are no part of a
least set: they stay, as in the code. `ReferencesExact` is a consequence, up to a
`remove_child` of no child. That call ends `StateOk`, because an object may then name one that
is free; but the references still count up (`UnrefCounts`): a program gets at an object by a
path from what it holds, and the last of the path that does not go has a place of the first
that does, so nothing loses more than it has (`UsedOutside`). `JInv` says that the counts are
right, and `StateOk` holds until then.

`ClonesEqual` follows a clone under way (`Underway`). What was there keeps its contents
(`Cloning`); every pair in `pairs` is an old representation and a new one that has copies of
its parts (`Matching`, `Twin`) and of its first children, which are in `pairs` (`Copied`); and
a copy is the copy of one source. A turn of `CloneChild` keeps this, and so does any number of
turns (`Stays`). When no copy lacks children, the pairs are a set that no turn of
`SameBut` can split (`SameIs`), however often a source's children are shared.

`QueryRight` counts the characters of the query as pairs of a key and a position: their number
is at most `len`, because an addition counts all of an entry even if it replaces one, and a
removal takes off what the removed entry has. A setter that ignores the result of its addition
has removed the old entry of the same key before, and checked that there is room.

`ToldOnce` was model-checked before it was proved; no run repeats it.

Left to TLC, with the reasons:

- The liveness properties `Settles`, `Polled`, `Answered`, `ShutdownEnds` and `AllFreed`: they
  rest on fairness, and so on `ENABLED`, which the provers do not handle.
- `UpToDate`, `ViewRight` and `OnlyChangesTold` of `PayloadCompare`: the comparison and the
  meaning of a representation are recursive over trees, and what they compute for every
  tree takes an induction over data.

## 5. Not modelled

In the modelled components: wording, logging and the format of messages; memory that is
leaked without a consequence; failing allocations, but for those that stand for a refused
request; the time interval of the periodic GET; the content of presence events; attributes,
handlers, types and interfaces of served resources, whose setters change data only; getters
and iterators of the data objects; options, which are a set of pairs.

Some places of the code are known and without a model:

- The tables are GLib hash tables without a lock: a worker's look-up may run while the main
  thread changes the table, with any outcome. `EncapTimer` and `EncapRefresh` take a look-up
  for one step.
- The error of `_ocprocess_worker_start` is read where `g_thread_try_new` may not have set it
  (`icd-ioty-ocprocess.c:161`).
- A presence answer with an error result is signalled to the client of a unicast handle
  twice (`icd-ioty-ocprocess.c:912`).
- The parsing of an IPv6 address keeps its opening bracket and takes its port for 0
  (`icd-ioty-type.c:120`); `PayloadConvert` has the conversion, no run has such an address.
- Every notification of an observation is emitted by a thread of its own, so that an older one
  may be the last that the application gets (`icd-ioty-ocprocess.c:820`), also for an
  observation that asked for the most up-to-date only. `WorkerRuns` of `IcdRequests` has
  those orders, and no property excludes them.
- What a response shows is stored in the application's representation and its children
  (`icl-response.c:187`) and stays there: a later notify or PUT of the same representation, or
  a child that becomes the child of a child, is sent as the last response left it
  (`icl-payload.c:232`). `ShowFor` of `IclData` has the store; no document says what those
  messages show, so there is nothing to check it against.
- How IoTivity orders the notifications it delivers, and what the ordering policy of an
  observation does there, is the stack's.
- The cloning of lists (`icl-list.c`) is reached through values only, and shares what the
  cloning of values shares.

The build, packaging, tests and logging have no behaviour to specify.

## 6. Plan

What would come next, in this order:

1. Proofs beyond one condition at a time: which of the conditions that `NoUpdateLost`,
   `ObserversKnown` and `NotifiesAll` exclude can be let in when the property is weakened
   to objects that were not touched by them; the steps of `EncapRefresh` that `Settles` rests
   on, as action properties (a GET that is answered last is the one the entry shows).
2. The privilege check as a step of its own in every handler: `IcdResource` has a refusal as
   a choice per application, the other modules have none, because there a refused call
   changes nothing.

The project keeps a dozen runs, one for each module or question; a question that a theorem
answers, or that shares its module with another, makes room for the next, as in
`refresh_one` and `server_life`.
