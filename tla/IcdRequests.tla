----------------------------- MODULE IcdRequests -----------------------------
(***************************************************************************)
(* What the daemon does for the requests of its clients to remote          *)
(* resources, and for how long it holds what: GET, PUT, POST and DELETE    *)
(* ("crud"), searches and device and platform information ("lookup"),      *)
(* observations ("observe"); daemon/icd-ioty.c, icd-ioty-ocprocess.c,      *)
(* icd-dbus.c, icd.c.                                                      *)
(*                                                                         *)
(* Three kinds of threads meet here.                                       *)
(*   The main thread runs the handlers of D-Bus calls, the timers and what *)
(*   follows the exit of a client, one after the other.                    *)
(*   The processing thread calls OCProcess, which calls the callbacks of   *)
(*   transactions.  It holds icd_csdk_mutex all the while, so that a       *)
(*   callback never falls into a main thread's OCDoResource or OCCancel;   *)
(*   it may fall between one of these and what the handler does next.      *)
(*   A worker thread per answer sends the reply or signal, in any order.   *)
(*                                                                         *)
(* An OCDoHandle is the address of memory of the stack: when the           *)
(* transaction has ended another one may get it.  A request stands for the *)
(* D-Bus call and its invocation, or for its signal number.                *)
(***************************************************************************)
EXTENDS Naturals, FiniteSets

CONSTANTS
  Clients,   \* bus names
  Requests,  \* numbers of the clients' calls
  Handles,   \* values of OCDoHandle
  FaultSets, \* what may go wrong together, see faults
  MaxNotes,  \* bound of the notifications of an observation
  None

ASSUME RequestsAssumption ==
  /\ FaultSets \subseteq SUBSET {"drop", "process", "reply", "cancel", "server_ends", "late_thread"}
  /\ None \notin Clients \cup Requests \cup Handles
  /\ Requests \subseteq Nat /\ IsFiniteSet(Requests) /\ IsFiniteSet(Handles)
  /\ MaxNotes \in Nat

VARIABLES
  faults,  \* what may go wrong in this run: the stack drops a transaction;
           \* OCProcess fails; a client does not get a reply; OCCancel fails;
           \* a server ends an observation; the processing thread has not yet
           \* run when main() ends early
  life,    \* where main() is: "init"; in its "loop"; joining the thread to
           \* "exit" or, for cynara's failure, to run its loop all the same
           \* ("halt"), then with the stack "stopped"; "ended"
  thread,  \* the processing thread: "new", "running", "ended"
  alive,   \* icd_ioty_alive
  main,    \* what the main thread is doing, between two calls of the stack
  gone,    \* clients that have left the bus
  list,    \* observe_list of each client; an address may be in it twice
  req,     \* the requests: the call, its reply and, at the client, its handle
  tx,      \* the transactions of the stack
  workers  \* the worker threads

vars == <<faults, life, thread, alive, main, gone, list, req, tx, workers>>
lifecycle == <<life, thread, alive>>

NoHandles == [h \in Handles |-> 0]
Idle == [op |-> "idle", req |-> None, handles |-> NoHandles]
NoTx == [req |-> None, ending |-> FALSE]
Request(kind, c) == [kind |-> kind, client |-> c, replies |-> 0, handle |-> None, timer |-> None,
                     notes |-> 0, shown |-> 0]
NoRequest == Request("none", None)

KindOf(h) == IF tx[h].req = None THEN "none" ELSE req[tx[h].req].kind
Worker(q, seq) == [req |-> q, seq |-> seq]

\* The number of those who will answer the call of a request.
Holders(q) ==
  Cardinality({h \in Handles : tx[h].req = q}) + Cardinality({w \in workers : w.req = q})
-----------------------------------------------------------------------------
\* main(), icd_ioty_deinit, icd_ioty_ocprocess_stop
EnterLoop ==
  /\ life = "init" /\ life' = "loop"
  /\ UNCHANGED <<faults, thread, alive, main, gone, list, req, tx, workers>>

\* icd_ioty_set_device_info or _set_platform_info fails, or icd_cynara_init.
Deinit ==
  /\ life = "init"
  /\ thread # "new" \/ "late_thread" \in faults
  /\ life' \in {"exit", "halt"}
  /\ alive' = FALSE
  /\ UNCHANGED <<faults, thread, main, gone, list, req, tx, workers>>

Join ==
  /\ life \in {"exit", "halt"} /\ thread = "ended"
  /\ life' = IF life = "exit" THEN "ended" ELSE "stopped"
  /\ UNCHANGED <<faults, thread, alive, main, gone, list, req, tx, workers>>

\* icd_ioty_ocprocess_thread
ThreadStarts ==
  /\ thread = "new" /\ thread' = "running"
  /\ alive' = TRUE
  /\ UNCHANGED <<faults, life, main, gone, list, req, tx, workers>>

\* Mutant of ThreadEnds: icd_ioty_alive is not looked at.
ThreadEndsFailing ==
  /\ thread = "running" /\ "process" \in faults
  /\ thread' = "ended"
  /\ UNCHANGED <<faults, life, alive, main, gone, list, req, tx, workers>>

ThreadEnds ==
  /\ thread = "running" /\ (~alive \/ "process" \in faults)
  /\ thread' = "ended"
  /\ UNCHANGED <<faults, life, alive, main, gone, list, req, tx, workers>>
-----------------------------------------------------------------------------
Serving == life \in {"loop", "stopped"} /\ main = Idle
Calls(c, q) ==
  /\ Serving /\ c \notin gone
  /\ \A p \in Requests : req[p].kind = "none" <=> p >= q

\* OCDoResource makes a transaction of some address.
OCDoResource(q, h) ==
  /\ life = "loop" /\ tx[h] = NoTx
  /\ tx' = [tx EXCEPT ![h].req = q]

\* _icd_ioty_crud: refused, invalid or not sent, it is answered at once.
Crud(c, q) ==
  /\ Calls(c, q)
  /\ \/ /\ req' = [req EXCEPT ![q] = [Request("crud", c) EXCEPT !.replies = 1]]
        /\ tx' = tx
     \/ /\ req' = [req EXCEPT ![q] = Request("crud", c)]
        /\ \E h \in Handles : OCDoResource(q, h)
  /\ UNCHANGED <<faults, lifecycle, main, gone, list, workers>>

\* icd_ioty_find_resource, icd_ioty_get_info
Lookup(c, q) ==
  /\ Calls(c, q)
  /\ \E h \in Handles :
       /\ OCDoResource(q, h)
       /\ req' = [req EXCEPT ![q] = [Request("lookup", c) EXCEPT !.timer = h]]
  /\ UNCHANGED <<faults, lifecycle, main, gone, list, workers>>

\* _dbus_handle_observer_start: icd_ioty_observer_start,
ObserverStart(c, q) ==
  /\ Calls(c, q)
  /\ \E h \in Handles :
       /\ OCDoResource(q, h)
       /\ main' = [op |-> "add", req |-> q, handles |-> [NoHandles EXCEPT ![h] = 1]]
  /\ req' = [req EXCEPT ![q] = Request("observe", c)]
  /\ UNCHANGED <<faults, lifecycle, gone, list, workers>>

\* Mutant of ObserveListAdd: forgotten.
ObserveListAddForgotten(c, h) == list' = list

ObserveListAdd(c, h) == list' = [list EXCEPT ![c][h] = @ + 1]

\* then _icd_dbus_observe_list_add and the reply.
ObserverStarted(h) ==
  LET q == main.req
  IN /\ main.op = "add" /\ main.handles[h] > 0
     /\ ObserveListAdd(req[q].client, h)
     /\ \E known \in {h} \cup IF "reply" \in faults THEN {None} ELSE {} :
          req' = [req EXCEPT ![q].handle = known]
     /\ main' = Idle
     /\ UNCHANGED <<faults, lifecycle, gone, tx, workers>>

\* Mutant of ObserverStop: the handle stays in the list.
ObserverStopListed(q) ==
  LET h == req[q].handle
  IN /\ Serving /\ req[q].client \notin gone /\ h # None
     /\ main' = [op |-> "cancel", req |-> q, handles |-> [NoHandles EXCEPT ![h] = 1]]
     /\ UNCHANGED <<faults, lifecycle, gone, list, req, tx, workers>>

\* _dbus_handle_observer_stop: _icd_dbus_observe_list_remove,
ObserverStop(q) ==
  LET h == req[q].handle  c == req[q].client
  IN /\ Serving /\ c \notin gone /\ h # None
     /\ list' = IF list[c][h] > 0 THEN [list EXCEPT ![c][h] = @ - 1] ELSE list
     /\ main' = [op |-> "cancel", req |-> q, handles |-> [NoHandles EXCEPT ![h] = 1]]
     /\ UNCHANGED <<faults, lifecycle, gone, req, tx, workers>>

\* OCCancel.  An observation cancelled with OC_HIGH_QOS ends when the server
\* has answered.
OCCancel(h, qos) ==
  /\ tx[h] # NoTx
  /\ tx' = [tx EXCEPT ![h] = IF KindOf(h) = "observe" /\ qos = "high"
                             THEN [@ EXCEPT !.ending = TRUE] ELSE NoTx]
OCCancelFails(h) ==
  /\ tx[h] = NoTx \/ "cancel" \in faults
  /\ tx' = tx

\* then icd_ioty_observer_stop and the reply.  The lib keeps the handle if
\* it is not told of success.
ObserverStopped(h) ==
  LET q == main.req
  IN /\ main.op = "cancel" /\ main.handles[h] > 0
     /\ \/ OCCancel(h, "high") /\ req' = [req EXCEPT ![q].handle = None]
        \/ OCCancel(h, "high") /\ "reply" \in faults /\ req' = req
        \/ OCCancelFails(h) /\ req' = req
     /\ main' = Idle
     /\ UNCHANGED <<faults, lifecycle, gone, list, workers>>

\* Mutant of LookupTimeout: the transaction is not cancelled.
LookupTimeoutOnly(q) ==
  /\ Serving /\ req[q].timer # None
  /\ req' = [req EXCEPT ![q].timer = None]
  /\ UNCHANGED <<faults, lifecycle, main, gone, list, tx, workers>>

\* _icd_ioty_discovery_timeout: the timer goes even if OCCancel fails.
LookupTimeout(q) ==
  LET h == req[q].timer
  IN /\ Serving /\ h # None
     /\ OCCancel(h, "low") \/ OCCancelFails(h)
     /\ req' = [req EXCEPT ![q].timer = None]
     /\ UNCHANGED <<faults, lifecycle, main, gone, list, workers>>

\* _icd_dbus_name_owner_changed_cb unlinks the client's record,
ClientExit(c) ==
  /\ Serving /\ c \notin gone
  /\ gone' = gone \cup {c}
  /\ list' = [list EXCEPT ![c] = NoHandles]
  /\ main' = IF list[c] = NoHandles THEN Idle
             ELSE [op |-> "clean", req |-> None, handles |-> list[c]]
  /\ UNCHANGED <<faults, lifecycle, req, tx, workers>>

\* and _icd_dbus_cleanup_observe_list stops its observations one by one.
CleanupObserve(h) ==
  LET rest == [main.handles EXCEPT ![h] = @ - 1]
  IN /\ main.op = "clean" /\ main.handles[h] > 0
     /\ OCCancel(h, "high") \/ OCCancelFails(h)
     /\ main' = IF rest = NoHandles THEN Idle ELSE [main EXCEPT !.handles = rest]
     /\ UNCHANGED <<faults, lifecycle, gone, list, req, workers>>
-----------------------------------------------------------------------------
\* The callbacks of the processing thread.
Calling(kind, h) == thread = "running" /\ KindOf(h) = kind

\* _ocprocess_worker_start, after which the thread is on its own
StartWorker(q, seq) == workers' = workers \cup {Worker(q, seq)}

\* Mutant of CrudCb: the transaction is kept.
CrudCbKeeps(h) ==
  LET q == tx[h].req
  IN /\ Calling("crud", h)
     /\ \/ req' = [req EXCEPT ![q].replies = @ + 1] /\ workers' = workers
        \/ StartWorker(q, 0) /\ req' = req
     /\ UNCHANGED <<faults, lifecycle, main, gone, list, tx>>

\* icd_ioty_ocprocess_get_cb, _put_cb, _post_cb, _delete_cb: an answer
\* without a payload, or no memory for a worker, is an error.
CrudCb(h) ==
  LET q == tx[h].req
  IN /\ Calling("crud", h)
     /\ \/ req' = [req EXCEPT ![q].replies = @ + 1] /\ workers' = workers
        \/ StartWorker(q, 0) /\ req' = req
     /\ tx' = [tx EXCEPT ![h] = NoTx]
     /\ UNCHANGED <<faults, lifecycle, main, gone, list>>

\* icd_ioty_ocprocess_find_cb, _info_cb
LookupCb(h) ==
  /\ Calling("lookup", h)
  /\ StartWorker(tx[h].req, 0)
  /\ UNCHANGED <<faults, lifecycle, main, gone, list, req, tx>>

\* icd_ioty_ocprocess_observe_cb.  The stack calls it for notifications in
\* the order of their sequence numbers (OC_REST_OBSERVE).  What cannot be
\* handed to a worker is signalled at once as an error.
ObserveCb(h) ==
  LET q == tx[h].req  seq == req[q].notes + 1
  IN /\ Calling("observe", h) /\ seq <= MaxNotes
     /\ req' = [req EXCEPT ![q].notes = seq]
     /\ workers' = workers \/ StartWorker(q, seq)
     /\ UNCHANGED <<faults, lifecycle, main, gone, list, tx>>

\* The same for the answer to a cancellation, or when the server ends it.
ObserveEnds(h) ==
  /\ Calling("observe", h) /\ (tx[h].ending \/ "server_ends" \in faults)
  /\ tx' = [tx EXCEPT ![h] = NoTx]
  /\ UNCHANGED <<faults, lifecycle, main, gone, list, req, workers>>

\* The stack gives up a request: there is no callback for that (cd is NULL).
Drop(h) ==
  /\ Calling("crud", h) /\ "drop" \in faults
  /\ tx' = [tx EXCEPT ![h] = NoTx]
  /\ UNCHANGED <<faults, lifecycle, main, gone, list, req, workers>>

\* _ocprocess_worker_thread: _worker_crud_cb, _worker_find_cb,
\* _worker_info_cb, _worker_observe_cb
WorkerRuns(w) ==
  /\ workers' = workers \ {w}
  /\ req' = CASE req[w.req].kind = "crud" -> [req EXCEPT ![w.req].replies = @ + 1]
              [] req[w.req].kind = "observe" -> [req EXCEPT ![w.req].shown = w.seq]
              [] OTHER -> req
  /\ UNCHANGED <<faults, lifecycle, main, gone, list, tx>>
-----------------------------------------------------------------------------
Init ==
  /\ faults \in FaultSets
  /\ life = "init" /\ thread = "new" /\ alive = FALSE
  /\ main = Idle
  /\ gone = {}
  /\ list = [c \in Clients |-> NoHandles]
  /\ req = [q \in Requests |-> NoRequest]
  /\ tx = [h \in Handles |-> NoTx]
  /\ workers = {}

Next ==
  \/ EnterLoop \/ Deinit \/ Join \/ ThreadStarts \/ ThreadEnds
  \/ \E c \in Clients, q \in Requests : Crud(c, q) \/ Lookup(c, q) \/ ObserverStart(c, q)
  \/ \E c \in Clients : ClientExit(c)
  \/ \E q \in Requests : ObserverStop(q) \/ LookupTimeout(q)
  \/ \E h \in Handles :
       \/ ObserverStarted(h) \/ ObserverStopped(h) \/ CleanupObserve(h)
       \/ CrudCb(h) \/ LookupCb(h) \/ ObserveCb(h) \/ ObserveEnds(h) \/ Drop(h)
  \/ \E w \in workers : WorkerRuns(w)

\* Threads are scheduled, the main loop comes round to a timer, and a server
\* answers (or the stack says in its place that it did not).
Fairness ==
  /\ WF_vars(Join) /\ WF_vars(ThreadStarts) /\ WF_vars(ThreadEnds)
  /\ \A h \in Handles :
       /\ WF_vars(ObserverStarted(h) \/ ObserverStopped(h) \/ CleanupObserve(h))
       /\ WF_vars(CrudCb(h))
  /\ \A q \in Requests :
       /\ SF_vars(LookupTimeout(q))
       /\ WF_vars(\E w \in workers : w.req = q /\ WorkerRuns(w))

Spec == Init /\ [][Next]_vars /\ Fairness
-----------------------------------------------------------------------------
Records ==
  [kind : {"none", "crud", "lookup", "observe"}, client : Clients \cup {None}, replies : Nat,
   handle : Handles \cup {None}, timer : Handles \cup {None},
   notes : 0 .. MaxNotes, shown : 0 .. MaxNotes]

TypeOK ==
  /\ faults \in FaultSets
  /\ life \in {"init", "loop", "exit", "halt", "stopped", "ended"}
  /\ thread \in {"new", "running", "ended"} /\ alive \in BOOLEAN
  /\ main \in [op : {"idle", "add", "cancel", "clean"}, req : Requests \cup {None},
               handles : [Handles -> Nat]]
  /\ gone \subseteq Clients
  /\ list \in [Clients -> [Handles -> Nat]]
  /\ req \in [Requests -> Records]
  /\ tx \in [Handles -> [req : Requests \cup {None}, ending : BOOLEAN]]
  /\ workers \subseteq [req : Requests, seq : 0 .. MaxNotes]

\* An invocation is completed by exactly one: the handler, a callback of the
\* stack or a worker (GDBus frees it then).  It is lost only where the stack
\* ends the transaction and tells nobody: dropped, or cancelled by somebody
\* with an old handle of the same address.
OneHolder ==
  \A q \in Requests : req[q].kind = "crud" =>
    /\ req[q].replies + Holders(q) <= 1
    /\ faults \cap {"drop", "reply", "server_ends"} = {} => req[q].replies + Holders(q) = 1

\* A handle in the hands of the daemon's lists and timers, of the main thread
\* and of the clients is that of the transaction it was got for: nobody
\* cancels another's request.  (A server that ends an observation, or a lost
\* reply to a stop, leaves an address behind that another may get.)
HandlesOwn ==
  faults \cap {"reply", "server_ends"} = {} =>
    /\ \A q \in Requests, h \in Handles :
         h = req[q].timer \/ (h = req[q].handle /\ req[q].client \notin gone) => tx[h].req = q
    /\ \A c \in Clients, h \in Handles :
         list[c][h] > 0 => KindOf(h) = "observe" /\ req[tx[h].req].client = c
    /\ \A h \in Handles :
         main.handles[h] > 0 => IF main.op = "clean" THEN req[tx[h].req].client \in gone
                                ELSE tx[h].req = main.req

\* Every observation has an owner who will end it: it is in the list of a
\* client that is still there, or the main thread is adding or ending it, if
\* cancelling it does not fail.
NoOrphans ==
  "cancel" \notin faults =>
    \A h \in Handles : KindOf(h) = "observe" =>
      \/ tx[h].ending \/ main.handles[h] > 0
      \/ LET c == req[tx[h].req].client IN c \notin gone /\ list[c][h] > 0

\* Every call is answered, if the stack does answer; every search is over
\* when its time is, whatever goes wrong but the timer's only OCCancel: one
\* that fails leaves the transaction to the stack for good.
Answered ==
  \A q \in Requests :
    /\ (req[q].kind = "crud" /\ faults \cap {"drop", "process", "reply", "server_ends"} = {})
         ~> (req[q].replies = 1)
    /\ (req[q].kind = "lookup" /\ "cancel" \notin faults) ~> (\A h \in Handles : tx[h].req # q)

\* A daemon that gives up in main() gets there, unless the processing thread
\* first runs after it was told to stop.
ShutdownEnds ==
  (life \in {"exit", "halt"} /\ "late_thread" \notin faults) ~> (life \in {"ended", "stopped"})
=============================================================================
