---------------------------- MODULE EncapRefresh ----------------------------
(***************************************************************************)
(* How a change of one remote resource reaches the applications that       *)
(* monitor or cache it:                                                    *)
(*                                                                         *)
(*   remote --GET--> packet thread --> one worker thread per answer        *)
(*          --> the entry of the encap table --> a D-Bus signal            *)
(*          --> the lib of every client that has subscribed to it          *)
(*                                                                         *)
(*   daemon/icd-ioty.c            icd_ioty_encap_get, start and stop       *)
(*   daemon/icd-ioty-ocprocess.c  encap_get_cb and its worker              *)
(*   lib/icl-remote-resource-{monitoring,caching}.c                        *)
(*                                                                         *)
(* Workers run concurrently and share no lock, so every access of a worker *)
(* to the entry is a step of its own.  A worker that outlives the entry it *)
(* looked up uses freed memory: what it reads there is arbitrary, and with *)
(* "reuse" it may be a new entry that malloc put at the same address.      *)
(*                                                                         *)
(* IcdEncap has the counts and the failures of start and stop; here a      *)
(* client's calls succeed, and its main loop runs between a stop and the   *)
(* next start, so the destroy notify of the old subscription has run.  A   *)
(* signal is its value: the number in its name chose who gets it.  In what *)
(* order signals of the two types run their callbacks is left open.        *)
(***************************************************************************)
EXTENDS Naturals, Sequences

CONSTANTS
  Clients,
  Values,      \* representations of the resource
  Gets,        \* bounds the GETs, answers and workers under way
  Conditions,  \* what a behaviour may meet together: see AllConditions
  MaxNumber,   \* bounds the entries ever added for the resource
  MaxSignals,  \* bounds the signals queued for a client
  Null

\* "overlap"  a GET is sent while another one, or its worker, is under way
\* "reuse"    a new entry may get the address of one that a worker uses
\* "alone"    the applications use the resource one after the other
AllConditions == {"overlap", "reuse", "alone"}

ASSUME RefreshAssumption ==
  /\ Null \notin Values \cup {"monitoring", "caching", "alive", "lost"}
  /\ Values \cap {"alive", "lost"} = {}
  /\ MaxNumber \in Nat /\ MaxSignals \in Nat /\ Conditions \subseteq SUBSET AllConditions

VARIABLES
  conditions, \* those of this behaviour
  remote,     \* the resource's representation, Null while it does not answer
  users,      \* the clients the entry's counts stand for, by type
  number,     \* signal_number of the entry, 0 when there is none
  next,       \* the next signal number
  shown,      \* resource_state and oic_payload of the entry, by type
  gets,       \* the GETs, answers and workers
  calling,    \* a client's start call that the daemon has answered
  sub,        \* the signal a client has subscribed to, by type, or 0
  queue,      \* the signals on their way to a client, by type
  view        \* what a client was last told, by type

daemonVars == <<users, number, next, shown>>
clientVars == <<calling, sub, queue, view>>
vars == <<conditions, remote, daemonVars, gets, clientVars>>
-----------------------------------------------------------------------------
Types == {"monitoring", "caching"}
States == {"alive", "lost"}

\* calloc: resource_state is IOTCON_REMOTE_RESOURCE_ALIVE, oic_payload NULL.
NewShown == [t \in Types |-> IF t = "monitoring" THEN "alive" ELSE Null]

NoCall == [type |-> Null, number |-> 0]
Calls == [type : Types, number : 1 .. MaxNumber] \cup {NoCall}

\* A GET is under way ("request"), answered ("lookup": its worker has not
\* looked the entry up yet), or its worker is about to compare, to write or
\* to emit the value of one type.
Idle == [at |-> "idle", type |-> Null, result |-> Null, number |-> 0]
Steps == {"idle", "request", "lookup", "compare", "write", "emit"}
GetStates == [at : Steps, type : Types \cup {Null}, result : Values \cup {Null},
              number : 0 .. MaxNumber]

\* What an answer shows of one type: encap_get_ctx->ret, ->oic_payload.
Result(g, t) ==
  IF t = "caching" THEN gets[g].result
  ELSE IF gets[g].result = Null THEN "lost" ELSE "alive"

\* The entry that a worker's pointer refers to, 0 for memory that is not an
\* entry any more.
Targets(g) ==
  IF number = gets[g].number THEN {number}
  ELSE IF "reuse" \in conditions THEN {0, number} ELSE {0}

\* Mutant of Unused: the count of the other type is not looked at.
UnusedSameType(u, t) == u[t] = {}

\* monitoring_count + caching_count is 0 after a stop of type t.
Unused(u, t) == UNION {u[s] : s \in Types} = {}
-----------------------------------------------------------------------------
\* The resource changes, or stops answering, or answers again.
RemoteChange(v) ==
  /\ v # remote
  /\ remote' = v
  /\ UNCHANGED <<conditions, daemonVars, gets, clientVars>>

\* icd_ioty_encap_get on the entry.
EncapGet(g) ==
  /\ \A h \in Gets : gets[h].at = "idle" \/ (h # g /\ "overlap" \in conditions)
  /\ gets' = [gets EXCEPT ![g] = [Idle EXCEPT !.at = "request"]]

\* icd_ioty_encap_get called by the timer, or by _worker_encap_get when the
\* observe or the presence request brought news.
Refresh(g) ==
  /\ number # 0
  /\ EncapGet(g)
  /\ UNCHANGED <<conditions, remote, daemonVars, clientVars>>

\* The remote, or IoTivity's timeout, answers; encap_get_cb starts a worker.
Answer(g) ==
  /\ gets[g].at = "request"
  /\ gets' = [gets EXCEPT ![g].at = "lookup", ![g].result = remote]
  /\ UNCHANGED <<conditions, remote, daemonVars, clientVars>>

\* _worker_encap_get_cb finds the entry, or returns.
LookUp(g) ==
  /\ gets[g].at = "lookup"
  /\ gets' = [gets EXCEPT ![g] = IF number = 0 THEN Idle
                                 ELSE [@ EXCEPT !.at = "compare", !.type = "monitoring",
                                                !.number = number]]
  /\ UNCHANGED <<conditions, remote, daemonVars, clientVars>>

\* After monitoring comes caching, and then the worker ends.
Done(w) ==
  IF w.type = "monitoring" THEN [w EXCEPT !.at = "compare", !.type = "caching"] ELSE Idle

\* Mutant of Differs: every answer counts as a change.
DiffersAlways(g) == TRUE

\* Is the answer news to the entry?
Differs(g) == shown[gets[g].type] # Result(g, gets[g].type)

\* Does the answer say anything of the type?  An error says nothing about
\* the representation.
Speaks(g) == Result(g, gets[g].type) # Null

\* The worker reads the count of its type and compares the answer with the
\* entry.
Compare(g) ==
  /\ gets[g].at = "compare"
  /\ \E n \in Targets(g), news \in BOOLEAN :
       /\ news => Speaks(g)
       /\ n # 0 => news = (users[gets[g].type] # {} /\ Speaks(g) /\ Differs(g))
       /\ gets' = [gets EXCEPT ![g] = IF news THEN [@ EXCEPT !.at = "write"] ELSE Done(@)]
  /\ UNCHANGED <<conditions, remote, daemonVars, clientVars>>

\* Mutant of Write: the entry does not remember what was shown.
WriteForgotten(g) ==
  /\ gets[g].at = "write"
  /\ gets' = [gets EXCEPT ![g].at = "emit"]
  /\ UNCHANGED <<conditions, remote, daemonVars, clientVars>>

\* resource_state = ..., or oic_payload = ...
Write(g) ==
  LET t == gets[g].type
  IN /\ gets[g].at = "write"
     /\ \E n \in Targets(g) :
          shown' = IF n = 0 THEN shown ELSE [shown EXCEPT ![t] = Result(g, t)]
     /\ gets' = [gets EXCEPT ![g].at = "emit"]
     /\ UNCHANGED <<conditions, remote, users, number, next, clientVars>>

\* The signals on their way to a client.
Queued(c) == Len(queue[c]["monitoring"]) + Len(queue[c]["caching"])

\* _ocprocess_response_signal: the bus queues the signal for every client
\* that has subscribed to its name.
Emit(g) ==
  LET t == gets[g].type
      receivers(n) == {c \in Clients : n # 0 /\ sub[c][t] = n}
  IN /\ gets[g].at = "emit"
     /\ \E n \in Targets(g) :
          /\ \A c \in receivers(n) : Queued(c) < MaxSignals
          /\ queue' = [c \in Clients |->
                         IF c \in receivers(n)
                         THEN [queue[c] EXCEPT ![t] = Append(@, Result(g, t))]
                         ELSE queue[c]]
     /\ gets' = [gets EXCEPT ![g] = Done(@)]
     /\ UNCHANGED <<conditions, remote, daemonVars, calling, sub, view>>
-----------------------------------------------------------------------------
\* The daemon's part of start_monitoring or start_caching.  The first user
\* of the resource adds the entry and sends a GET.
StartCall(c, t) ==
  /\ calling[c] = NoCall /\ sub[c][t] = 0
  /\ "alone" \in conditions => \A s \in Types : users[s] \subseteq {c}
  /\ users' = [users EXCEPT ![t] = @ \cup {c}]
  /\ \/ /\ number # 0
        /\ calling' = [calling EXCEPT ![c] = [type |-> t, number |-> number]]
        /\ UNCHANGED <<number, next, shown, gets>>
     \/ /\ number = 0
        /\ next <= MaxNumber
        /\ number' = next
        /\ next' = next + 1
        /\ shown' = NewShown
        /\ calling' = [calling EXCEPT ![c] = [type |-> t, number |-> next]]
        /\ \E g \in Gets : EncapGet(g)
  /\ UNCHANGED <<conditions, remote, sub, queue, view>>

\* The lib subscribes to the signal whose number the daemon returned.
Subscribe(c) ==
  /\ calling[c] # NoCall
  /\ sub' = [sub EXCEPT ![c][calling[c].type] = calling[c].number]
  /\ calling' = [calling EXCEPT ![c] = NoCall]
  /\ UNCHANGED <<conditions, remote, daemonVars, gets, queue, view>>

\* Mutant of Unsubscribe: the cached representation stays.
UnsubscribeKeeps(c, t) == view

\* _icl_caching_conn_cleanup destroys the cached representation; what an
\* application was told of the state means nothing after the stop.
Unsubscribe(c, t) == [view EXCEPT ![c][t] = Null]

\* stop_monitoring or stop_caching, and the destroy notify it leads to.
\* Signals of the old subscription still on their way are dropped.
StopCall(c, t) ==
  /\ calling[c] = NoCall /\ sub[c][t] # 0
  /\ users' = [users EXCEPT ![t] = @ \ {c}]
  /\ number' = IF Unused(users', t) THEN 0 ELSE number
  /\ sub' = [sub EXCEPT ![c][t] = 0]
  /\ queue' = [queue EXCEPT ![c][t] = <<>>]
  /\ view' = Unsubscribe(c, t)
  /\ UNCHANGED <<conditions, remote, next, shown, gets, calling>>

\* _icl_monitoring_cb or _icl_caching_cb, from the client's main loop.
Deliver(c, t) ==
  /\ calling[c] = NoCall /\ queue[c][t] # <<>>
  /\ view' = [view EXCEPT ![c][t] = Head(queue[c][t])]
  /\ queue' = [queue EXCEPT ![c][t] = Tail(@)]
  /\ UNCHANGED <<conditions, remote, daemonVars, gets, calling, sub>>
-----------------------------------------------------------------------------
Init ==
  /\ conditions \in Conditions
  /\ remote \in Values \cup {Null}
  /\ users = [t \in Types |-> {}]
  /\ number = 0 /\ next = 1
  /\ shown = NewShown
  /\ gets = [g \in Gets |-> Idle]
  /\ calling = [c \in Clients |-> NoCall]
  /\ sub = [c \in Clients |-> [t \in Types |-> 0]]
  /\ queue = [c \in Clients |-> [t \in Types |-> <<>>]]
  /\ view = [c \in Clients |-> [t \in Types |-> Null]]

GetStep(g) == Answer(g) \/ LookUp(g) \/ Compare(g) \/ Write(g) \/ Emit(g)

Next ==
  \/ \E v \in Values \cup {Null} : RemoteChange(v)
  \/ \E g \in Gets : Refresh(g) \/ GetStep(g)
  \/ \E c \in Clients, t \in Types : StartCall(c, t) \/ StopCall(c, t) \/ Deliver(c, t)
  \/ \E c \in Clients : Subscribe(c)

Spec == Init /\ [][Next]_vars

\* The periodic timer fires, IoTivity answers or times out, threads and main
\* loops run.
Fairness ==
  /\ WF_vars(\E g \in Gets : Refresh(g))
  /\ \A g \in Gets : SF_vars(GetStep(g))
  /\ \A c \in Clients : WF_vars(Subscribe(c)) /\ SF_vars(\E t \in Types : Deliver(c, t))

FairSpec == Spec /\ Fairness
-----------------------------------------------------------------------------
TypeOK ==
  /\ conditions \in Conditions
  /\ remote \in Values \cup {Null}
  /\ users \in [Types -> SUBSET Clients]
  /\ number \in 0 .. MaxNumber /\ next \in 1 .. MaxNumber + 1
  /\ shown \in [Types -> Values \cup States \cup {Null}]
  /\ gets \in [Gets -> GetStates]
  /\ calling \in [Clients -> Calls]
  /\ sub \in [Clients -> [Types -> 0 .. MaxNumber]]
  /\ queue \in [Clients -> [Types -> Seq(Values \cup States)]]
  /\ view \in [Clients -> [Types -> Values \cup States \cup {Null}]]

\* The last thing a client was told or is about to be told.
Told(c, t) ==
  IF queue[c][t] = <<>> THEN view[c][t] ELSE queue[c][t][Len(queue[c][t])]

Quiet == \A g \in Gets : gets[g].at \notin {"write", "emit"}

\* While no worker is between comparing and emitting, a client that was ever
\* told something knows what the entry shows: no update is lost on the way
\* from the entry to a subscribed lib, unless workers overlap.
NoUpdateLost ==
  (Quiet /\ "overlap" \notin conditions) => \A c \in Clients, t \in Types :
    (sub[c][t] # 0 /\ Told(c, t) # Null) => Told(c, t) = shown[t]

\* A client is only ever told of news: two answers in a row that say the
\* same reach it once, unless workers overlap.
OnlyNews ==
  []["overlap" \notin conditions =>
       \A c \in Clients, t \in Types : Deliver(c, t) => view'[c][t] # view[c][t]]_vars

\* The entries of the clients' subscriptions are the daemon's entry: nobody
\* waits for the signals of an entry that is gone.
SubscribedToEntry ==
  \A c \in Clients, t \in Types :
    /\ sub[c][t] # 0 => sub[c][t] = number /\ c \in users[t]
    /\ calling[c].type = t => calling[c].number = number /\ c \in users[t]

\* When the resource settles on a value, the entry does: answers that were
\* overtaken do no lasting harm.
EntryFresh ==
  \A v \in Values :
    <>[](remote = v /\ users["caching"] # {}) => <>[](shown["caching"] = v)

\* The same for the state.
StateFresh ==
  /\ <>[](remote = Null /\ users["monitoring"] # {}) => <>[](shown["monitoring"] = "lost")
  /\ <>[](remote # Null /\ users["monitoring"] # {}) => <>[](shown["monitoring"] = "alive")

\* Both.
Settles == EntryFresh /\ StateFresh
=============================================================================
