------------------------- MODULE IcdRequests_proofs -------------------------
(***************************************************************************)
(* What the daemon holds for its clients' requests, for any number of      *)
(* clients, requests and addresses.                                        *)
(*                                                                         *)
(* NoOrphans needs to know that nobody touches the handle of an            *)
(* observation between OCDoResource and its entry in the list (MainShape). *)
(* HandlesOwn needs besides that an address is in one list once, and that  *)
(* whoever has it has one that is not being ended (Held, InMain): the      *)
(* answer to a cancellation may come at any moment, and the address is     *)
(* free from then on.                                                      *)
(***************************************************************************)
EXTENDS IcdRequests, FiniteSetTheorems, TLAPS

\* A transaction is of a request that was made, by a client.
TxKinds ==
  /\ \A h \in Handles : tx[h].req # None => req[tx[h].req].kind # "none"
  /\ \A q \in Requests : req[q].kind # "none" => req[q].client \in Clients

\* What the main thread has in hand.
MainShape ==
  /\ main.op = "idle" => main = Idle
  /\ main.op \in {"add", "cancel"} =>
       /\ main.req \in Requests
       /\ \E h \in Handles : main.handles = [NoHandles EXCEPT ![h] = 1]
  /\ main.op = "add" =>
       /\ req[main.req].kind = "observe" /\ req[main.req].client \notin gone
       /\ \A h \in Handles : main.handles[h] > 0 => tx[h].req \in {None, main.req}

Base == TypeOK /\ TxKinds /\ MainShape

Certain == faults \cap {"reply", "server_ends"} = {}

\* A handle that somebody has, and what kind of request it was got for.
Kinds ==
  \A q \in Requests :
    /\ req[q].timer # None => req[q].kind = "lookup"
    /\ req[q].handle # None => req[q].kind = "observe"

Held ==
  /\ \A q \in Requests, h \in Handles :
       /\ h = req[q].timer => tx[h].req = q
       /\ h = req[q].handle /\ req[q].client \notin gone => tx[h].req = q /\ ~tx[h].ending
  /\ \A c \in Clients, h \in Handles :
       list[c][h] > 0 => /\ list[c][h] = 1 /\ c \notin gone /\ ~tx[h].ending
                         /\ KindOf(h) = "observe" /\ req[tx[h].req].client = c

InMain ==
  \A h \in Handles : main.handles[h] > 0 =>
    /\ main.handles[h] = 1 /\ ~tx[h].ending /\ KindOf(h) = "observe"
    /\ main.op = "clean" => req[tx[h].req].client \in gone
    /\ main.op # "clean" => tx[h].req = main.req /\ \A c \in Clients : list[c][h] = 0

Owning == Certain => Kinds /\ Held /\ InMain

Kept == Base /\ NoOrphans /\ Owning

USE RequestsAssumption

LEMMA InitKept == Init => Kept
<1>. SUFFICES ASSUME Init PROVE Kept
  OBVIOUS
<1>1. Base
  <2>1. TypeOK
    <3>1. NoHandles \in [Handles -> Nat] BY DEF NoHandles
    <3>2. main \in [op : {"idle", "add", "cancel", "clean"}, req : Requests \cup {None},
                    handles : [Handles -> Nat]]
      BY <3>1 DEF Init, Idle
    <3>3. NoRequest \in Records BY DEF NoRequest, Request, Records
    <3>4. req \in [Requests -> Records] BY <3>3 DEF Init
    <3>5. tx \in [Handles -> [req : Requests \cup {None}, ending : BOOLEAN]] BY DEF Init, NoTx
    <3>6. list \in [Clients -> [Handles -> Nat]] BY <3>1 DEF Init
    <3>. QED BY <3>2, <3>4, <3>5, <3>6 DEF Init, TypeOK, Records
  <2>2. TxKinds BY DEF Init, TxKinds, NoTx, NoRequest, Request
  <2>3. MainShape BY DEF Init, MainShape, Idle
  <2>. QED BY <2>1, <2>2, <2>3 DEF Base
<1>2. \A h \in Handles : KindOf(h) = "none" BY DEF Init, KindOf, NoTx
<1>3. NoOrphans BY <1>2 DEF NoOrphans
<1>4. Kinds /\ Held /\ InMain
  BY DEF Init, Kinds, Held, InMain, Idle, NoHandles, NoRequest, Request
<1>. QED BY <1>1, <1>3, <1>4 DEF Kept, Owning

-----------------------------------------------------------------------------
\* What neither makes nor ends a transaction, nor touches a list or a handle.
LEMMA QuietStep ==
  ASSUME Kept, TypeOK', UNCHANGED <<faults, main, gone, list, tx>>,
         \A q \in Requests : /\ req'[q].kind = req[q].kind /\ req'[q].client = req[q].client
                             /\ req'[q].handle = req[q].handle
                             /\ req'[q].timer # None => req'[q].timer = req[q].timer
  PROVE  Kept'
<1>1. \A h \in Handles : tx[h].req # None => tx[h].req \in Requests
  BY DEF Kept, Base, TypeOK
<1>2. TxKinds' BY <1>1 DEF Kept, Base, TxKinds
<1>3. MainShape' BY DEF Kept, Base, MainShape, Idle, NoHandles
<1>4. \A h \in Handles : KindOf(h)' = KindOf(h) BY <1>1 DEF KindOf
<1>5. \A h \in Handles : KindOf(h) = "observe" => tx[h].req \in Requests
  BY <1>1 DEF KindOf
<1>6. NoOrphans'
  <2>. SUFFICES ASSUME "cancel" \notin faults, NEW h \in Handles, KindOf(h)' = "observe"
                PROVE  \/ tx[h].ending \/ main.handles[h] > 0
                       \/ LET c == req'[tx[h].req].client IN c \notin gone /\ list[c][h] > 0
    BY DEF NoOrphans
  <2>1. KindOf(h) = "observe" /\ tx[h].req \in Requests BY <1>4, <1>5
  <2>2. req'[tx[h].req].client = req[tx[h].req].client BY <2>1
  <2>. QED BY <2>1, <2>2 DEF Kept, NoOrphans
<1>7. Owning'
  <2>. SUFFICES ASSUME Certain PROVE Kinds' /\ Held' /\ InMain'
    BY DEF Owning, Certain
  <2>0. Kinds /\ Held /\ InMain BY DEF Kept, Owning
  <2>1. Kinds' BY <2>0 DEF Kinds
  <2>2. \A h \in Handles : KindOf(h) = "observe" => req'[tx[h].req].client = req[tx[h].req].client
    BY <1>5
  <2>3. Held'
    <3>1. \A q \in Requests, h \in Handles :
            /\ h = req'[q].timer => tx[h].req = q
            /\ h = req'[q].handle /\ req'[q].client \notin gone => tx[h].req = q /\ ~tx[h].ending
      <4>. TAKE q \in Requests, h \in Handles
      <4>1. /\ req'[q].client = req[q].client /\ req'[q].handle = req[q].handle
            /\ req'[q].timer # None => req'[q].timer = req[q].timer
        OBVIOUS
      <4>. QED BY <2>0, <4>1 DEF Held
    <3>2. \A c \in Clients, h \in Handles :
            list[c][h] > 0 => /\ list[c][h] = 1 /\ c \notin gone /\ ~tx[h].ending
                              /\ KindOf(h)' = "observe" /\ req'[tx[h].req].client = c
      BY <2>0, <2>2, <1>4 DEF Held
    <3>. QED BY <3>1, <3>2 DEF Held
  <2>4. InMain' BY <2>0, <2>2, <1>4 DEF InMain
  <2>. QED BY <2>1, <2>3, <2>4
<1>. QED BY <1>2, <1>3, <1>6, <1>7 DEF Kept, Base

LEMMA LifecycleKept ==
  ASSUME Kept, EnterLoop \/ Deinit \/ Join \/ ThreadStarts \/ ThreadEnds
  PROVE  Kept'
<1>1. UNCHANGED <<faults, main, gone, list, req, tx, workers>>
  BY DEF EnterLoop, Deinit, Join, ThreadStarts, ThreadEnds
<1>2. TypeOK'
  <2>1. /\ life' \in {"init", "loop", "exit", "halt", "stopped", "ended"}
        /\ thread' \in {"new", "running", "ended"} /\ alive' \in BOOLEAN
    BY DEF Kept, Base, TypeOK, EnterLoop, Deinit, Join, ThreadStarts, ThreadEnds
  <2>. QED BY <1>1, <2>1 DEF Kept, Base, TypeOK
<1>. QED BY <1>1, <1>2, QuietStep

LEMMA LookupCbKept ==
  ASSUME Kept, NEW h \in Handles, LookupCb(h)
  PROVE  Kept'
<1>1. tx[h].req \in Requests BY DEF LookupCb, Calling, KindOf, Kept, Base, TypeOK
<1>2. Worker(tx[h].req, 0) \in [req : Requests, seq : 0 .. MaxNotes] BY <1>1 DEF Worker
<1>3. TypeOK' BY <1>2 DEF LookupCb, StartWorker, lifecycle, Kept, Base, TypeOK
<1>. QED BY <1>3, QuietStep DEF LookupCb

LEMMA ObserveCbKept ==
  ASSUME Kept, NEW h \in Handles, ObserveCb(h)
  PROVE  Kept'
<1>. DEFINE q == tx[h].req  seq == req[q].notes + 1
<1>1. q \in Requests BY DEF ObserveCb, Calling, KindOf, Kept, Base, TypeOK
<1>2. seq \in 0 .. MaxNotes
  <2>1. req[q] \in Records BY <1>1 DEF Kept, Base, TypeOK
  <2>2. req[q].notes \in 0 .. MaxNotes BY <2>1 DEF Records
  <2>. QED BY <2>2 DEF ObserveCb
<1>3. Worker(q, seq) \in [req : Requests, seq : 0 .. MaxNotes] BY <1>1, <1>2 DEF Worker
<1>4. req' = [req EXCEPT ![q].notes = seq] BY DEF ObserveCb
<1>. HIDE DEF q, seq
<1>5. TypeOK'
  <2>1. workers' = workers \/ workers' = workers \cup {Worker(q, seq)}
    BY DEF ObserveCb, StartWorker, q, seq
  <2>2. req \in [Requests -> Records] BY DEF Kept, Base, TypeOK, Records
  <2>3. req' \in [Requests -> Records] BY <1>1, <1>2, <1>4, <2>2 DEF Records
  <2>4. workers' \subseteq [req : Requests, seq : 0 .. MaxNotes]
    BY <1>3, <2>1 DEF Kept, Base, TypeOK
  <2>. QED BY <2>3, <2>4 DEF ObserveCb, lifecycle, Kept, Base, TypeOK, Records
<1>6. \A p \in Requests : /\ req'[p].kind = req[p].kind /\ req'[p].client = req[p].client
                          /\ req'[p].timer = req[p].timer /\ req'[p].handle = req[p].handle
  BY <1>1, <1>4 DEF Kept, Base, TypeOK
<1>. QED BY <1>5, <1>6, QuietStep DEF ObserveCb

LEMMA WorkerRunsKept ==
  ASSUME Kept, NEW w \in workers, WorkerRuns(w)
  PROVE  Kept'
<1>1. /\ UNCHANGED <<faults, life, thread, alive, main, gone, list, tx>>
      /\ workers' = workers \ {w}
  BY DEF WorkerRuns, lifecycle
<1>. DEFINE q == w.req
<1>2. q \in Requests /\ w.seq \in 0 .. MaxNotes /\ req \in [Requests -> Records]
  BY DEF Kept, Base, TypeOK, Records
<1>3. \/ req' = [req EXCEPT ![q].replies = req[q].replies + 1]
      \/ req' = [req EXCEPT ![q].shown = w.seq]
      \/ req' = req
  BY DEF WorkerRuns
<1>. HIDE DEF q
<1>4. req[q] \in Records BY <1>2
<1>5. req[q].replies + 1 \in Nat BY <1>4 DEF Records
<1>6. /\ req' \in [Requests -> Records]
      /\ \A p \in Requests : /\ req'[p].kind = req[p].kind /\ req'[p].client = req[p].client
                             /\ req'[p].timer = req[p].timer /\ req'[p].handle = req[p].handle
  <2>1. CASE req' = [req EXCEPT ![q].replies = req[q].replies + 1]
    BY <1>2, <1>4, <1>5, <2>1 DEF Records
  <2>2. CASE req' = [req EXCEPT ![q].shown = w.seq]
    BY <1>2, <1>4, <2>2 DEF Records
  <2>3. CASE req' = req
    BY <1>2, <2>3
  <2>. QED BY <1>3, <2>1, <2>2, <2>3
<1>7. TypeOK' BY <1>1, <1>6 DEF Kept, Base, TypeOK, Records
<1>. QED BY <1>1, <1>6, <1>7, QuietStep

-----------------------------------------------------------------------------
\* A new request, with or without a transaction.
LEMMA NewRequest ==
  ASSUME Kept, NEW c \in Clients, NEW q \in Requests, NEW h \in Handles,
         NEW r \in Records, req[q].kind = "none", main = Idle, c \notin gone,
         r.kind \in {"crud", "lookup", "observe"}, r.client = c, r.handle = None,
         r.timer # None => r.timer = h /\ r.kind = "lookup",
         req' = [req EXCEPT ![q] = r],
         \/ tx' = tx /\ r.kind = "crud"
         \/ tx[h] = NoTx /\ tx' = [tx EXCEPT ![h].req = q],
         \/ /\ r.kind = "observe"
            /\ main' = [op |-> "add", req |-> q, handles |-> [NoHandles EXCEPT ![h] = 1]]
         \/ r.kind # "observe" /\ main' = main,
         UNCHANGED <<faults, lifecycle, gone, list, workers>>
  PROVE  Kept'
<1>1. /\ TypeOK /\ TxKinds /\ req \in [Requests -> Records]
      /\ tx \in [Handles -> [req : Requests \cup {None}, ending : BOOLEAN]]
  BY DEF Kept, Base, TypeOK
<1>2. /\ req' \in [Requests -> Records]
      /\ tx' \in [Handles -> [req : Requests \cup {None}, ending : BOOLEAN]]
  BY <1>1
<1>3. main' \in [op : {"idle", "add", "cancel", "clean"}, req : Requests \cup {None},
                 handles : [Handles -> Nat]]
  <2>1. NoHandles \in [Handles -> Nat] BY DEF NoHandles
  <2>2. CASE r.kind = "observe"
    BY <2>1, <2>2
  <2>3. CASE r.kind # "observe"
    BY <2>3, <1>1 DEF TypeOK
  <2>. QED BY <2>2, <2>3
<1>4. TypeOK' BY <1>1, <1>2, <1>3 DEF TypeOK, lifecycle
<1>5. \A k \in Handles : tx[k].req # q BY <1>1 DEF TxKinds
<1>6. /\ req'[q] = r
      /\ \A p \in Requests : p # q => req'[p] = req[p]
      /\ \A k \in Handles : k # h => tx'[k] = tx[k]
      /\ tx'[h] = tx[h] \/ (tx[h] = NoTx /\ tx'[h].req = q /\ ~tx'[h].ending)
      /\ r.kind # "crud" => tx[h] = NoTx /\ tx'[h].req = q
  BY <1>1 DEF NoTx
<1>7. \A k \in Handles :
        \/ tx'[k] = tx[k] /\ KindOf(k)' = KindOf(k)
           /\ (tx[k].req # None => req'[tx[k].req] = req[tx[k].req])
        \/ k = h /\ tx[h] = NoTx /\ tx'[h].req = q /\ KindOf(h)' = r.kind /\ ~tx'[h].ending
  BY <1>1, <1>2, <1>5, <1>6 DEF KindOf, NoTx
<1>8. TxKinds' BY <1>1, <1>5, <1>6 DEF TxKinds, NoTx
<1>9. MainShape'
  <2>1. CASE r.kind = "observe"
    <3>1. main' = [op |-> "add", req |-> q, handles |-> [NoHandles EXCEPT ![h] = 1]] BY <2>1
    <3>2. main'.op = "add" /\ main'.req = q /\ main'.handles = [NoHandles EXCEPT ![h] = 1]
      BY <3>1
    <3>3. \A k \in Handles : main'.handles[k] > 0 => k = h BY <3>2 DEF NoHandles
    <3>4. req'[q].kind = "observe" /\ req'[q].client \notin gone' BY <2>1, <1>6
    <3>5. tx'[h].req = q BY <2>1, <1>6
    <3>6. \A k \in Handles : main'.handles[k] > 0 => tx'[k].req \in {None, main'.req}
      BY <3>2, <3>3, <3>5
    <3>7. \E k \in Handles : main'.handles = [NoHandles EXCEPT ![k] = 1] BY <3>2
    <3>8. main'.op # "idle" /\ main'.req \in Requests BY <3>2
    <3>9. NoHandles' = NoHandles BY DEF NoHandles
    <3>. QED BY <3>2, <3>4, <3>6, <3>7, <3>8, <3>9 DEF MainShape
  <2>2. CASE r.kind # "observe"
    BY <2>2 DEF MainShape, Idle
  <2>. QED BY <2>1, <2>2
<1>10. \A k \in Handles : main.handles[k] = 0 BY DEF Idle, NoHandles
<1>11. \A k \in Handles : KindOf(k) = "observe" => tx[k].req # None BY DEF KindOf
<1>12. NoOrphans'
  BY <1>6, <1>7, <1>10, <1>11 DEF Kept, NoOrphans, NoHandles
<1>13. Owning'
  <2>. SUFFICES ASSUME Certain PROVE Kinds' /\ Held' /\ InMain'
    BY DEF Owning, Certain
  <2>0. Kinds /\ Held BY DEF Kept, Owning
  <2>1. Kinds' BY <2>0, <1>6 DEF Kinds
  <2>2. tx[h] = NoTx =>
          /\ \A p \in Requests : h # req[p].timer /\ (h = req[p].handle => req[p].client \in gone)
          /\ \A d \in Clients : list[d][h] = 0
    BY <1>1, <2>0 DEF Held, NoTx, KindOf, TypeOK
  <2>3. Held'
    <3>1. \A p \in Requests, k \in Handles :
            /\ k = req'[p].timer => tx'[k].req = p
            /\ k = req'[p].handle /\ req'[p].client \notin gone => tx'[k].req = p /\ ~tx'[k].ending
      <4>. TAKE p \in Requests, k \in Handles
      <4>1. CASE p = q
        <5>2. /\ req'[p].handle = None /\ req'[p].timer = r.timer /\ None \notin Handles
              /\ r.timer # None => r.kind = "lookup" /\ r.timer = h
          BY <4>1, <1>6
        <5>. QED BY <4>1, <5>2, <1>6
      <4>2. CASE p # q
        BY <4>2, <1>6, <2>0, <2>2 DEF Held
      <4>. QED BY <4>1, <4>2
    <3>2. \A d \in Clients, k \in Handles :
            list[d][k] > 0 => /\ list[d][k] = 1 /\ d \notin gone /\ ~tx'[k].ending
                              /\ KindOf(k)' = "observe" /\ req'[tx'[k].req].client = d
      <4>. SUFFICES ASSUME NEW d \in Clients, NEW k \in Handles, list[d][k] > 0
                    PROVE  /\ list[d][k] = 1 /\ d \notin gone /\ ~tx'[k].ending
                           /\ KindOf(k)' = "observe" /\ req'[tx'[k].req].client = d
        OBVIOUS
      <4>1. /\ list[d][k] = 1 /\ d \notin gone /\ ~tx[k].ending
            /\ KindOf(k) = "observe" /\ req[tx[k].req].client = d
        BY <2>0 DEF Held
      <4>2. tx'[k] = tx[k] /\ KindOf(k)' = KindOf(k) /\ req'[tx[k].req] = req[tx[k].req]
        BY <4>1, <1>7, <1>11, <2>2
      <4>. QED BY <4>1, <4>2
    <3>. QED BY <3>1, <3>2 DEF Held
  <2>4. InMain'
    <3>. SUFFICES ASSUME NEW k \in Handles, main'.handles[k] > 0
                  PROVE  /\ main'.handles[k] = 1 /\ ~tx'[k].ending /\ KindOf(k)' = "observe"
                         /\ main'.op # "clean" /\ tx'[k].req = main'.req
                         /\ \A d \in Clients : list[d][k] = 0
      BY DEF InMain
    <3>1. r.kind = "observe" /\ k = h BY <1>10 DEF NoHandles
    <3>2. tx[h] = NoTx /\ tx'[h].req = q BY <3>1, <1>1
    <3>. QED BY <3>1, <3>2, <1>5, <1>6, <1>7, <2>2 DEF NoHandles, NoTx
  <2>. QED BY <2>1, <2>3, <2>4
<1>. QED BY <1>4, <1>8, <1>9, <1>12, <1>13 DEF Kept, Base

LEMMA NewRecord ==
  ASSUME NEW kind \in {"crud", "lookup", "observe"}, NEW c \in Clients
  PROVE  Request(kind, c) \in Records
  BY DEF Request, Records

LEMMA CrudKept ==
  ASSUME Kept, NEW c \in Clients, NEW q \in Requests, Crud(c, q)
  PROVE  Kept'
<1>1. /\ main = Idle /\ c \notin gone /\ req[q].kind = "none"
      /\ UNCHANGED <<faults, lifecycle, main, gone, list, workers>>
  BY DEF Crud, Calls, Serving
<1>. DEFINE r(n) == [Request("crud", c) EXCEPT !.replies = n]
<1>3. \A n \in Nat : /\ r(n) \in Records /\ r(n).kind = "crud" /\ r(n).client = c
                     /\ r(n).handle = None /\ r(n).timer = None
  BY NewRecord DEF Records, Request
<1>4. Request("crud", c) = r(0) BY DEF Request
<1>5. PICK n \in {0, 1}, h \in Handles \cup {None} :
        /\ req' = [req EXCEPT ![q] = r(n)]
        /\ \/ tx' = tx
           \/ h \in Handles /\ tx[h] = NoTx /\ tx' = [tx EXCEPT ![h].req = q]
  BY <1>4 DEF Crud, OCDoResource
<1>. HIDE DEF r
<1>6. r(n) \in Records /\ r(n).kind = "crud" /\ r(n).client = c /\ r(n).handle = None /\ r(n).timer = None
  BY <1>3
<1>7. CASE h \in Handles
  BY <1>1, <1>5, <1>6, <1>7, NewRequest
<1>8. CASE tx' = tx
  <2>1. CASE Handles = {}
    <3>1. TypeOK'
      BY <1>1, <1>5, <1>6, <1>8 DEF Kept, Base, TypeOK, lifecycle
    <3>2. TxKinds' BY <1>1, <1>5, <1>6, <2>1 DEF Kept, Base, TypeOK, TxKinds
    <3>3. MainShape' BY <1>1 DEF MainShape, Idle, NoHandles
    <3>4. NoOrphans' BY <2>1 DEF NoOrphans
    <3>5. Owning' BY <1>1, <1>5, <1>6, <2>1 DEF Kept, Base, TypeOK, Owning, Certain, Kinds, Held, InMain
    <3>. QED BY <3>1, <3>2, <3>3, <3>4, <3>5 DEF Kept, Base
  <2>2. CASE Handles # {}
    <3>1. PICK k \in Handles : TRUE BY <2>2
    <3>. QED BY <1>1, <1>5, <1>6, <1>8, <3>1, NewRequest
  <2>. QED BY <2>1, <2>2
<1>. QED BY <1>5, <1>7, <1>8

LEMMA LookupKept ==
  ASSUME Kept, NEW c \in Clients, NEW q \in Requests, Lookup(c, q)
  PROVE  Kept'
<1>1. /\ main = Idle /\ c \notin gone /\ req[q].kind = "none"
      /\ UNCHANGED <<faults, lifecycle, main, gone, list, workers>>
  BY DEF Lookup, Calls, Serving
<1>2. PICK h \in Handles :
        /\ tx[h] = NoTx /\ tx' = [tx EXCEPT ![h].req = q]
        /\ req' = [req EXCEPT ![q] = [Request("lookup", c) EXCEPT !.timer = h]]
  BY DEF Lookup, OCDoResource
<1>. DEFINE r == [Request("lookup", c) EXCEPT !.timer = h]
<1>3. r \in Records /\ r.kind = "lookup" /\ r.client = c /\ r.handle = None /\ r.timer = h
  BY NewRecord DEF Records, Request
<1>4. req' = [req EXCEPT ![q] = r] BY <1>2
<1>. HIDE DEF r
<1>5. /\ r.kind \in {"crud", "lookup", "observe"} /\ r.kind # "observe"
      /\ r.timer # None => r.timer = h /\ r.kind = "lookup"
  BY <1>3
<1>6. main' = main BY <1>1
<1>7. tx[h] = NoTx /\ tx' = [tx EXCEPT ![h].req = q] BY <1>2
<1>. QED BY <1>1, <1>3, <1>4, <1>5, <1>6, <1>7, NewRequest

LEMMA ObserverStartKept ==
  ASSUME Kept, NEW c \in Clients, NEW q \in Requests, ObserverStart(c, q)
  PROVE  Kept'
<1>1. /\ main = Idle /\ c \notin gone /\ req[q].kind = "none"
      /\ UNCHANGED <<faults, lifecycle, gone, list, workers>>
  BY DEF ObserverStart, Calls, Serving
<1>2. PICK h \in Handles :
        /\ tx[h] = NoTx /\ tx' = [tx EXCEPT ![h].req = q]
        /\ main' = [op |-> "add", req |-> q, handles |-> [NoHandles EXCEPT ![h] = 1]]
  BY DEF ObserverStart, OCDoResource
<1>. DEFINE r == Request("observe", c)
<1>3. r \in Records /\ r.kind = "observe" /\ r.client = c /\ r.handle = None /\ r.timer = None
  BY NewRecord DEF Request
<1>4. req' = [req EXCEPT ![q] = r] BY DEF ObserverStart
<1>. HIDE DEF r
<1>. QED BY <1>1, <1>2, <1>3, <1>4, NewRequest

-----------------------------------------------------------------------------
\* Whoever has an address says what its transaction is for.
LEMMA NotHeld ==
  ASSUME Kept, Certain, NEW h \in Handles
  PROVE  /\ KindOf(h) # "lookup" => \A q \in Requests : req[q].timer # h
         /\ KindOf(h) # "observe" =>
              /\ \A q \in Requests : req[q].handle = h => req[q].client \in gone
              /\ \A c \in Clients : list[c][h] = 0
              /\ main.handles[h] = 0
<1>1. Kinds /\ Held /\ InMain /\ TypeOK BY DEF Kept, Base, Owning
<1>2. \A q \in Requests : req[q].timer = h => KindOf(h) = "lookup"
  BY <1>1 DEF Kinds, Held, KindOf
<1>3. \A q \in Requests : req[q].handle = h /\ req[q].client \notin gone => KindOf(h) = "observe"
  BY <1>1 DEF Kinds, Held, KindOf
<1>4. \A c \in Clients : list[c][h] \in Nat /\ (list[c][h] > 0 => KindOf(h) = "observe")
  BY <1>1 DEF TypeOK, Held
<1>5. main.handles[h] \in Nat /\ (main.handles[h] > 0 => KindOf(h) = "observe")
  BY <1>1 DEF TypeOK, InMain
<1>6. ASSUME KindOf(h) # "observe"
      PROVE  (\A c \in Clients : list[c][h] = 0) /\ main.handles[h] = 0
  BY <1>4, <1>5, <1>6
<1>. QED BY <1>2, <1>3, <1>6

\* The end of a transaction that nobody has in hand any more.
LEMMA EndTx ==
  ASSUME Kept, TypeOK', NEW h \in Handles, tx' = [tx EXCEPT ![h] = NoTx],
         UNCHANGED <<faults, main, gone, list>>,
         \A q \in Requests : /\ req'[q].kind = req[q].kind /\ req'[q].client = req[q].client
                             /\ req'[q].handle = req[q].handle
                             /\ req'[q].timer # None => req'[q].timer = req[q].timer,
         Certain => /\ \A q \in Requests : /\ req'[q].timer # h
                                           /\ req[q].handle = h => req[q].client \in gone
                    /\ \A c \in Clients : list[c][h] = 0
                    /\ main.handles[h] = 0
  PROVE  Kept'
<1>1. /\ TypeOK /\ TxKinds /\ MainShape
      /\ \A k \in Handles : tx[k].req # None => tx[k].req \in Requests
  BY DEF Kept, Base, TypeOK
<1>2. /\ tx'[h].req = None /\ ~tx'[h].ending /\ KindOf(h)' = "none"
      /\ \A k \in Handles : k # h => tx'[k] = tx[k]
  BY <1>1 DEF TypeOK, NoTx, KindOf
<1>3. \A k \in Handles : k # h => KindOf(k)' = KindOf(k)
  <2>1. SUFFICES ASSUME NEW k \in Handles, k # h PROVE KindOf(k)' = KindOf(k)
    OBVIOUS
  <2>2. tx'[k] = tx[k] /\ (tx[k].req = None \/ req'[tx[k].req].kind = req[tx[k].req].kind)
    BY <1>1, <1>2, <2>1
  <2>. QED BY <2>2 DEF KindOf
<1>4. \A k \in Handles : KindOf(k) = "observe" =>
        tx[k].req \in Requests /\ req'[tx[k].req].client = req[tx[k].req].client
  BY <1>1 DEF KindOf
<1>5. TxKinds'
  <2>1. \A k \in Handles : tx'[k].req # None =>
          k # h /\ tx'[k].req = tx[k].req /\ req'[tx[k].req].kind = req[tx[k].req].kind
    BY <1>1, <1>2
  <2>. QED BY <1>1, <2>1 DEF TxKinds
<1>6. MainShape'
  <2>1. NoHandles' = NoHandles /\ Idle' = Idle BY DEF NoHandles, Idle
  <2>2. main.op = "add" =>
          /\ req'[main.req].kind = "observe" /\ req'[main.req].client \notin gone
          /\ \A k \in Handles : main.handles[k] > 0 => tx'[k].req \in {None, main.req}
    BY <1>1, <1>2 DEF MainShape
  <2>. QED BY <1>1, <2>1, <2>2 DEF MainShape
<1>7. NoOrphans'
  <2>. SUFFICES ASSUME "cancel" \notin faults, NEW k \in Handles, KindOf(k)' = "observe"
                PROVE  \/ tx'[k].ending \/ main.handles[k] > 0
                       \/ LET c == req'[tx'[k].req].client IN c \notin gone /\ list[c][k] > 0
    BY DEF NoOrphans
  <2>1. k # h /\ tx'[k] = tx[k] /\ KindOf(k) = "observe" BY <1>2, <1>3
  <2>2. req'[tx[k].req].client = req[tx[k].req].client BY <1>4, <2>1
  <2>. QED BY <2>1, <2>2 DEF Kept, NoOrphans
<1>8. Owning'
  <2>. SUFFICES ASSUME Certain PROVE Kinds' /\ Held' /\ InMain'
    BY DEF Owning, Certain
  <2>0. Kinds /\ Held /\ InMain BY DEF Kept, Owning
  <2>1. Kinds' BY <2>0 DEF Kinds
  <2>2. Held'
    <3>1. \A q \in Requests, k \in Handles :
            /\ k = req'[q].timer => tx'[k].req = q
            /\ k = req'[q].handle /\ req'[q].client \notin gone => tx'[k].req = q /\ ~tx'[k].ending
      BY <2>0, <1>2 DEF Held
    <3>2. \A c \in Clients, k \in Handles :
            list[c][k] > 0 => /\ list[c][k] = 1 /\ c \notin gone /\ ~tx'[k].ending
                              /\ KindOf(k)' = "observe" /\ req'[tx'[k].req].client = c
      BY <2>0, <1>2, <1>3, <1>4 DEF Held
    <3>. QED BY <3>1, <3>2 DEF Held
  <2>3. InMain' BY <2>0, <1>2, <1>3, <1>4 DEF InMain
  <2>. QED BY <2>1, <2>2, <2>3
<1>. QED BY <1>5, <1>6, <1>7, <1>8 DEF Kept, Base

LEMMA TxTyped ==
  ASSUME TypeOK, NEW h \in Handles, tx' = [tx EXCEPT ![h] = NoTx]
  PROVE  tx' \in [Handles -> [req : Requests \cup {None}, ending : BOOLEAN]]
  BY DEF TypeOK, NoTx

LEMMA CrudCbKept ==
  ASSUME Kept, NEW h \in Handles, CrudCb(h)
  PROVE  Kept'
<1>. DEFINE q == tx[h].req
<1>1. /\ q \in Requests /\ KindOf(h) = "crud" /\ req \in [Requests -> Records] /\ TypeOK
      /\ workers \subseteq [req : Requests, seq : 0 .. MaxNotes]
  BY DEF CrudCb, Calling, KindOf, Kept, Base, TypeOK
<1>2. /\ UNCHANGED <<faults, lifecycle, main, gone, list>> /\ tx' = [tx EXCEPT ![h] = NoTx]
      /\ \/ req' = [req EXCEPT ![q].replies = req[q].replies + 1] /\ workers' = workers
         \/ req' = req /\ workers' = workers \cup {Worker(q, 0)}
  BY DEF CrudCb, StartWorker
<1>. HIDE DEF q
<1>3. req[q] \in Records BY <1>1
<1>4. req[q].replies + 1 \in Nat BY <1>3 DEF Records
<1>5. /\ req' \in [Requests -> Records]
      /\ \A p \in Requests : /\ req'[p].kind = req[p].kind /\ req'[p].client = req[p].client
                             /\ req'[p].timer = req[p].timer /\ req'[p].handle = req[p].handle
  <2>1. CASE req' = [req EXCEPT ![q].replies = req[q].replies + 1]
    BY <1>1, <1>3, <1>4, <2>1 DEF Records
  <2>2. CASE req' = req
    BY <1>1, <2>2
  <2>. QED BY <1>2, <2>1, <2>2
<1>6. workers' \subseteq [req : Requests, seq : 0 .. MaxNotes] BY <1>1, <1>2 DEF Worker
<1>7. TypeOK' BY <1>1, <1>2, <1>5, <1>6, TxTyped DEF TypeOK, lifecycle
<1>8. Certain => /\ \A p \in Requests : req'[p].timer # h /\ (req[p].handle = h => req[p].client \in gone)
                 /\ \A c \in Clients : list[c][h] = 0
                 /\ main.handles[h] = 0
  BY <1>1, <1>5, NotHeld
<1>. QED BY <1>2, <1>5, <1>7, <1>8, EndTx

LEMMA DropKept ==
  ASSUME Kept, NEW h \in Handles, Drop(h)
  PROVE  Kept'
<1>1. /\ KindOf(h) = "crud" /\ TypeOK /\ tx' = [tx EXCEPT ![h] = NoTx]
      /\ UNCHANGED <<faults, lifecycle, main, gone, list, req, workers>>
  BY DEF Drop, Calling, Kept, Base
<1>2. TypeOK' BY <1>1, TxTyped DEF TypeOK, lifecycle
<1>. QED BY <1>1, <1>2, EndTx, NotHeld

LEMMA ObserveEndsKept ==
  ASSUME Kept, NEW h \in Handles, ObserveEnds(h)
  PROVE  Kept'
<1>1. /\ KindOf(h) = "observe" /\ TypeOK /\ tx' = [tx EXCEPT ![h] = NoTx]
      /\ UNCHANGED <<faults, lifecycle, main, gone, list, req, workers>>
  BY DEF ObserveEnds, Calling, Kept, Base
<1>2. TypeOK' BY <1>1, TxTyped DEF TypeOK, lifecycle
<1>3. ASSUME Certain
      PROVE  /\ \A q \in Requests : req[q].timer # h /\ (req[q].handle = h => req[q].client \in gone)
             /\ \A c \in Clients : list[c][h] = 0
             /\ main.handles[h] = 0
  <2>1. tx[h].ending BY <1>3 DEF ObserveEnds, Certain
  <2>2. Kinds /\ Held /\ InMain BY <1>3 DEF Kept, Owning
  <2>3. \A c \in Clients : list[c][h] \in Nat BY <1>1 DEF TypeOK
  <2>4. main.handles[h] \in Nat BY <1>1 DEF TypeOK
  <2>5. \A q \in Requests : req[q].timer # h BY <1>1, <1>3, NotHeld
  <2>. QED BY <2>1, <2>2, <2>3, <2>4, <2>5 DEF Held, InMain
<1>. QED BY <1>1, <1>2, <1>3, EndTx

LEMMA LookupTimeoutKept ==
  ASSUME Kept, NEW q \in Requests, LookupTimeout(q)
  PROVE  Kept'
<1>. DEFINE h == req[q].timer
<1>1. TypeOK /\ req \in [Requests -> Records] BY DEF Kept, Base, TypeOK
<1>2. req[q] \in Records BY <1>1
<1>3. h \in Handles BY <1>2 DEF LookupTimeout, Records
<1>4. /\ UNCHANGED <<faults, lifecycle, main, gone, list, workers>>
      /\ req' = [req EXCEPT ![q].timer = None]
  BY DEF LookupTimeout
<1>5. tx' = [tx EXCEPT ![h] = NoTx] \/ tx' = tx
  BY DEF LookupTimeout, OCCancel, OCCancelFails
<1>. HIDE DEF h
<1>6. /\ req' \in [Requests -> Records]
      /\ req'[q].timer = None
      /\ \A p \in Requests : /\ req'[p].kind = req[p].kind /\ req'[p].client = req[p].client
                             /\ req'[p].handle = req[p].handle
                             /\ p # q => req'[p].timer = req[p].timer
  BY <1>1, <1>2, <1>4 DEF Records
<1>7. TypeOK'
  <2>1. tx' \in [Handles -> [req : Requests \cup {None}, ending : BOOLEAN]]
    BY <1>1, <1>3, <1>5, TxTyped DEF TypeOK
  <2>. QED BY <1>1, <1>4, <1>6, <2>1 DEF TypeOK, lifecycle
<1>8. ASSUME Certain
      PROVE  /\ \A p \in Requests : req'[p].timer # h /\ (req[p].handle = h => req[p].client \in gone)
             /\ \A c \in Clients : list[c][h] = 0
             /\ main.handles[h] = 0
  <2>1. Kinds /\ Held BY <1>8 DEF Kept, Owning
  <2>2. tx[h].req = q /\ KindOf(h) = "lookup"
    <3>1. req[q].timer = h /\ h # None BY <1>3 DEF h
    <3>2. tx[h].req = q BY <1>3, <2>1, <3>1 DEF Held
    <3>3. req[q].kind = "lookup" BY <2>1, <3>1 DEF Kinds
    <3>. QED BY <3>2, <3>3 DEF KindOf
  <2>3. \A p \in Requests : req[p].timer = h => p = q BY <1>3, <2>1, <2>2 DEF Held
  <2>. QED BY <1>3, <1>6, <1>8, <2>2, <2>3, NotHeld
<1>9. \A p \in Requests : req'[p].timer # None => req'[p].timer = req[p].timer
  BY <1>6
<1>10. CASE tx' = [tx EXCEPT ![h] = NoTx]
  BY <1>3, <1>4, <1>6, <1>7, <1>8, <1>9, <1>10, EndTx
<1>11. CASE tx' = tx
  BY <1>4, <1>6, <1>7, <1>9, <1>11, QuietStep
<1>. QED BY <1>5, <1>10, <1>11

-----------------------------------------------------------------------------
\* The main thread cancels one of the observations it has in hand, or fails to.
LEMMA CancelStep ==
  ASSUME Kept, NEW h \in Handles, main.op \in {"cancel", "clean"}, main.handles[h] > 0,
         \/ OCCancel(h, "high") \/ OCCancelFails(h),
         UNCHANGED <<faults, lifecycle, gone, list, workers>>,
         \/ req' = req
         \/ main.req \in Requests /\ req' = [req EXCEPT ![main.req].handle = None],
         main.op = "cancel" /\ OCCancel(h, "high") /\ Certain => req' # req \/ req[main.req].handle # h,
         main' = Idle \/ (main.op = "clean" /\ main' = [main EXCEPT !.handles = main'.handles]),
         main'.handles \in [Handles -> Nat],
         main'.handles[h] = main.handles[h] - 1 \/ main.op = "cancel",
         \A k \in Handles : k # h => main'.handles[k] = main.handles[k]
  PROVE  Kept'
<1>1. /\ TypeOK /\ TxKinds /\ MainShape /\ req \in [Requests -> Records]
      /\ tx \in [Handles -> [req : Requests \cup {None}, ending : BOOLEAN]]
  BY DEF Kept, Base, TypeOK
<1>2. \/ tx' = tx /\ (tx[h] = NoTx \/ "cancel" \in faults)
      \/ KindOf(h) = "observe" /\ tx' = [tx EXCEPT ![h] = [tx[h] EXCEPT !.ending = TRUE]]
      \/ KindOf(h) # "observe" /\ tx' = [tx EXCEPT ![h] = NoTx]
  BY DEF OCCancel, OCCancelFails
<1>3. /\ tx' \in [Handles -> [req : Requests \cup {None}, ending : BOOLEAN]]
      /\ \A k \in Handles : k # h => tx'[k] = tx[k]
      /\ \/ tx'[h] = tx[h] /\ (tx[h].req = None \/ "cancel" \in faults)
         \/ KindOf(h) = "observe" /\ tx'[h].req = tx[h].req /\ tx'[h].ending
         \/ KindOf(h) # "observe" /\ tx'[h].req = None
  <2>1. CASE tx' = tx /\ (tx[h] = NoTx \/ "cancel" \in faults)
    BY <1>1, <2>1 DEF NoTx
  <2>2. CASE KindOf(h) = "observe" /\ tx' = [tx EXCEPT ![h] = [tx[h] EXCEPT !.ending = TRUE]]
    <3>1. tx[h] \in [req : Requests \cup {None}, ending : BOOLEAN] BY <1>1
    <3>2. /\ [tx[h] EXCEPT !.ending = TRUE] \in [req : Requests \cup {None}, ending : BOOLEAN]
          /\ [tx[h] EXCEPT !.ending = TRUE].req = tx[h].req /\ [tx[h] EXCEPT !.ending = TRUE].ending
      BY <3>1
    <3>. QED BY <1>1, <2>2, <3>2
  <2>3. CASE KindOf(h) # "observe" /\ tx' = [tx EXCEPT ![h] = NoTx]
    BY <1>1, <2>3 DEF NoTx
  <2>. QED BY <1>2, <2>1, <2>2, <2>3
<1>4. /\ req' \in [Requests -> Records]
      /\ \A q \in Requests : /\ req'[q].kind = req[q].kind /\ req'[q].client = req[q].client
                             /\ req'[q].timer = req[q].timer
                             /\ req'[q].handle = req[q].handle
                                \/ (q = main.req /\ req'[q].handle = None)
  <2>1. CASE req' = req
    BY <1>1, <2>1
  <2>2. CASE main.req \in Requests /\ req' = [req EXCEPT ![main.req].handle = None]
    <3>1. req[main.req] \in Records BY <1>1, <2>2
    <3>. QED BY <1>1, <2>2, <3>1 DEF Records
  <2>. QED BY <2>1, <2>2
<1>5. /\ main' \in [op : {"idle", "add", "cancel", "clean"}, req : Requests \cup {None},
                    handles : [Handles -> Nat]]
      /\ main'.op = "idle" => main' = Idle
      /\ main'.op \in {"idle", "clean"} /\ (main'.op = "clean" => main.op = "clean")
  <2>1. NoHandles \in [Handles -> Nat] BY DEF NoHandles
  <2>2. CASE main' = Idle
    BY <2>1, <2>2 DEF Idle
  <2>3. CASE main.op = "clean" /\ main' = [main EXCEPT !.handles = main'.handles]
    BY <1>1, <2>3 DEF TypeOK
  <2>. QED BY <2>2, <2>3
<1>6. TypeOK' BY <1>1, <1>3, <1>4, <1>5 DEF TypeOK, lifecycle
<1>7. \A k \in Handles : tx'[k].req # None =>
        /\ tx[k].req = tx'[k].req /\ tx[k].req \in Requests
        /\ req'[tx[k].req].kind = req[tx[k].req].kind /\ req'[tx[k].req].client = req[tx[k].req].client
  BY <1>1, <1>3, <1>4
<1>8. TxKinds' BY <1>1, <1>4, <1>7 DEF TxKinds
<1>9. MainShape'
  <2>1. Idle' = Idle BY DEF Idle, NoHandles
  <2>. QED BY <1>5, <2>1 DEF MainShape
<1>10. \A k \in Handles : KindOf(k)' = "observe" =>
         /\ KindOf(k) = "observe" /\ tx'[k].req = tx[k].req
         /\ req'[tx[k].req].client = req[tx[k].req].client
  BY <1>7 DEF KindOf
<1>11. NoOrphans'
  <2>. SUFFICES ASSUME "cancel" \notin faults, NEW k \in Handles, KindOf(k)' = "observe"
                PROVE  \/ tx'[k].ending \/ main'.handles[k] > 0
                       \/ LET c == req'[tx'[k].req].client IN c \notin gone /\ list[c][k] > 0
    BY DEF NoOrphans
  <2>1. CASE k = h
    <3>1. tx'[h].req # None BY <2>1 DEF KindOf
    <3>2. tx'[h].ending BY <2>1, <3>1, <1>3
    <3>. QED BY <2>1, <3>2
  <2>2. CASE k # h
    <3>1. tx'[k] = tx[k] /\ main'.handles[k] = main.handles[k] BY <2>2, <1>3
    <3>2. \/ tx[k].ending \/ main.handles[k] > 0
          \/ LET c == req[tx[k].req].client IN c \notin gone /\ list[c][k] > 0
      BY <1>10 DEF Kept, NoOrphans
    <3>. QED BY <1>10, <3>1, <3>2
  <2>. QED BY <2>1, <2>2
<1>12. Owning'
  <2>. SUFFICES ASSUME Certain PROVE Kinds' /\ Held' /\ InMain'
    BY DEF Owning, Certain
  <2>0. Kinds /\ Held /\ InMain BY DEF Kept, Owning
  <2>1. Kinds' BY <2>0, <1>4 DEF Kinds
  <2>2. /\ main.handles[h] = 1 /\ ~tx[h].ending /\ KindOf(h) = "observe" /\ tx[h].req # None
        /\ main.op = "clean" => req[tx[h].req].client \in gone
        /\ main.op = "cancel" => tx[h].req = main.req /\ \A c \in Clients : list[c][h] = 0
    BY <2>0 DEF InMain, KindOf
  <2>3. /\ tx'[h].req = tx[h].req
        /\ tx'[h].ending => OCCancel(h, "high")
    BY <1>3, <2>2, <1>2 DEF OCCancelFails
  <2>4. \A k \in Handles : KindOf(k) = "observe" =>
          KindOf(k)' = "observe" /\ req'[tx'[k].req].client = req[tx[k].req].client
    BY <1>1, <1>3, <1>4, <2>3 DEF KindOf
  <2>5. \A q \in Requests, k \in Handles :
          /\ k = req'[q].timer => tx'[k].req = q
          /\ k = req'[q].handle /\ req'[q].client \notin gone => tx'[k].req = q /\ ~tx'[k].ending
    <3>. TAKE q \in Requests, k \in Handles
    <3>1. k = req'[q].timer => tx'[k].req = q BY <2>0, <2>3, <1>3, <1>4 DEF Held
    <3>2. ASSUME k = req'[q].handle, req'[q].client \notin gone
          PROVE  tx'[k].req = q /\ ~tx'[k].ending
      <4>1. k = req[q].handle /\ req[q].client \notin gone BY <3>2, <1>4
      <4>2. tx[k].req = q /\ ~tx[k].ending BY <4>1, <2>0 DEF Held
      <4>3. CASE k # h
        BY <4>2, <4>3, <1>3
      <4>4. CASE k = h
        <5>1. main.op = "cancel" /\ q = main.req BY <4>1, <4>2, <4>4, <2>2
        <5>2. ASSUME req' = [req EXCEPT ![q].handle = None] PROVE FALSE
          <6>1. req[q] \in Records BY <1>1
          <6>2. req'[q].handle = None BY <1>1, <5>2, <6>1 DEF Records
          <6>. QED BY <3>2, <6>2
        <5>3. req' = req BY <5>1, <5>2
        <5>. QED BY <2>0, <4>1, <4>2, <4>4, <5>1, <5>3, <2>3
      <4>. QED BY <4>3, <4>4
    <3>. QED BY <3>1, <3>2
  <2>6. \A c \in Clients, k \in Handles :
          list[c][k] > 0 => /\ list[c][k] = 1 /\ c \notin gone /\ ~tx'[k].ending
                            /\ KindOf(k)' = "observe" /\ req'[tx'[k].req].client = c
    <3>. SUFFICES ASSUME NEW c \in Clients, NEW k \in Handles, list[c][k] > 0
                  PROVE  /\ list[c][k] = 1 /\ c \notin gone /\ ~tx'[k].ending
                         /\ KindOf(k)' = "observe" /\ req'[tx'[k].req].client = c
      OBVIOUS
    <3>1. /\ list[c][k] = 1 /\ c \notin gone /\ ~tx[k].ending
          /\ KindOf(k) = "observe" /\ req[tx[k].req].client = c
      BY <2>0 DEF Held
    <3>2. k # h BY <3>1, <2>2
    <3>. QED BY <3>1, <3>2, <2>4, <1>3
  <2>7. Held' BY <2>5, <2>6 DEF Held
  <2>8. InMain'
    <3>. SUFFICES ASSUME NEW k \in Handles, main'.handles[k] > 0
                  PROVE  /\ main'.handles[k] = 1 /\ ~tx'[k].ending /\ KindOf(k)' = "observe"
                         /\ main'.op = "clean" /\ req'[tx'[k].req].client \in gone
      BY DEF InMain
    <3>1. main' # Idle BY DEF Idle, NoHandles
    <3>2. main'.op = "clean" /\ main.op = "clean" BY <3>1, <1>5
    <3>3. k # h BY <3>2, <2>2
    <3>4. main'.handles[k] = main.handles[k] /\ tx'[k] = tx[k] BY <3>3, <1>3
    <3>. QED BY <3>2, <3>4, <2>0, <2>4 DEF InMain
  <2>. QED BY <2>1, <2>7, <2>8
<1>. QED BY <1>6, <1>8, <1>9, <1>11, <1>12 DEF Kept, Base

LEMMA ObserverStoppedKept ==
  ASSUME Kept, NEW h \in Handles, ObserverStopped(h)
  PROVE  Kept'
<1>1. /\ TypeOK /\ MainShape /\ main.op = "cancel" /\ main.handles[h] > 0 /\ main' = Idle
      /\ UNCHANGED <<faults, lifecycle, gone, list, workers>>
  BY DEF ObserverStopped, Kept, Base
<1>2. PICK k \in Handles : main.handles = [NoHandles EXCEPT ![k] = 1] BY <1>1 DEF MainShape
<1>3. k = h /\ main.handles[h] = 1 /\ \A j \in Handles : j # h => main.handles[j] = 0
  BY <1>1, <1>2 DEF NoHandles
<1>4. /\ main'.handles \in [Handles -> Nat] /\ main'.handles[h] = main.handles[h] - 1
      /\ \A j \in Handles : j # h => main'.handles[j] = main.handles[j]
  BY <1>1, <1>3 DEF Idle, NoHandles
<1>5. /\ OCCancel(h, "high") \/ OCCancelFails(h)
      /\ req' = req \/ (main.req \in Requests /\ req' = [req EXCEPT ![main.req].handle = None])
  BY <1>1 DEF ObserverStopped, MainShape
<1>6. OCCancel(h, "high") /\ Certain => req' # req \/ req[main.req].handle # h
  <2>. SUFFICES ASSUME OCCancel(h, "high"), Certain, req' = req, req[main.req].handle = h
                PROVE  FALSE
    OBVIOUS
  <2>1. InMain BY DEF Kept, Owning
  <2>2. KindOf(h) = "observe" /\ tx[h].req = main.req /\ ~tx[h].ending
    BY <2>1, <1>1 DEF InMain
  <2>3. tx[h] # NoTx BY <2>2 DEF KindOf, NoTx
  <2>4. tx' = [tx EXCEPT ![h] = [tx[h] EXCEPT !.ending = TRUE]]
    BY <2>2 DEF OCCancel
  <2>5. tx'[h].ending BY <2>4, <1>1 DEF TypeOK
  <2>6. tx' # tx BY <2>2, <2>5
  <2>7. ~OCCancelFails(h) BY <2>6 DEF OCCancelFails
  <2>8. req' = [req EXCEPT ![main.req].handle = None]
    BY <2>7 DEF ObserverStopped, Certain
  <2>9. main.req \in Requests BY <1>1 DEF MainShape
  <2>10. req[main.req] \in Records /\ req \in [Requests -> Records] BY <1>1, <2>9 DEF TypeOK
  <2>11. req'[main.req].handle = None BY <2>8, <2>9, <2>10 DEF Records
  <2>. QED BY <2>11
<1>. QED BY <1>1, <1>4, <1>5, <1>6, CancelStep

LEMMA CleanupObserveKept ==
  ASSUME Kept, NEW h \in Handles, CleanupObserve(h)
  PROVE  Kept'
<1>. DEFINE rest == [main.handles EXCEPT ![h] = main.handles[h] - 1]
<1>1. /\ TypeOK /\ main.op = "clean" /\ main.handles[h] > 0
      /\ UNCHANGED <<faults, lifecycle, gone, list, req, workers>>
      /\ OCCancel(h, "high") \/ OCCancelFails(h)
      /\ main' = IF rest = NoHandles THEN Idle ELSE [main EXCEPT !.handles = rest]
  BY DEF CleanupObserve, Kept, Base
<1>2. main.handles \in [Handles -> Nat] BY <1>1 DEF TypeOK
<1>3. rest \in [Handles -> Nat] BY <1>1, <1>2
<1>4. main'.handles = rest BY <1>1 DEF TypeOK, Idle
<1>5. main' = Idle \/ main' = [main EXCEPT !.handles = main'.handles] BY <1>1, <1>4
<1>6. /\ main'.handles[h] = main.handles[h] - 1
      /\ \A j \in Handles : j # h => main'.handles[j] = main.handles[j]
  BY <1>2, <1>4
<1>7. main'.handles \in [Handles -> Nat] BY <1>3, <1>4
<1>8. main.op \in {"cancel", "clean"} /\ main.op # "cancel" BY <1>1
<1>9. req' = req /\ UNCHANGED <<faults, lifecycle, gone, list, workers>> BY <1>1
<1>. HIDE DEF rest
<1>. QED BY <1>1, <1>5, <1>6, <1>7, <1>8, <1>9, CancelStep

-----------------------------------------------------------------------------
LEMMA ObserverStartedKept ==
  ASSUME Kept, NEW h \in Handles, ObserverStarted(h)
  PROVE  Kept'
<1>. DEFINE q == main.req  c == req[q].client
<1>1. /\ TypeOK /\ TxKinds /\ MainShape /\ main.op = "add" /\ main.handles[h] > 0 /\ main' = Idle
      /\ UNCHANGED <<faults, lifecycle, gone, tx, workers>>
      /\ list' = [list EXCEPT ![c][h] = list[c][h] + 1]
  BY DEF ObserverStarted, ObserveListAdd, Kept, Base
<1>2. /\ q \in Requests /\ req[q].kind = "observe" /\ c \in Clients /\ c \notin gone
      /\ \A k \in Handles : main.handles[k] > 0 => tx[k].req \in {None, q}
  BY <1>1 DEF MainShape, TxKinds
<1>3. PICK k \in Handles : main.handles = [NoHandles EXCEPT ![k] = 1] BY <1>1 DEF MainShape
<1>4. \A j \in Handles : j # h => main.handles[j] = 0 BY <1>1, <1>3 DEF NoHandles
<1>5. PICK known \in {h, None} :
        /\ req' = [req EXCEPT ![q].handle = known]
        /\ "reply" \notin faults => known = h
  BY DEF ObserverStarted
<1>. HIDE DEF q, c
<1>6. /\ req \in [Requests -> Records] /\ req[q] \in Records
      /\ list \in [Clients -> [Handles -> Nat]] /\ list[c] \in [Handles -> Nat]
  BY <1>1, <1>2 DEF TypeOK
<1>7. /\ req' \in [Requests -> Records]
      /\ \A p \in Requests : /\ req'[p].kind = req[p].kind /\ req'[p].client = req[p].client
                             /\ req'[p].timer = req[p].timer
                             /\ p # q => req'[p].handle = req[p].handle
      /\ req'[q].handle = known
  BY <1>2, <1>5, <1>6 DEF Records
<1>8. /\ list' \in [Clients -> [Handles -> Nat]]
      /\ list'[c][h] = list[c][h] + 1
      /\ \A d \in Clients, j \in Handles : d # c \/ j # h => list'[d][j] = list[d][j]
  BY <1>1, <1>2, <1>6
<1>9. TypeOK'
  <2>1. NoHandles \in [Handles -> Nat] BY DEF NoHandles
  <2>2. main' \in [op : {"idle", "add", "cancel", "clean"}, req : Requests \cup {None},
                   handles : [Handles -> Nat]]
    BY <2>1, <1>1 DEF Idle
  <2>. QED BY <2>2, <1>1, <1>7, <1>8 DEF TypeOK, lifecycle
<1>10. \A j \in Handles : tx[j].req # None =>
         /\ tx[j].req \in Requests
         /\ req'[tx[j].req].kind = req[tx[j].req].kind /\ req'[tx[j].req].client = req[tx[j].req].client
  <2>1. \A j \in Handles : tx[j].req # None => tx[j].req \in Requests BY <1>1 DEF TypeOK
  <2>. QED BY <2>1, <1>7
<1>11. TxKinds'
  <2>1. \A j \in Handles : tx'[j].req # None => req'[tx'[j].req].kind # "none"
    BY <1>1, <1>10 DEF TxKinds
  <2>2. \A p \in Requests : req'[p].kind # "none" => req'[p].client \in Clients
    BY <1>1, <1>7 DEF TxKinds
  <2>. QED BY <2>1, <2>2 DEF TxKinds
<1>12. MainShape' BY <1>1 DEF MainShape, Idle, NoHandles
<1>13. \A j \in Handles : KindOf(j)' = KindOf(j) BY <1>1, <1>10 DEF KindOf
<1>14. NoOrphans'
  <2>. SUFFICES ASSUME "cancel" \notin faults, NEW j \in Handles, KindOf(j)' = "observe"
                PROVE  \/ tx[j].ending
                       \/ LET d == req'[tx[j].req].client IN d \notin gone /\ list'[d][j] > 0
    BY <1>1 DEF NoOrphans
  <2>1. KindOf(j) = "observe" /\ tx[j].req \in Requests /\ req'[tx[j].req].client = req[tx[j].req].client
    BY <1>10, <1>13 DEF KindOf
  <2>2. CASE j = h
    <3>1. tx[h].req = q BY <1>1, <1>2, <2>1, <2>2 DEF KindOf
    <3>2. list'[c][h] > 0 BY <1>6, <1>8
    <3>. QED BY <1>2, <2>1, <2>2, <3>1, <3>2 DEF c
  <2>3. CASE j # h
    <3>1. \/ tx[j].ending \/ main.handles[j] > 0
          \/ LET d == req[tx[j].req].client IN d \notin gone /\ list[d][j] > 0
      BY <2>1 DEF Kept, NoOrphans
    <3>2. req[tx[j].req].client \in Clients BY <2>1, <1>1 DEF TxKinds, KindOf
    <3>. QED BY <1>4, <1>8, <2>1, <2>3, <3>1, <3>2
  <2>. QED BY <2>2, <2>3
<1>15. Owning'
  <2>. SUFFICES ASSUME Certain PROVE Kinds' /\ Held' /\ InMain'
    BY <1>1 DEF Owning, Certain
  <2>0. Kinds /\ Held /\ InMain BY DEF Kept, Owning
  <2>1. Kinds' BY <2>0, <1>2, <1>7 DEF Kinds
  <2>2. /\ tx[h].req = q /\ ~tx[h].ending /\ KindOf(h) = "observe"
        /\ \A d \in Clients : list[d][h] = 0
    BY <2>0, <1>1 DEF InMain, q
  <2>3. known = h BY <1>5 DEF Certain
  <2>4. Held'
    <3>1. \A p \in Requests, j \in Handles :
            /\ j = req'[p].timer => tx[j].req = p
            /\ j = req'[p].handle /\ req'[p].client \notin gone => tx[j].req = p /\ ~tx[j].ending
      BY <2>0, <2>2, <2>3, <1>7 DEF Held
    <3>2. \A d \in Clients, j \in Handles :
            list'[d][j] > 0 => /\ list'[d][j] = 1 /\ d \notin gone /\ ~tx[j].ending
                               /\ KindOf(j)' = "observe" /\ req'[tx[j].req].client = d
      <4>. SUFFICES ASSUME NEW d \in Clients, NEW j \in Handles, list'[d][j] > 0
                    PROVE  /\ list'[d][j] = 1 /\ d \notin gone /\ ~tx[j].ending
                           /\ KindOf(j)' = "observe" /\ req'[tx[j].req].client = d
        OBVIOUS
      <4>1. CASE d = c /\ j = h
        <5>1. list'[c][h] = 1 BY <1>2, <1>8, <2>2
        <5>. QED BY <4>1, <5>1, <1>2, <1>7, <1>13, <2>2 DEF c
      <4>2. CASE d # c \/ j # h
        <5>1. list[d][j] > 0 /\ list'[d][j] = list[d][j] BY <4>2, <1>8
        <5>2. /\ list[d][j] = 1 /\ d \notin gone /\ ~tx[j].ending
              /\ KindOf(j) = "observe" /\ req[tx[j].req].client = d
          BY <5>1, <2>0 DEF Held
        <5>3. req'[tx[j].req].client = d BY <5>2, <1>10 DEF KindOf
        <5>. QED BY <5>1, <5>2, <5>3, <1>13
      <4>. QED BY <4>1, <4>2
    <3>. QED BY <3>1, <3>2, <1>1 DEF Held
  <2>5. InMain' BY <1>1 DEF InMain, Idle, NoHandles
  <2>. QED BY <2>1, <2>4, <2>5
<1>. QED BY <1>9, <1>11, <1>12, <1>14, <1>15 DEF Kept, Base

LEMMA ObserverStopKept ==
  ASSUME Kept, NEW q \in Requests, ObserverStop(q)
  PROVE  Kept'
<1>. DEFINE h == req[q].handle  c == req[q].client
<1>1. /\ TypeOK /\ TxKinds /\ main = Idle /\ c \notin gone /\ h # None
      /\ UNCHANGED <<faults, lifecycle, gone, req, tx, workers>>
      /\ main' = [op |-> "cancel", req |-> q, handles |-> [NoHandles EXCEPT ![h] = 1]]
      /\ list' = IF list[c][h] > 0 THEN [list EXCEPT ![c][h] = list[c][h] - 1] ELSE list
  BY DEF ObserverStop, Serving, Kept, Base
<1>2. req \in [Requests -> Records] /\ req[q] \in Records /\ list \in [Clients -> [Handles -> Nat]]
  BY <1>1 DEF TypeOK
<1>3. h \in Handles /\ c \in Clients \cup {None} BY <1>1, <1>2 DEF Records
<1>. HIDE DEF h, c
<1>4. /\ list' \in [Clients -> [Handles -> Nat]]
      /\ \A d \in Clients, j \in Handles : d # c \/ j # h => list'[d][j] = list[d][j]
      /\ c \in Clients => list'[c][h] = IF list[c][h] > 0 THEN list[c][h] - 1 ELSE 0
  <2>1. CASE c \in Clients
    <3>1. list[c] \in [Handles -> Nat] /\ list[c][h] \in Nat BY <1>2, <1>3, <2>1
    <3>2. CASE list[c][h] > 0
      BY <1>1, <1>2, <1>3, <2>1, <3>1, <3>2
    <3>3. CASE list[c][h] = 0
      BY <1>1, <1>2, <1>3, <2>1, <3>1, <3>3
    <3>. QED BY <3>1, <3>2, <3>3
  <2>2. CASE c \notin Clients
    <3>1. list' = list BY <1>1, <1>2, <2>2
    <3>. QED BY <1>2, <2>2, <3>1
  <2>. QED BY <2>1, <2>2
<1>5. /\ main'.op = "cancel" /\ main'.req = q /\ main'.handles = [NoHandles EXCEPT ![h] = 1]
      /\ main'.handles[h] = 1 /\ \A j \in Handles : j # h => main'.handles[j] = 0
      /\ main' \in [op : {"idle", "add", "cancel", "clean"}, req : Requests \cup {None},
                    handles : [Handles -> Nat]]
  BY <1>1, <1>3 DEF NoHandles
<1>6. TypeOK' BY <1>1, <1>4, <1>5 DEF TypeOK, lifecycle
<1>7. TxKinds' BY <1>1 DEF TxKinds
<1>8. MainShape'
  <2>1. NoHandles' = NoHandles BY DEF NoHandles
  <2>. QED BY <1>3, <1>5, <2>1 DEF MainShape
<1>9. \A j \in Handles : KindOf(j)' = KindOf(j) /\ main.handles[j] = 0
  BY <1>1 DEF KindOf, Idle, NoHandles
<1>10. NoOrphans'
  <2>. SUFFICES ASSUME "cancel" \notin faults, NEW j \in Handles, KindOf(j) = "observe"
                PROVE  \/ tx[j].ending \/ main'.handles[j] > 0
                       \/ LET d == req[tx[j].req].client IN d \notin gone /\ list'[d][j] > 0
    BY <1>1, <1>9 DEF NoOrphans
  <2>1. CASE j = h
    BY <2>1, <1>5
  <2>2. CASE j # h
    <3>1. tx[j].ending \/ LET d == req[tx[j].req].client IN d \notin gone /\ list[d][j] > 0
      BY <1>9 DEF Kept, NoOrphans
    <3>2. req[tx[j].req].client \in Clients BY <1>1 DEF TypeOK, TxKinds, KindOf
    <3>. QED BY <2>2, <3>1, <3>2, <1>4
  <2>. QED BY <2>1, <2>2
<1>11. Owning'
  <2>. SUFFICES ASSUME Certain PROVE Kinds' /\ Held' /\ InMain'
    BY <1>1 DEF Owning, Certain
  <2>0. Kinds /\ Held BY DEF Kept, Owning
  <2>1. Kinds' BY <2>0, <1>1 DEF Kinds
  <2>2. tx[h].req = q /\ ~tx[h].ending /\ KindOf(h) = "observe"
    BY <2>0, <1>1, <1>3 DEF Held, Kinds, KindOf, h, c
  <2>3. \A d \in Clients : list'[d][h] = 0
    <3>. SUFFICES ASSUME NEW d \in Clients PROVE list'[d][h] = 0
      OBVIOUS
    <3>1. list[d][h] \in Nat BY <1>2, <1>3
    <3>2. list[d][h] > 0 => list[d][h] = 1 /\ d = c BY <2>0, <2>2, <1>3 DEF Held, c
    <3>. QED BY <3>1, <3>2, <1>3, <1>4
  <2>4. Held'
    <3>1. \A d \in Clients, j \in Handles : list'[d][j] > 0 => list'[d][j] = list[d][j]
      BY <2>3, <1>4
    <3>. QED BY <2>0, <3>1, <1>1, <1>9 DEF Held
  <2>5. InMain' BY <2>2, <2>3, <1>1, <1>5, <1>9 DEF InMain
  <2>. QED BY <2>1, <2>4, <2>5
<1>. QED BY <1>6, <1>7, <1>8, <1>10, <1>11 DEF Kept, Base

LEMMA ClientExitKept ==
  ASSUME Kept, NEW c \in Clients, ClientExit(c)
  PROVE  Kept'
<1>1. /\ TypeOK /\ TxKinds /\ main = Idle /\ c \notin gone /\ gone' = gone \cup {c}
      /\ UNCHANGED <<faults, lifecycle, req, tx, workers>>
      /\ list' = [list EXCEPT ![c] = NoHandles]
      /\ main' = IF list[c] = NoHandles THEN Idle
                 ELSE [op |-> "clean", req |-> None, handles |-> list[c]]
  BY DEF ClientExit, Serving, Kept, Base
<1>2. NoHandles \in [Handles -> Nat] /\ \A j \in Handles : NoHandles[j] = 0 BY DEF NoHandles
<1>3. /\ list \in [Clients -> [Handles -> Nat]] /\ list' \in [Clients -> [Handles -> Nat]]
      /\ \A j \in Handles : list'[c][j] = 0
      /\ \A d \in Clients : d # c => list'[d] = list[d]
  BY <1>1, <1>2 DEF TypeOK
<1>4. /\ main' \in [op : {"idle", "add", "cancel", "clean"}, req : Requests \cup {None},
                    handles : [Handles -> Nat]]
      /\ main'.op \in {"idle", "clean"} /\ (main'.op = "idle" => main' = Idle)
      /\ main'.handles = list[c]
  BY <1>1, <1>2, <1>3 DEF Idle
<1>5. TypeOK' BY <1>1, <1>3, <1>4 DEF TypeOK, lifecycle
<1>6. TxKinds' BY <1>1 DEF TxKinds
<1>7. MainShape'
  <2>1. Idle' = Idle BY DEF Idle, NoHandles
  <2>. QED BY <1>4, <2>1 DEF MainShape
<1>8. \A j \in Handles : KindOf(j)' = KindOf(j) /\ main.handles[j] = 0
  BY <1>1 DEF KindOf, Idle, NoHandles
<1>9. NoOrphans'
  <2>. SUFFICES ASSUME "cancel" \notin faults, NEW j \in Handles, KindOf(j) = "observe"
                PROVE  \/ tx[j].ending \/ main'.handles[j] > 0
                       \/ LET d == req[tx[j].req].client IN d \notin gone' /\ list'[d][j] > 0
    BY <1>1, <1>8 DEF NoOrphans
  <2>1. tx[j].ending \/ LET d == req[tx[j].req].client IN d \notin gone /\ list[d][j] > 0
    BY <1>8 DEF Kept, NoOrphans
  <2>2. req[tx[j].req].client \in Clients BY <1>1 DEF TypeOK, TxKinds, KindOf
  <2>. QED BY <2>1, <2>2, <1>1, <1>3, <1>4
<1>10. Owning'
  <2>. SUFFICES ASSUME Certain PROVE Kinds' /\ Held' /\ InMain'
    BY <1>1 DEF Owning, Certain
  <2>0. Kinds /\ Held BY DEF Kept, Owning
  <2>1. Kinds' BY <2>0, <1>1 DEF Kinds
  <2>2. Held' BY <2>0, <1>1, <1>3, <1>8 DEF Held
  <2>3. InMain' BY <2>0, <1>1, <1>4, <1>8, <1>2 DEF Held, InMain, Idle
  <2>. QED BY <2>1, <2>2, <2>3
<1>. QED BY <1>5, <1>6, <1>7, <1>9, <1>10 DEF Kept, Base

-----------------------------------------------------------------------------
LEMMA NextKept == Kept /\ [Next]_vars => Kept'
<1>. SUFFICES ASSUME Kept, [Next]_vars PROVE Kept'
  OBVIOUS
<1>1. CASE EnterLoop \/ Deinit \/ Join \/ ThreadStarts \/ ThreadEnds
  BY <1>1, LifecycleKept
<1>2. ASSUME NEW c \in Clients, NEW q \in Requests, Crud(c, q) \/ Lookup(c, q) \/ ObserverStart(c, q)
      PROVE  Kept'
  BY <1>2, CrudKept, LookupKept, ObserverStartKept
<1>3. ASSUME NEW c \in Clients, ClientExit(c) PROVE Kept'
  BY <1>3, ClientExitKept
<1>4. ASSUME NEW q \in Requests, ObserverStop(q) \/ LookupTimeout(q) PROVE Kept'
  BY <1>4, ObserverStopKept, LookupTimeoutKept
<1>5. ASSUME NEW h \in Handles, ObserverStarted(h) \/ ObserverStopped(h) \/ CleanupObserve(h)
      PROVE  Kept'
  BY <1>5, ObserverStartedKept, ObserverStoppedKept, CleanupObserveKept
<1>6. ASSUME NEW h \in Handles,
             CrudCb(h) \/ LookupCb(h) \/ ObserveCb(h) \/ ObserveEnds(h) \/ Drop(h)
      PROVE  Kept'
  BY <1>6, CrudCbKept, LookupCbKept, ObserveCbKept, ObserveEndsKept, DropKept
<1>7. ASSUME NEW w \in workers, WorkerRuns(w) PROVE Kept'
  BY <1>7, WorkerRunsKept
<1>8. CASE UNCHANGED vars
  <2>1. UNCHANGED <<faults, life, thread, alive, main, gone, list, req, tx, workers>>
    BY <1>8 DEF vars
  <2>2. TypeOK' BY <2>1 DEF Kept, Base, TypeOK
  <2>. QED BY <2>1, <2>2, QuietStep
<1>. QED BY <1>1, <1>2, <1>3, <1>4, <1>5, <1>6, <1>7, <1>8 DEF Next

\* Whatever callbacks come between two steps of the main thread and whatever
\* goes wrong but a cancel: every observation has an owner who will end it
\* (_icd_dbus_observe_list_add, _icd_dbus_cleanup_observe_list).
THEOREM Owned == Spec => []NoOrphans
<1>1. Kept => NoOrphans BY DEF Kept
<1>. QED BY InitKept, NextKept, <1>1, PTL DEF Spec

\* Unless servers end observations or replies to a client get lost, nobody
\* has the address of a transaction that is over: icd_ioty_observer_stop, the
\* cleanup of a client and _icd_ioty_discovery_timeout cancel their own.
THEOREM OwnOnly == Spec => []HandlesOwn
<1>1. Kept => HandlesOwn
  <2>. SUFFICES ASSUME Kept, Certain PROVE HandlesOwn
    BY DEF HandlesOwn, Certain
  <2>1. Held /\ InMain BY DEF Kept, Owning
  <2>. QED BY <2>1 DEF HandlesOwn, Held, InMain
<1>. QED BY InitKept, NextKept, <1>1, PTL DEF Spec

-----------------------------------------------------------------------------
\* OneHolder without counting.  That nobody is left to answer needs HandlesOwn:
\* a cancel by an old handle would take another's transaction away.
Lossless == Certain /\ "drop" \notin faults

Alone(q) ==
  /\ \A h, k \in Handles : tx[h].req = q /\ tx[k].req = q => h = k
  /\ \A v, w \in workers : v.req = q /\ w.req = q => v = w
  /\ \A h \in Handles, w \in workers : tx[h].req # q \/ w.req # q
  /\ req[q].replies \in {0, 1}
  /\ req[q].replies = 1 => /\ \A h \in Handles : tx[h].req # q
                           /\ \A w \in workers : w.req # q
  /\ Lossless => \/ req[q].replies = 1
                 \/ \E h \in Handles : tx[h].req = q
                 \/ \E w \in workers : w.req = q

Single ==
  /\ \A w \in workers : req[w.req].kind # "none"
  /\ \A q \in Requests : req[q].kind = "crud" => Alone(q)

LEMMA InitSingle == Init => Single
  BY DEF Init, Single, NoRequest, Request

\* Transactions end, none of them a read or write unless it is dropped.
LEMMA SameHolders ==
  ASSUME Kept, Single, UNCHANGED <<faults, workers>>,
         \A q \in Requests : req'[q].kind = req[q].kind /\ req'[q].replies = req[q].replies,
         \A h \in Handles : tx'[h].req \in {tx[h].req, None},
         Lossless => \A h \in Handles : KindOf(h) = "crud" => tx'[h].req = tx[h].req
  PROVE  Single'
<1>1. TypeOK /\ \A w \in workers : w.req \in Requests BY DEF Kept, Base, TypeOK
<1>2. \A w \in workers' : req'[w.req].kind # "none" BY <1>1 DEF Single
<1>3. ASSUME NEW q \in Requests, req'[q].kind = "crud"
      PROVE  Alone(q)'
  <2>1. Alone(q) /\ req'[q].replies = req[q].replies BY <1>3 DEF Single
  <2>2. \A h \in Handles : tx'[h].req = q => tx[h].req = q OBVIOUS
  <2>3. Lossless' => Lossless BY DEF Lossless, Certain
  <2>4. Lossless => \A h \in Handles : tx[h].req = q => tx'[h].req = q
    BY <1>3 DEF KindOf
  <2>. QED BY <2>1, <2>2, <2>3, <2>4 DEF Alone
<1>. QED BY <1>2, <1>3 DEF Single

LEMMA NewHolder ==
  ASSUME Kept, Single, NEW q \in Requests, NEW h \in Handles \cup {None}, NEW r \in Records,
         req[q].kind = "none", req' = [req EXCEPT ![q] = r], r.kind # "none",
         \/ tx' = tx /\ r.kind = "crud" /\ r.replies = 1
         \/ h \in Handles /\ tx[h] = NoTx /\ tx' = [tx EXCEPT ![h].req = q] /\ r.replies = 0,
         UNCHANGED <<faults, workers>>
  PROVE  Single'
<1>1. /\ TypeOK /\ TxKinds /\ req \in [Requests -> Records]
      /\ \A w \in workers : w.req \in Requests
      /\ tx \in [Handles -> [req : Requests \cup {None}, ending : BOOLEAN]]
  BY DEF Kept, Base, TypeOK
<1>2. req'[q] = r /\ \A p \in Requests : p # q => req'[p] = req[p] BY <1>1
<1>3. /\ \A w \in workers : w.req # q
      /\ \A k \in Handles : tx[k].req # q
  BY <1>1 DEF Single, TxKinds
<1>4. /\ \A k \in Handles : k # h => tx'[k] = tx[k]
      /\ h \in Handles /\ tx'[h] # tx[h] => tx[h].req = None /\ tx'[h].req = q
      /\ r.replies = 0 => h \in Handles /\ tx'[h].req = q
      /\ r.replies = 1 => tx' = tx
  BY <1>1 DEF NoTx
<1>5. \A w \in workers' : req'[w.req].kind # "none" BY <1>1, <1>2, <1>3 DEF Single
<1>6. ASSUME NEW p \in Requests, req'[p].kind = "crud"
      PROVE  Alone(p)'
  <2>1. CASE p = q
    <3>1. r.replies \in {0, 1} OBVIOUS
    <3>2. \A k \in Handles : tx'[k].req = q => k = h /\ r.replies = 0 BY <1>3, <1>4
    <3>. QED BY <2>1, <3>1, <3>2, <1>2, <1>3, <1>4 DEF Alone
  <2>2. CASE p # q
    <3>1. Alone(p) /\ req'[p] = req[p] BY <1>2, <1>6, <2>2 DEF Single
    <3>2. \A k \in Handles : tx'[k].req = p <=> tx[k].req = p BY <1>4, <2>2
    <3>3. Lossless' <=> Lossless BY DEF Lossless, Certain
    <3>. QED BY <3>1, <3>2, <3>3 DEF Alone
  <2>. QED BY <2>1, <2>2
<1>. QED BY <1>5, <1>6 DEF Single

LEMMA MakesSingle ==
  ASSUME Kept, Single, NEW c \in Clients, NEW q \in Requests,
         Crud(c, q) \/ Lookup(c, q) \/ ObserverStart(c, q)
  PROVE  Single'
<1>1. req[q].kind = "none" /\ UNCHANGED <<faults, workers>>
  BY DEF Crud, Lookup, ObserverStart, Calls
<1>2. CASE Crud(c, q)
  <2>. DEFINE r == [Request("crud", c) EXCEPT !.replies = 1]  z == Request("crud", c)
  <2>1. /\ r \in Records /\ r.kind = "crud" /\ r.replies = 1
        /\ z \in Records /\ z.kind = "crud" /\ z.replies = 0
    BY NewRecord DEF Request, Records
  <2>2. \/ req' = [req EXCEPT ![q] = r] /\ tx' = tx
        \/ /\ req' = [req EXCEPT ![q] = z]
           /\ \E h \in Handles : tx[h] = NoTx /\ tx' = [tx EXCEPT ![h].req = q]
    BY <1>2 DEF Crud, OCDoResource
  <2>. HIDE DEF r, z
  <2>3. CASE req' = [req EXCEPT ![q] = r] /\ tx' = tx
    BY <1>1, <2>1, <2>3, NewHolder
  <2>4. CASE /\ req' = [req EXCEPT ![q] = z]
             /\ \E h \in Handles : tx[h] = NoTx /\ tx' = [tx EXCEPT ![h].req = q]
    <3>1. PICK h \in Handles : tx[h] = NoTx /\ tx' = [tx EXCEPT ![h].req = q] BY <2>4
    <3>. QED BY <1>1, <2>1, <2>4, <3>1, NewHolder
  <2>. QED BY <2>2, <2>3, <2>4
<1>3. CASE Lookup(c, q)
  <2>1. PICK h \in Handles :
          /\ tx[h] = NoTx /\ tx' = [tx EXCEPT ![h].req = q]
          /\ req' = [req EXCEPT ![q] = [Request("lookup", c) EXCEPT !.timer = h]]
    BY <1>3 DEF Lookup, OCDoResource
  <2>. DEFINE r == [Request("lookup", c) EXCEPT !.timer = h]
  <2>2. r \in Records /\ r.kind = "lookup" /\ r.replies = 0 BY NewRecord DEF Request, Records
  <2>3. req' = [req EXCEPT ![q] = r] BY <2>1
  <2>. HIDE DEF r
  <2>4. tx[h] = NoTx /\ tx' = [tx EXCEPT ![h].req = q] BY <2>1
  <2>. QED BY <1>1, <2>2, <2>3, <2>4, NewHolder
<1>4. CASE ObserverStart(c, q)
  <2>1. PICK h \in Handles : tx[h] = NoTx /\ tx' = [tx EXCEPT ![h].req = q]
    BY <1>4 DEF ObserverStart, OCDoResource
  <2>. DEFINE r == Request("observe", c)
  <2>2. r \in Records /\ r.kind = "observe" /\ r.replies = 0 BY NewRecord DEF Request
  <2>3. req' = [req EXCEPT ![q] = r] BY <1>4 DEF ObserverStart
  <2>. HIDE DEF r
  <2>. QED BY <1>1, <2>1, <2>2, <2>3, NewHolder
<1>. QED BY <1>2, <1>3, <1>4

LEMMA MainSingle ==
  ASSUME Kept, Single, NEW h \in Handles,
         ObserverStarted(h) \/ ObserverStopped(h) \/ CleanupObserve(h)
  PROVE  Single'
<1>1. /\ TypeOK /\ MainShape /\ req \in [Requests -> Records]
      /\ tx \in [Handles -> [req : Requests \cup {None}, ending : BOOLEAN]]
      /\ UNCHANGED <<faults, workers>>
  BY DEF Kept, Base, TypeOK, ObserverStarted, ObserverStopped, CleanupObserve
<1>2. \A q \in Requests : req'[q].kind = req[q].kind /\ req'[q].replies = req[q].replies
  <2>1. \/ req' = req
        \/ \E known \in {h, None} :
             main.req \in Requests /\ req' = [req EXCEPT ![main.req].handle = known]
    <3>1. CASE ObserverStarted(h)
      BY <1>1, <3>1 DEF ObserverStarted, MainShape
    <3>2. CASE ObserverStopped(h)
      BY <1>1, <3>2 DEF ObserverStopped, MainShape
    <3>3. CASE CleanupObserve(h)
      BY <3>3 DEF CleanupObserve
    <3>. QED BY <3>1, <3>2, <3>3
  <2>2. ASSUME NEW known \in {h, None}, main.req \in Requests,
               req' = [req EXCEPT ![main.req].handle = known]
        PROVE  \A q \in Requests : req'[q].kind = req[q].kind /\ req'[q].replies = req[q].replies
    <3>1. req[main.req] \in Records BY <1>1, <2>2
    <3>. QED BY <1>1, <2>2, <3>1 DEF Records
  <2>. QED BY <2>1, <2>2
<1>3. CASE ObserverStarted(h)
  <2>1. tx' = tx BY <1>3 DEF ObserverStarted
  <2>. QED BY <1>1, <1>2, <2>1, SameHolders
<1>4. CASE ObserverStopped(h) \/ CleanupObserve(h)
  <2>1. main.handles[h] > 0 /\ (OCCancel(h, "high") \/ OCCancelFails(h))
    BY <1>4 DEF ObserverStopped, CleanupObserve
  <2>2. /\ \A k \in Handles : k # h => tx'[k] = tx[k]
        /\ tx'[h].req \in {tx[h].req, None}
    <3>1. \/ tx' = tx
          \/ tx' = [tx EXCEPT ![h] = [tx[h] EXCEPT !.ending = TRUE]]
          \/ tx' = [tx EXCEPT ![h] = NoTx]
      BY <2>1 DEF OCCancel, OCCancelFails
    <3>2. tx[h] \in [req : Requests \cup {None}, ending : BOOLEAN] BY <1>1
    <3>3. [tx[h] EXCEPT !.ending = TRUE].req = tx[h].req BY <3>2
    <3>. QED BY <1>1, <3>1, <3>3 DEF NoTx
  <2>3. Lossless => KindOf(h) # "crud"
    BY <2>1 DEF Lossless, Kept, Owning, InMain
  <2>. QED BY <1>1, <1>2, <2>2, <2>3, SameHolders
<1>. QED BY <1>3, <1>4

LEMMA LookupTimeoutSingle ==
  ASSUME Kept, Single, NEW q \in Requests, LookupTimeout(q)
  PROVE  Single'
<1>. DEFINE h == req[q].timer
<1>1. /\ TypeOK /\ req \in [Requests -> Records] /\ req[q] \in Records
      /\ tx \in [Handles -> [req : Requests \cup {None}, ending : BOOLEAN]]
  BY DEF Kept, Base, TypeOK
<1>2. h \in Handles BY <1>1 DEF LookupTimeout, Records
<1>3. UNCHANGED <<faults, workers>> /\ req' = [req EXCEPT ![q].timer = None]
  BY DEF LookupTimeout
<1>4. tx' = tx \/ tx' = [tx EXCEPT ![h] = NoTx] BY DEF LookupTimeout, OCCancel, OCCancelFails
<1>5. Lossless => KindOf(h) # "crud"
  <2>1. Lossless => tx[h].req = q /\ req[q].kind = "lookup"
    BY <1>2 DEF Lossless, Kept, Owning, Held, Kinds
  <2>. QED BY <2>1 DEF KindOf
<1>. HIDE DEF h
<1>6. \A p \in Requests : req'[p].kind = req[p].kind /\ req'[p].replies = req[p].replies
  BY <1>1, <1>3 DEF Records
<1>7. /\ \A k \in Handles : k # h => tx'[k] = tx[k]
      /\ tx'[h].req \in {tx[h].req, None}
  BY <1>1, <1>2, <1>4 DEF NoTx
<1>. QED BY <1>3, <1>5, <1>6, <1>7, SameHolders

LEMMA EndSingle ==
  ASSUME Kept, Single, NEW h \in Handles, ObserveEnds(h) \/ Drop(h)
  PROVE  Single'
<1>1. /\ UNCHANGED <<faults, workers, req>> /\ tx' = [tx EXCEPT ![h] = NoTx]
      /\ KindOf(h) = "observe" \/ "drop" \in faults
  BY DEF ObserveEnds, Drop, Calling
<1>2. /\ \A k \in Handles : k # h => tx'[k] = tx[k]
      /\ tx'[h].req \in {tx[h].req, None}
  BY <1>1 DEF Kept, Base, TypeOK, NoTx
<1>3. Lossless => KindOf(h) # "crud" BY <1>1 DEF Lossless
<1>. QED BY <1>1, <1>2, <1>3, SameHolders

\* An answer takes the place of the transaction: as a reply or as a worker.
LEMMA CrudCbSingle ==
  ASSUME Kept, Single, NEW h \in Handles, CrudCb(h)
  PROVE  Single'
<1>. DEFINE q == tx[h].req  w == Worker(q, 0)
<1>1. /\ q \in Requests /\ req[q].kind = "crud" /\ TypeOK /\ req \in [Requests -> Records]
      /\ tx \in [Handles -> [req : Requests \cup {None}, ending : BOOLEAN]]
      /\ \A v \in workers : v.req \in Requests
  BY DEF CrudCb, Calling, KindOf, Kept, Base, TypeOK
<1>2. /\ faults' = faults /\ tx' = [tx EXCEPT ![h] = NoTx]
      /\ \/ req' = [req EXCEPT ![q].replies = req[q].replies + 1] /\ workers' = workers
         \/ req' = req /\ workers' = workers \cup {w}
  BY DEF CrudCb, StartWorker
<1>3. w.req = q BY DEF Worker
<1>4. Alone(q) BY <1>1 DEF Single
<1>5. /\ \A k \in Handles : k # h => tx'[k] = tx[k]
      /\ tx'[h].req = None
  BY <1>1, <1>2 DEF NoTx
<1>6. req[q].replies = 0 /\ (\A v \in workers : v.req # q) /\ \A k \in Handles : k # h => tx[k].req # q
  BY <1>4 DEF Alone
<1>. HIDE DEF q, w
<1>7. /\ req[q] \in Records
      /\ \A p \in Requests : req'[p].kind = req[p].kind /\ (p # q => req'[p] = req[p])
      /\ \/ req'[q].replies = 1 /\ workers' = workers
         \/ req'[q].replies = 0 /\ workers' = workers \cup {w}
  <2>1. req[q] \in Records BY <1>1
  <2>2. CASE req' = [req EXCEPT ![q].replies = req[q].replies + 1] /\ workers' = workers
    <3>1. req' = [req EXCEPT ![q].replies = 1] BY <1>6, <2>2
    <3>. QED BY <1>1, <2>1, <2>2, <3>1 DEF Records
  <2>3. CASE req' = req /\ workers' = workers \cup {w}
    BY <1>6, <2>1, <2>3
  <2>. QED BY <1>2, <2>2, <2>3
<1>8. \A v \in workers' : req'[v.req].kind # "none"
  <2>1. \A v \in workers' : v.req \in Requests /\ req[v.req].kind # "none"
    BY <1>1, <1>3, <1>7 DEF Single
  <2>. QED BY <1>7, <2>1
<1>9. ASSUME NEW p \in Requests, req'[p].kind = "crud"
      PROVE  Alone(p)'
  <2>1. CASE p = q
    <3>1. \A k \in Handles : tx'[k].req # q BY <1>5, <1>6, <1>1
    <3>2. \A v \in workers' : v.req = q => v = w BY <1>6, <1>7
    <3>. QED BY <2>1, <3>1, <3>2, <1>3, <1>6, <1>7 DEF Alone
  <2>2. CASE p # q
    <3>1. Alone(p) /\ req'[p] = req[p] BY <1>7, <1>9, <2>2 DEF Single
    <3>2. \A k \in Handles : tx'[k].req = p <=> tx[k].req = p BY <1>5, <2>2 DEF q
    <3>3. \A v : v.req = p => (v \in workers' <=> v \in workers) BY <1>3, <1>7, <2>2
    <3>4. Lossless' <=> Lossless BY <1>2 DEF Lossless, Certain
    <3>. QED BY <3>1, <3>2, <3>3, <3>4 DEF Alone
  <2>. QED BY <2>1, <2>2
<1>. QED BY <1>8, <1>9 DEF Single

LEMMA NewsSingle ==
  ASSUME Kept, Single, NEW h \in Handles, LookupCb(h) \/ ObserveCb(h)
  PROVE  Single'
<1>. DEFINE q == tx[h].req
<1>1. /\ q \in Requests /\ req[q].kind \in {"lookup", "observe"} /\ req \in [Requests -> Records]
      /\ \A v \in workers : v.req \in Requests
  BY DEF LookupCb, ObserveCb, Calling, KindOf, Kept, Base, TypeOK
<1>2. PICK seq \in {0, req[q].notes + 1} :
        /\ faults' = faults /\ tx' = tx
        /\ workers' = workers \/ workers' = workers \cup {Worker(q, seq)}
        /\ req' = req \/ req' = [req EXCEPT ![q].notes = seq]
  BY DEF LookupCb, ObserveCb, StartWorker
<1>. HIDE DEF q
<1>3. \A p \in Requests : req'[p].kind = req[p].kind /\ (p # q => req'[p] = req[p])
  <2>1. req[q] \in Records BY <1>1
  <2>. QED BY <1>1, <1>2, <2>1 DEF Records
<1>4. \A v \in workers' : v \in workers \/ v.req = q BY <1>2 DEF Worker
<1>5. \A v \in workers' : req'[v.req].kind # "none" BY <1>1, <1>3, <1>4 DEF Single
<1>6. ASSUME NEW p \in Requests, req'[p].kind = "crud"
      PROVE  Alone(p)'
  <2>1. p # q BY <1>1, <1>3, <1>6
  <2>2. Alone(p) /\ req'[p] = req[p] BY <1>3, <1>6, <2>1 DEF Single
  <2>3. workers \subseteq workers' /\ \A v \in workers' : v.req = p => v \in workers
    BY <1>2, <1>4, <2>1
  <2>4. Lossless' <=> Lossless BY <1>2 DEF Lossless, Certain
  <2>. QED BY <1>2, <2>2, <2>3, <2>4 DEF Alone
<1>. QED BY <1>5, <1>6 DEF Single

LEMMA WorkerRunsSingle ==
  ASSUME Kept, Single, NEW w \in workers, WorkerRuns(w)
  PROVE  Single'
<1>. DEFINE q == w.req
<1>1. /\ q \in Requests /\ req \in [Requests -> Records]
      /\ \A v \in workers : v.req \in Requests
  BY DEF Kept, Base, TypeOK
<1>2. /\ UNCHANGED <<faults, tx>> /\ workers' = workers \ {w}
      /\ \/ req[q].kind = "crud" /\ req' = [req EXCEPT ![q].replies = req[q].replies + 1]
         \/ req[q].kind # "crud" /\ (req' = req \/ req' = [req EXCEPT ![q].shown = w.seq])
  BY DEF WorkerRuns
<1>3. req[q].kind = "crud" => /\ Alone(q) /\ req[q].replies = 0
                              /\ \A v \in workers' : v.req # q
                              /\ \A h \in Handles : tx[h].req # q
  BY <1>1, <1>2 DEF Single, Alone
<1>. HIDE DEF q
<1>4. /\ \A p \in Requests : req'[p].kind = req[p].kind /\ (p # q => req'[p] = req[p])
      /\ req[q].kind = "crud" => req'[q].replies = 1
  <2>1. req[q] \in Records BY <1>1
  <2>2. CASE req[q].kind = "crud" /\ req' = [req EXCEPT ![q].replies = req[q].replies + 1]
    <3>0. req[q].replies + 1 = 1 BY <1>3, <2>2
    <3>1. req' = [req EXCEPT ![q].replies = 1] BY <2>2, <3>0
    <3>2. req'[q].replies = 1 /\ req'[q].kind = req[q].kind BY <1>1, <2>1, <3>1 DEF Records
    <3>3. \A p \in Requests : p # q => req'[p] = req[p] BY <1>1, <3>1
    <3>. QED BY <3>2, <3>3
  <2>3. CASE req[q].kind # "crud" /\ (req' = req \/ req' = [req EXCEPT ![q].shown = w.seq])
    BY <1>1, <2>1, <2>3 DEF Records
  <2>. QED BY <1>2, <2>2, <2>3
<1>5. \A v \in workers' : req'[v.req].kind # "none" BY <1>1, <1>2, <1>4 DEF Single
<1>6. ASSUME NEW p \in Requests, req'[p].kind = "crud"
      PROVE  Alone(p)'
  <2>1. CASE p = q
    BY <2>1, <1>2, <1>3, <1>4, <1>6 DEF Alone
  <2>2. CASE p # q
    <3>1. Alone(p) /\ req'[p] = req[p] BY <1>4, <1>6, <2>2 DEF Single
    <3>2. \A v : v.req = p => (v \in workers' <=> v \in workers) BY <1>2, <2>2 DEF q
    <3>3. Lossless' <=> Lossless BY <1>2 DEF Lossless, Certain
    <3>. QED BY <1>2, <3>1, <3>2, <3>3 DEF Alone
  <2>. QED BY <2>1, <2>2
<1>. QED BY <1>5, <1>6 DEF Single

LEMMA NextSingle == Kept /\ Single /\ [Next]_vars => Single'
<1>. SUFFICES ASSUME Kept, Single, [Next]_vars PROVE Single'
  OBVIOUS
<1>1. ASSUME UNCHANGED <<faults, req, tx, workers>> PROVE Single'
  BY <1>1, SameHolders
<1>2. CASE EnterLoop \/ Deinit \/ Join \/ ThreadStarts \/ ThreadEnds
  BY <1>1, <1>2 DEF EnterLoop, Deinit, Join, ThreadStarts, ThreadEnds
<1>3. ASSUME NEW c \in Clients, NEW q \in Requests, Crud(c, q) \/ Lookup(c, q) \/ ObserverStart(c, q)
      PROVE  Single'
  BY <1>3, MakesSingle
<1>4. ASSUME NEW c \in Clients, ClientExit(c) PROVE Single'
  BY <1>1, <1>4 DEF ClientExit
<1>5. ASSUME NEW q \in Requests, ObserverStop(q) PROVE Single'
  BY <1>1, <1>5 DEF ObserverStop
<1>6. ASSUME NEW q \in Requests, LookupTimeout(q) PROVE Single'
  BY <1>6, LookupTimeoutSingle
<1>7. ASSUME NEW h \in Handles, ObserverStarted(h) \/ ObserverStopped(h) \/ CleanupObserve(h)
      PROVE  Single'
  BY <1>7, MainSingle
<1>8. ASSUME NEW h \in Handles,
             CrudCb(h) \/ LookupCb(h) \/ ObserveCb(h) \/ ObserveEnds(h) \/ Drop(h)
      PROVE  Single'
  BY <1>8, CrudCbSingle, NewsSingle, EndSingle
<1>9. ASSUME NEW w \in workers, WorkerRuns(w) PROVE Single'
  BY <1>9, WorkerRunsSingle
<1>10. CASE UNCHANGED vars
  BY <1>1, <1>10 DEF vars
<1>. QED BY <1>2, <1>3, <1>4, <1>5, <1>6, <1>7, <1>8, <1>9, <1>10 DEF Next

LEMMA CountsOne ==
  ASSUME NEW S, \A x, y \in S : x = y
  PROVE  Cardinality(S) \in {0, 1} /\ (Cardinality(S) = 0 <=> S = {})
<1>1. CASE S = {}
  BY <1>1, FS_EmptySet
<1>2. CASE S # {}
  <2>1. PICK x \in S : TRUE BY <1>2
  <2>2. S = {x} BY <2>1
  <2>. QED BY <1>2, <2>2, FS_Singleton
<1>. QED BY <1>1, <1>2

\* Every D-Bus invocation of a read or write is completed by one: the handler,
\* the callback (icd_ioty_ocprocess_get_cb, ...) or its worker; and there is
\* always one who will, if the stack drops nothing.
THEOREM OneAnswer == Spec => []OneHolder
<1>1. ASSUME Kept, Single PROVE OneHolder
  <2>. SUFFICES ASSUME NEW q \in Requests, req[q].kind = "crud"
                PROVE  /\ req[q].replies + Holders(q) <= 1
                       /\ faults \cap {"drop", "reply", "server_ends"} = {} =>
                            req[q].replies + Holders(q) = 1
    BY DEF OneHolder
  <2>. DEFINE T == {h \in Handles : tx[h].req = q}  W == {w \in workers : w.req = q}
  <2>1. Alone(q) BY <1>1 DEF Single
  <2>2. /\ \A x, y \in T : x = y
        /\ \A x, y \in W : x = y
        /\ T = {} \/ W = {}
        /\ req[q].replies \in {0, 1}
        /\ req[q].replies = 1 => T = {} /\ W = {}
        /\ Lossless => req[q].replies = 1 \/ T # {} \/ W # {}
    BY <2>1 DEF Alone
  <2>3. Holders(q) = Cardinality(T) + Cardinality(W) BY DEF Holders
  <2>4. faults \cap {"drop", "reply", "server_ends"} = {} => Lossless BY DEF Lossless, Certain
  <2>. HIDE DEF T, W
  <2>5. /\ Cardinality(T) \in {0, 1} /\ (Cardinality(T) = 0 <=> T = {})
        /\ Cardinality(W) \in {0, 1} /\ (Cardinality(W) = 0 <=> W = {})
    BY <2>2, CountsOne
  <2>. QED BY <2>2, <2>3, <2>4, <2>5
<1>. QED BY InitKept, NextKept, InitSingle, NextSingle, <1>1, PTL DEF Spec
=============================================================================
