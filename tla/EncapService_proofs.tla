------------------------- MODULE EncapService_proofs -------------------------
(***************************************************************************)
(* What the daemon promises a client of the shared subscriptions, proved   *)
(* for every set of clients, resources, hosts and handles, under the       *)
(* assumption Exact: no remote ends an observation by itself, OCCancel     *)
(* succeeds on a live transaction, replies arrive, nobody releases a name  *)
(* and the daemon does not die.                                            *)
(*   CountsAgree       Spec => []CountsExact                               *)
(*   AllServed         Spec => []Served                                    *)
(*   NothingLeaked     Spec => []NoLeakedTxn                               *)
(*   OthersKept        Spec => StopLeavesOthers                            *)
(*   ServiceRefined    Spec => ImplementsService                           *)
(* They follow from the inductive invariant ExactInv, on top of IInv of    *)
(* IcdEncap_proofs. When besides that no caching is restarted while its    *)
(* cancelled observation is still to end, also                             *)
(*   ContextsKept      Spec => []ContextsSafe                              *)
(* from CtxInv, on top of both.                                            *)
(***************************************************************************)
EXTENDS IcdEncap_proofs

\* A transaction that runs and is to stay.
Serving(h) == Live(h) /\ ~txns[h].cancelling

\* h observes the resource of key k for its caching.
Observes(h, k) ==
  Serving(h) /\ txns[h].kind = "caching" /\ txns[h].uri = k.uri /\ txns[h].host = k.host

\* h is a presence subscription on the host g, whoever asked for it first.
Subscribes(h, g) ==
  Serving(h) /\ txns[h].kind # "caching" /\ txns[h].host = g

\* The lists are what the libs believe, and a list entry is in one list.
ListsAgree ==
  /\ unaware = {}
  /\ held = encaps /\ subscribed = presences
  /\ encaps \cap dying = {} /\ presences \cap dyingPresences = {}

TableCounts ==
  \A t \in Types, k \in Keys : table[k].count[t] = Cardinality(UsersOf(t, k))
HostCounts ==
  \A host \in Hosts :
    presenceTable[host].client_count
      = Cardinality(Subscribers(host)) + Cardinality(MonitoredOn(host))

\* Every caching has its own observation, every host its own presence
\* subscription: uri and host tell them apart.
CachingsObserve ==
  \A k \in Keys : table[k].count["caching"] > 0 => Observes(table[k].handle["caching"], k)
HostsSubscribe ==
  \A g \in Hosts :
    presenceTable[g].client_count > 0 => Subscribes(presenceTable[g].handle, g)

\* The monitored keys and the presence callbacks of a host share its handle.
MonitoringsShare ==
  \A k \in Keys : table[k].count["monitoring"] > 0 =>
    table[k].handle["monitoring"] = presenceTable[k.host].handle
CallbacksShare ==
  \A p \in presences \cup dyingPresences : p.handle = presenceTable[p.host].handle

\* The part of the invariant that speaks of the requests behind the counts.
Requests == CachingsObserve /\ HostsSubscribe /\ MonitoringsShare /\ NoLeakedTxn

ExactInv == ListsAgree /\ TableCounts /\ HostCounts /\ Requests /\ CallbacksShare

\* The transactions that serve somebody stay as they are.
ServingKept == \A x : Serving(x) => Serving(x)' /\ txns'[x] = txns[x]
\* ... but for x0, which serves nobody any more.
ServingLost(x0) ==
  \A x : /\ Serving(x) /\ x # x0 => Serving(x)' /\ txns'[x] = txns[x]
         /\ Serving(x)' => Serving(x) /\ x # x0
\* A host that is subscribed keeps its handle.
HostHandlesStay ==
  \A g \in Hosts :
    presenceTable[g].client_count > 0 => presenceTable'[g].handle = presenceTable[g].handle
-----------------------------------------------------------------------------
\* A monitored key and a presence callback are among those whom the count of
\* their host counts.
HostsCounted ==
  /\ \A k \in Keys : table[k].count["monitoring"] > 0 => presenceTable[k.host].client_count > 0
  /\ \A p \in presences \cup dyingPresences : presenceTable[p.host].client_count > 0

LEMMA CountedHosts == IInv /\ HostCounts => HostsCounted
<1> SUFFICES ASSUME IInv, HostCounts PROVE HostsCounted
  OBVIOUS
<1>1. FiniteUsers
  BY UsersFinite DEF IInv
<1>2. ASSUME NEW k \in Keys, table[k].count["monitoring"] > 0
      PROVE  presenceTable[k.host].client_count > 0
  <2>1. k.host \in Hosts /\ k \in MonitoredOn(k.host)
    BY <1>2 DEF Keys, MonitoredOn
  <2>2. Cardinality(MonitoredOn(k.host)) # 0
    BY <1>1, <2>1, FS_EmptySet DEF FiniteUsers
  <2> QED
    BY <1>1, <2>1, <2>2 DEF HostCounts, FiniteUsers
<1>3. ASSUME NEW p \in presences \cup dyingPresences
      PROVE  presenceTable[p.host].client_count > 0
  <2>1. p.host \in Hosts /\ p \in Subscribers(p.host)
    BY DEF IInv, TypeOK, PresenceHandles, Subscribers
  <2>2. Cardinality(Subscribers(p.host)) # 0
    BY <1>1, <2>1, FS_EmptySet DEF FiniteUsers
  <2> QED
    BY <1>1, <2>1, <2>2 DEF HostCounts, FiniteUsers
<1> QED
  BY <1>2, <1>3 DEF HostsCounted

LEMMA CountedHostsNext == (IInv /\ HostCounts => HostsCounted)'
BY CountedHosts, PTL
-----------------------------------------------------------------------------
\* OCDoResource takes a handle no transaction has.
LEMMA RequestAdded ==
  ASSUME TablesOK, NEW h \in Handles, NEW kind \in Types \cup {"presence"}, NEW uri, NEW host, NEW w,
         OCDoResource(h, kind, uri, host, w)
  PROVE  /\ ServingKept
         /\ \A x : Serving(x)' => Serving(x) \/ x = h
         /\ Serving(h)' /\ txns'[h].kind = kind /\ txns'[h].uri = uri /\ txns'[h].host = host
<1>1. /\ ~Live(h)
      /\ txns' = [txns EXCEPT ![h] = [kind |-> kind, uri |-> uri, host |-> host,
                                      ctx |-> w, cancelling |-> FALSE]]
      /\ kind # "none"
  BY DEF OCDoResource, Types
<1> QED
  BY <1>1 DEF TablesOK, Serving, Live, ServingKept

\* The address is subscribed, by the handle the subscriber gets.
LEMMA HostSubscribed ==
  ASSUME TablesOK, NEW kind \in {"monitoring", "presence"}, NEW uri, NEW host \in Hosts, NEW w,
         NEW h \in Handles, SubscribePresence(kind, uri, host, w, h), HostsSubscribe
  PROVE  /\ ServingKept
         /\ \A x : Serving(x)' => Serving(x) \/ x = h
         /\ HostsSubscribe'
         /\ presenceTable'[host].client_count > 0 /\ presenceTable'[host].handle = h
         /\ \A g \in Hosts : presenceTable[g].client_count > 0 =>
              /\ presenceTable'[g].client_count > 0
              /\ presenceTable'[g].handle = presenceTable[g].handle
<1>1. \A g \in Hosts : presenceTable[g] \in PresenceInfos /\ presenceTable[g].client_count \in Nat
  BY DEF TablesOK, PresenceInfos
<1>2. CASE presenceTable[host].client_count > 0
  <2>1. /\ presenceTable' = [presenceTable EXCEPT ![host].client_count = @ + 1]
        /\ txns' = txns /\ h = presenceTable[host].handle
    BY <1>1, <1>2 DEF SubscribePresence
  <2>2. \A g \in Hosts : /\ presenceTable'[g].client_count > 0 <=> presenceTable[g].client_count > 0
                         /\ presenceTable'[g].handle = presenceTable[g].handle
    BY <1>1, <1>2, <2>1 DEF TablesOK, PresenceInfos
  <2> QED
    BY <1>2, <2>1, <2>2 DEF ServingKept, Serving, Live, HostsSubscribe, Subscribes
<1>3. CASE presenceTable[host].client_count = 0
  <2>1. /\ presenceTable' = [presenceTable EXCEPT ![host] = [client_count |-> 1, handle |-> h]]
        /\ OCDoResource(h, kind, uri, host, w)
    BY <1>3 DEF SubscribePresence
  <2>2. \A g \in Hosts :
          presenceTable'[g] = IF g = host THEN [client_count |-> 1, handle |-> h] ELSE presenceTable[g]
    BY <2>1 DEF TablesOK
  <2>3. /\ ServingKept
        /\ \A x : Serving(x)' => Serving(x) \/ x = h
        /\ Serving(h)' /\ txns'[h].kind = kind /\ txns'[h].host = host
    BY <2>1, RequestAdded DEF Types
  <2>4. HostsSubscribe'
    <3> SUFFICES ASSUME NEW g \in Hosts, presenceTable'[g].client_count > 0
                 PROVE  Subscribes(presenceTable[g].handle, g)'
      BY DEF HostsSubscribe
    <3>1. CASE g = host
      BY <2>2, <2>3, <3>1 DEF Subscribes
    <3>2. CASE g # host
      <4>1. Subscribes(presenceTable[g].handle, g) /\ presenceTable'[g] = presenceTable[g]
        BY <2>2, <3>2 DEF HostsSubscribe
      <4> QED
        BY <2>3, <4>1 DEF Subscribes, ServingKept
    <3> QED
      BY <3>1, <3>2
  <2> QED
    BY <1>3, <2>2, <2>3, <2>4
<1> QED
  BY <1>1, <1>2, <1>3

\* OCCancel of a request that serves somebody succeeds: it serves no longer.
LEMMA RequestEnded ==
  ASSUME Exact, TablesOK, NEW h, NEW highQos \in BOOLEAN, NEW f, NEW ok \in BOOLEAN,
         Serving(h), OCCancel(h, highQos, f, ok)
  PROVE  ok /\ ServingLost(h)
<1>1. ok
  BY DEF OCCancel, Exact, Serving
<1>2. \/ txns' = [txns EXCEPT ![h].cancelling = TRUE]
      \/ txns' = [txns EXCEPT ![h] = NoTxn]
  BY <1>1 DEF OCCancel
<1>3. h \in Handles /\ txns \in [Handles -> Txns] /\ txns[h] \in Txns
  BY DEF TablesOK, Serving, Live
<1>4. \A x : x # h => txns'[x] = txns[x] \/ x \notin Handles
  BY <1>2, <1>3
<1>5. ~Serving(h)'
  <2>1. CASE txns' = [txns EXCEPT ![h].cancelling = TRUE]
    BY <1>3, <2>1 DEF Serving, Txns
  <2>2. CASE txns' = [txns EXCEPT ![h] = NoTxn]
    BY <1>3, <2>2 DEF Serving, Live, NoTxn
  <2> QED
    BY <1>2, <2>1, <2>2
<1> QED
  BY <1>1, <1>4, <1>5 DEF ServingLost, Serving, Live

\* Unsubscribing with the host's handle ends the host's request with the last
\* subscriber and touches no other host.
LEMMA HostUnsubscribed ==
  ASSUME Exact, TablesOK, NEW h, NEW host \in Hosts, NEW f \in [Ctxs -> WorkerCtxs],
         NEW ok \in BOOLEAN, UnsubscribePresence(h, host, f, ok),
         HostsSubscribe, presenceTable[host].client_count > 0, h = presenceTable[host].handle
  PROVE  /\ ok
         /\ HostsSubscribe'
         /\ IF presenceTable[host].client_count = 1 THEN ServingLost(h) ELSE txns' = txns
<1>1. Subscribes(h, host)
  BY DEF HostsSubscribe
<1>2. /\ ClientCountBecomes(host, Dec(presenceTable[host].client_count))
      /\ PresenceHandlesKept
      /\ presenceTable[host].client_count \in Nat
  BY UnsubscribePresenceEffect, CountsTyped
<1>3. CASE presenceTable[host].client_count = 1
  <2>1. ok /\ ServingLost(h)
    BY <1>1, <1>3, RequestEnded DEF UnsubscribePresence, Subscribes
  <2>2. ASSUME NEW g \in Hosts, presenceTable'[g].client_count > 0
        PROVE  Subscribes(presenceTable[g].handle, g)'
    <3>1. g # host
      BY <1>2, <1>3, <2>2 DEF ClientCountBecomes, Dec
    <3>2. /\ Subscribes(presenceTable[g].handle, g)
          /\ presenceTable'[g].handle = presenceTable[g].handle
      BY <1>2, <2>2 DEF PresenceHandlesKept, HostsSubscribe
    <3>3. presenceTable[g].handle # h
      BY <1>1, <3>1, <3>2 DEF Subscribes
    <3> QED
      BY <2>1, <3>2, <3>3 DEF Subscribes, ServingLost
  <2> QED
    BY <1>3, <2>1, <2>2 DEF HostsSubscribe
<1>4. CASE presenceTable[host].client_count # 1
  <2>1. ok /\ txns' = txns
    BY <1>4 DEF UnsubscribePresence
  <2>2. HostsSubscribe'
    BY <1>2, <2>1 DEF PresenceHandlesKept, HostsSubscribe, Subscribes, Serving, Live
  <2> QED
    BY <1>4, <2>1, <2>2
<1> QED
  BY <1>3, <1>4
-----------------------------------------------------------------------------
\* Requests behind counts that did not change, in a step that ends none.
LEMMA RequestsKept ==
  ASSUME Requests, ServingKept, \A x : Serving(x)' => Serving(x), presenceTable' = presenceTable,
         \A t \in Types, k \in Keys : table'[k].count[t] = table[k].count[t],
         \A t \in Types, k \in Keys :
           table[k].count[t] > 0 => table'[k].handle[t] = table[k].handle[t]
  PROVE  Requests'
<1>1. CachingsObserve'
  BY DEF Requests, CachingsObserve, Observes, ServingKept, Types
<1>2. HostsSubscribe'
  BY DEF Requests, HostsSubscribe, Subscribes, ServingKept
<1>3. MonitoringsShare'
  BY DEF Requests, MonitoringsShare, Types
<1>4. NoLeakedTxn'
  <2> SUFFICES ASSUME NEW x \in Handles, Serving(x)'
               PROVE  \/ \E host \in Hosts : /\ presenceTable'[host].client_count > 0
                                             /\ presenceTable'[host].handle = x
                      \/ \E k \in Keys : /\ table'[k].count["caching"] > 0
                                         /\ table'[k].handle["caching"] = x
    BY DEF NoLeakedTxn, Serving
  <2>1. \/ \E host \in Hosts : /\ presenceTable[host].client_count > 0
                               /\ presenceTable[host].handle = x
        \/ \E k \in Keys : /\ table[k].count["caching"] > 0
                           /\ table[k].handle["caching"] = x
    BY DEF Requests, NoLeakedTxn, Serving
  <2> QED
    BY <2>1 DEF Types
<1> QED
  BY <1>1, <1>2, <1>3, <1>4 DEF Requests

\* Every user that icd_ioty_start_encap counts has its request.
LEMMA StartRequests ==
  ASSUME IInv, Requests, HostsCounted, NEW t \in Types, NEW k \in Keys, NEW ok \in BOOLEAN,
         StartEncap(t, k, ok)
  PROVE  Requests' /\ HostHandlesStay
<1>1. TablesOK /\ EntriesUsed
  BY DEF IInv, TypeOK, TablesOK
<1>2. /\ table \in [Keys -> Entries] /\ table[k] \in Entries
      /\ \A t2 \in Types, k2 \in Keys : table[k2].count[t2] \in Nat
      /\ k.host \in Hosts
  BY <1>1, CountsTyped DEF TablesOK, Keys
<1>3. CountBecomes(t, k, IF ok THEN table[k].count[t] + 1 ELSE table[k].count[t])
  BY <1>1, StartEncapEffect
<1>4. CASE ok /\ StartEncapShared(t, k)
  <2>1. /\ table[k].count[t] > 0
        /\ table' = [table EXCEPT ![k].count[t] = @ + 1]
        /\ presenceTable' = presenceTable /\ txns' = txns
    BY <1>4 DEF StartEncapShared
  <2>2. \A k2 \in Keys : table'[k2].handle = table[k2].handle
    BY <1>2, <2>1 DEF Entries
  <2>3. \A t2 \in Types, k2 \in Keys : table'[k2].count[t2] > 0 <=> table[k2].count[t2] > 0
    BY <1>2, <1>3, <1>4, <2>1 DEF CountBecomes
  <2>4. CachingsObserve'
    BY <2>1, <2>2, <2>3 DEF Requests, CachingsObserve, Observes, Serving, Live, Types
  <2>5. HostsSubscribe'
    BY <2>1 DEF Requests, HostsSubscribe, Subscribes, Serving, Live
  <2>6. MonitoringsShare'
    BY <2>1, <2>2, <2>3 DEF Requests, MonitoringsShare, Types
  <2>7. NoLeakedTxn'
    BY <2>1, <2>2, <2>3 DEF Requests, NoLeakedTxn, Live, Types
  <2> QED
    BY <2>1, <2>4, <2>5, <2>6, <2>7 DEF Requests, HostHandlesStay
<1>5. CASE ok /\ StartEncapFirst(t, k)
  <2>1. PICK w \in WorkerCtx(k), h \in Handles :
          /\ table' = [table EXCEPT ![k] = [@ EXCEPT !.count[t] = 1, !.handle[t] = h,
                                                     !.worker_ctx = w]]
          /\ \/ /\ t = "monitoring"
                /\ SubscribePresence(t, k.uri, k.host, w, h)
             \/ /\ t = "caching"
                /\ OCDoResource(h, t, k.uri, k.host, w)
                /\ UNCHANGED presenceTable
    BY <1>5 DEF StartEncapFirst
  <2>2. table[k].count[t] = 0
    BY <1>5 DEF StartEncapFirst
  <2>3. /\ \A t2 \in Types, k2 \in Keys :
             table'[k2].handle[t2] = IF t2 = t /\ k2 = k THEN h ELSE table[k2].handle[t2]
        /\ \A t2 \in Types, k2 \in Keys :
             table'[k2].count[t2] = IF t2 = t /\ k2 = k THEN 1 ELSE table[k2].count[t2]
    <3>1. table'[k].handle = [table[k].handle EXCEPT ![t] = h]
      BY <1>2, <2>1 DEF Entries
    <3>2. table[k].handle \in [Types -> Handles \cup {Null}]
      BY <1>2 DEF Entries
    <3>3. \A k2 \in Keys : k2 # k => table'[k2] = table[k2]
      BY <1>2, <2>1
    <3> QED
      BY <1>3, <1>5, <2>2, <3>1, <3>2, <3>3 DEF CountBecomes
  <2>4. CASE t = "monitoring"
    <3>1. SubscribePresence(t, k.uri, k.host, w, h)
      BY <2>1, <2>4
    <3>2. /\ ServingKept
          /\ \A x : Serving(x)' => Serving(x) \/ x = h
          /\ HostsSubscribe'
          /\ presenceTable'[k.host].client_count > 0 /\ presenceTable'[k.host].handle = h
          /\ \A g \in Hosts : presenceTable[g].client_count > 0 =>
               /\ presenceTable'[g].client_count > 0
               /\ presenceTable'[g].handle = presenceTable[g].handle
      BY <1>1, <1>2, <2>4, <3>1, HostSubscribed DEF Requests
    <3>3. CachingsObserve'
      BY <2>3, <2>4, <3>2 DEF Requests, CachingsObserve, Observes, ServingKept, Types
    <3>4. MonitoringsShare'
      <4> SUFFICES ASSUME NEW k2 \in Keys, table'[k2].count["monitoring"] > 0
                   PROVE  table'[k2].handle["monitoring"] = presenceTable'[k2.host].handle
        BY DEF MonitoringsShare
      <4>1. CASE k2 = k
        BY <2>3, <2>4, <3>2, <4>1 DEF Types
      <4>2. CASE k2 # k
        <5>1. table[k2].count["monitoring"] > 0 /\ k2.host \in Hosts
          BY <2>3, <4>2 DEF Types, Keys
        <5>2. /\ presenceTable[k2.host].client_count > 0
              /\ table[k2].handle["monitoring"] = presenceTable[k2.host].handle
          BY <5>1 DEF HostsCounted, Requests, MonitoringsShare
        <5> QED
          BY <2>3, <3>2, <4>2, <5>1, <5>2 DEF Types
      <4> QED
        BY <4>1, <4>2
    <3>5. NoLeakedTxn'
      <4> SUFFICES ASSUME NEW x \in Handles, Serving(x)'
                   PROVE  \/ \E host \in Hosts : /\ presenceTable'[host].client_count > 0
                                                 /\ presenceTable'[host].handle = x
                          \/ \E k2 \in Keys : /\ table'[k2].count["caching"] > 0
                                              /\ table'[k2].handle["caching"] = x
        BY DEF NoLeakedTxn, Serving
      <4>1. CASE x = h
        BY <1>2, <3>2, <4>1
      <4>2. CASE Serving(x)
        <5>1. CASE \E host \in Hosts : /\ presenceTable[host].client_count > 0
                                       /\ presenceTable[host].handle = x
          BY <3>2, <5>1
        <5>2. CASE \E k2 \in Keys : /\ table[k2].count["caching"] > 0
                                    /\ table[k2].handle["caching"] = x
          BY <2>3, <2>4, <5>2 DEF Types
        <5> QED
          BY <4>2, <5>1, <5>2 DEF Requests, NoLeakedTxn, Serving
      <4> QED
        BY <3>2, <4>1, <4>2
    <3> QED
      BY <3>2, <3>3, <3>4, <3>5 DEF Requests, HostHandlesStay
  <2>5. CASE t = "caching"
    <3>1. OCDoResource(h, t, k.uri, k.host, w) /\ presenceTable' = presenceTable
      BY <2>1, <2>5
    <3>2. /\ ServingKept
          /\ \A x : Serving(x)' => Serving(x) \/ x = h
          /\ Serving(h)' /\ txns'[h].kind = "caching"
          /\ txns'[h].uri = k.uri /\ txns'[h].host = k.host
      BY <1>1, <2>5, <3>1, RequestAdded
    <3>3. CachingsObserve'
      BY <2>3, <2>5, <3>2 DEF Requests, CachingsObserve, Observes, ServingKept, Types
    <3>4. HostsSubscribe'
      BY <3>1, <3>2 DEF Requests, HostsSubscribe, Subscribes, ServingKept
    <3>5. MonitoringsShare'
      BY <2>3, <2>5, <3>1 DEF Requests, MonitoringsShare, Types
    <3>6. NoLeakedTxn'
      BY <2>2, <2>3, <2>5, <3>1, <3>2 DEF Requests, NoLeakedTxn, Serving, Types
    <3> QED
      BY <3>1, <3>3, <3>4, <3>5, <3>6 DEF Requests, HostHandlesStay
  <2> QED
    BY <2>4, <2>5 DEF Types
<1>6. CASE ~ok /\ StartEncapFails(t, k)
  <2>1. /\ table[k].count[t] = 0
        /\ table' = table \/ table' = [table EXCEPT ![k].handle[t] = Null]
        /\ presenceTable' = presenceTable /\ txns' = txns
    BY <1>6 DEF StartEncapFails
  <2>2. \A t2 \in Types, k2 \in Keys :
          (t2 # t \/ k2 # k) => table'[k2].handle[t2] = table[k2].handle[t2]
    <3>1. table[k].handle \in [Types -> Handles \cup {Null}]
      BY <1>2 DEF Entries
    <3>2. CASE table' = [table EXCEPT ![k].handle[t] = Null]
      <4>1. table'[k].handle = [table[k].handle EXCEPT ![t] = Null]
        BY <1>2, <3>2 DEF Entries
      <4>2. \A k2 \in Keys : k2 # k => table'[k2] = table[k2]
        BY <1>2, <3>2
      <4> QED
        BY <3>1, <4>1, <4>2
    <3> QED
      BY <2>1, <3>2
  <2>3. ServingKept /\ \A x : Serving(x)' => Serving(x)
    BY <2>1 DEF ServingKept, Serving, Live
  <2>4. \A t2 \in Types, k2 \in Keys : table'[k2].count[t2] = table[k2].count[t2]
    BY <1>3, <1>6 DEF CountBecomes
  <2>5. \A t2 \in Types, k2 \in Keys :
          table[k2].count[t2] > 0 => table'[k2].handle[t2] = table[k2].handle[t2]
    BY <2>1, <2>2
  <2> QED
    BY <2>1, <2>3, <2>4, <2>5, RequestsKept DEF HostHandlesStay
<1> QED
  BY <1>4, <1>5, <1>6 DEF StartEncap

\* icd_ioty_stop_encap of somebody who is counted succeeds, and ends the
\* request behind the count with its last user, and no other.
LEMMA StopRequests ==
  ASSUME Exact, IInv, Requests, HostsCounted, HostsCounted',
         NEW t \in Types, NEW k \in Keys, NEW ok \in BOOLEAN,
         StopEncap(t, k, ok), table[k].count[t] > 0
  PROVE  ok /\ Requests'
<1>1. TablesOK /\ EntriesUsed
  BY DEF IInv, TypeOK, TablesOK
<1>2. /\ table \in [Keys -> Entries] /\ table[k] \in Entries
      /\ \A t2 \in Types, k2 \in Keys : table[k2].count[t2] \in Nat
      /\ k.host \in Hosts
  BY <1>1, CountsTyped DEF TablesOK, Keys
<1>3. /\ CountBecomes(t, k, Dec(table[k].count[t]))
      /\ PresenceHandlesKept
  BY <1>1, StopEncapEffect
<1>4. CASE ok /\ StopEncapShared(t, k)
  <2>1. /\ table[k].count[t] > 1
        /\ table' = [table EXCEPT ![k].count[t] = @ - 1]
        /\ presenceTable' = presenceTable /\ txns' = txns
    BY <1>4 DEF StopEncapShared
  <2>2. \A k2 \in Keys : table'[k2].handle = table[k2].handle
    BY <1>2, <2>1 DEF Entries
  <2>3. \A t2 \in Types, k2 \in Keys : table'[k2].count[t2] > 0 <=> table[k2].count[t2] > 0
    BY <1>2, <1>3, <2>1 DEF CountBecomes, Dec
  <2>4. CachingsObserve'
    BY <2>1, <2>2, <2>3 DEF Requests, CachingsObserve, Observes, Serving, Live, Types
  <2>5. HostsSubscribe'
    BY <2>1 DEF Requests, HostsSubscribe, Subscribes, Serving, Live
  <2>6. MonitoringsShare'
    BY <2>1, <2>2, <2>3 DEF Requests, MonitoringsShare, Types
  <2>7. NoLeakedTxn'
    BY <2>1, <2>2, <2>3 DEF Requests, NoLeakedTxn, Live, Types
  <2> QED
    BY <1>4, <2>4, <2>5, <2>6, <2>7 DEF Requests
<1>5. CASE StopEncapLast(t, k, ok)
  <2> DEFINE f == IF LastUser(t, k) THEN Invalidate(ctx, table[k].worker_ctx) ELSE ctx
             h == table[k].handle[t]
  <2>1. /\ table[k].count[t] = 1
        /\ table' = [table EXCEPT ![k] = IF LastUser(t, k) THEN NoEntry
                                         ELSE [@ EXCEPT !.count[t] = 0]]
        /\ \/ /\ t = "monitoring"
              /\ UnsubscribePresence(h, k.host, f, ok)
           \/ /\ t = "caching"
              /\ OCCancel(h, TRUE, f, ok)
              /\ UNCHANGED presenceTable
    BY <1>5 DEF StopEncapLast
  <2>2. f \in [Ctxs -> WorkerCtxs]
    BY <1>1 DEF TablesOK, WorkerCtxs, Invalidate
  <2>3. \A t2 \in Types, k2 \in Keys :
          table'[k2].count[t2] = IF t2 = t /\ k2 = k THEN 0 ELSE table[k2].count[t2]
    BY <1>3, <2>1 DEF CountBecomes, Dec
  <2>4. \A t2 \in Types, k2 \in Keys :
          table'[k2].count[t2] > 0 => table'[k2].handle[t2] = table[k2].handle[t2]
    <3> SUFFICES ASSUME NEW t2 \in Types, NEW k2 \in Keys, table'[k2].count[t2] > 0
                 PROVE  table'[k2].handle[t2] = table[k2].handle[t2]
      OBVIOUS
    <3>1. CASE k2 = k
      <4>1. t2 # t /\ table[k].count[t2] > 0
        BY <1>2, <2>3, <3>1
      <4>2. ~LastUser(t, k)
        BY <1>2, <4>1 DEF LastUser, Other, Types
      <4> QED
        BY <1>2, <2>1, <3>1, <4>2 DEF Entries
    <3>2. CASE k2 # k
      BY <1>2, <2>1, <3>2
    <3> QED
      BY <3>1, <3>2
  <2> HIDE DEF f
  <2>5. CASE t = "monitoring"
    <3>1. UnsubscribePresence(h, k.host, f, ok)
      BY <2>1, <2>5
    <3>2. presenceTable[k.host].client_count > 0 /\ h = presenceTable[k.host].handle
      BY <2>1, <2>5 DEF HostsCounted, Requests, MonitoringsShare
    <3> HIDE DEF h
    <3>3. /\ ok /\ HostsSubscribe'
          /\ IF presenceTable[k.host].client_count = 1 THEN ServingLost(h) ELSE txns' = txns
      BY <1>1, <1>2, <2>2, <3>1, <3>2, HostUnsubscribed DEF Requests
    <3>4. \A x : (Serving(x) /\ txns[x].kind = "caching") => Serving(x)' /\ txns'[x] = txns[x]
      <4>1. Subscribes(h, k.host)
        BY <1>2, <3>2 DEF Requests, HostsSubscribe
      <4> QED
        BY <3>3, <4>1 DEF ServingLost, Subscribes, Serving, Live
    <3>5. CachingsObserve'
      BY <2>3, <2>4, <2>5, <3>4 DEF Requests, CachingsObserve, Observes, Types
    <3>6. MonitoringsShare'
      <4> SUFFICES ASSUME NEW k2 \in Keys, table'[k2].count["monitoring"] > 0
                   PROVE  table'[k2].handle["monitoring"] = presenceTable'[k2.host].handle
        BY DEF MonitoringsShare
      <4>1. table[k2].count["monitoring"] > 0 /\ k2.host \in Hosts
        BY <1>2, <2>3 DEF Types, Keys
      <4>2. presenceTable'[k2.host].client_count > 0
        BY DEF HostsCounted
      <4> QED
        BY <1>3, <2>4, <4>1, <4>2 DEF PresenceHandlesKept, Requests, MonitoringsShare, Types
    <3>7. NoLeakedTxn'
      <4> SUFFICES ASSUME NEW x \in Handles, Serving(x)'
                   PROVE  \/ \E host \in Hosts : /\ presenceTable'[host].client_count > 0
                                                 /\ presenceTable'[host].handle = x
                          \/ \E k2 \in Keys : /\ table'[k2].count["caching"] > 0
                                              /\ table'[k2].handle["caching"] = x
        BY DEF NoLeakedTxn, Serving
      <4>1. Serving(x) /\ (presenceTable[k.host].client_count = 1 => x # h)
        BY <3>3 DEF ServingLost, Serving, Live
      <4>2. CASE \E k2 \in Keys : /\ table[k2].count["caching"] > 0
                                  /\ table[k2].handle["caching"] = x
        BY <2>3, <2>4, <2>5, <4>2 DEF Types
      <4>3. CASE \E host \in Hosts : /\ presenceTable[host].client_count > 0
                                     /\ presenceTable[host].handle = x
        <5>1. PICK host \in Hosts : /\ presenceTable[host].client_count > 0
                                    /\ presenceTable[host].handle = x
          BY <4>3
        <5>2. /\ ClientCountBecomes(k.host, Dec(presenceTable[k.host].client_count))
              /\ presenceTable[host].client_count \in Nat
          BY <1>1, <1>2, <2>2, <3>1, UnsubscribePresenceEffect, CountsTyped
        <5>3. presenceTable'[host].client_count > 0
          BY <3>2, <4>1, <5>1, <5>2 DEF ClientCountBecomes, Dec
        <5> QED
          BY <1>3, <5>1, <5>3 DEF PresenceHandlesKept
      <4> QED
        BY <4>1, <4>2, <4>3 DEF Requests, NoLeakedTxn, Serving
    <3> QED
      BY <3>3, <3>5, <3>6, <3>7 DEF Requests
  <2>6. CASE t = "caching"
    <3>1. OCCancel(h, TRUE, f, ok) /\ presenceTable' = presenceTable
      BY <2>1, <2>6
    <3>2. Observes(h, k)
      BY <2>1, <2>6 DEF Requests, CachingsObserve
    <3> HIDE DEF h
    <3>3. ok /\ ServingLost(h)
      BY <1>1, <3>1, <3>2, RequestEnded DEF Observes
    <3>4. CachingsObserve'
      <4> SUFFICES ASSUME NEW k2 \in Keys, table'[k2].count["caching"] > 0
                   PROVE  Observes(table[k2].handle["caching"], k2)'
        BY DEF CachingsObserve
      <4>1. /\ k2 # k
            /\ Observes(table[k2].handle["caching"], k2)
            /\ table'[k2].handle["caching"] = table[k2].handle["caching"]
        BY <2>3, <2>4, <2>6 DEF Requests, CachingsObserve, Types
      <4>2. table[k2].handle["caching"] # h
        BY <3>2, <4>1 DEF Observes, Keys
      <4> QED
        BY <3>3, <4>1, <4>2 DEF Observes, ServingLost
    <3>5. HostsSubscribe'
      BY <3>1, <3>2, <3>3 DEF Requests, HostsSubscribe, Subscribes, Observes, ServingLost
    <3>6. MonitoringsShare'
      BY <2>3, <2>4, <2>6, <3>1 DEF Requests, MonitoringsShare, Types
    <3>7. NoLeakedTxn'
      <4> SUFFICES ASSUME NEW x \in Handles, Serving(x)'
                   PROVE  \/ \E host \in Hosts : /\ presenceTable[host].client_count > 0
                                                 /\ presenceTable[host].handle = x
                          \/ \E k2 \in Keys : /\ table'[k2].count["caching"] > 0
                                              /\ table'[k2].handle["caching"] = x
        BY <3>1 DEF NoLeakedTxn, Serving
      <4>1. Serving(x) /\ x # h
        BY <3>3 DEF ServingLost
      <4>2. h = table[k].handle["caching"]
        BY <2>6 DEF h
      <4>3. \A k2 \in Keys : (/\ table[k2].count["caching"] > 0
                              /\ table[k2].handle["caching"] = x)
                             => (/\ table'[k2].count["caching"] > 0
                                 /\ table'[k2].handle["caching"] = x)
        BY <2>3, <2>4, <4>1, <4>2 DEF Types
      <4> QED
        BY <4>1, <4>3 DEF Requests, NoLeakedTxn, Serving
    <3> QED
      BY <3>3, <3>4, <3>5, <3>6, <3>7 DEF Requests
  <2> QED
    BY <2>5, <2>6 DEF Types
<1> QED
  BY <1>4, <1>5 DEF StopEncap, StopEncapUnknown
-----------------------------------------------------------------------------
\* What a step does to the users of the services: nothing, or one user e
\* joins or leaves the service of type t on key k.
UsersKept == \A t2 \in Types, k2 \in Keys : UsersOf(t2, k2)' = UsersOf(t2, k2)
UserJoins(t, k, e) ==
  /\ e \notin UsersOf(t, k)
  /\ \A t2 \in Types, k2 \in Keys :
       UsersOf(t2, k2)' = IF t2 = t /\ k2 = k THEN UsersOf(t2, k2) \cup {e} ELSE UsersOf(t2, k2)
UserLeaves(t, k, e) ==
  /\ e \in UsersOf(t, k)
  /\ \A t2 \in Types, k2 \in Keys :
       UsersOf(t2, k2)' = IF t2 = t /\ k2 = k THEN UsersOf(t2, k2) \ {e} ELSE UsersOf(t2, k2)

\* The counts of the encap table follow the users.
LEMMA TableCountsJoin ==
  ASSUME FiniteUsers, TableCounts, NEW t \in Types, NEW k \in Keys, NEW e,
         UserJoins(t, k, e), CountBecomes(t, k, table[k].count[t] + 1)
  PROVE  TableCounts'
<1> SUFFICES ASSUME NEW t2 \in Types, NEW k2 \in Keys
             PROVE  table'[k2].count[t2] = Cardinality(UsersOf(t2, k2)')
  BY DEF TableCounts
<1>1. table[k2].count[t2] = Cardinality(UsersOf(t2, k2)) /\ IsFiniteSet(UsersOf(t2, k2))
  BY DEF TableCounts, FiniteUsers
<1>2. CASE t2 = t /\ k2 = k
  BY <1>1, <1>2, GainsOne DEF UserJoins, CountBecomes
<1>3. CASE ~(t2 = t /\ k2 = k)
  BY <1>1, <1>3 DEF UserJoins, CountBecomes
<1> QED
  BY <1>2, <1>3

LEMMA TableCountsLeave ==
  ASSUME FiniteUsers, TableCounts, NEW t \in Types, NEW k \in Keys, NEW e,
         UserLeaves(t, k, e), CountBecomes(t, k, Dec(table[k].count[t]))
  PROVE  TableCounts'
<1> SUFFICES ASSUME NEW t2 \in Types, NEW k2 \in Keys
             PROVE  table'[k2].count[t2] = Cardinality(UsersOf(t2, k2)')
  BY DEF TableCounts
<1>1. /\ table[k2].count[t2] = Cardinality(UsersOf(t2, k2))
      /\ IsFiniteSet(UsersOf(t2, k2)) /\ Cardinality(UsersOf(t2, k2)) \in Nat
  BY DEF TableCounts, FiniteUsers
<1>2. CASE t2 = t /\ k2 = k
  <2>1. /\ e \in UsersOf(t2, k2) /\ UsersOf(t2, k2)' = UsersOf(t2, k2) \ {e}
        /\ table'[k2].count[t2] = Dec(table[k2].count[t2])
    BY <1>2 DEF UserLeaves, CountBecomes
  <2>2. /\ Cardinality(UsersOf(t2, k2) \ {e}) = Cardinality(UsersOf(t2, k2)) - 1
        /\ Cardinality(UsersOf(t2, k2)) # 0
    BY <1>1, <2>1, FS_RemoveElement, FS_EmptySet
  <2> QED
    BY <1>1, <2>1, <2>2 DEF Dec
<1>3. CASE ~(t2 = t /\ k2 = k)
  BY <1>1, <1>3 DEF UserLeaves, CountBecomes
<1> QED
  BY <1>2, <1>3

\* A host is counted once for a monitored key, however many monitor it.
LEMMA HostCountsStart ==
  ASSUME TablesOK, FiniteUsers, HostCounts, NEW t \in Types, NEW k \in Keys,
         UNCHANGED <<presences, dyingPresences>>,
         CountBecomes(t, k, table[k].count[t] + 1),
         IF t = "monitoring" /\ table[k].count[t] = 0
         THEN ClientCountBecomes(k.host, presenceTable[k.host].client_count + 1)
         ELSE presenceTable' = presenceTable
  PROVE  HostCounts'
<1> SUFFICES ASSUME NEW g \in Hosts
             PROVE  presenceTable'[g].client_count
                      = Cardinality(Subscribers(g)') + Cardinality(MonitoredOn(g)')
  BY DEF HostCounts
<1>1. /\ presenceTable[g].client_count
           = Cardinality(Subscribers(g)) + Cardinality(MonitoredOn(g))
      /\ IsFiniteSet(MonitoredOn(g)) /\ Cardinality(MonitoredOn(g)) \in Nat
      /\ Cardinality(Subscribers(g)) \in Nat
      /\ \A t2 \in Types, k2 \in Keys : table[k2].count[t2] \in Nat
      /\ Subscribers(g)' = Subscribers(g)
  BY CountsTyped DEF HostCounts, FiniteUsers, Subscribers
<1>2. CASE t = "monitoring" /\ table[k].count[t] = 0
  <2>1. MonitoredOn(g)' = IF g = k.host THEN MonitoredOn(g) \cup {k} ELSE MonitoredOn(g)
    BY <1>1, <1>2 DEF MonitoredOn, CountBecomes
  <2>2. k \notin MonitoredOn(g)
    BY <1>2 DEF MonitoredOn
  <2>3. presenceTable'[g].client_count
          = IF g = k.host THEN presenceTable[g].client_count + 1 ELSE presenceTable[g].client_count
    BY <1>2 DEF ClientCountBecomes
  <2>4. Cardinality(MonitoredOn(g) \cup {k}) = Cardinality(MonitoredOn(g)) + 1
    BY <1>1, <2>2, GainsOne
  <2> QED
    BY <1>1, <2>1, <2>3, <2>4
<1>3. CASE ~(t = "monitoring" /\ table[k].count[t] = 0)
  <2>1. MonitoredOn(g)' = MonitoredOn(g)
    BY <1>1, <1>3 DEF MonitoredOn, CountBecomes, Types
  <2> QED
    BY <1>1, <1>3, <2>1
<1> QED
  BY <1>2, <1>3

LEMMA HostCountsStop ==
  ASSUME TablesOK, FiniteUsers, HostCounts, NEW t \in Types, NEW k \in Keys,
         UNCHANGED <<presences, dyingPresences>>, table[k].count[t] > 0,
         CountBecomes(t, k, Dec(table[k].count[t])),
         IF t = "monitoring" /\ table[k].count[t] = 1
         THEN ClientCountBecomes(k.host, Dec(presenceTable[k.host].client_count))
         ELSE presenceTable' = presenceTable
  PROVE  HostCounts'
<1> SUFFICES ASSUME NEW g \in Hosts
             PROVE  presenceTable'[g].client_count
                      = Cardinality(Subscribers(g)') + Cardinality(MonitoredOn(g)')
  BY DEF HostCounts
<1>1. /\ presenceTable[g].client_count
           = Cardinality(Subscribers(g)) + Cardinality(MonitoredOn(g))
      /\ IsFiniteSet(MonitoredOn(g)) /\ Cardinality(MonitoredOn(g)) \in Nat
      /\ Cardinality(Subscribers(g)) \in Nat
      /\ \A t2 \in Types, k2 \in Keys : table[k2].count[t2] \in Nat
      /\ Subscribers(g)' = Subscribers(g)
  BY CountsTyped DEF HostCounts, FiniteUsers, Subscribers
<1>2. CASE t = "monitoring" /\ table[k].count[t] = 1
  <2>1. MonitoredOn(g)' = IF g = k.host THEN MonitoredOn(g) \ {k} ELSE MonitoredOn(g)
    BY <1>1, <1>2 DEF MonitoredOn, CountBecomes, Dec
  <2>2. g = k.host => k \in MonitoredOn(g)
    BY <1>2 DEF MonitoredOn
  <2>3. presenceTable'[g].client_count
          = IF g = k.host THEN Dec(presenceTable[g].client_count) ELSE presenceTable[g].client_count
    BY <1>2 DEF ClientCountBecomes
  <2>4. g = k.host => /\ Cardinality(MonitoredOn(g) \ {k}) = Cardinality(MonitoredOn(g)) - 1
                      /\ Cardinality(MonitoredOn(g)) # 0
    BY <1>1, <2>2, FS_RemoveElement, FS_EmptySet
  <2> QED
    BY <1>1, <2>1, <2>3, <2>4 DEF Dec
<1>3. CASE ~(t = "monitoring" /\ table[k].count[t] = 1)
  <2>1. MonitoredOn(g)' = MonitoredOn(g)
    BY <1>1, <1>3 DEF MonitoredOn, CountBecomes, Types, Dec
  <2> QED
    BY <1>1, <1>3, <2>1
<1> QED
  BY <1>2, <1>3
-----------------------------------------------------------------------------
\* Callbacks keep the handle of their host, as long as the host has one.
LEMMA CallbacksKept ==
  ASSUME IInv', HostsCounted', CallbacksShare, PresenceHandlesKept,
         (presences \cup dyingPresences)' \subseteq presences \cup dyingPresences
  PROVE  CallbacksShare'
<1> SUFFICES ASSUME NEW p \in (presences \cup dyingPresences)'
             PROVE  p.handle = presenceTable'[p.host].handle
  BY DEF CallbacksShare
<1>1. presenceTable'[p.host].client_count > 0 /\ p.host \in Hosts
  BY DEF HostsCounted, IInv, TypeOK, PresenceHandles
<1> QED
  BY <1>1 DEF PresenceHandlesKept, CallbacksShare

\* A start: a user joins, or nothing.
LEMMA StartExact ==
  ASSUME Exact, IInv, IInv', ExactInv, NEW c \in Clients, NEW t \in Types, NEW k \in Keys,
         Start(c, t, k)
  PROVE  ExactInv' /\ (UsersKept \/ \E e \in EncapHandles : UserJoins(t, k, e))
<1>1. /\ TablesOK /\ EntriesUsed /\ FiniteUsers
      /\ ListsAgree /\ TableCounts /\ HostCounts /\ Requests /\ CallbacksShare
      /\ HostsCounted
  BY CountedHosts, UsersFinite DEF IInv, TypeOK, TablesOK, ExactInv
<1>2. /\ UNCHANGED <<presences, dying, dyingPresences, subscribed, unaware>>
      /\ dying = {}
  BY DEF Start, Cleaning
<1>3. \A t2 \in Types, k2 \in Keys : table[k2].count[t2] \in Nat
  BY <1>1, CountsTyped
<1>4. ASSUME HostCounts', NEW ok \in BOOLEAN, StartEncap(t, k, ok)
      PROVE  Requests' /\ CallbacksShare'
  <2>1. Requests' /\ HostHandlesStay
    BY <1>1, <1>4, StartRequests
  <2>2. CallbacksShare'
    <3>1. \A p \in presences \cup dyingPresences :
            p.host \in Hosts /\ presenceTable[p.host].client_count > 0
      BY <1>1 DEF HostsCounted, IInv, TypeOK, PresenceHandles
    <3> QED
      BY <1>1, <1>2, <2>1, <3>1 DEF HostHandlesStay, CallbacksShare
  <2> QED
    BY <2>1, <2>2
<1>5. CASE StartEncap(t, k, FALSE) /\ UNCHANGED <<encaps, held>>
  <2>1. /\ CountBecomes(t, k, table[k].count[t])
        /\ presenceTable' = presenceTable
    BY <1>1, <1>5, StartEncapEffect
  <2>2. \A t2 \in Types, k2 \in Keys : table'[k2].count[t2] = table[k2].count[t2]
    BY <2>1 DEF CountBecomes
  <2>3. UsersKept
    BY <1>2, <1>5 DEF UsersKept, UsersOf
  <2>4. TableCounts'
    BY <1>1, <2>2, <2>3 DEF TableCounts, UsersKept
  <2>5. HostCounts'
    <3>1. \A g \in Hosts : Subscribers(g)' = Subscribers(g) /\ MonitoredOn(g)' = MonitoredOn(g)
      BY <1>2, <2>2 DEF Subscribers, MonitoredOn, Types
    <3> QED
      BY <1>1, <2>1, <3>1 DEF HostCounts
  <2>6. ListsAgree'
    BY <1>1, <1>2, <1>5 DEF ListsAgree
  <2> QED
    BY <1>4, <1>5, <2>3, <2>4, <2>5, <2>6 DEF ExactInv
<1>6. CASE /\ StartEncap(t, k, TRUE)
           /\ \E i \in FreshEncapIds, arrives \in BOOLEAN :
                LET e == [id |-> i, client |-> c, type |-> t, key |-> k]
                IN /\ Replied(arrives)
                   /\ encaps' = encaps \cup {e}
                   /\ held' = IF arrives THEN held \cup {e} ELSE held
  <2>1. PICK i \in FreshEncapIds, arrives \in BOOLEAN :
          LET e == [id |-> i, client |-> c, type |-> t, key |-> k]
          IN /\ Replied(arrives)
             /\ encaps' = encaps \cup {e}
             /\ held' = IF arrives THEN held \cup {e} ELSE held
    BY <1>6
  <2> DEFINE e == [id |-> i, client |-> c, type |-> t, key |-> k]
  <2>2. arrives
    BY <2>1 DEF Replied, Exact
  <2>3. i \in EncapIds /\ i \notin {x.id : x \in encaps \cup dying \cup held}
    BY <2>1 DEF FreshEncapIds
  <2>4. e \in EncapHandles /\ e.type = t /\ e.key = k /\ e.id = i
    BY <2>3 DEF EncapHandles
  <2>5. e \notin encaps \cup dying
    BY <2>3, <2>4
  <2>6. encaps' = encaps \cup {e} /\ held' = held \cup {e}
    BY <2>1, <2>2
  <2> HIDE DEF e
  <2>7. UserJoins(t, k, e)
    BY <1>2, <2>4, <2>5, <2>6 DEF UserJoins, UsersOf
  <2>8. /\ CountBecomes(t, k, table[k].count[t] + 1)
        /\ IF t = "monitoring" /\ table[k].count[t] = 0
           THEN ClientCountBecomes(k.host, presenceTable[k.host].client_count + 1)
           ELSE presenceTable' = presenceTable
    BY <1>1, <1>6, StartEncapEffect
  <2>9. TableCounts'
    BY <1>1, <2>7, <2>8, TableCountsJoin
  <2>10. HostCounts'
    BY <1>1, <1>2, <2>8, HostCountsStart
  <2>11. ListsAgree'
    BY <1>1, <1>2, <2>6 DEF ListsAgree
  <2> QED
    BY <1>4, <1>6, <2>4, <2>7, <2>9, <2>10, <2>11 DEF ExactInv
<1> QED
  BY <1>5, <1>6 DEF Start

\* One user leaves, by a client's stop or by a cleanup.
LEMMA LeaveExact ==
  ASSUME Exact, IInv, IInv', ExactInv, NEW e \in EncapHandles, NEW ok \in BOOLEAN,
         StopEncap(e.type, e.key, ok),
         UNCHANGED <<presences, dyingPresences, subscribed, unaware>>,
         e \in encaps \cup dying,
         ok => /\ (encaps \cup dying)' = (encaps \cup dying) \ {e}
               /\ held' = encaps' /\ encaps' \cap dying' = {}
  PROVE  ExactInv' /\ UserLeaves(e.type, e.key, e) /\ ok
<1>1. /\ TablesOK /\ EntriesUsed /\ FiniteUsers
      /\ ListsAgree /\ TableCounts /\ HostCounts /\ Requests /\ CallbacksShare
      /\ HostsCounted
  BY CountedHosts, UsersFinite DEF IInv, TypeOK, TablesOK, ExactInv
<1>2. e.type \in Types /\ e.key \in Keys
  BY DEF EncapHandles
<1>3. e \in UsersOf(e.type, e.key)
  BY DEF UsersOf
<1>4. table[e.key].count[e.type] > 0
  <2>1. /\ Cardinality(UsersOf(e.type, e.key)) \in Nat
        /\ Cardinality(UsersOf(e.type, e.key)) # 0
    BY <1>1, <1>3, FS_EmptySet DEF FiniteUsers
  <2> QED
    BY <1>1, <1>2, <2>1 DEF TableCounts
<1>5. /\ CountBecomes(e.type, e.key, Dec(table[e.key].count[e.type]))
      /\ IF e.type = "monitoring" /\ table[e.key].count[e.type] = 1
         THEN ClientCountBecomes(e.key.host, Dec(presenceTable[e.key.host].client_count))
         ELSE presenceTable' = presenceTable
      /\ PresenceHandlesKept
  BY <1>1, <1>2, StopEncapEffect
<1>6. HostCounts'
  BY <1>1, <1>2, <1>4, <1>5, HostCountsStop
<1>7. HostsCounted'
  BY <1>6, CountedHostsNext
<1>8. ok /\ Requests'
  BY <1>1, <1>2, <1>4, <1>7, StopRequests
<1>9. UserLeaves(e.type, e.key, e)
  BY <1>2, <1>3, <1>8 DEF UserLeaves, UsersOf
<1>10. TableCounts'
  BY <1>1, <1>2, <1>5, <1>9, TableCountsLeave
<1>11. CallbacksShare'
  BY <1>1, <1>5, <1>7, CallbacksKept
<1>12. ListsAgree'
  BY <1>1, <1>8 DEF ListsAgree
<1> QED
  BY <1>6, <1>8, <1>9, <1>10, <1>11, <1>12 DEF ExactInv

LEMMA StopExact ==
  ASSUME Exact, IInv, IInv', ExactInv, NEW e \in held, Stop(e)
  PROVE  ExactInv' /\ UserLeaves(e.type, e.key, e)
<1>1. e \in EncapHandles /\ e \in encaps /\ held = encaps
  BY DEF IInv, TypeOK, ExactInv, ListsAgree
<1>2. dying = {} /\ UNCHANGED <<presences, dying, dyingPresences, subscribed, unaware>>
  BY DEF Stop, Cleaning
<1>3. CASE StopEncap(e.type, e.key, FALSE) /\ UNCHANGED <<encaps, held>>
  BY <1>1, <1>2, <1>3, LeaveExact
<1>4. CASE /\ StopEncap(e.type, e.key, TRUE)
           /\ EncapListRemove(e)
           /\ \E arrives \in BOOLEAN :
                /\ Replied(arrives)
                /\ held' = IF arrives THEN held \ {e} ELSE held
  <2>1. encaps' = encaps \ {e}
    BY <1>1, <1>4 DEF EncapListRemove, EncapListMatches
  <2>2. held' = held \ {e}
    BY <1>4 DEF Replied, Exact
  <2> QED
    BY <1>1, <1>2, <1>4, <2>1, <2>2, LeaveExact
<1> QED
  BY <1>3, <1>4 DEF Stop

LEMMA CleanupEncapExact ==
  ASSUME Exact, IInv, IInv', ExactInv, NEW e \in dying, CleanupEncap(e)
  PROVE  ExactInv' /\ UserLeaves(e.type, e.key, e)
<1>1. e \in EncapHandles /\ held = encaps /\ encaps \cap dying = {}
  BY DEF IInv, TypeOK, ExactInv, ListsAgree
<1>2. /\ dying' = dying \ {e}
      /\ UNCHANGED <<encaps, presences, dyingPresences, held, subscribed, unaware>>
  BY DEF CleanupEncap, libs
<1>3. PICK ok \in BOOLEAN : StopEncap(e.type, e.key, ok)
  BY DEF CleanupEncap
<1>4. /\ (encaps \cup dying)' = (encaps \cup dying) \ {e}
      /\ held' = encaps' /\ encaps' \cap dying' = {}
  BY <1>1, <1>2
<1> QED
  BY <1>1, <1>2, <1>3, <1>4, LeaveExact
-----------------------------------------------------------------------------
\* A presence callback is added: the users of the services are not concerned.
LEMMA AddPresenceExact ==
  ASSUME Exact, IInv, IInv', ExactInv, NEW c \in Clients, NEW host \in Hosts,
         AddPresence(c, host)
  PROVE  ExactInv' /\ UsersKept
<1>1. /\ TablesOK /\ FiniteUsers
      /\ ListsAgree /\ TableCounts /\ HostCounts /\ Requests /\ CallbacksShare
      /\ HostsCounted
  BY CountedHosts, UsersFinite DEF IInv, TypeOK, TablesOK, ExactInv
<1>2. PICK h \in Handles, i \in FreshPresenceIds, arrives \in BOOLEAN :
        LET p == [id |-> i, client |-> c, host |-> host, handle |-> h]
        IN /\ SubscribePresence("presence", Null, host, Null, h)
           /\ Replied(arrives)
           /\ presences' = presences \cup {p}
           /\ subscribed' = IF arrives THEN subscribed \cup {p} ELSE subscribed
  BY DEF AddPresence
<1> DEFINE p == [id |-> i, client |-> c, host |-> host, handle |-> h]
<1>3. arrives
  BY <1>2 DEF Replied, Exact
<1>4. /\ UNCHANGED <<encaps, dying, dyingPresences, table, held, unaware>>
      /\ dyingPresences = {}
  BY DEF AddPresence, Cleaning
<1>5. p.host = host /\ p.handle = h /\ p \notin presences \cup dyingPresences
  BY <1>2 DEF FreshPresenceIds
<1>6. presences' = presences \cup {p} /\ subscribed' = subscribed \cup {p}
  BY <1>2, <1>3
<1> HIDE DEF p
<1>7. SubscribePresence("presence", Null, host, Null, h)
  BY <1>2
<1>8. /\ ServingKept
      /\ \A x : Serving(x)' => Serving(x) \/ x = h
      /\ HostsSubscribe'
      /\ presenceTable'[host].client_count > 0 /\ presenceTable'[host].handle = h
      /\ \A g \in Hosts : presenceTable[g].client_count > 0 =>
           /\ presenceTable'[g].client_count > 0
           /\ presenceTable'[g].handle = presenceTable[g].handle
  BY <1>1, <1>7, HostSubscribed DEF Requests
<1>9. ClientCountBecomes(host, presenceTable[host].client_count + 1)
  BY <1>1, <1>7, SubscribePresenceEffect
<1>10. UsersKept
  BY <1>4 DEF UsersKept, UsersOf
<1>11. TableCounts'
  BY <1>1, <1>4, <1>10 DEF TableCounts, UsersKept
<1>12. HostCounts'
  <2> SUFFICES ASSUME NEW g \in Hosts
               PROVE  presenceTable'[g].client_count
                        = Cardinality(Subscribers(g)') + Cardinality(MonitoredOn(g)')
    BY DEF HostCounts
  <2>1. /\ presenceTable[g].client_count
             = Cardinality(Subscribers(g)) + Cardinality(MonitoredOn(g))
        /\ IsFiniteSet(Subscribers(g)) /\ Cardinality(Subscribers(g)) \in Nat
        /\ Cardinality(MonitoredOn(g)) \in Nat
        /\ MonitoredOn(g)' = MonitoredOn(g)
    BY <1>1, <1>4 DEF HostCounts, FiniteUsers, MonitoredOn
  <2>2. /\ Subscribers(g)' = IF g = host THEN Subscribers(g) \cup {p} ELSE Subscribers(g)
        /\ p \notin Subscribers(g)
    BY <1>4, <1>5, <1>6 DEF Subscribers
  <2>3. presenceTable'[g].client_count
          = IF g = host THEN presenceTable[g].client_count + 1 ELSE presenceTable[g].client_count
    BY <1>9 DEF ClientCountBecomes
  <2>4. Cardinality(Subscribers(g) \cup {p}) = Cardinality(Subscribers(g)) + 1
    BY <2>1, <2>2, GainsOne
  <2> QED
    BY <2>1, <2>2, <2>3, <2>4
<1>13. Requests'
  <2>1. CachingsObserve'
    BY <1>1, <1>4, <1>8 DEF Requests, CachingsObserve, Observes, ServingKept
  <2>2. MonitoringsShare'
    BY <1>1, <1>4, <1>8 DEF Requests, MonitoringsShare, HostsCounted, Keys
  <2>3. NoLeakedTxn'
    BY <1>1, <1>4, <1>8 DEF Requests, NoLeakedTxn, Serving
  <2> QED
    BY <1>8, <2>1, <2>2, <2>3 DEF Requests
<1>14. CallbacksShare'
  <2> SUFFICES ASSUME NEW q \in presences \cup {p}
               PROVE  q.handle = presenceTable'[q.host].handle
    BY <1>4, <1>6 DEF CallbacksShare
  <2>1. CASE q = p
    BY <1>5, <1>8, <2>1
  <2>2. CASE q \in presences
    <3>1. q.host \in Hosts /\ presenceTable[q.host].client_count > 0
      BY <1>1, <2>2 DEF HostsCounted, IInv, TypeOK, PresenceHandles
    <3> QED
      BY <1>1, <1>8, <2>2, <3>1 DEF CallbacksShare
  <2> QED
    BY <2>1, <2>2
<1>15. ListsAgree'
  BY <1>1, <1>4, <1>6 DEF ListsAgree
<1> QED
  BY <1>10, <1>11, <1>12, <1>13, <1>14, <1>15 DEF ExactInv

\* A presence callback goes, by a client's call or by a cleanup.
LEMMA UnsubscribeExact ==
  ASSUME Exact, IInv, IInv', ExactInv, NEW p \in presences \cup dyingPresences,
         NEW ok \in BOOLEAN, UnsubscribePresence(p.handle, p.host, ctx, ok),
         UNCHANGED <<encaps, dying, table, held, unaware>>,
         (presences \cup dyingPresences)' = (presences \cup dyingPresences) \ {p},
         ok => subscribed' = presences' /\ presences' \cap dyingPresences' = {}
  PROVE  ExactInv' /\ UsersKept
<1>1. /\ TablesOK /\ FiniteUsers
      /\ ListsAgree /\ TableCounts /\ HostCounts /\ Requests /\ CallbacksShare
      /\ HostsCounted
  BY CountedHosts, UsersFinite DEF IInv, TypeOK, TablesOK, ExactInv
<1> DEFINE h == p.handle
           host == p.host
<1>2. /\ host \in Hosts /\ presenceTable[host].client_count > 0
      /\ h = presenceTable[host].handle
      /\ presenceTable[host].client_count \in Nat
  BY <1>1, CountsTyped DEF HostsCounted, CallbacksShare, IInv, TypeOK, PresenceHandles
<1>3. UnsubscribePresence(h, host, ctx, ok) /\ ctx \in [Ctxs -> WorkerCtxs]
  BY <1>1 DEF TablesOK
<1>4. p \in Subscribers(host)
  BY DEF Subscribers
<1>5. \A g \in Hosts :
        /\ Subscribers(g)' = IF g = host THEN Subscribers(g) \ {p} ELSE Subscribers(g)
        /\ MonitoredOn(g)' = MonitoredOn(g)
  BY DEF Subscribers, MonitoredOn
<1> HIDE DEF h, host
<1>6. /\ ok /\ HostsSubscribe'
      /\ IF presenceTable[host].client_count = 1 THEN ServingLost(h) ELSE txns' = txns
  BY <1>1, <1>2, <1>3, HostUnsubscribed DEF Requests
<1>7. /\ ClientCountBecomes(host, Dec(presenceTable[host].client_count))
      /\ PresenceHandlesKept
  BY <1>1, <1>2, <1>3, UnsubscribePresenceEffect
<1>8. HostCounts'
  <2> SUFFICES ASSUME NEW g \in Hosts
               PROVE  presenceTable'[g].client_count
                        = Cardinality(Subscribers(g)') + Cardinality(MonitoredOn(g)')
    BY DEF HostCounts
  <2>1. /\ presenceTable[g].client_count
             = Cardinality(Subscribers(g)) + Cardinality(MonitoredOn(g))
        /\ IsFiniteSet(Subscribers(g)) /\ Cardinality(Subscribers(g)) \in Nat
        /\ Cardinality(MonitoredOn(g)) \in Nat
    BY <1>1 DEF HostCounts, FiniteUsers
  <2>2. presenceTable'[g].client_count
          = IF g = host THEN Dec(presenceTable[g].client_count) ELSE presenceTable[g].client_count
    BY <1>7 DEF ClientCountBecomes
  <2>3. g = host => /\ Cardinality(Subscribers(g) \ {p}) = Cardinality(Subscribers(g)) - 1
                    /\ Cardinality(Subscribers(g)) # 0
    BY <1>4, <2>1, FS_RemoveElement, FS_EmptySet
  <2>4. CASE g = host
    <3>1. Cardinality(Subscribers(g)') = Cardinality(Subscribers(g)) - 1
      BY <1>5, <2>3, <2>4
    <3>2. presenceTable'[g].client_count = presenceTable[g].client_count - 1
      BY <2>1, <2>2, <2>3, <2>4 DEF Dec
    <3> QED
      BY <1>5, <2>1, <3>1, <3>2
  <2>5. CASE g # host
    BY <1>5, <2>1, <2>2, <2>5
  <2> QED
    BY <2>4, <2>5
<1>9. HostsCounted'
  BY <1>8, CountedHostsNext
<1>10. UsersKept
  BY DEF UsersKept, UsersOf
<1>11. TableCounts'
  BY <1>1, <1>10 DEF TableCounts, UsersKept
<1>12. CachingsObserve'
  <2>1. Subscribes(h, host)
    BY <1>1, <1>2 DEF Requests, HostsSubscribe
  <2>2. \A x : (Serving(x) /\ txns[x].kind = "caching") => Serving(x)' /\ txns'[x] = txns[x]
    BY <1>6, <2>1 DEF ServingLost, Subscribes, Serving, Live
  <2> QED
    BY <1>1, <2>2 DEF Requests, CachingsObserve, Observes
<1>13. MonitoringsShare'
  BY <1>1, <1>7, <1>9 DEF Requests, MonitoringsShare, HostsCounted, PresenceHandlesKept, Keys
<1>14. NoLeakedTxn'
  <2> SUFFICES ASSUME NEW x \in Handles, Serving(x)'
               PROVE  \/ \E g \in Hosts : /\ presenceTable'[g].client_count > 0
                                          /\ presenceTable'[g].handle = x
                      \/ \E k \in Keys : /\ table[k].count["caching"] > 0
                                         /\ table[k].handle["caching"] = x
    BY DEF NoLeakedTxn, Serving
  <2>1. Serving(x) /\ (presenceTable[host].client_count = 1 => x # h)
    BY <1>6 DEF ServingLost, Serving, Live
  <2>2. ASSUME NEW g \in Hosts, presenceTable[g].client_count > 0, presenceTable[g].handle = x
        PROVE  presenceTable'[g].client_count > 0 /\ presenceTable'[g].handle = x
    <3>1. presenceTable'[g].client_count > 0
      BY <1>2, <1>7, <2>1, <2>2 DEF ClientCountBecomes, Dec
    <3> QED
      BY <1>7, <2>2, <3>1 DEF PresenceHandlesKept
  <2> QED
    BY <1>1, <2>1, <2>2 DEF Requests, NoLeakedTxn, Serving
<1>15. CallbacksShare'
  BY <1>1, <1>7, <1>9, CallbacksKept
<1>16. ListsAgree'
  BY <1>1, <1>6 DEF ListsAgree
<1> QED
  BY <1>6, <1>8, <1>10, <1>11, <1>12, <1>13, <1>14, <1>15, <1>16 DEF ExactInv, Requests

LEMMA RemovePresenceExact ==
  ASSUME Exact, IInv, IInv', ExactInv, NEW p \in subscribed, RemovePresence(p)
  PROVE  ExactInv' /\ UsersKept
<1>1. p \in presences /\ subscribed = presences
  BY DEF ExactInv, ListsAgree
<1>2. PICK ok \in BOOLEAN, arrives \in BOOLEAN :
        /\ UnsubscribePresence(p.handle, p.host, ctx, ok)
        /\ Replied(arrives)
        /\ subscribed' = IF ok /\ arrives THEN subscribed \ {p} ELSE subscribed
  BY DEF RemovePresence
<1>3. arrives
  BY <1>2 DEF Replied, Exact
<1>4. presences' = presences \ {p}
  BY <1>1 DEF RemovePresence, PresenceListRemove, PresenceListMatches
<1>5. dyingPresences = {} /\ UNCHANGED <<encaps, dying, dyingPresences, table, held, unaware>>
  BY DEF RemovePresence, Cleaning
<1> QED
  BY <1>1, <1>2, <1>3, <1>4, <1>5, UnsubscribeExact

LEMMA CleanupPresenceExact ==
  ASSUME Exact, IInv, IInv', ExactInv, NEW p \in dyingPresences, CleanupPresence(p)
  PROVE  ExactInv' /\ UsersKept
<1>1. subscribed = presences /\ presences \cap dyingPresences = {}
  BY DEF ExactInv, ListsAgree
<1>2. PICK ok \in BOOLEAN : UnsubscribePresence(p.handle, p.host, ctx, ok)
  BY DEF CleanupPresence
<1>3. /\ dyingPresences' = dyingPresences \ {p}
      /\ UNCHANGED <<encaps, presences, dying, table, held, subscribed, unaware>>
  BY DEF CleanupPresence, libs
<1>4. /\ (presences \cup dyingPresences)' = (presences \cup dyingPresences) \ {p}
      /\ subscribed' = presences' /\ presences' \cap dyingPresences' = {}
  BY <1>1, <1>3
<1> QED
  BY <1>2, <1>3, <1>4, UnsubscribeExact
-----------------------------------------------------------------------------
\* Nothing the counts are compared with changes, and every request that is
\* not being cancelled stays.
LEMMA OthersExact ==
  ASSUME IInv, ExactInv, UNCHANGED tables,
         (encaps \cup dying)' = encaps \cup dying,
         (presences \cup dyingPresences)' = presences \cup dyingPresences,
         ServingKept, \A x : Serving(x)' => Serving(x), ListsAgree'
  PROVE  ExactInv' /\ UsersKept
<1>1. UNCHANGED <<table, presenceTable>>
  BY DEF tables
<1>2. UsersKept
  BY DEF UsersKept, UsersOf
<1>3. TableCounts'
  BY <1>1, <1>2 DEF ExactInv, TableCounts, UsersKept
<1>4. HostCounts'
  <2>1. \A g \in Hosts : Subscribers(g)' = Subscribers(g) /\ MonitoredOn(g)' = MonitoredOn(g)
    BY <1>1 DEF Subscribers, MonitoredOn
  <2> QED
    BY <1>1, <2>1 DEF ExactInv, HostCounts
<1>5. Requests'
  BY <1>1, RequestsKept DEF ExactInv
<1>6. CallbacksShare'
  BY <1>1 DEF ExactInv, CallbacksShare
<1> QED
  BY <1>2, <1>3, <1>4, <1>5, <1>6 DEF ExactInv

LEMMA ClientExitExact ==
  ASSUME IInv, ExactInv, NEW c \in Clients, ClientExit(c)
  PROVE  ExactInv' /\ UsersKept
<1>1. /\ held = encaps /\ subscribed = presences
      /\ dying = {} /\ dyingPresences = {} /\ unaware = {}
  BY DEF ExactInv, ListsAgree, ClientExit, NameOwnerChanged, Cleaning
<1>2. /\ dying' = EncapsOf(c) /\ encaps' = encaps \ EncapsOf(c)
      /\ dyingPresences' = PresencesOf(c) /\ presences' = presences \ PresencesOf(c)
      /\ UNCHANGED tables /\ UNCHANGED txns
      /\ held' = {e \in held : e.client # c}
      /\ subscribed' = {p \in subscribed : p.client # c}
      /\ unaware' = unaware \ {c}
  BY DEF ClientExit, NameOwnerChanged, ioty
<1>3. ListsAgree'
  BY <1>1, <1>2 DEF ListsAgree, EncapsOf, PresencesOf
<1>4. /\ (encaps \cup dying)' = encaps \cup dying
      /\ (presences \cup dyingPresences)' = presences \cup dyingPresences
  BY <1>1, <1>2 DEF EncapsOf, PresencesOf
<1>5. ServingKept /\ \A x : Serving(x)' => Serving(x)
  BY <1>2 DEF ServingKept, Serving, Live
<1> QED
  BY <1>2, <1>3, <1>4, <1>5, OthersExact

\* An observation ends only after it was cancelled.
LEMMA ObserveDeregisterExact ==
  ASSUME Exact, IInv, ExactInv, NEW h \in Handles, ObserveDeregister(h)
  PROVE  ExactInv' /\ UsersKept
<1>1. txns[h].cancelling
  BY DEF ObserveDeregister, Exact
<1>2. txns' = [txns EXCEPT ![h] = NoTxn] /\ UNCHANGED <<lists, tables, libs, unaware>>
  BY DEF ObserveDeregister
<1>3. ServingKept /\ \A x : Serving(x)' => Serving(x)
  BY <1>1, <1>2 DEF ServingKept, Serving, Live, IInv, TypeOK, NoTxn
<1>4. ListsAgree'
  BY <1>2 DEF ExactInv, ListsAgree, lists, libs
<1> QED
  BY <1>2, <1>3, <1>4, OthersExact DEF lists
-----------------------------------------------------------------------------
LEMMA InitExact == Init => ExactInv
<1> SUFFICES ASSUME Init PROVE ExactInv
  OBVIOUS
<1>1. /\ \A k \in Keys, t \in Types : table[k].count[t] = 0
      /\ \A g \in Hosts : presenceTable[g].client_count = 0
      /\ \A h \in Handles : ~Live(h)
  BY DEF Init, NoEntry, NoPresence, NoTxn, Live
<1>2. /\ \A t \in Types, k \in Keys : UsersOf(t, k) = {}
      /\ \A g \in Hosts : Subscribers(g) = {} /\ MonitoredOn(g) = {}
  BY <1>1 DEF Init, UsersOf, Subscribers, MonitoredOn, Types
<1>3. TableCounts /\ HostCounts
  <2>1. Cardinality({}) = 0
    BY FS_EmptySet
  <2>2. TableCounts
    BY <1>1, <1>2, <2>1 DEF TableCounts
  <2>3. ASSUME NEW g \in Hosts
        PROVE  presenceTable[g].client_count
                 = Cardinality(Subscribers(g)) + Cardinality(MonitoredOn(g))
    <3>1. Cardinality(Subscribers(g)) = 0 /\ Cardinality(MonitoredOn(g)) = 0
      BY <1>2, <2>1
    <3>2. presenceTable[g].client_count = 0
      BY <1>1
    <3> QED
      BY <3>1, <3>2
  <2> QED
    BY <2>2, <2>3 DEF HostCounts
<1>4. Requests
  BY <1>1 DEF Requests, CachingsObserve, HostsSubscribe, MonitoringsShare, NoLeakedTxn, Types
<1> QED
  BY <1>3, <1>4 DEF Init, ExactInv, ListsAgree, CallbacksShare

\* What a step of the daemon is to the services.
ServiceStep ==
  \/ UsersKept
  \/ \E t \in Types, k \in Keys, e \in EncapHandles : UserJoins(t, k, e) \/ UserLeaves(t, k, e)

LEMMA NextExact ==
  ASSUME Exact, IInv, IInv', ExactInv, [Next]_vars
  PROVE  ExactInv' /\ ServiceStep
<1>1. ASSUME NEW c \in Clients, NEW t \in Types, NEW k \in Keys, Start(c, t, k)
      PROVE  ExactInv' /\ ServiceStep
  BY <1>1, StartExact DEF ServiceStep
<1>2. ASSUME NEW e \in held, Stop(e)
      PROVE  ExactInv' /\ ServiceStep
  <2>1. e \in EncapHandles /\ e.type \in Types /\ e.key \in Keys
    BY DEF IInv, TypeOK, EncapHandles
  <2> QED
    BY <1>2, <2>1, StopExact DEF ServiceStep
<1>3. ASSUME NEW c \in Clients, NEW host \in Hosts, AddPresence(c, host)
      PROVE  ExactInv' /\ ServiceStep
  BY <1>3, AddPresenceExact DEF ServiceStep
<1>4. ASSUME NEW p \in subscribed, RemovePresence(p)
      PROVE  ExactInv' /\ ServiceStep
  BY <1>4, RemovePresenceExact DEF ServiceStep
<1>5. ASSUME NEW c \in Clients, ClientExit(c)
      PROVE  ExactInv' /\ ServiceStep
  BY <1>5, ClientExitExact DEF ServiceStep
<1>6. ~ \E c \in Clients : ReleaseName(c)
  BY DEF ReleaseName, Exact
<1>7. ASSUME NEW p \in dyingPresences, CleanupPresence(p)
      PROVE  ExactInv' /\ ServiceStep
  BY <1>7, CleanupPresenceExact DEF ServiceStep
<1>8. ASSUME NEW e \in dying, CleanupEncap(e)
      PROVE  ExactInv' /\ ServiceStep
  <2>1. e \in EncapHandles /\ e.type \in Types /\ e.key \in Keys
    BY DEF IInv, TypeOK, EncapHandles
  <2> QED
    BY <1>8, <2>1, CleanupEncapExact DEF ServiceStep
<1>9. ASSUME NEW h \in Handles, ObserveDeregister(h)
      PROVE  ExactInv' /\ ServiceStep
  BY <1>9, ObserveDeregisterExact DEF ServiceStep
<1>10. ~DaemonRestart
  BY DEF DaemonRestart, Exact
<1>11. ~ \E c \in Clients : NameOwnerNotify(c)
  BY DEF NameOwnerNotify, ExactInv, ListsAgree
<1>12. CASE UNCHANGED vars
  <2>1. UNCHANGED <<lists, tables, ioty, libs, unaware>>
    BY <1>12 DEF vars
  <2>2. ServingKept /\ \A x : Serving(x)' => Serving(x)
    BY <2>1 DEF ServingKept, Serving, Live, ioty
  <2>3. ListsAgree'
    BY <2>1 DEF ExactInv, ListsAgree, lists, libs
  <2> QED
    BY <2>1, <2>2, <2>3, OthersExact DEF lists, ServiceStep
<1> QED
  BY <1>1, <1>2, <1>3, <1>4, <1>5, <1>6, <1>7, <1>8, <1>9, <1>10, <1>11, <1>12 DEF Next

LEMMA ExactInvariant ==
  ASSUME Exact PROVE Spec => [](IInv /\ ExactInv)
<1>1. IInv /\ IInv' /\ ExactInv /\ [Next]_vars => ExactInv'
  BY NextExact
<1> QED
  BY <1>1, InitExact, Invariant, PTL DEF Spec
-----------------------------------------------------------------------------
\* monitoring_count and caching_count are the entries of the client lists,
\* client_count of an address its presence callbacks and monitored
\* resources, and the lists are what the clients' libs believe.
THEOREM CountsAgree == Spec => []CountsExact
<1>1. CASE Exact
  <2>1. ExactInv => CountsExact
    BY DEF ExactInv, ListsAgree, TableCounts, HostCounts, CountsExact
  <2> QED
    BY <1>1, <2>1, ExactInvariant, PTL
<1>2. CASE ~Exact
  <2>1. CountsExact
    BY <1>2 DEF CountsExact
  <2> QED
    BY <2>1, PTL
<1> QED
  BY <1>1, <1>2

\* What a client's lib believes in, the daemon serves: the entry and its
\* request are there, and the request is the one a stop will cancel.
THEOREM AllServed == ASSUME Exact PROVE Spec => []Served
<1>1. IInv /\ ExactInv => Served
  <2> SUFFICES ASSUME IInv, ExactInv PROVE Served
    OBVIOUS
  <2>1. /\ TablesOK /\ FiniteUsers /\ EntriesUsed
        /\ TableCounts /\ HostCounts /\ Requests /\ CallbacksShare
        /\ HostsCounted /\ held = encaps /\ subscribed = presences
    BY CountedHosts, UsersFinite DEF IInv, TypeOK, TablesOK, ExactInv, ListsAgree
  <2>2. HeldServed
    <3> SUFFICES ASSUME NEW e \in encaps
                 PROVE  /\ table[e.key].count[e.type] > 0
                        /\ Serving(table[e.key].handle[e.type])
                        /\ txns[table[e.key].handle[e.type]].host = e.key.host
      BY <2>1 DEF HeldServed, Serving
    <3>1. e.type \in Types /\ e.key \in Keys /\ e \in UsersOf(e.type, e.key)
      BY DEF IInv, TypeOK, EncapHandles, UsersOf
    <3>2. table[e.key].count[e.type] > 0
      <4>1. /\ Cardinality(UsersOf(e.type, e.key)) \in Nat
            /\ Cardinality(UsersOf(e.type, e.key)) # 0
        BY <2>1, <3>1, FS_EmptySet DEF FiniteUsers
      <4> QED
        BY <2>1, <3>1, <4>1 DEF TableCounts
    <3>4. CASE e.type = "caching"
      BY <2>1, <3>1, <3>2, <3>4 DEF Requests, CachingsObserve, Observes
    <3>5. CASE e.type = "monitoring"
      <4>1. /\ presenceTable[e.key.host].client_count > 0 /\ e.key.host \in Hosts
            /\ table[e.key].handle["monitoring"] = presenceTable[e.key.host].handle
        BY <2>1, <3>1, <3>2, <3>5 DEF HostsCounted, Requests, MonitoringsShare, Keys
      <4> QED
        BY <2>1, <3>2, <3>5, <4>1 DEF Requests, HostsSubscribe, Subscribes
    <3> QED
      BY <3>1, <3>4, <3>5 DEF Types
  <2>3. SubscribedServed
    <3> SUFFICES ASSUME NEW p \in presences
                 PROVE  /\ presenceTable[p.host].client_count > 0
                        /\ presenceTable[p.host].handle = p.handle
                        /\ Live(p.handle) /\ txns[p.handle].host = p.host
      BY <2>1 DEF SubscribedServed
    <3>1. p.host \in Hosts /\ presenceTable[p.host].client_count > 0
      BY <2>1 DEF HostsCounted, IInv, TypeOK, PresenceHandles
    <3> QED
      BY <2>1, <3>1 DEF CallbacksShare, Requests, HostsSubscribe, Subscribes, Serving
  <2> QED
    BY <2>2, <2>3 DEF Served
<1> QED
  BY <1>1, ExactInvariant, PTL

\* Every request that is not being cancelled belongs to an entry of a table.
THEOREM NothingLeaked == ASSUME Exact PROVE Spec => []NoLeakedTxn
<1>1. ExactInv => NoLeakedTxn
  BY DEF ExactInv, Requests
<1> QED
  BY <1>1, ExactInvariant, PTL

\* A client's stop takes one user off a count that another client's entry
\* keeps above zero.
THEOREM OthersKept == ASSUME Exact PROVE Spec => StopLeavesOthers
<1> DEFINE Kept == \A s \in held : Stop(s) =>
             \A e \in held : (e.client # s.client /\ table[e.key].count[e.type] > 0)
                              => table'[e.key].count[e.type] > 0
<1>1. IInv /\ IInv' /\ ExactInv /\ [Next]_vars => [Kept]_vars
  <2> SUFFICES ASSUME IInv, IInv', ExactInv,
                      NEW s \in held, Stop(s), NEW e \in held, e.client # s.client
               PROVE  table'[e.key].count[e.type] > 0
    OBVIOUS
  <2>1. /\ FiniteUsers' /\ TableCounts'
        /\ UserLeaves(s.type, s.key, s)
    BY StopExact, UsersFiniteNext DEF IInv, ExactInv
  <2>2. e.type \in Types /\ e.key \in Keys /\ e \in UsersOf(e.type, e.key)
    BY DEF IInv, TypeOK, EncapHandles, UsersOf, ExactInv, ListsAgree
  <2>3. e \in UsersOf(e.type, e.key)'
    BY <2>1, <2>2 DEF UserLeaves
  <2>4. /\ Cardinality(UsersOf(e.type, e.key)') \in Nat
        /\ Cardinality(UsersOf(e.type, e.key)') # 0
    BY <2>1, <2>3, FS_EmptySet DEF FiniteUsers
  <2> QED
    BY <2>1, <2>2, <2>4 DEF TableCounts
<1> QED
  BY <1>1, ExactInvariant, PTL DEF Spec, StopLeavesOthers
-----------------------------------------------------------------------------
\* A service runs exactly while it has a user.
LEMMA RunsWhileUsed ==
  IInv /\ ExactInv => \A t \in Types, k \in Keys : Running(t, k) <=> UsersOf(t, k) # {}
<1> SUFFICES ASSUME IInv, ExactInv, NEW t \in Types, NEW k \in Keys
             PROVE  Running(t, k) <=> UsersOf(t, k) # {}
  OBVIOUS
<1>1. /\ FiniteUsers /\ TableCounts /\ HostCounts /\ Requests /\ HostsCounted
  BY CountedHosts, UsersFinite DEF IInv, ExactInv
<1>2. table[k].count[t] > 0 <=> UsersOf(t, k) # {}
  <2>1. /\ IsFiniteSet(UsersOf(t, k)) /\ Cardinality(UsersOf(t, k)) \in Nat
        /\ table[k].count[t] = Cardinality(UsersOf(t, k))
    BY <1>1 DEF FiniteUsers, TableCounts
  <2> QED
    BY <2>1, FS_EmptySet
<1>3. ASSUME table[k].count[t] > 0 PROVE Serving(table[k].handle[t])
  <2>1. CASE t = "caching"
    BY <1>1, <1>3, <2>1 DEF Requests, CachingsObserve, Observes
  <2>2. CASE t = "monitoring"
    <3>1. /\ presenceTable[k.host].client_count > 0 /\ k.host \in Hosts
          /\ table[k].handle["monitoring"] = presenceTable[k.host].handle
      BY <1>1, <1>3, <2>2 DEF HostsCounted, Requests, MonitoringsShare, Keys
    <3> QED
      BY <1>1, <2>2, <3>1 DEF Requests, HostsSubscribe, Subscribes
  <2> QED
    BY <2>1, <2>2 DEF Types
<1> QED
  BY <1>2, <1>3 DEF Running, Serving

LEMMA RunsWhileUsedNext ==
  (IInv /\ ExactInv => \A t \in Types, k \in Keys : Running(t, k) <=> UsersOf(t, k) # {})'
BY RunsWhileUsed, PTL

\* The daemon implements SharedService.
THEOREM ServiceRefined == ASSUME Exact PROVE Spec => ImplementsService
<1> DEFINE users == [s \in Services |-> UsersOf(s[1], s[2])]
           running == {s \in Services : Running(s[1], s[2])}
<1>1. Init => Service!Init
  <2> SUFFICES ASSUME Init PROVE Service!Init
    OBVIOUS
  <2>1. \A t \in Types, k \in Keys : UsersOf(t, k) = {} /\ ~Running(t, k)
    BY DEF Init, UsersOf, Running, NoEntry, Types
  <2>2. \A s \in Services : UsersOf(s[1], s[2]) = {} /\ ~Running(s[1], s[2])
    BY <2>1 DEF Services
  <2>3. users = [s \in Services |-> {}] /\ running = {}
    BY <2>2
  <2> QED
    BY <2>3 DEF Service!Init
<1>2. ASSUME IInv, ExactInv, IInv', ExactInv', [Next]_vars
      PROVE  [Service!Next]_<<users, running>>
  <2>1. \A s \in Services : /\ Running(s[1], s[2]) <=> UsersOf(s[1], s[2]) # {}
                            /\ Running(s[1], s[2])' <=> UsersOf(s[1], s[2])' # {}
    BY <1>2, RunsWhileUsed, RunsWhileUsedNext DEF Services
  <2>2. CASE UsersKept
    <3>1. \A s \in Services : UsersOf(s[1], s[2])' = UsersOf(s[1], s[2])
      BY <2>2 DEF UsersKept, Services
    <3> QED
      BY <2>1, <3>1
  <2>3. ASSUME NEW t \in Types, NEW k \in Keys, NEW e \in EncapHandles, UserJoins(t, k, e)
        PROVE  Service!Next
    <3> DEFINE v == <<t, k>>
    <3>1. v \in Services /\ v[1] = t /\ v[2] = k
      BY DEF Services
    <3>2. \A s \in Services : UsersOf(s[1], s[2])'
            = IF s = v THEN UsersOf(s[1], s[2]) \cup {e} ELSE UsersOf(s[1], s[2])
      BY <2>3 DEF UserJoins, Services
    <3>3. e \notin UsersOf(v[1], v[2])
      BY <2>3, <3>1 DEF UserJoins
    <3> HIDE DEF v
    <3>4. users' = [users EXCEPT ![v] = @ \cup {e}]
      BY <3>1, <3>2
    <3>5. running' = running \cup {v}
      BY <2>1, <3>1, <3>2
    <3>6. Service!Join(v, e)
      BY <3>1, <3>3, <3>4, <3>5 DEF Service!Join
    <3> QED
      BY <3>1, <3>6 DEF Service!Next
  <2>4. ASSUME NEW t \in Types, NEW k \in Keys, NEW e \in EncapHandles, UserLeaves(t, k, e)
        PROVE  Service!Next
    <3> DEFINE v == <<t, k>>
    <3>1. v \in Services /\ v[1] = t /\ v[2] = k
      BY DEF Services
    <3>2. \A s \in Services : UsersOf(s[1], s[2])'
            = IF s = v THEN UsersOf(s[1], s[2]) \ {e} ELSE UsersOf(s[1], s[2])
      BY <2>4 DEF UserLeaves, Services
    <3>3. e \in UsersOf(v[1], v[2])
      BY <2>4, <3>1 DEF UserLeaves
    <3> HIDE DEF v
    <3>4. users' = [users EXCEPT ![v] = @ \ {e}]
      BY <3>1, <3>2
    <3>5. running' = IF users[v] = {e} THEN running \ {v} ELSE running
      BY <2>1, <3>1, <3>2, <3>3
    <3>6. Service!Leave(v, e)
      BY <3>1, <3>3, <3>4, <3>5 DEF Service!Leave
    <3> QED
      BY <3>1, <3>6 DEF Service!Next
  <2>5. ServiceStep
    BY <1>2, NextExact
  <2> QED
    BY <2>2, <2>3, <2>4, <2>5 DEF ServiceStep
<1> QED
  BY <1>1, <1>2, ExactInvariant, PTL DEF Spec, ImplementsService, Service!Spec
-----------------------------------------------------------------------------
(* The worker contexts: an entry of the encap table and up to two            *)
(* transactions of IoTivity share one; three functions of icd-ioty.c free it. *)

\* Whoever uses a context for t has set its flag, and a flag keeps it.
UsersFlagged ==
  \A k \in Keys, t \in Types : table[k].count[t] > 0 => ctx[table[k].worker_ctx].flag[t]
TxnsFlagged ==
  \A h \in Handles : txns[h].kind \in Types =>
    txns[h].ctx \in Ctxs /\ ctx[txns[h].ctx].flag[txns[h].kind]
FlagKeeps == \A w \in Ctxs, t \in Types : ctx[w].flag[t] => ctx[w].allocated

\* A context belongs to one entry, and to transactions for its resource: at
\* most one observation and one presence subscription.
OwnCtx ==
  \A k1, k2 \in Keys :
    (InTable(k1) /\ table[k1].worker_ctx = table[k2].worker_ctx) => k1 = k2
TxnsForEntry ==
  \A h \in Handles, k \in Keys :
    (txns[h].kind \in Types /\ txns[h].ctx = table[k].worker_ctx) =>
      txns[h].uri = k.uri /\ txns[h].host = k.host
OneTxn ==
  \A x, y \in Handles :
    (txns[x].kind \in Types /\ txns[x].kind = txns[y].kind /\ txns[x].ctx = txns[y].ctx)
      => x = y

\* What is still to end is an observation, and its entry has no caching.
EndingUnused ==
  \A h \in Handles : txns[h].cancelling =>
    /\ txns[h].kind = "caching"
    /\ \A k \in Keys :
         table[k].worker_ctx = txns[h].ctx => table[k].count["caching"] = 0

ValidOwned == \A w \in Ctxs : ctx[w].is_valid => \E k \in Keys : table[k].worker_ctx = w

CtxInv ==
  /\ UsersFlagged /\ TxnsFlagged /\ FlagKeeps
  /\ OwnCtx /\ TxnsForEntry /\ OneTxn
  /\ EndingUnused /\ ValidOwned
-----------------------------------------------------------------------------
\* What the lemmas below need of the other invariants.
CtxTyped == TablesOK /\ EntriesUsed

\* Null is no context, and an entry of the table has one.
LEMMA EntryCtx ==
  ASSUME CtxTyped, NEW k \in Keys
  PROVE  /\ Null \notin Ctxs
         /\ InTable(k) <=> table[k].worker_ctx \in Ctxs
         /\ table[k].worker_ctx \in Ctxs \cup {Null}
         /\ \A t \in Types : table[k].count[t] > 0 => InTable(k)
         /\ InTable(k) => \E t \in Types : table[k].count[t] > 0
<1>1. table[k] \in Entries
  BY DEF CtxTyped, TablesOK
<1> QED
  BY <1>1, NullAssumption DEF CtxTyped, EntriesUsed, InTable, Entries

\* No entry is added, and an entry that stays keeps its context and gets no
\* first user.
EntriesShrink ==
  \A k \in Keys :
    /\ table'[k].worker_ctx \in {table[k].worker_ctx, Null}
    /\ \A t \in Types :
         \/ table'[k].count[t] = 0
         \/ /\ table'[k].count[t] > 0 /\ table[k].count[t] > 0
            /\ table'[k].worker_ctx = table[k].worker_ctx

\* f is ctx with the contexts of the entries that go no longer valid.
Invalidated(f) ==
  /\ f \in [Ctxs -> WorkerCtxs]
  /\ \A w \in Ctxs :
       /\ f[w].allocated = ctx[w].allocated /\ f[w].flag = ctx[w].flag
       /\ f[w].is_valid => ctx[w].is_valid /\ \E k \in Keys : table'[k].worker_ctx = w

\* Nobody who stays in the table uses the context of transaction h for kind t.
NoUserOn(h, t) ==
  \A k \in Keys : table'[k].worker_ctx = txns[h].ctx => table'[k].count[t] = 0

\* What an entry does when the last user of some type leaves it.
LEMMA EntriesStillOwn ==
  ASSUME CtxTyped, CtxInv, EntriesShrink
  PROVE  OwnCtx'
<1> SUFFICES ASSUME NEW k1 \in Keys, NEW k2 \in Keys, InTable(k1)',
                    table'[k1].worker_ctx = table'[k2].worker_ctx
             PROVE  k1 = k2
  BY DEF OwnCtx
<1> QED
  BY DEF EntriesShrink, InTable, CtxInv, OwnCtx

\* _free_encap_worker_presence_ctx and _free_encap_worker_observe_ctx take one
\* flag of one context, and the context only without the other flag.
LEMMA FreeWorkerCtxEffect ==
  ASSUME NEW f \in [Ctxs -> WorkerCtxs], NEW t \in Types, NEW w \in Ctxs
  PROVE  LET g == FreeWorkerCtx(f, t, w)
         IN /\ g \in [Ctxs -> WorkerCtxs]
            /\ \A x \in Ctxs : x # w => g[x] = f[x]
            /\ \A t2 \in Types : t2 # t => g[w].flag[t2] = f[w].flag[t2]
            /\ ~g[w].flag[t]
            /\ \A t2 \in Types : g[w].flag[t2] => g[w].allocated = f[w].allocated
            /\ g[w].is_valid => f[w].is_valid
<1> DEFINE g == FreeWorkerCtx(f, t, w)
<1>1. /\ g \in [Ctxs -> WorkerCtxs]
      /\ \A x \in Ctxs : x # w => g[x] = f[x]
  BY FreeWorkerCtxTyped DEF FreeWorkerCtx
<1>2. /\ f[w] \in WorkerCtxs /\ f[w].flag \in [Types -> BOOLEAN]
      /\ \A t2 \in Types : t2 # t => t2 = Other(t)
      /\ Other(t) \in Types /\ Other(t) # t
  BY DEF WorkerCtxs, Types, Other
<1>3. g[w] = IF f[w].flag[Other(t)] THEN [f[w] EXCEPT !.flag[t] = FALSE] ELSE FreedCtx
  BY DEF FreeWorkerCtx
<1>4. CASE f[w].flag[Other(t)]
  <2>1. /\ g[w].flag = [f[w].flag EXCEPT ![t] = FALSE]
        /\ g[w].allocated = f[w].allocated /\ g[w].is_valid = f[w].is_valid
    BY <1>2, <1>3, <1>4 DEF WorkerCtxs
  <2> QED
    BY <1>1, <1>2, <2>1
<1>5. CASE ~f[w].flag[Other(t)]
  <2>1. /\ \A t2 \in Types : ~g[w].flag[t2]
        /\ ~g[w].is_valid
    BY <1>3, <1>5 DEF FreedCtx
  <2>2. f[w].flag[Other(t)] = FALSE
    BY <1>2, <1>5
  <2>3. \A t2 \in Types : t2 # t => g[w].flag[t2] = f[w].flag[t2]
    <3>1. g[w].flag[Other(t)] = FALSE
      BY <1>2, <1>3, <1>5 DEF FreedCtx
    <3> QED
      BY <1>2, <2>2, <3>1
  <2> QED
    BY <1>1, <2>1, <2>3
<1> QED
  BY <1>4, <1>5

\* Users leave, and no transaction changes.
LEMMA CtxUsersLeave ==
  ASSUME CtxTyped, CtxInv, EntriesShrink, NEW f, Invalidated(f), txns' = txns, ctx' = f
  PROVE  CtxInv'
<1>1. UsersFlagged'
  <2> SUFFICES ASSUME NEW k \in Keys, NEW t \in Types, table'[k].count[t] > 0
               PROVE  ctx'[table'[k].worker_ctx].flag[t]
    BY DEF UsersFlagged
  <2>1. /\ table[k].count[t] > 0 /\ table'[k].worker_ctx = table[k].worker_ctx
        /\ table[k].worker_ctx \in Ctxs
    BY EntryCtx DEF EntriesShrink
  <2> QED
    BY <2>1 DEF Invalidated, CtxInv, UsersFlagged
<1>2. TxnsFlagged' /\ FlagKeeps'
  BY DEF CtxInv, TxnsFlagged, FlagKeeps, Invalidated
<1>3. OwnCtx'
  BY EntriesStillOwn
<1>4. TxnsForEntry'
  <2> SUFFICES ASSUME NEW h \in Handles, NEW k \in Keys, txns[h].kind \in Types,
                      txns[h].ctx = table'[k].worker_ctx
               PROVE  txns[h].uri = k.uri /\ txns[h].host = k.host
    BY DEF TxnsForEntry
  <2>1. txns[h].ctx \in Ctxs
    BY DEF CtxInv, TxnsFlagged
  <2>2. txns[h].ctx = table[k].worker_ctx
    BY <2>1, EntryCtx DEF EntriesShrink
  <2> QED
    BY <2>2 DEF CtxInv, TxnsForEntry
<1>5. OneTxn'
  BY DEF CtxInv, OneTxn
<1>6. EndingUnused'
  <2> SUFFICES ASSUME NEW h \in Handles, txns[h].cancelling, NEW k \in Keys,
                      table'[k].worker_ctx = txns[h].ctx
               PROVE  table'[k].count["caching"] = 0
    BY DEF CtxInv, EndingUnused
  <2>1. txns[h].ctx \in Ctxs
    BY DEF CtxInv, TxnsFlagged, EndingUnused, Types
  <2>2. txns[h].ctx = table[k].worker_ctx
    BY <2>1, EntryCtx DEF EntriesShrink
  <2>3. table[k].count["caching"] = 0
    BY <2>2 DEF CtxInv, EndingUnused
  <2> QED
    BY <2>3 DEF EntriesShrink, Types
<1>7. ValidOwned'
  BY DEF CtxInv, ValidOwned, Invalidated
<1> QED
  BY <1>1, <1>2, <1>3, <1>4, <1>5, <1>6, <1>7 DEF CtxInv

\* Users leave, and the observation behind the last of them is asked to end.
LEMMA CtxTxnAsked ==
  ASSUME CtxTyped, CtxInv, EntriesShrink, NEW f, Invalidated(f),
         NEW h \in Handles, txns[h].kind = "caching", NoUserOn(h, "caching"),
         txns' = [txns EXCEPT ![h].cancelling = TRUE], ctx' = f
  PROVE  CtxInv'
<1>1. /\ \A x \in Handles : /\ txns'[x].kind = txns[x].kind /\ txns'[x].uri = txns[x].uri
                            /\ txns'[x].host = txns[x].host /\ txns'[x].ctx = txns[x].ctx
                            /\ x # h => txns'[x].cancelling = txns[x].cancelling
  <2>1. txns \in [Handles -> Txns]
    BY DEF CtxTyped, TablesOK
  <2> QED
    BY <2>1 DEF Txns
<1>2. \A x \in Handles, k \in Keys :
        (txns[x].kind \in Types /\ txns[x].ctx = table'[k].worker_ctx)
          => txns[x].ctx = table[k].worker_ctx
  <2> SUFFICES ASSUME NEW x \in Handles, NEW k \in Keys, txns[x].kind \in Types,
                      txns[x].ctx = table'[k].worker_ctx
               PROVE  txns[x].ctx = table[k].worker_ctx
    OBVIOUS
  <2>1. txns[x].ctx \in Ctxs
    BY DEF CtxInv, TxnsFlagged
  <2> QED
    BY <2>1, EntryCtx DEF EntriesShrink
<1>3. UsersFlagged'
  <2> SUFFICES ASSUME NEW k \in Keys, NEW t \in Types, table'[k].count[t] > 0
               PROVE  ctx'[table'[k].worker_ctx].flag[t]
    BY DEF UsersFlagged
  <2>1. /\ table[k].count[t] > 0 /\ table'[k].worker_ctx = table[k].worker_ctx
        /\ table[k].worker_ctx \in Ctxs
    BY EntryCtx DEF EntriesShrink
  <2> QED
    BY <2>1 DEF Invalidated, CtxInv, UsersFlagged
<1>4. TxnsFlagged' /\ FlagKeeps'
  BY <1>1 DEF CtxInv, TxnsFlagged, FlagKeeps, Invalidated
<1>5. OwnCtx'
  BY EntriesStillOwn
<1>6. TxnsForEntry' /\ OneTxn'
  BY <1>1, <1>2 DEF CtxInv, TxnsForEntry, OneTxn
<1>7. EndingUnused'
  <2> SUFFICES ASSUME NEW x \in Handles, txns'[x].cancelling
               PROVE  /\ txns'[x].kind = "caching"
                      /\ \A k \in Keys : table'[k].worker_ctx = txns'[x].ctx
                                           => table'[k].count["caching"] = 0
    BY DEF EndingUnused
  <2>1. CASE x = h
    BY <1>1, <2>1 DEF NoUserOn
  <2>2. CASE x # h
    <3>1. txns[x].cancelling /\ txns[x].kind = "caching"
      BY <1>1, <2>2 DEF CtxInv, EndingUnused
    <3>2. ASSUME NEW k \in Keys, table'[k].worker_ctx = txns'[x].ctx
          PROVE  table'[k].count["caching"] = 0
      <4>1. table[k].count["caching"] = 0
        BY <1>1, <1>2, <3>1, <3>2 DEF CtxInv, EndingUnused, Types
      <4> QED
        BY <4>1 DEF EntriesShrink, Types
    <3> QED
      BY <1>1, <3>1, <3>2
  <2> QED
    BY <2>1, <2>2
<1>8. ValidOwned'
  BY DEF CtxInv, ValidOwned, Invalidated
<1> QED
  BY <1>3, <1>4, <1>5, <1>6, <1>7, <1>8 DEF CtxInv

\* Users leave, a transaction is deleted, and its cd callback drops its flag.
LEMMA CtxTxnEnds ==
  ASSUME CtxTyped, CtxInv, EntriesShrink, NEW f, Invalidated(f),
         NEW h \in Handles, Live(h), txns[h].kind \in Types => NoUserOn(h, txns[h].kind),
         txns' = [txns EXCEPT ![h] = NoTxn], ctx' = CtxAfterDelete(f, h)
  PROVE  CtxInv'
<1> DEFINE t0 == txns[h].kind
           w0 == txns[h].ctx
<1>1. /\ \A x \in Handles : txns'[x] = IF x = h THEN NoTxn ELSE txns[x]
      /\ NoTxn.kind \notin Types /\ ~NoTxn.cancelling
  BY DEF CtxTyped, TablesOK, NoTxn, Types
<1>2. \A x \in Handles, k \in Keys :
        (txns[x].kind \in Types /\ txns[x].ctx = table'[k].worker_ctx)
          => txns[x].ctx = table[k].worker_ctx
  <2> SUFFICES ASSUME NEW x \in Handles, NEW k \in Keys, txns[x].kind \in Types,
                      txns[x].ctx = table'[k].worker_ctx
               PROVE  txns[x].ctx = table[k].worker_ctx
    OBVIOUS
  <2>1. txns[x].ctx \in Ctxs
    BY DEF CtxInv, TxnsFlagged
  <2> QED
    BY <2>1, EntryCtx DEF EntriesShrink
<1>3. /\ \A x \in Ctxs, t \in Types :
           /\ ctx'[x].flag[t] => f[x].flag[t] /\ ctx'[x].allocated = f[x].allocated
           /\ ~(t0 \in Types /\ x = w0 /\ t = t0) => (f[x].flag[t] => ctx'[x].flag[t])
      /\ \A x \in Ctxs : ctx'[x].is_valid => f[x].is_valid
  <2>1. CASE t0 \in Types
    <3>1. w0 \in Ctxs /\ ctx' = FreeWorkerCtx(f, t0, w0)
      BY <2>1 DEF CtxInv, TxnsFlagged, CtxAfterDelete
    <3> HIDE DEF t0, w0
    <3>2. /\ \A x \in Ctxs : x # w0 => ctx'[x] = f[x]
          /\ \A t2 \in Types : t2 # t0 => ctx'[w0].flag[t2] = f[w0].flag[t2]
          /\ ~ctx'[w0].flag[t0]
          /\ \A t2 \in Types : ctx'[w0].flag[t2] => ctx'[w0].allocated = f[w0].allocated
          /\ ctx'[w0].is_valid => f[w0].is_valid
      BY <2>1, <3>1, FreeWorkerCtxEffect DEF Invalidated
    <3> QED
      BY <3>2
  <2>2. CASE t0 \notin Types
    BY <2>2 DEF CtxAfterDelete
  <2> QED
    BY <2>1, <2>2
<1>4. UsersFlagged'
  <2> SUFFICES ASSUME NEW k \in Keys, NEW t \in Types, table'[k].count[t] > 0
               PROVE  ctx'[table'[k].worker_ctx].flag[t]
    BY DEF UsersFlagged
  <2>1. /\ table[k].count[t] > 0 /\ table'[k].worker_ctx = table[k].worker_ctx
        /\ table[k].worker_ctx \in Ctxs /\ table'[k].count[t] # 0
    BY EntryCtx DEF EntriesShrink
  <2>2. f[table[k].worker_ctx].flag[t]
    BY <2>1 DEF Invalidated, CtxInv, UsersFlagged
  <2>3. ~(table[k].worker_ctx = w0 /\ t = t0)
    BY <2>1 DEF NoUserOn
  <2> QED
    BY <1>3, <2>1, <2>2, <2>3
<1>5. TxnsFlagged'
  <2> SUFFICES ASSUME NEW x \in Handles, txns'[x].kind \in Types
               PROVE  txns'[x].ctx \in Ctxs /\ ctx'[txns'[x].ctx].flag[txns'[x].kind]
    BY DEF TxnsFlagged
  <2>1. x # h /\ txns'[x] = txns[x]
    BY <1>1
  <2>2. txns[x].ctx \in Ctxs /\ f[txns[x].ctx].flag[txns[x].kind]
    BY <2>1 DEF CtxInv, TxnsFlagged, Invalidated
  <2>3. ~(txns[x].ctx = w0 /\ txns[x].kind = t0)
    BY <2>1 DEF CtxInv, OneTxn
  <2> QED
    BY <1>3, <2>1, <2>2, <2>3
<1>6. FlagKeeps'
  BY <1>3 DEF CtxInv, FlagKeeps, Invalidated
<1>7. OwnCtx'
  BY EntriesStillOwn
<1>8. TxnsForEntry' /\ OneTxn'
  BY <1>1, <1>2 DEF CtxInv, TxnsForEntry, OneTxn
<1>9. EndingUnused'
  <2> SUFFICES ASSUME NEW x \in Handles, txns'[x].cancelling
               PROVE  /\ txns'[x].kind = "caching"
                      /\ \A k \in Keys : table'[k].worker_ctx = txns'[x].ctx
                                           => table'[k].count["caching"] = 0
    BY DEF EndingUnused
  <2>1. txns'[x] = txns[x] /\ txns[x].cancelling /\ txns[x].kind = "caching"
    BY <1>1 DEF CtxInv, EndingUnused
  <2>2. ASSUME NEW k \in Keys, table'[k].worker_ctx = txns'[x].ctx
        PROVE  table'[k].count["caching"] = 0
    <3>1. table[k].count["caching"] = 0
      BY <1>2, <2>1, <2>2 DEF CtxInv, EndingUnused, Types
    <3> QED
      BY <3>1 DEF EntriesShrink, Types
  <2> QED
    BY <2>1, <2>2
<1>10. ValidOwned'
  BY <1>3 DEF CtxInv, ValidOwned, Invalidated
<1> QED
  BY <1>4, <1>5, <1>6, <1>7, <1>8, <1>9, <1>10 DEF CtxInv

\* OCCancel of a transaction for a kind that no entry uses any more.
LEMMA CtxCancelled ==
  ASSUME CtxTyped, CtxInv, EntriesShrink, NEW f, Invalidated(f), NEW h,
         NEW highQos \in BOOLEAN, NEW ok \in BOOLEAN, OCCancel(h, highQos, f, ok),
         (Live(h) /\ txns[h].kind \in Types) => NoUserOn(h, txns[h].kind)
  PROVE  CtxInv'
<1>1. CASE txns' = txns /\ ctx' = f
  BY <1>1, CtxUsersLeave
<1>2. CASE /\ Live(h) /\ txns[h].kind = "caching"
           /\ txns' = [txns EXCEPT ![h].cancelling = TRUE] /\ ctx' = f
  BY <1>2, CtxTxnAsked DEF Live, Types
<1>3. CASE /\ Live(h)
           /\ txns' = [txns EXCEPT ![h] = NoTxn] /\ ctx' = CtxAfterDelete(f, h)
  BY <1>3, CtxTxnEnds DEF Live
<1> QED
  BY <1>1, <1>2, <1>3 DEF OCCancel

\* The last subscriber of a host leaves: no entry is monitored there.
LEMMA CtxUnsubscribed ==
  ASSUME CtxTyped, CtxInv, EntriesShrink, NEW f, Invalidated(f),
         Requests, HostsCounted', presenceTable \in [Hosts -> PresenceInfos],
         NEW host \in Hosts, presenceTable[host].client_count > 0,
         NEW h, h = presenceTable[host].handle,
         NEW ok \in BOOLEAN, UnsubscribePresence(h, host, f, ok)
  PROVE  CtxInv'
<1>1. CASE presenceTable[host].client_count = 1
  <2>1. OCCancel(h, FALSE, f, ok)
    BY <1>1 DEF UnsubscribePresence
  <2>2. ~(presenceTable'[host].client_count > 0)
    BY <1>1 DEF UnsubscribePresence, PresenceTableRemove, NoPresence
  <2>3. Subscribes(h, host)
    BY DEF Requests, HostsSubscribe
  <2>4. ASSUME txns[h].kind \in Types
        PROVE  NoUserOn(h, txns[h].kind)
    <3>1. h \in Handles /\ txns[h].kind = "monitoring" /\ txns[h].host = host
      BY <2>3, <2>4 DEF Subscribes, Serving, Live, Types
    <3> SUFFICES ASSUME NEW k \in Keys, table'[k].worker_ctx = txns[h].ctx
                 PROVE  table'[k].count["monitoring"] = 0
      BY <3>1 DEF NoUserOn
    <3>2. txns[h].ctx \in Ctxs
      BY <3>1 DEF CtxInv, TxnsFlagged, Types
    <3>3. table[k].worker_ctx = txns[h].ctx
      BY <3>2, EntryCtx DEF EntriesShrink
    <3>4. k.host = host
      BY <3>1, <3>3 DEF CtxInv, TxnsForEntry, Types
    <3>5. ~(table'[k].count["monitoring"] > 0)
      BY <2>2, <3>4 DEF HostsCounted
    <3> QED
      BY <3>5 DEF EntriesShrink, Types
  <2> QED
    BY <2>1, <2>4, CtxCancelled
<1>2. CASE presenceTable[host].client_count # 1
  BY <1>2, CtxUsersLeave DEF UnsubscribePresence
<1> QED
  BY <1>1, <1>2

\* icd_ioty_stop_encap.
LEMMA CtxStop ==
  ASSUME CtxTyped, TablesOK', EntriesUsed', CtxInv, Requests, HostsCounted, HostsCounted',
         NEW t \in Types, NEW k \in Keys, NEW ok \in BOOLEAN, StopEncap(t, k, ok)
  PROVE  CtxInv'
<1>1. /\ table \in [Keys -> Entries] /\ table[k] \in Entries /\ k.host \in Hosts
      /\ ctx \in [Ctxs -> WorkerCtxs] /\ presenceTable \in [Hosts -> PresenceInfos]
  BY DEF CtxTyped, TablesOK, Keys
<1>2. \A t2 \in Types, k2 \in Keys : table[k2].count[t2] \in Nat /\ table'[k2].count[t2] \in Nat
  BY DEF CtxTyped, TablesOK, Entries
<1>3. CountBecomes(t, k, Dec(table[k].count[t]))
  BY StopEncapEffect DEF CtxTyped
<1>4. CASE StopEncapUnknown(t, k)
  BY <1>4 DEF StopEncapUnknown, tables, ioty, CtxInv, UsersFlagged, TxnsFlagged, FlagKeeps,
       OwnCtx, InTable, TxnsForEntry, OneTxn, EndingUnused, ValidOwned
<1>5. CASE StopEncapShared(t, k)
  <2>1. /\ table[k].count[t] > 1 /\ table' = [table EXCEPT ![k].count[t] = @ - 1]
        /\ txns' = txns /\ ctx' = ctx
    BY <1>5 DEF StopEncapShared
  <2>2. \A k2 \in Keys : table'[k2].worker_ctx = table[k2].worker_ctx
    BY <1>1, <2>1
  <2>3. \A t2 \in Types, k2 \in Keys : table'[k2].count[t2] > 0 <=> table[k2].count[t2] > 0
    BY <1>2, <1>3, <2>1 DEF CountBecomes, Dec
  <2>4. EntriesShrink
    BY <1>2, <2>2, <2>3 DEF EntriesShrink
  <2>5. Invalidated(ctx)
    BY <1>1, <2>2 DEF Invalidated, CtxInv, ValidOwned
  <2> QED
    BY <2>1, <2>4, <2>5, CtxUsersLeave
<1>6. CASE StopEncapLast(t, k, ok)
  <2> DEFINE f == IF LastUser(t, k) THEN Invalidate(ctx, table[k].worker_ctx) ELSE ctx
             h == table[k].handle[t]
  <2>1. /\ table[k].count[t] = 1
        /\ table' = [table EXCEPT ![k] = IF LastUser(t, k) THEN NoEntry
                                         ELSE [@ EXCEPT !.count[t] = 0]]
        /\ \/ /\ t = "monitoring"
              /\ UnsubscribePresence(h, k.host, f, ok)
           \/ /\ t = "caching"
              /\ OCCancel(h, TRUE, f, ok)
    BY <1>6 DEF StopEncapLast
  <2>2. /\ \A k2 \in Keys : k2 # k => table'[k2] = table[k2]
        /\ table'[k].worker_ctx = IF LastUser(t, k) THEN Null ELSE table[k].worker_ctx
    BY <1>1, <2>1 DEF NoEntry, Entries
  <2>3. EntriesShrink
    <3> SUFFICES ASSUME NEW k2 \in Keys
                 PROVE  /\ table'[k2].worker_ctx \in {table[k2].worker_ctx, Null}
                        /\ \A t2 \in Types :
                             \/ table'[k2].count[t2] = 0
                             \/ /\ table'[k2].count[t2] > 0 /\ table[k2].count[t2] > 0
                                /\ table'[k2].worker_ctx = table[k2].worker_ctx
      BY DEF EntriesShrink
    <3>1. CASE k2 # k
      BY <1>2, <2>2, <3>1
    <3>2. CASE k2 = k
      <4>1. ASSUME NEW t2 \in Types, table'[k].count[t2] # 0
            PROVE  t2 # t /\ table[k].count[t2] = table'[k].count[t2] /\ ~LastUser(t, k)
        <5>1. t2 # t /\ table[k].count[t2] = table'[k].count[t2]
          BY <1>3, <2>1, <4>1 DEF CountBecomes, Dec
        <5>2. t2 = Other(t)
          BY <5>1 DEF Types, Other
        <5> QED
          BY <4>1, <5>1, <5>2 DEF LastUser
      <4> QED
        BY <1>2, <2>2, <3>2, <4>1
    <3> QED
      BY <3>1, <3>2
  <2>4. Invalidated(f)
    <3>1. CASE LastUser(t, k)
      <4>1. table[k].worker_ctx \in Ctxs
        BY <2>1, EntryCtx
      <4>2. /\ f = [ctx EXCEPT ![table[k].worker_ctx].is_valid = FALSE]
            /\ f \in [Ctxs -> WorkerCtxs]
        BY <1>1, <3>1, <4>1 DEF Invalidate, WorkerCtxs
      <4>3. \A w \in Ctxs :
              /\ f[w].allocated = ctx[w].allocated /\ f[w].flag = ctx[w].flag
              /\ f[w].is_valid => ctx[w].is_valid /\ w # table[k].worker_ctx
        BY <1>1, <4>1, <4>2 DEF WorkerCtxs
      <4> HIDE DEF f
      <4>4. ASSUME NEW w \in Ctxs, f[w].is_valid
            PROVE  \E k2 \in Keys : table'[k2].worker_ctx = w
        <5>1. PICK k2 \in Keys : table[k2].worker_ctx = w
          BY <4>3, <4>4 DEF CtxInv, ValidOwned
        <5>2. k2 # k
          BY <4>3, <4>4, <5>1
        <5> QED
          BY <2>2, <5>1, <5>2
      <4> QED
        BY <4>2, <4>3, <4>4 DEF Invalidated
    <3>2. CASE ~LastUser(t, k)
      <4>1. f = ctx /\ \A k2 \in Keys : table'[k2].worker_ctx = table[k2].worker_ctx
        BY <2>2, <3>2
      <4> QED
        BY <1>1, <4>1 DEF Invalidated, CtxInv, ValidOwned
    <3> QED
      BY <3>1, <3>2
  <2> HIDE DEF f
  <2>5. CASE t = "monitoring"
    <3>1. /\ h = presenceTable[k.host].handle /\ presenceTable[k.host].client_count > 0
      BY <2>1, <2>5 DEF Requests, MonitoringsShare, HostsCounted
    <3>2. UnsubscribePresence(h, k.host, f, ok)
      BY <2>1, <2>5
    <3> QED
      BY <1>1, <2>3, <2>4, <3>1, <3>2, CtxUnsubscribed
  <2>6. CASE t = "caching"
    <3>1. OCCancel(h, TRUE, f, ok)
      BY <2>1, <2>6
    <3>2. Observes(h, k)
      BY <2>1, <2>6 DEF Requests, CachingsObserve
    <3> HIDE DEF h
    <3>3. NoUserOn(h, "caching")
      <4> SUFFICES ASSUME NEW k2 \in Keys, table'[k2].worker_ctx = txns[h].ctx
                   PROVE  table'[k2].count["caching"] = 0
        BY DEF NoUserOn
      <4>1. h \in Handles /\ txns[h].kind = "caching" /\ txns[h].ctx \in Ctxs
        BY <3>2 DEF Observes, Serving, Live, CtxInv, TxnsFlagged, Types
      <4>2. txns[h].ctx = table[k2].worker_ctx
        BY <4>1, EntryCtx, <2>3 DEF EntriesShrink
      <4>3. k2.uri = k.uri /\ k2.host = k.host
        BY <3>2, <4>1, <4>2 DEF Observes, CtxInv, TxnsForEntry, Types
      <4>4. k2 = k
        BY <4>3 DEF Keys
      <4> QED
        BY <1>3, <2>1, <2>6, <4>4 DEF CountBecomes, Dec
    <3> QED
      BY <2>3, <2>4, <3>1, <3>2, <3>3, CtxCancelled DEF Observes
  <2> QED
    BY <2>5, <2>6 DEF Types
<1> QED
  BY <1>4, <1>5, <1>6 DEF StopEncap
-----------------------------------------------------------------------------
\* What the first user of type t on key k finds: a context nobody else uses.
LEMMA WorkerCtxOwn ==
  ASSUME CtxTyped, CtxInv, NEW k \in Keys, NEW w \in WorkerCtx(k)
  PROVE  /\ w \in Ctxs
         /\ \A k2 \in Keys : k2 # k => table[k2].worker_ctx # w
         /\ InTable(k) => w = table[k].worker_ctx
         /\ ~InTable(k) => \A x \in Handles : txns[x].ctx # w
<1>1. CASE InTable(k)
  <2>1. w = table[k].worker_ctx /\ w \in Ctxs
    BY <1>1, EntryCtx DEF WorkerCtx
  <2>2. \A k2 \in Keys : k2 # k => table[k2].worker_ctx # w
    BY <1>1, <2>1 DEF CtxInv, OwnCtx
  <2> QED
    BY <1>1, <2>1, <2>2
<1>2. CASE ~InTable(k)
  BY <1>2 DEF WorkerCtx, FreshCtxs
<1> QED
  BY <1>1, <1>2

\* Without a user of type t, and with no observation still to end, no
\* transaction uses the context of the entry for t.
LEMMA NoOtherTxn ==
  ASSUME CtxTyped, CtxInv, Requests, NEW t \in Types, NEW k \in Keys, InTable(k),
         table[k].count[t] = 0, t = "caching" => ~Ending(k),
         t = "monitoring" => presenceTable[k.host].client_count = 0
  PROVE  \A x \in Handles : ~(txns[x].kind = t /\ txns[x].ctx = table[k].worker_ctx)
<1> SUFFICES ASSUME NEW x \in Handles, txns[x].kind = t, txns[x].ctx = table[k].worker_ctx
             PROVE  FALSE
  OBVIOUS
<1>1. txns[x].uri = k.uri /\ txns[x].host = k.host
  BY DEF CtxInv, TxnsForEntry
<1>2. Serving(x)
  <2>1. ~txns[x].cancelling
    BY DEF CtxInv, EndingUnused, Types, Ending
  <2> QED
    BY <2>1 DEF Serving, Live, Types
<1>3. \/ \E g \in Hosts : presenceTable[g].client_count > 0 /\ presenceTable[g].handle = x
      \/ \E k2 \in Keys : table[k2].count["caching"] > 0 /\ table[k2].handle["caching"] = x
  BY <1>2 DEF Requests, NoLeakedTxn, Serving
<1>4. ASSUME NEW g \in Hosts, presenceTable[g].client_count > 0, presenceTable[g].handle = x
      PROVE  FALSE
  <2>1. Subscribes(x, g)
    BY <1>4 DEF Requests, HostsSubscribe
  <2>2. t = "monitoring" /\ g = k.host
    BY <1>1, <2>1 DEF Subscribes, Types
  <2> QED
    BY <1>4, <2>2
<1>5. ASSUME NEW k2 \in Keys, table[k2].count["caching"] > 0, table[k2].handle["caching"] = x
      PROVE  FALSE
  <2>1. Observes(x, k2)
    BY <1>5 DEF Requests, CachingsObserve
  <2>2. t = "caching" /\ k2.uri = k.uri /\ k2.host = k.host
    BY <1>1, <2>1 DEF Observes
  <2>3. k2 = k
    BY <2>2 DEF Keys
  <2> QED
    BY <1>5, <2>2, <2>3
<1> QED
  BY <1>3, <1>4, <1>5

\* Setting a flag of a context changes nothing else of it.
WithFlag(v, t) == [v EXCEPT !.flag[t] = TRUE]
LEMMA FlagSet ==
  ASSUME NEW v \in WorkerCtxs, NEW t \in Types
  PROVE  /\ WithFlag(v, t).flag[t]
         /\ \A t2 \in Types : v.flag[t2] => WithFlag(v, t).flag[t2]
         /\ WithFlag(v, t).allocated = v.allocated
<1>1. v.flag \in [Types -> BOOLEAN]
  BY DEF WorkerCtxs
<1>2. /\ WithFlag(v, t).flag = [v.flag EXCEPT ![t] = TRUE]
      /\ WithFlag(v, t).allocated = v.allocated
  BY DEF WorkerCtxs, WithFlag
<1> QED
  BY <1>1, <1>2

\* What the step of a first user does to tables, contexts and transactions.
FirstUser(t, k, w, h) ==
  /\ table'[k].worker_ctx = w
  /\ \A k2 \in Keys : k2 # k => table'[k2] = table[k2]
  /\ \A t2 \in Types : t2 # t => table'[k].count[t2] = table[k].count[t2]
  /\ ctx' = [ctx EXCEPT ![w] = WithFlag(IF InTable(k) THEN @ ELSE NewCtx, t)]
  /\ \/ txns' = txns
     \/ /\ txns' = [txns EXCEPT ![h] = [kind |-> t, uri |-> k.uri, host |-> k.host,
                                        ctx |-> w, cancelling |-> FALSE]]
        /\ t = "monitoring" => presenceTable[k.host].client_count = 0

\* The first user of type t on key k sets the flag of the entry's context,
\* with a new transaction h or as one of several subscribers of the host.
LEMMA CtxFirst ==
  ASSUME CtxTyped, CtxInv, Requests, NEW t \in Types, NEW k \in Keys,
         table[k].count[t] = 0, t = "caching" => ~Ending(k),
         NEW w \in WorkerCtx(k), NEW h \in Handles,
         FirstUser(t, k, w, h)
  PROVE  CtxInv'
<1>0. /\ table'[k].worker_ctx = w
      /\ \A k2 \in Keys : k2 # k => table'[k2] = table[k2]
      /\ \A t2 \in Types : t2 # t => table'[k].count[t2] = table[k].count[t2]
  BY DEF FirstUser
<1>1. /\ w \in Ctxs
      /\ \A k2 \in Keys : k2 # k => table[k2].worker_ctx # w
      /\ InTable(k) => w = table[k].worker_ctx
      /\ ~InTable(k) => \A x \in Handles : txns[x].ctx # w
  BY WorkerCtxOwn
<1>2. /\ Null \notin Ctxs /\ ctx \in [Ctxs -> WorkerCtxs] /\ txns \in [Handles -> Txns]
      /\ \A x \in Ctxs : x # w => ctx'[x] = ctx[x]
      /\ ctx'[w].flag[t]
      /\ InTable(k) => /\ \A t2 \in Types : ctx[w].flag[t2] => ctx'[w].flag[t2]
                       /\ ctx'[w].allocated = ctx[w].allocated
      /\ ~InTable(k) => ctx'[w].allocated
  <2>1. Null \notin Ctxs /\ ctx \in [Ctxs -> WorkerCtxs] /\ txns \in [Handles -> Txns]
    BY EntryCtx DEF CtxTyped, TablesOK
  <2>2. /\ ctx'[w] = WithFlag(IF InTable(k) THEN ctx[w] ELSE NewCtx, t)
        /\ \A x \in Ctxs : x # w => ctx'[x] = ctx[x]
    BY <1>1, <2>1 DEF FirstUser
  <2>3. CASE InTable(k)
    <3>1. ctx[w] \in WorkerCtxs /\ ctx'[w] = WithFlag(ctx[w], t)
      BY <1>1, <2>1, <2>2, <2>3
    <3> QED
      BY <2>1, <2>2, <2>3, <3>1, FlagSet
  <2>4. CASE ~InTable(k)
    <3>1. ctx'[w] = WithFlag(NewCtx, t) /\ NewCtx \in WorkerCtxs
      BY <2>2, <2>4 DEF NewCtx, WorkerCtxs
    <3>2. NewCtx.allocated
      BY DEF NewCtx
    <3> QED
      BY <2>1, <2>2, <2>4, <3>1, <3>2, FlagSet
  <2> QED
    BY <2>3, <2>4
<1>3. InTable(k) => ctx[w].allocated
  <2>1. InTable(k) => \E t2 \in Types : table[k].count[t2] > 0
    BY EntryCtx
  <2> QED
    BY <1>1, <2>1 DEF CtxInv, UsersFlagged, FlagKeeps
<1>4. \A x \in Handles :
        \/ txns'[x] = txns[x]
        \/ /\ x = h
           /\ txns'[x] = [kind |-> t, uri |-> k.uri, host |-> k.host, ctx |-> w,
                          cancelling |-> FALSE]
           /\ \A y \in Handles : ~(txns[y].kind = t /\ txns[y].ctx = w)
  <2>1. CASE txns' = txns
    BY <2>1
  <2>2. CASE /\ txns' = [txns EXCEPT ![h] = [kind |-> t, uri |-> k.uri, host |-> k.host,
                                            ctx |-> w, cancelling |-> FALSE]]
             /\ t = "monitoring" => presenceTable[k.host].client_count = 0
    <3>1. \A y \in Handles : ~(txns[y].kind = t /\ txns[y].ctx = w)
      BY <1>1, <2>2, NoOtherTxn
    <3> QED
      BY <1>2, <2>2, <3>1
  <2> QED
    BY <2>1, <2>2 DEF FirstUser
<1>5. UsersFlagged'
  <2> SUFFICES ASSUME NEW k2 \in Keys, NEW t2 \in Types, table'[k2].count[t2] > 0
               PROVE  ctx'[table'[k2].worker_ctx].flag[t2]
    BY DEF UsersFlagged
  <2>1. CASE k2 # k
    <3>1. table'[k2] = table[k2] /\ table[k2].worker_ctx # w /\ table[k2].worker_ctx \in Ctxs
      BY <1>0, <1>1, <2>1, EntryCtx
    <3> QED
      BY <1>2, <3>1 DEF CtxInv, UsersFlagged
  <2>2. CASE k2 = k /\ t2 = t
    BY <1>0, <1>2, <2>2
  <2>3. CASE k2 = k /\ t2 # t
    <3>1. table[k].count[t2] > 0 /\ InTable(k)
      BY <1>0, <2>3, EntryCtx
    <3> QED
      BY <1>0, <1>1, <1>2, <2>3, <3>1 DEF CtxInv, UsersFlagged
  <2> QED
    BY <2>1, <2>2, <2>3
<1>6. TxnsFlagged'
  <2> SUFFICES ASSUME NEW x \in Handles, txns'[x].kind \in Types
               PROVE  txns'[x].ctx \in Ctxs /\ ctx'[txns'[x].ctx].flag[txns'[x].kind]
    BY DEF TxnsFlagged
  <2>1. CASE txns'[x] = txns[x]
    BY <1>1, <1>2, <2>1 DEF CtxInv, TxnsFlagged
  <2>2. CASE txns'[x] # txns[x]
    BY <1>1, <1>2, <1>4, <2>2
  <2> QED
    BY <2>1, <2>2
<1>7. FlagKeeps'
  BY <1>2, <1>3 DEF CtxInv, FlagKeeps
<1>8. OwnCtx'
  <2> SUFFICES ASSUME NEW k1 \in Keys, NEW k2 \in Keys, table'[k1].worker_ctx # Null,
                      table'[k1].worker_ctx = table'[k2].worker_ctx, k1 # k2
               PROVE  FALSE
    BY DEF OwnCtx, InTable
  <2>1. k1 # k /\ k2 # k
    BY <1>0, <1>1
  <2> QED
    BY <1>0, <2>1 DEF CtxInv, OwnCtx, InTable
<1>9. \A k2 \in Keys, x \in Handles :
        (txns[x].kind \in Types /\ table'[k2].worker_ctx = txns[x].ctx)
          => table[k2].worker_ctx = txns[x].ctx /\ (k2 = k => InTable(k))
  BY <1>0, <1>1
<1>10. TxnsForEntry'
  <2> SUFFICES ASSUME NEW x \in Handles, NEW k2 \in Keys, txns'[x].kind \in Types,
                      txns'[x].ctx = table'[k2].worker_ctx
               PROVE  txns'[x].uri = k2.uri /\ txns'[x].host = k2.host
    BY DEF TxnsForEntry
  <2>1. CASE txns'[x] = txns[x]
    BY <1>9, <2>1 DEF CtxInv, TxnsForEntry
  <2>2. CASE txns'[x] # txns[x]
    <3>1. k2 = k
      BY <1>0, <1>1, <1>4, <2>2
    <3> QED
      BY <1>4, <2>2, <3>1
  <2> QED
    BY <2>1, <2>2
<1>11. OneTxn'
  <2> SUFFICES ASSUME NEW x \in Handles, NEW y \in Handles, txns'[x].kind \in Types,
                      txns'[x].kind = txns'[y].kind, txns'[x].ctx = txns'[y].ctx, x # y
               PROVE  FALSE
    BY DEF OneTxn
  <2>1. ~(txns'[x] = txns[x] /\ txns'[y] = txns[y])
    BY DEF CtxInv, OneTxn
  <2>2. CASE txns'[x] # txns[x]
    BY <1>4, <2>2
  <2>3. CASE txns'[y] # txns[y]
    BY <1>4, <2>3
  <2> QED
    BY <2>1, <2>2, <2>3
<1>12. EndingUnused'
  <2> SUFFICES ASSUME NEW x \in Handles, txns'[x].cancelling
               PROVE  /\ txns'[x].kind = "caching"
                      /\ \A k2 \in Keys : table'[k2].worker_ctx = txns'[x].ctx
                                            => table'[k2].count["caching"] = 0
    BY DEF EndingUnused
  <2>1. txns'[x] = txns[x] /\ txns[x].cancelling
    BY <1>4
  <2>2. txns[x].kind = "caching" /\ txns[x].kind \in Types
    BY <2>1 DEF CtxInv, EndingUnused, Types
  <2>3. ASSUME NEW k2 \in Keys, table'[k2].worker_ctx = txns'[x].ctx
        PROVE  table'[k2].count["caching"] = 0
    <3>1. table[k2].worker_ctx = txns[x].ctx /\ (k2 = k => InTable(k))
      BY <1>9, <2>1, <2>2, <2>3
    <3>2. table[k2].count["caching"] = 0
      BY <2>1, <3>1 DEF CtxInv, EndingUnused
    <3>3. CASE k2 = k
      <4>1. t # "caching"
        BY <2>1, <3>1, <3>3 DEF Ending
      <4> QED
        BY <1>0, <3>2, <3>3, <4>1 DEF Types
    <3> QED
      BY <1>0, <3>2, <3>3
  <2> QED
    BY <2>1, <2>2, <2>3
<1>13. ValidOwned'
  <2> SUFFICES ASSUME NEW x \in Ctxs, x # w, ctx'[x].is_valid
               PROVE  \E k2 \in Keys : table'[k2].worker_ctx = x
    BY <1>0 DEF ValidOwned
  <2>1. PICK k2 \in Keys : table[k2].worker_ctx = x
    BY <1>2 DEF CtxInv, ValidOwned
  <2>2. k2 # k
    BY <1>1, <1>2, <2>1 DEF InTable
  <2> QED
    BY <1>0, <2>1, <2>2
<1> QED
  BY <1>5, <1>6, <1>7, <1>8, <1>10, <1>11, <1>12, <1>13 DEF CtxInv

\* OCDoResource failed to observe for an entry that is monitored: cd drops
\* the observe flag, which nobody else uses.
LEMMA CtxObserveFails ==
  ASSUME CtxTyped, CtxInv, Requests, NEW k \in Keys, InTable(k),
         table[k].count["caching"] = 0, ~Ending(k),
         \A k2 \in Keys : /\ table'[k2].count = table[k2].count
                          /\ table'[k2].worker_ctx = table[k2].worker_ctx,
         txns' = txns, ctx' = FreeWorkerCtx(ctx, "caching", table[k].worker_ctx)
  PROVE  CtxInv'
<1> DEFINE w == table[k].worker_ctx
<1>1. w \in Ctxs /\ ctx \in [Ctxs -> WorkerCtxs] /\ "caching" \in Types
  BY EntryCtx DEF CtxTyped, TablesOK, Types
<1>2. /\ \A x \in Ctxs : x # w => ctx'[x] = ctx[x]
      /\ \A t2 \in Types : t2 # "caching" => ctx'[w].flag[t2] = ctx[w].flag[t2]
      /\ ~ctx'[w].flag["caching"]
      /\ \A t2 \in Types : ctx'[w].flag[t2] => ctx'[w].allocated = ctx[w].allocated
      /\ ctx'[w].is_valid => ctx[w].is_valid
  <2> HIDE DEF w
  <2>1. ctx' = FreeWorkerCtx(ctx, "caching", w)
    BY DEF w
  <2> QED
    BY <1>1, <2>1, FreeWorkerCtxEffect
<1>3. \A x \in Handles : ~(txns[x].kind = "caching" /\ txns[x].ctx = w)
  BY <1>1, NoOtherTxn
<1>4. UsersFlagged'
  <2> SUFFICES ASSUME NEW k2 \in Keys, NEW t2 \in Types, table[k2].count[t2] > 0
               PROVE  ctx'[table[k2].worker_ctx].flag[t2]
    BY DEF UsersFlagged
  <2>1. /\ ctx[table[k2].worker_ctx].flag[t2] /\ table[k2].worker_ctx \in Ctxs /\ InTable(k2)
    BY EntryCtx DEF CtxInv, UsersFlagged
  <2>2. CASE table[k2].worker_ctx = w
    <3>1. k2 = k
      BY <2>1, <2>2 DEF CtxInv, OwnCtx
    <3>2. t2 # "caching"
      BY <3>1
    <3> QED
      BY <1>2, <2>1, <2>2, <3>2
  <2>3. CASE table[k2].worker_ctx # w
    BY <1>2, <2>1, <2>3
  <2> QED
    BY <2>2, <2>3
<1>5. TxnsFlagged'
  <2> SUFFICES ASSUME NEW x \in Handles, txns[x].kind \in Types
               PROVE  txns[x].ctx \in Ctxs /\ ctx'[txns[x].ctx].flag[txns[x].kind]
    BY DEF TxnsFlagged
  <2>1. txns[x].ctx \in Ctxs /\ ctx[txns[x].ctx].flag[txns[x].kind]
    BY DEF CtxInv, TxnsFlagged
  <2>2. CASE txns[x].ctx = w
    <3>1. txns[x].kind # "caching"
      BY <1>3, <2>2
    <3> QED
      BY <1>2, <2>1, <2>2, <3>1
  <2>3. CASE txns[x].ctx # w
    BY <1>2, <2>1, <2>3
  <2> QED
    BY <2>2, <2>3
<1>6. FlagKeeps' /\ ValidOwned'
  BY <1>2 DEF CtxInv, FlagKeeps, ValidOwned
<1>7. OwnCtx' /\ TxnsForEntry' /\ OneTxn' /\ EndingUnused'
  BY DEF CtxInv, OwnCtx, InTable, TxnsForEntry, OneTxn, EndingUnused
<1> QED
  BY <1>4, <1>5, <1>6, <1>7 DEF CtxInv

\* Nothing of the contexts, the transactions' and the entries' use of them.
LEMMA CtxKept ==
  ASSUME CtxInv, txns' = txns, ctx' = ctx,
         \A k \in Keys : /\ table'[k].count = table[k].count
                         /\ table'[k].worker_ctx = table[k].worker_ctx
  PROVE  CtxInv'
BY DEF CtxInv, UsersFlagged, TxnsFlagged, FlagKeeps, OwnCtx, InTable, TxnsForEntry, OneTxn,
     EndingUnused, ValidOwned

\* icd_ioty_start_encap.
LEMMA CtxStart ==
  ASSUME CtxTyped, CtxInv, Requests, NEW t \in Types, NEW k \in Keys,
         t = "caching" => ~Ending(k), NEW ok \in BOOLEAN, StartEncap(t, k, ok)
  PROVE  CtxInv'
<1>1. /\ table \in [Keys -> Entries] /\ table[k] \in Entries
      /\ ctx \in [Ctxs -> WorkerCtxs]
      /\ \A t2 \in Types, k2 \in Keys : table[k2].count[t2] \in Nat
  BY DEF CtxTyped, TablesOK, Entries
<1>2. CASE ok /\ StartEncapShared(t, k)
  <2>1. /\ table[k].count[t] > 0 /\ table' = [table EXCEPT ![k].count[t] = @ + 1]
        /\ txns' = txns /\ ctx' = ctx
    BY <1>2 DEF StartEncapShared
  <2>2. CountBecomes(t, k, table[k].count[t] + 1)
    BY <1>2, StartEncapEffect DEF CtxTyped
  <2>3. \A k2 \in Keys : table'[k2].worker_ctx = table[k2].worker_ctx
    BY <1>1, <2>1
  <2>4. EntriesShrink
    BY <1>1, <2>1, <2>2, <2>3 DEF EntriesShrink, CountBecomes
  <2>5. Invalidated(ctx)
    BY <1>1, <2>3 DEF Invalidated, CtxInv, ValidOwned
  <2> QED
    BY <2>1, <2>4, <2>5, CtxUsersLeave
<1>3. CASE ok /\ StartEncapFirst(t, k)
  <2>1. PICK w \in WorkerCtx(k), h \in Handles :
          /\ table' = [table EXCEPT ![k] = [@ EXCEPT !.count[t] = 1, !.handle[t] = h,
                                                     !.worker_ctx = w]]
          /\ ctx' = [ctx EXCEPT ![w] = [(IF InTable(k) THEN @ ELSE NewCtx)
                                          EXCEPT !.flag[t] = TRUE]]
          /\ \/ /\ t = "monitoring"
                /\ SubscribePresence(t, k.uri, k.host, w, h)
             \/ /\ t = "caching"
                /\ OCDoResource(h, t, k.uri, k.host, w)
    BY <1>3 DEF StartEncapFirst
  <2>2. /\ table[k].count[t] = 0
        /\ CountBecomes(t, k, table[k].count[t] + 1)
    BY <1>3, StartEncapEffect DEF CtxTyped, StartEncapFirst
  <2>3. /\ table'[k].worker_ctx = w
        /\ \A k2 \in Keys : k2 # k => table'[k2] = table[k2]
    BY <1>1, <2>1 DEF Entries
  <2>4. \A t2 \in Types : t2 # t => table'[k].count[t2] = table[k].count[t2]
    BY <2>2 DEF CountBecomes
  <2>5. ctx' = [ctx EXCEPT ![w] = WithFlag(IF InTable(k) THEN @ ELSE NewCtx, t)]
    BY <2>1 DEF WithFlag
  <2>6. \/ txns' = txns
        \/ /\ txns' = [txns EXCEPT ![h] = [kind |-> t, uri |-> k.uri, host |-> k.host,
                                           ctx |-> w, cancelling |-> FALSE]]
           /\ t = "monitoring" => presenceTable[k.host].client_count = 0
    BY <2>1 DEF SubscribePresence, OCDoResource
  <2>7. FirstUser(t, k, w, h)
    BY <2>3, <2>4, <2>5, <2>6 DEF FirstUser
  <2> QED
    BY <2>2, <2>7, CtxFirst
<1>4. CASE ~ok /\ StartEncapFails(t, k)
  <2>1. /\ table[k].count[t] = 0 /\ txns' = txns
        /\ IF InTable(k)
           THEN /\ table' = [table EXCEPT ![k].handle[t] = Null]
                /\ ctx' = IF t = "caching" THEN FreeWorkerCtx(ctx, t, table[k].worker_ctx)
                          ELSE ctx
           ELSE UNCHANGED <<table, ctx>>
    BY <1>4 DEF StartEncapFails
  <2>2. \A k2 \in Keys : /\ table'[k2].count = table[k2].count
                         /\ table'[k2].worker_ctx = table[k2].worker_ctx
    <3>1. CASE InTable(k)
      <4>1. table' = [table EXCEPT ![k].handle[t] = Null]
        BY <2>1, <3>1
      <4> QED
        BY <1>1, <4>1 DEF Entries
    <3>2. CASE ~InTable(k)
      BY <2>1, <3>2
    <3> QED
      BY <3>1, <3>2
  <2>3. CASE InTable(k) /\ t = "caching"
    BY <2>1, <2>2, <2>3, CtxObserveFails
  <2>4. CASE ~(InTable(k) /\ t = "caching")
    BY <2>1, <2>2, <2>4, CtxKept
  <2> QED
    BY <2>3, <2>4
<1> QED
  BY <1>2, <1>3, <1>4 DEF StartEncap
-----------------------------------------------------------------------------
\* The faults of the theorem: none that ends or forgets an observation behind
\* the daemon's back, and no caching restarted on an observation still to end.
Orderly == Exact /\ "quickRestart" \notin Faults

LEMMA InitCtx == Init => CtxInv
BY NullAssumption DEF Init, CtxInv, UsersFlagged, TxnsFlagged, FlagKeeps, OwnCtx, InTable,
     TxnsForEntry, OneTxn, EndingUnused, ValidOwned, NoEntry, NoTxn, FreedCtx, Types

LEMMA NextCtx ==
  ASSUME Orderly, IInv, IInv', ExactInv, ExactInv', CtxInv, [Next]_vars
  PROVE  CtxInv'
<1>1. /\ CtxTyped /\ Requests /\ HostsCounted /\ HostsCounted' /\ CallbacksShare
      /\ TablesOK' /\ EntriesUsed'
      /\ presenceTable \in [Hosts -> PresenceInfos]
  BY CountedHosts, CountedHostsNext DEF IInv, TypeOK, TablesOK, ExactInv, CtxTyped
<1>2. UNCHANGED table => /\ EntriesShrink
                         /\ Invalidated(ctx)
  <2> SUFFICES ASSUME UNCHANGED table PROVE EntriesShrink /\ Invalidated(ctx)
    OBVIOUS
  <2>1. \A t \in Types, k \in Keys : table[k].count[t] \in Nat /\ ctx \in [Ctxs -> WorkerCtxs]
    BY <1>1 DEF CtxTyped, TablesOK, Entries
  <2>2. EntriesShrink
    BY <2>1 DEF EntriesShrink
  <2>3. Invalidated(ctx)
    BY <1>1 DEF Invalidated, CtxInv, ValidOwned, CtxTyped, TablesOK
  <2> QED
    BY <2>2, <2>3
<1>3. ASSUME NEW p \in presences \cup dyingPresences, NEW ok \in BOOLEAN,
             UnsubscribePresence(p.handle, p.host, ctx, ok), UNCHANGED table
      PROVE  CtxInv'
  <2>1. /\ p.host \in Hosts /\ presenceTable[p.host].client_count > 0
        /\ p.handle = presenceTable[p.host].handle
    BY <1>1 DEF HostsCounted, CallbacksShare, IInv, TypeOK, PresenceHandles
  <2> QED
    BY <1>1, <1>2, <1>3, <2>1, CtxUnsubscribed
<1>4. ASSUME NEW c \in Clients, NEW t \in Types, NEW k \in Keys, Start(c, t, k)
      PROVE  CtxInv'
  <2>1. t = "caching" => ~Ending(k)
    BY <1>4 DEF Start, Orderly
  <2>2. PICK ok \in BOOLEAN : StartEncap(t, k, ok)
    BY <1>4 DEF Start
  <2> QED
    BY <1>1, <2>1, <2>2, CtxStart
<1>5. ASSUME NEW e \in held, Stop(e)
      PROVE  CtxInv'
  <2>1. e.type \in Types /\ e.key \in Keys
    BY DEF IInv, TypeOK, EncapHandles
  <2>2. PICK ok \in BOOLEAN : StopEncap(e.type, e.key, ok)
    BY <1>5 DEF Stop
  <2> QED
    BY <1>1, <2>1, <2>2, CtxStop
<1>6. ASSUME NEW c \in Clients, NEW host \in Hosts, AddPresence(c, host)
      PROVE  CtxInv'
  <2>1. PICK h \in Handles : SubscribePresence("presence", Null, host, Null, h)
    BY <1>6 DEF AddPresence
  <2>2. UNCHANGED <<table, ctx>>
    BY <1>6 DEF AddPresence
  <2>3. CASE txns' = txns
    BY <2>2, <2>3, CtxKept
  <2>4. CASE /\ ~Live(h)
             /\ txns' = [txns EXCEPT ![h] = [kind |-> "presence", uri |-> Null, host |-> host,
                                             ctx |-> Null, cancelling |-> FALSE]]
    <3>1. \A x \in Handles :
            \/ txns'[x] = txns[x]
            \/ txns'[x].kind \notin Types /\ ~txns'[x].cancelling
      BY <1>1, <2>4 DEF CtxTyped, TablesOK, Types
    <3> QED
      BY <2>2, <3>1 DEF CtxInv, UsersFlagged, TxnsFlagged, FlagKeeps, OwnCtx, InTable,
           TxnsForEntry, OneTxn, EndingUnused, ValidOwned
  <2> QED
    BY <2>1, <2>3, <2>4 DEF SubscribePresence, OCDoResource
<1>7. ASSUME NEW p \in subscribed, RemovePresence(p)
      PROVE  CtxInv'
  <2>1. p \in presences
    BY DEF ExactInv, ListsAgree
  <2>2. UNCHANGED table /\ \E ok \in BOOLEAN : UnsubscribePresence(p.handle, p.host, ctx, ok)
    BY <1>7 DEF RemovePresence
  <2> QED
    BY <1>3, <2>1, <2>2
<1>8. ASSUME NEW c \in Clients, ClientExit(c) \/ ReleaseName(c) \/ NameOwnerNotify(c)
      PROVE  CtxInv'
  <2>1. UNCHANGED <<tables, ioty>>
    BY <1>8 DEF ClientExit, ReleaseName, NameOwnerChanged, NameOwnerNotify
  <2> QED
    BY <2>1, CtxKept DEF tables, ioty
<1>9. ASSUME NEW p \in dyingPresences, CleanupPresence(p)
      PROVE  CtxInv'
  <2>1. UNCHANGED table /\ \E ok \in BOOLEAN : UnsubscribePresence(p.handle, p.host, ctx, ok)
    BY <1>9 DEF CleanupPresence
  <2> QED
    BY <1>3, <2>1
<1>10. ASSUME NEW e \in dying, CleanupEncap(e)
       PROVE  CtxInv'
  <2>1. e.type \in Types /\ e.key \in Keys
    BY DEF IInv, TypeOK, EncapHandles
  <2>2. PICK ok \in BOOLEAN : StopEncap(e.type, e.key, ok)
    BY <1>10 DEF CleanupEncap
  <2> QED
    BY <1>1, <2>1, <2>2, CtxStop
<1>11. ASSUME NEW h \in Handles, ObserveDeregister(h)
       PROVE  CtxInv'
  <2>1. /\ txns[h].kind = "caching" /\ txns[h].cancelling
        /\ txns' = [txns EXCEPT ![h] = NoTxn] /\ ctx' = CtxAfterDelete(ctx, h)
        /\ UNCHANGED tables
    BY <1>11 DEF ObserveDeregister, Orderly, Exact
  <2>2. NoUserOn(h, "caching") /\ Live(h) /\ UNCHANGED table
    BY <2>1 DEF NoUserOn, CtxInv, EndingUnused, Live, tables
  <2> QED
    BY <1>1, <1>2, <2>1, <2>2, CtxTxnEnds
<1>12. ~DaemonRestart
  BY DEF DaemonRestart, Orderly, Exact
<1>13. CASE UNCHANGED vars
  <2>1. UNCHANGED <<tables, ioty>>
    BY <1>13 DEF vars
  <2> QED
    BY <2>1, CtxKept DEF tables, ioty
<1> QED
  BY <1>4, <1>5, <1>6, <1>7, <1>8, <1>9, <1>10, <1>11, <1>12, <1>13 DEF Next

LEMMA CtxInvariant ==
  ASSUME Orderly PROVE Spec => [](IInv /\ ExactInv /\ CtxInv)
<1>1. IInv /\ IInv' /\ ExactInv /\ ExactInv' /\ CtxInv /\ [Next]_vars => CtxInv'
  BY NextCtx
<1>2. Spec => [](IInv /\ ExactInv)
  BY ExactInvariant DEF Orderly
<1> QED
  BY <1>1, <1>2, InitCtx, PTL DEF Spec
-----------------------------------------------------------------------------
\* The context that an entry and the transactions for its resource share is never freed while one of them may still use it, and passes the
\* is_valid check of _worker_encap_get no longer than its entry is there.
THEOREM ContextsKept == ASSUME Orderly PROVE Spec => []ContextsSafe
<1>1. IInv /\ CtxInv => ContextsSafe
  <2> SUFFICES ASSUME IInv, CtxInv PROVE ContextsSafe
    OBVIOUS
  <2>1. CtxTyped
    BY DEF IInv, TypeOK, TablesOK, CtxTyped
  <2>2. ASSUME NEW k \in Keys, InTable(k)
        PROVE  ctx[table[k].worker_ctx].allocated
    BY <2>1, <2>2, EntryCtx DEF CtxInv, UsersFlagged, FlagKeeps
  <2>3. ASSUME NEW h \in Handles, txns[h].kind \in Types
        PROVE  ctx[txns[h].ctx].allocated
    BY <2>3 DEF CtxInv, TxnsFlagged, FlagKeeps
  <2>4. ValidCtxInTable
    BY DEF ValidCtxInTable, CtxInv, TxnsFlagged, ValidOwned
  <2> QED
    BY <2>2, <2>3, <2>4 DEF ContextsSafe, CtxAllocated
<1> QED
  BY <1>1, CtxInvariant, PTL
=============================================================================
