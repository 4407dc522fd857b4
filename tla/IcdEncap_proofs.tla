--------------------------- MODULE IcdEncap_proofs ---------------------------
(***************************************************************************)
(* Theorems about IcdEncap, for every set of clients, resources, hosts and *)
(* handles and for every combination of faults:                            *)
(*   TypeCorrect     Spec => []TypeOK                                      *)
(*   Covered         Spec => []CountsCovered                               *)
(*   PresencesCovered Spec => []PresenceCovered                            *)
(*   NothingOrphaned Spec => []NoOrphans                                   *)
(* They follow from one inductive invariant, IInv.  The lemmas before it   *)
(* say what each helper of the model does to the counts.                   *)
(***************************************************************************)
EXTENDS IcdEncap, FiniteSetTheorems, TLAPS

TableKeys == {k \in Keys : InTable(k)}

FiniteLists ==
  /\ IsFiniteSet(encaps) /\ IsFiniteSet(dying)
  /\ IsFiniteSet(presences) /\ IsFiniteSet(dyingPresences)
  /\ IsFiniteSet(TableKeys)

\* An entry of the encap table has a user, and a used one a worker context.
EntriesUsed ==
  \A k \in Keys : InTable(k) <=> (\E t \in Types : table[k].count[t] > 0)

\* Unless addresses are reused, a presence handle names one host: in the
\* lists, in the libs and in the presence table.
HandlesNameHosts ==
  "reuse" \notin Faults =>
    /\ \A p, q \in presences \cup subscribed : p.handle = q.handle => p.host = q.host
    /\ \A p \in presences \cup subscribed, g \in Hosts :
         (presenceTable[g].client_count > 0 /\ presenceTable[g].handle = p.handle)
           => p.host = g
    /\ \A g1, g2 \in Hosts :
         (/\ presenceTable[g1].client_count > 0 /\ presenceTable[g2].client_count > 0
          /\ presenceTable[g1].handle = presenceTable[g2].handle) => g1 = g2

\* The inductive invariant.  EntriesUsed bounds the monitored keys by the
\* finite set of keys in the table, and says that the entry goes with its
\* last user; HandlesNameHosts makes the list entry that _icd_dbus_presence_list_remove
\* takes one of the host whose count goes down.
IInv ==
  /\ TypeOK
  /\ FiniteLists
  /\ EntriesUsed
  /\ CountsCovered
  /\ HandlesNameHosts
  /\ PresenceCovered

\* The types of the daemon's tables and of IoTivity's state.
TablesOK ==
  /\ table \in [Keys -> Entries]
  /\ presenceTable \in [Hosts -> PresenceInfos]
  /\ txns \in [Handles -> Txns]
  /\ ctx \in [Ctxs -> WorkerCtxs]

Dec(n) == IF n > 0 THEN n - 1 ELSE 0

\* The step changes the count of one user type on one key, to n.
CountBecomes(t, k, n) ==
  \A t2 \in Types, k2 \in Keys :
    table'[k2].count[t2] = IF t2 = t /\ k2 = k THEN n ELSE table[k2].count[t2]

\* The step changes the subscriber count of one host, to n.
ClientCountBecomes(host, n) ==
  \A g \in Hosts :
    presenceTable'[g].client_count = IF g = host THEN n ELSE presenceTable[g].client_count

\* The step gives no host a new presence handle, or one host the handle h.
PresenceHandlesKept ==
  \A g \in Hosts : presenceTable'[g].client_count > 0 =>
    /\ presenceTable[g].client_count > 0
    /\ presenceTable'[g].handle = presenceTable[g].handle
PresenceHandleNew(host, h) ==
  /\ h \in KnownHandles => "reuse" \in Faults
  /\ \A g \in Hosts :
       presenceTable'[g] = IF g = host THEN [client_count |-> 1, handle |-> h]
                                       ELSE presenceTable[g]
-----------------------------------------------------------------------------
\* Freeing a worker context keeps the type of the contexts.
LEMMA FreeWorkerCtxTyped ==
  ASSUME NEW f \in [Ctxs -> WorkerCtxs], NEW t \in Types, NEW w
  PROVE  FreeWorkerCtx(f, t, w) \in [Ctxs -> WorkerCtxs]
<1>1. FreedCtx \in WorkerCtxs
  BY DEF FreedCtx, WorkerCtxs
<1>2. ASSUME NEW x \in Ctxs
      PROVE  FreeWorkerCtx(f, t, w)[x] \in WorkerCtxs
  <2>1. f[x] \in WorkerCtxs
    OBVIOUS
  <2>2. [f[x] EXCEPT !.flag[t] = FALSE] \in WorkerCtxs
    BY <2>1 DEF WorkerCtxs
  <2> QED
    BY <1>1, <2>1, <2>2 DEF FreeWorkerCtx
<1> QED
  BY <1>2 DEF FreeWorkerCtx

\* OCCancel, whatever its outcome, keeps the types of IoTivity's state.
LEMMA OCCancelTyped ==
  ASSUME TablesOK, NEW h, NEW highQos \in BOOLEAN, NEW ok \in BOOLEAN,
         NEW f \in [Ctxs -> WorkerCtxs], OCCancel(h, highQos, f, ok)
  PROVE  txns' \in [Handles -> Txns] /\ ctx' \in [Ctxs -> WorkerCtxs]
<1>1. NoTxn \in Txns
  BY DEF NoTxn, Txns
<1>2. CtxAfterDelete(f, h) \in [Ctxs -> WorkerCtxs]
  BY FreeWorkerCtxTyped DEF CtxAfterDelete
<1>3. CASE Live(h)
  <2>1. h \in Handles /\ txns[h] \in Txns
    BY <1>3 DEF Live, TablesOK
  <2>2. [txns[h] EXCEPT !.cancelling = TRUE] \in Txns
    BY <2>1 DEF Txns
  <2> QED
    BY <1>1, <1>2, <2>1, <2>2 DEF OCCancel, TablesOK
<1>4. CASE ~Live(h)
  BY <1>4 DEF OCCancel, TablesOK
<1> QED
  BY <1>3, <1>4

\* Unsubscribing takes one subscriber off the host's count, never below zero.
LEMMA UnsubscribePresenceEffect ==
  ASSUME TablesOK, NEW h, NEW host \in Hosts, NEW ok \in BOOLEAN,
         NEW f \in [Ctxs -> WorkerCtxs], UnsubscribePresence(h, host, f, ok)
  PROVE  /\ presenceTable' \in [Hosts -> PresenceInfos]
         /\ txns' \in [Handles -> Txns]
         /\ ctx' \in [Ctxs -> WorkerCtxs]
         /\ ClientCountBecomes(host, Dec(presenceTable[host].client_count))
         /\ PresenceHandlesKept
<1>1. presenceTable[host] \in PresenceInfos
  BY DEF TablesOK
<1>2. /\ PresenceTableRemove(presenceTable[host]) \in PresenceInfos
      /\ PresenceTableRemove(presenceTable[host]).client_count
           = Dec(presenceTable[host].client_count)
      /\ PresenceTableRemove(presenceTable[host]).client_count > 0
           => /\ presenceTable[host].client_count > 0
              /\ PresenceTableRemove(presenceTable[host]).handle = presenceTable[host].handle
  BY <1>1 DEF PresenceTableRemove, PresenceInfos, NoPresence, Dec
<1>3. presenceTable' = [presenceTable EXCEPT ![host] = PresenceTableRemove(@)]
  BY DEF UnsubscribePresence
<1>4. txns' \in [Handles -> Txns] /\ ctx' \in [Ctxs -> WorkerCtxs]
  BY OCCancelTyped DEF UnsubscribePresence, TablesOK
<1> QED
  BY <1>2, <1>3, <1>4 DEF TablesOK, ClientCountBecomes, PresenceHandlesKept

\* Subscribing adds one subscriber to the host's count.
LEMMA SubscribePresenceEffect ==
  ASSUME TablesOK, NEW kind \in Types \cup {"presence"}, NEW uri \in Uris \cup {Null},
         NEW host \in Hosts, NEW w \in Ctxs \cup {Null}, NEW h \in Handles,
         SubscribePresence(kind, uri, host, w, h)
  PROVE  /\ presenceTable' \in [Hosts -> PresenceInfos]
         /\ txns' \in [Handles -> Txns]
         /\ ClientCountBecomes(host, presenceTable[host].client_count + 1)
         /\ \/ /\ PresenceHandlesKept
               /\ presenceTable[host].client_count > 0
               /\ presenceTable[host].handle = h
            \/ PresenceHandleNew(host, h)
<1>1. presenceTable[host] \in PresenceInfos /\ presenceTable[host].client_count \in Nat
  BY DEF TablesOK, PresenceInfos
<1>2. CASE presenceTable[host].client_count > 0
  <2>1. presenceTable' = [presenceTable EXCEPT ![host].client_count = @ + 1]
    BY <1>1, <1>2 DEF SubscribePresence
  <2>2. [presenceTable[host] EXCEPT !.client_count = @ + 1] \in PresenceInfos
    BY <1>1 DEF PresenceInfos
  <2>3. txns' = txns
    BY <1>1, <1>2 DEF SubscribePresence
  <2>4. presenceTable[host].handle = h
    BY <1>1, <1>2 DEF SubscribePresence
  <2>5. PresenceHandlesKept
    BY <1>1, <1>2, <2>1 DEF TablesOK, PresenceInfos, PresenceHandlesKept
  <2> QED
    BY <1>1, <1>2, <2>1, <2>2, <2>3, <2>4, <2>5 DEF TablesOK, ClientCountBecomes, PresenceInfos
<1>3. CASE presenceTable[host].client_count = 0
  <2>1. presenceTable' = [presenceTable EXCEPT ![host] = [client_count |-> 1, handle |-> h]]
    BY <1>3 DEF SubscribePresence
  <2>2. [client_count |-> 1, handle |-> h] \in PresenceInfos
    BY DEF PresenceInfos
  <2>3. [kind |-> kind, uri |-> uri, host |-> host, ctx |-> w, cancelling |-> FALSE] \in Txns
    BY DEF Txns
  <2>4. txns' \in [Handles -> Txns]
    BY <1>3, <2>3 DEF SubscribePresence, OCDoResource, TablesOK
  <2>5. PresenceHandleNew(host, h)
    BY <1>3, <2>1 DEF TablesOK, PresenceHandleNew, SubscribePresence, OCDoResource
  <2> QED
    BY <1>3, <2>1, <2>2, <2>4, <2>5 DEF TablesOK, ClientCountBecomes
<1> QED
  BY <1>1, <1>2, <1>3
-----------------------------------------------------------------------------
\* A table entry keeps its type when one count or one handle is set.
LEMMA EntryTyped ==
  ASSUME NEW entry \in Entries, NEW t \in Types, NEW n \in Nat,
         NEW h \in Handles \cup {Null}
  PROVE  /\ [entry EXCEPT !.count[t] = n] \in Entries
         /\ [entry EXCEPT !.handle[t] = h] \in Entries
<1>1. [entry.count EXCEPT ![t] = n] \in [Types -> Nat]
  BY DEF Entries
<1>2. [entry.handle EXCEPT ![t] = h] \in [Types -> Handles \cup {Null}]
  BY DEF Entries
<1>3. [entry EXCEPT !.count[t] = n]
        = [count |-> [entry.count EXCEPT ![t] = n], handle |-> entry.handle,
           worker_ctx |-> entry.worker_ctx]
  BY DEF Entries
<1>4. [entry EXCEPT !.handle[t] = h]
        = [count |-> entry.count, handle |-> [entry.handle EXCEPT ![t] = h],
           worker_ctx |-> entry.worker_ctx]
  BY DEF Entries
<1> QED
  BY <1>1, <1>2, <1>3, <1>4 DEF Entries

\* What icd_ioty_start_encap does to the counts and the table: a success
\* adds one user, and one presence subscriber when the host's first
\* monitoring user of the key came; a failure adds nothing.
LEMMA StartEncapEffect ==
  ASSUME TablesOK, EntriesUsed, NEW t \in Types, NEW k \in Keys,
         NEW ok \in BOOLEAN, StartEncap(t, k, ok)
  PROVE  /\ TablesOK'
         /\ EntriesUsed'
         /\ TableKeys' \subseteq TableKeys \cup {k}
         /\ CountBecomes(t, k, IF ok THEN table[k].count[t] + 1 ELSE table[k].count[t])
         /\ IF ok /\ t = "monitoring" /\ table[k].count[t] = 0
            THEN ClientCountBecomes(k.host, presenceTable[k.host].client_count + 1)
            ELSE presenceTable' = presenceTable
         /\ PresenceHandlesKept \/ \E h \in Handles : PresenceHandleNew(k.host, h)
<1>1. /\ table[k] \in Entries
      /\ \A t2 \in Types : table[k].count[t2] \in Nat
      /\ k.host \in Hosts /\ k.uri \in Uris
      /\ table \in [Keys -> Entries]
  BY DEF TablesOK, Entries, Keys
<1>0. presenceTable' = presenceTable => PresenceHandlesKept
  BY DEF PresenceHandlesKept
<1>2. CASE ok /\ StartEncapShared(t, k)
  <2>1. table[k].count[t] > 0
    BY <1>2 DEF StartEncapShared
  <2>2. table' = [table EXCEPT ![k].count[t] = @ + 1]
    BY <1>2 DEF StartEncapShared
  <2>3. presenceTable' = presenceTable /\ txns' = txns /\ ctx' = ctx
    BY <1>2 DEF StartEncapShared
  <2>4. \A k2 \in Keys : table'[k2].worker_ctx = table[k2].worker_ctx
    BY <1>1, <2>2 DEF Entries
  <2>5. CountBecomes(t, k, table[k].count[t] + 1)
    BY <1>1, <2>2 DEF Entries, CountBecomes
  <2>6. table' \in [Keys -> Entries]
    <3>1. table[k].count[t] + 1 \in Nat
      BY <1>1
    <3>2. [table[k] EXCEPT !.count[t] = table[k].count[t] + 1] \in Entries
      BY <1>1, <3>1, EntryTyped
    <3> QED
      BY <1>1, <2>2, <3>2
  <2>7. \A k2 \in Keys : (\E t2 \in Types : table'[k2].count[t2] > 0)
                         <=> (\E t2 \in Types : table[k2].count[t2] > 0)
    BY <1>1, <2>1, <2>5 DEF CountBecomes
  <2>8. EntriesUsed' /\ TableKeys' = TableKeys
    BY <2>4, <2>7 DEF EntriesUsed, InTable, TableKeys
  <2> QED
    BY <1>0, <1>2, <2>1, <2>3, <2>5, <2>6, <2>8 DEF TablesOK
<1>3. CASE ok /\ StartEncapFirst(t, k)
  <2>1. PICK w \in WorkerCtx(k), h \in Handles :
          /\ table' = [table EXCEPT ![k] = [@ EXCEPT !.count[t] = 1, !.handle[t] = h,
                                                     !.worker_ctx = w]]
          /\ ctx' = [ctx EXCEPT ![w] = [(IF InTable(k) THEN @ ELSE NewCtx)
                                          EXCEPT !.flag[t] = TRUE]]
          /\ \/ /\ t = "monitoring"
                /\ SubscribePresence(t, k.uri, k.host, w, h)
             \/ /\ t = "caching"
                /\ OCDoResource(h, t, k.uri, k.host, w)
                /\ UNCHANGED presenceTable
    BY <1>3 DEF StartEncapFirst
  <2>2. table[k].count[t] = 0
    BY <1>3 DEF StartEncapFirst
  <2>3. w \in Ctxs
    BY <1>1, <2>1 DEF WorkerCtx, FreshCtxs, InTable, Entries
  <2>4. table' \in [Keys -> Entries]
    BY <1>1, <2>1, <2>3 DEF Entries
  <2>5. CountBecomes(t, k, 1)
    BY <1>1, <2>1 DEF Entries, CountBecomes
  <2>6. \A k2 \in Keys : table'[k2].worker_ctx = IF k2 = k THEN w ELSE table[k2].worker_ctx
    BY <1>1, <2>1 DEF Entries
  <2>7. ctx' \in [Ctxs -> WorkerCtxs]
    <3>1. ctx[w] \in WorkerCtxs /\ NewCtx \in WorkerCtxs
      BY <2>3 DEF TablesOK, NewCtx, WorkerCtxs
    <3>2. \A x \in WorkerCtxs : [x EXCEPT !.flag[t] = TRUE] \in WorkerCtxs
      BY DEF WorkerCtxs
    <3> QED
      BY <2>1, <3>1, <3>2 DEF TablesOK
  <2>8. w # Null
    BY <2>3, NullAssumption
  <2>10. EntriesUsed' /\ TableKeys' \subseteq TableKeys \cup {k}
    <3>1. \A k2 \in Keys : InTable(k2)' <=> (k2 = k \/ InTable(k2))
      BY <2>6, <2>8 DEF InTable
    <3>2. \A k2 \in Keys : (\E t2 \in Types : table'[k2].count[t2] > 0)
                           <=> (k2 = k \/ \E t2 \in Types : table[k2].count[t2] > 0)
      BY <1>1, <2>5 DEF CountBecomes
    <3> QED
      BY <3>1, <3>2 DEF EntriesUsed, TableKeys
  <2>11. CASE t = "monitoring"
    <3>1. SubscribePresence(t, k.uri, k.host, w, h)
      BY <2>1, <2>11
    <3>2. /\ presenceTable' \in [Hosts -> PresenceInfos]
          /\ txns' \in [Handles -> Txns]
          /\ ClientCountBecomes(k.host, presenceTable[k.host].client_count + 1)
          /\ PresenceHandlesKept \/ PresenceHandleNew(k.host, h)
      BY <1>1, <2>3, <3>1, SubscribePresenceEffect
    <3> QED
      BY <1>1, <1>3, <2>2, <2>4, <2>5, <2>7, <2>10, <2>11, <3>2 DEF TablesOK
  <2>12. CASE t = "caching"
    <3>1. presenceTable' = presenceTable /\ OCDoResource(h, t, k.uri, k.host, w)
      BY <2>1, <2>12
    <3>2. [kind |-> t, uri |-> k.uri, host |-> k.host, ctx |-> w, cancelling |-> FALSE] \in Txns
      BY <1>1, <2>3 DEF Txns
    <3>3. txns' \in [Handles -> Txns]
      BY <3>1, <3>2 DEF OCDoResource, TablesOK
    <3> QED
      BY <1>0, <1>1, <1>3, <2>2, <2>4, <2>5, <2>7, <2>10, <2>12, <3>1, <3>3 DEF TablesOK
  <2> QED
    BY <2>11, <2>12 DEF Types
<1>4. CASE ~ok /\ StartEncapFails(t, k)
  <2>1. presenceTable' = presenceTable /\ txns' = txns
    BY <1>4 DEF StartEncapFails
  <2>2. table' = table \/ table' = [table EXCEPT ![k].handle[t] = Null]
    BY <1>4 DEF StartEncapFails
  <2>3. /\ table' \in [Keys -> Entries]
        /\ \A k2 \in Keys : /\ table'[k2].count = table[k2].count
                            /\ table'[k2].worker_ctx = table[k2].worker_ctx
    <3>1. [table[k] EXCEPT !.handle[t] = Null] \in Entries
      BY <1>1, EntryTyped
    <3>2. /\ [table[k] EXCEPT !.handle[t] = Null].count = table[k].count
          /\ [table[k] EXCEPT !.handle[t] = Null].worker_ctx = table[k].worker_ctx
      BY <1>1 DEF Entries
    <3> QED
      BY <1>1, <2>2, <3>1, <3>2
  <2>4. ctx' \in [Ctxs -> WorkerCtxs]
    BY <1>4, FreeWorkerCtxTyped DEF StartEncapFails, TablesOK
  <2>5. EntriesUsed' /\ TableKeys' = TableKeys
    BY <2>3 DEF EntriesUsed, InTable, TableKeys
  <2> QED
    BY <1>0, <1>4, <2>1, <2>3, <2>4, <2>5 DEF TablesOK, CountBecomes
<1> QED
  BY <1>2, <1>3, <1>4 DEF StartEncap

\* What icd_ioty_stop_encap does: one user less, if there was one, and one
\* presence subscriber less when the last monitoring user went.
LEMMA StopEncapEffect ==
  ASSUME TablesOK, EntriesUsed, NEW t \in Types, NEW k \in Keys,
         NEW ok \in BOOLEAN, StopEncap(t, k, ok)
  PROVE  /\ TablesOK'
         /\ EntriesUsed'
         /\ TableKeys' \subseteq TableKeys
         /\ CountBecomes(t, k, Dec(table[k].count[t]))
         /\ ok => table[k].count[t] > 0
         /\ IF t = "monitoring" /\ table[k].count[t] = 1
            THEN ClientCountBecomes(k.host, Dec(presenceTable[k.host].client_count))
            ELSE presenceTable' = presenceTable
         /\ PresenceHandlesKept
<1>1. /\ table[k] \in Entries
      /\ \A t2 \in Types : table[k].count[t2] \in Nat
      /\ k.host \in Hosts
      /\ table \in [Keys -> Entries]
  BY DEF TablesOK, Entries, Keys
<1>0. presenceTable' = presenceTable => PresenceHandlesKept
  BY DEF PresenceHandlesKept
<1>2. CASE ~ok /\ StopEncapUnknown(t, k)
  <2>1. table[k].count[t] = 0 /\ UNCHANGED <<table, presenceTable, txns, ctx>>
    BY <1>2 DEF StopEncapUnknown, tables, ioty
  <2>2. EntriesUsed' /\ TableKeys' = TableKeys
    BY <2>1 DEF EntriesUsed, InTable, TableKeys
  <2> QED
    BY <1>0, <1>2, <2>1, <2>2 DEF TablesOK, CountBecomes, Dec
<1>3. CASE ok /\ StopEncapShared(t, k)
  <2>1. table[k].count[t] > 1
    BY <1>3 DEF StopEncapShared
  <2>2. table' = [table EXCEPT ![k].count[t] = @ - 1]
    BY <1>3 DEF StopEncapShared
  <2>3. presenceTable' = presenceTable /\ txns' = txns /\ ctx' = ctx
    BY <1>3 DEF StopEncapShared
  <2>4. \A k2 \in Keys : table'[k2].worker_ctx = table[k2].worker_ctx
    BY <1>1, <2>2 DEF Entries
  <2>5. CountBecomes(t, k, table[k].count[t] - 1)
    BY <1>1, <2>2 DEF Entries, CountBecomes
  <2>6. table' \in [Keys -> Entries]
    <3>1. table[k].count[t] - 1 \in Nat
      BY <1>1, <2>1
    <3>2. [table[k] EXCEPT !.count[t] = table[k].count[t] - 1] \in Entries
      BY <1>1, <3>1, EntryTyped
    <3> QED
      BY <1>1, <2>2, <3>2
  <2>7. \A k2 \in Keys : (\E t2 \in Types : table'[k2].count[t2] > 0)
                         <=> (\E t2 \in Types : table[k2].count[t2] > 0)
    BY <1>1, <2>1, <2>5 DEF CountBecomes
  <2>8. EntriesUsed' /\ TableKeys' = TableKeys
    BY <2>4, <2>7 DEF EntriesUsed, InTable, TableKeys
  <2> QED
    BY <1>0, <1>1, <1>3, <2>1, <2>3, <2>5, <2>6, <2>8 DEF TablesOK, Dec
<1>4. CASE StopEncapLast(t, k, ok)
  <2> DEFINE f == IF LastUser(t, k) THEN Invalidate(ctx, table[k].worker_ctx) ELSE ctx
  <2>1. /\ table[k].count[t] = 1
        /\ table' = [table EXCEPT ![k] = IF LastUser(t, k) THEN NoEntry
                                         ELSE [@ EXCEPT !.count[t] = 0]]
        /\ \/ /\ t = "monitoring"
              /\ UnsubscribePresence(table[k].handle[t], k.host, f, ok)
           \/ /\ t = "caching"
              /\ OCCancel(table[k].handle[t], TRUE, f, ok)
              /\ UNCHANGED presenceTable
    BY <1>4 DEF StopEncapLast
  <2>2. f \in [Ctxs -> WorkerCtxs]
    BY DEF TablesOK, WorkerCtxs, Invalidate
  <2>3. table' \in [Keys -> Entries]
    BY <1>1, <2>1 DEF Entries, NoEntry
  <2>4. CountBecomes(t, k, 0)
    BY <1>1, <2>1 DEF Entries, NoEntry, CountBecomes, LastUser, Other, Types
  <2>5. \A k2 \in Keys :
          table'[k2].worker_ctx = IF k2 = k /\ LastUser(t, k) THEN Null ELSE table[k2].worker_ctx
    BY <1>1, <2>1 DEF Entries, NoEntry
  <2>6. InTable(k)
    BY <1>1, <2>1 DEF EntriesUsed
  <2>7. EntriesUsed' /\ TableKeys' \subseteq TableKeys
    <3>1. \A k2 \in Keys : InTable(k2)' <=> (InTable(k2) /\ ~(k2 = k /\ LastUser(t, k)))
      BY <2>5 DEF InTable
    <3>2. (\E t2 \in Types : table'[k].count[t2] > 0) <=> ~LastUser(t, k)
      BY <1>1, <2>4 DEF CountBecomes, LastUser, Other, Types
    <3>3. \A k2 \in Keys : k2 # k => ((\E t2 \in Types : table'[k2].count[t2] > 0)
                                     <=> (\E t2 \in Types : table[k2].count[t2] > 0))
      BY <2>4 DEF CountBecomes
    <3> QED
      BY <2>6, <3>1, <3>2, <3>3 DEF EntriesUsed, TableKeys
  <2>8. CASE t = "monitoring"
    <3>1. UnsubscribePresence(table[k].handle[t], k.host, f, ok)
      BY <2>1, <2>8
    <3> HIDE DEF f
    <3>2. /\ presenceTable' \in [Hosts -> PresenceInfos]
          /\ txns' \in [Handles -> Txns]
          /\ ctx' \in [Ctxs -> WorkerCtxs]
          /\ ClientCountBecomes(k.host, Dec(presenceTable[k.host].client_count))
          /\ PresenceHandlesKept
      BY <1>1, <2>2, <3>1, UnsubscribePresenceEffect
    <3> QED
      BY <1>1, <2>1, <2>3, <2>4, <2>7, <2>8, <3>2 DEF TablesOK, Dec
  <2>9. CASE t = "caching"
    <3>1. OCCancel(table[k].handle[t], TRUE, f, ok) /\ presenceTable' = presenceTable
      BY <2>1, <2>9
    <3> HIDE DEF f
    <3>2. txns' \in [Handles -> Txns] /\ ctx' \in [Ctxs -> WorkerCtxs]
      BY <2>2, <3>1, OCCancelTyped
    <3> QED
      BY <1>0, <1>1, <2>1, <2>3, <2>4, <2>7, <2>9, <3>1, <3>2 DEF TablesOK, Dec
  <2> QED
    BY <2>8, <2>9 DEF Types
<1> QED
  BY <1>2, <1>3, <1>4 DEF StopEncap
-----------------------------------------------------------------------------
\* A finite set that lost at most one element lost at most one in size.
LEMMA LosesAtMostOne ==
  ASSUME NEW S, NEW T, NEW m, IsFiniteSet(S), IsFiniteSet(T), S \ {m} \subseteq T
  PROVE  /\ Cardinality(S) \in Nat /\ Cardinality(T) \in Nat
         /\ Cardinality(S) <= Cardinality(T) + 1
<1>1. Cardinality(S) \in Nat /\ Cardinality(T) \in Nat
  BY FS_CardinalityType
<1>2. Cardinality(S \ {m}) = IF m \in S THEN Cardinality(S) - 1 ELSE Cardinality(S)
  BY FS_RemoveElement
<1>3. Cardinality(S \ {m}) <= Cardinality(T)
  BY FS_Subset
<1>4. S \ {m} \subseteq S /\ IsFiniteSet(S \ {m})
  BY FS_RemoveElement
<1>5. Cardinality(S \ {m}) \in Nat
  BY <1>4, FS_CardinalityType
<1> QED
  BY <1>1, <1>2, <1>3, <1>5

\* A finite set that got a new element is larger by one.
LEMMA GainsOne ==
  ASSUME NEW S, NEW x, IsFiniteSet(S), x \notin S
  PROVE  /\ IsFiniteSet(S \cup {x})
         /\ Cardinality(S) \in Nat
         /\ Cardinality(S \cup {x}) = Cardinality(S) + 1
BY FS_AddElement, FS_CardinalityType

\* The sets the counts are compared with are finite, before and after a step.
FiniteUsers ==
  /\ \A t, k : IsFiniteSet(UsersOf(t, k)) /\ Cardinality(UsersOf(t, k)) \in Nat
  /\ \A host : IsFiniteSet(Subscribers(host)) /\ Cardinality(Subscribers(host)) \in Nat
  /\ \A host : IsFiniteSet(MonitoredOn(host)) /\ Cardinality(MonitoredOn(host)) \in Nat

LEMMA UsersFinite == FiniteLists /\ EntriesUsed => FiniteUsers
<1> SUFFICES ASSUME FiniteLists, EntriesUsed PROVE FiniteUsers
  OBVIOUS
<1>1. IsFiniteSet(encaps \cup dying) /\ IsFiniteSet(presences \cup dyingPresences)
  BY FS_Union DEF FiniteLists
<1>2. ASSUME NEW t, NEW k PROVE IsFiniteSet(UsersOf(t, k))
  BY <1>1, FS_Subset DEF UsersOf
<1>3. ASSUME NEW host PROVE IsFiniteSet(Subscribers(host))
  BY <1>1, FS_Subset DEF Subscribers
<1>4. ASSUME NEW host PROVE IsFiniteSet(MonitoredOn(host))
  <2>1. MonitoredOn(host) \subseteq TableKeys
    BY DEF MonitoredOn, EntriesUsed, Types, TableKeys
  <2> QED
    BY <2>1, FS_Subset DEF FiniteLists
<1> QED
  BY <1>2, <1>3, <1>4, FS_CardinalityType DEF FiniteUsers

LEMMA UsersFiniteNext == (FiniteLists /\ EntriesUsed => FiniteUsers)'
BY UsersFinite, PTL

\* The counts are natural numbers.
LEMMA CountsTyped ==
  ASSUME TablesOK
  PROVE  /\ \A k \in Keys, t \in Types : table[k].count[t] \in Nat
         /\ \A g \in Hosts : presenceTable[g].client_count \in Nat
<1>1. ASSUME NEW k \in Keys, NEW t \in Types PROVE table[k].count[t] \in Nat
  <2>1. table[k] \in Entries
    BY DEF TablesOK
  <2> QED
    BY <2>1 DEF Entries
<1>2. ASSUME NEW g \in Hosts PROVE presenceTable[g].client_count \in Nat
  <2>1. presenceTable[g] \in PresenceInfos
    BY DEF TablesOK
  <2> QED
    BY <2>1 DEF PresenceInfos
<1> QED
  BY <1>1, <1>2

\* A start of type t on key k keeps the presence counts covered: the count of
\* the host grows by one only when k becomes one of its monitored keys.
LEMMA StartEncapCovers ==
  ASSUME IInv, NEW t \in Types, NEW k \in Keys, NEW ok \in BOOLEAN,
         StartEncap(t, k, ok), UNCHANGED <<presences, dyingPresences>>
  PROVE  PresenceCovered'
<1>1. TablesOK /\ EntriesUsed /\ FiniteLists
  BY DEF IInv, TypeOK, TablesOK
<1>2. /\ CountBecomes(t, k, IF ok THEN table[k].count[t] + 1 ELSE table[k].count[t])
      /\ IF ok /\ t = "monitoring" /\ table[k].count[t] = 0
         THEN ClientCountBecomes(k.host, presenceTable[k.host].client_count + 1)
         ELSE presenceTable' = presenceTable
  BY <1>1, StartEncapEffect
<1>3. /\ \A k2 \in Keys, t2 \in Types : table[k2].count[t2] \in Nat
      /\ \A g \in Hosts : presenceTable[g].client_count \in Nat
      /\ k.host \in Hosts
      /\ "monitoring" \in Types
  <2>1. k.host \in Hosts
    BY DEF Keys
  <2>2. "monitoring" \in Types
    BY DEF Types
  <2> QED
    BY <1>1, <2>1, <2>2, CountsTyped
<1>4. \A g \in Hosts : Subscribers(g)' = Subscribers(g)
  BY DEF Subscribers
<1>5. SUFFICES ASSUME "reuse" \notin Faults, NEW g \in Hosts
               PROVE  presenceTable'[g].client_count
                        <= Cardinality(Subscribers(g)) + Cardinality(MonitoredOn(g)')
  BY <1>4 DEF PresenceCovered
<1>6. /\ presenceTable[g].client_count
           <= Cardinality(Subscribers(g)) + Cardinality(MonitoredOn(g))
      /\ Cardinality(Subscribers(g)) \in Nat
      /\ Cardinality(MonitoredOn(g)) \in Nat
      /\ IsFiniteSet(MonitoredOn(g))
  <2>1. presenceTable[g].client_count
          <= Cardinality(Subscribers(g)) + Cardinality(MonitoredOn(g))
    BY <1>5 DEF IInv, PresenceCovered
  <2> QED
    BY <1>1, <2>1, UsersFinite DEF FiniteUsers
<1>7. CASE ok /\ t = "monitoring" /\ table[k].count[t] = 0 /\ g = k.host
  <2>1. k \notin MonitoredOn(g)
    BY <1>7 DEF MonitoredOn
  <2>2. MonitoredOn(g)' = MonitoredOn(g) \cup {k}
    BY <1>2, <1>3, <1>7 DEF MonitoredOn, CountBecomes
  <2>3. presenceTable'[g].client_count = presenceTable[g].client_count + 1
    BY <1>2, <1>7 DEF ClientCountBecomes
  <2>4. Cardinality(MonitoredOn(g)') = Cardinality(MonitoredOn(g)) + 1
    BY <1>6, <2>1, <2>2, GainsOne
  <2> QED
    BY <1>3, <1>6, <2>3, <2>4
<1>8. CASE ~(ok /\ t = "monitoring" /\ table[k].count[t] = 0 /\ g = k.host)
  <2>1. \A k2 \in Keys : k2.host = g =>
          (table'[k2].count["monitoring"] > 0 <=> table[k2].count["monitoring"] > 0)
    BY <1>2, <1>3, <1>8 DEF CountBecomes
  <2>2. MonitoredOn(g)' = MonitoredOn(g)
    BY <2>1 DEF MonitoredOn
  <2>3. presenceTable'[g].client_count = presenceTable[g].client_count
    <3>1. CASE ok /\ t = "monitoring" /\ table[k].count[t] = 0
      BY <1>2, <1>8, <3>1 DEF ClientCountBecomes
    <3>2. CASE ~(ok /\ t = "monitoring" /\ table[k].count[t] = 0)
      BY <1>2, <3>2
    <3> QED
      BY <3>1, <3>2
  <2> QED
    BY <1>6, <2>2, <2>3
<1> QED
  BY <1>7, <1>8

\* A stop of type t on key k keeps the presence counts covered: when k is no
\* longer one of the host's monitored keys, the host's count went down too.
LEMMA StopEncapCovers ==
  ASSUME IInv, NEW t \in Types, NEW k \in Keys, NEW ok \in BOOLEAN,
         StopEncap(t, k, ok), UNCHANGED <<presences, dyingPresences>>,
         FiniteLists'
  PROVE  PresenceCovered'
<1>1. TablesOK /\ EntriesUsed /\ FiniteLists
  BY DEF IInv, TypeOK, TablesOK
<1>2. /\ CountBecomes(t, k, Dec(table[k].count[t]))
      /\ IF t = "monitoring" /\ table[k].count[t] = 1
         THEN ClientCountBecomes(k.host, Dec(presenceTable[k.host].client_count))
         ELSE presenceTable' = presenceTable
      /\ EntriesUsed'
  BY <1>1, StopEncapEffect
<1>3. /\ \A k2 \in Keys, t2 \in Types : table[k2].count[t2] \in Nat
      /\ \A g \in Hosts : presenceTable[g].client_count \in Nat
      /\ k.host \in Hosts
      /\ "monitoring" \in Types
  <2>1. k.host \in Hosts
    BY DEF Keys
  <2>2. "monitoring" \in Types
    BY DEF Types
  <2> QED
    BY <1>1, <2>1, <2>2, CountsTyped
<1>4. \A g \in Hosts : Subscribers(g)' = Subscribers(g)
  BY DEF Subscribers
<1>5. SUFFICES ASSUME "reuse" \notin Faults, NEW g \in Hosts
               PROVE  presenceTable'[g].client_count
                        <= Cardinality(Subscribers(g)) + Cardinality(MonitoredOn(g)')
  BY <1>4 DEF PresenceCovered
<1>6. /\ presenceTable[g].client_count
           <= Cardinality(Subscribers(g)) + Cardinality(MonitoredOn(g))
      /\ Cardinality(Subscribers(g)) \in Nat
      /\ Cardinality(MonitoredOn(g)) \in Nat
      /\ IsFiniteSet(MonitoredOn(g))
  <2>1. presenceTable[g].client_count
          <= Cardinality(Subscribers(g)) + Cardinality(MonitoredOn(g))
    BY <1>5 DEF IInv, PresenceCovered
  <2> QED
    BY <1>1, <2>1, UsersFinite DEF FiniteUsers
<1>7. CASE t = "monitoring" /\ table[k].count[t] = 1 /\ g = k.host
  <2>1. MonitoredOn(g)' = MonitoredOn(g) \ {k}
    BY <1>2, <1>3, <1>7 DEF MonitoredOn, CountBecomes, Dec
  <2>2. k \in MonitoredOn(g)
    BY <1>7 DEF MonitoredOn
  <2>3. Cardinality(MonitoredOn(g)') = Cardinality(MonitoredOn(g)) - 1
    BY <1>6, <2>1, <2>2, FS_RemoveElement
  <2>4. Cardinality(MonitoredOn(g)') \in Nat
    BY <1>6, <2>1, FS_RemoveElement, FS_CardinalityType
  <2>5. presenceTable'[g].client_count = Dec(presenceTable[g].client_count)
    BY <1>2, <1>7 DEF ClientCountBecomes
  <2> QED
    BY <1>3, <1>6, <2>3, <2>4, <2>5 DEF Dec
<1>8. CASE ~(t = "monitoring" /\ table[k].count[t] = 1 /\ g = k.host)
  <2>1. \A k2 \in Keys : k2.host = g =>
          (table'[k2].count["monitoring"] > 0 <=> table[k2].count["monitoring"] > 0)
    BY <1>2, <1>3, <1>8 DEF CountBecomes, Dec
  <2>2. MonitoredOn(g)' = MonitoredOn(g)
    BY <2>1 DEF MonitoredOn
  <2>3. presenceTable'[g].client_count = presenceTable[g].client_count
    BY <1>2, <1>8 DEF ClientCountBecomes
  <2> QED
    BY <1>6, <2>2, <2>3
<1> QED
  BY <1>7, <1>8

\* The presence handles keep naming hosts while the lists only shrink and no
\* host gets a new handle, or when one host got one and the lists got at most
\* an entry for it.
LEMMA HandlesStillNameHosts ==
  ASSUME HandlesNameHosts, PresenceHandlesKept,
         (presences \cup subscribed)' \subseteq presences \cup subscribed
  PROVE  HandlesNameHosts'
BY DEF HandlesNameHosts, PresenceHandlesKept

LEMMA NewHandleNamesHost ==
  ASSUME HandlesNameHosts, NEW host \in Hosts, NEW h \in Handles,
         PresenceHandleNew(host, h), NEW p, p.handle = h, p.host = host,
         (presences \cup subscribed)' \subseteq presences \cup subscribed \cup {p}
  PROVE  HandlesNameHosts'
<1> SUFFICES ASSUME "reuse" \notin Faults
             PROVE  HandlesNameHosts'
  BY DEF HandlesNameHosts
<1>1. /\ \A q \in presences \cup subscribed : q.handle # h
      /\ \A g \in Hosts : presenceTable[g].handle # h
  BY DEF PresenceHandleNew, KnownHandles
<1>2. \A g \in Hosts : g # host => presenceTable'[g] = presenceTable[g]
  BY DEF PresenceHandleNew
<1>3. presenceTable'[host].handle = h
  BY DEF PresenceHandleNew
<1>4. ASSUME NEW q1 \in (presences \cup subscribed)', NEW q2 \in (presences \cup subscribed)',
             q1.handle = q2.handle
      PROVE  q1.host = q2.host
  BY <1>1, <1>4 DEF HandlesNameHosts
<1>5. ASSUME NEW q \in (presences \cup subscribed)', NEW g \in Hosts,
             presenceTable'[g].client_count > 0, presenceTable'[g].handle = q.handle
      PROVE  q.host = g
  BY <1>1, <1>2, <1>3, <1>5 DEF HandlesNameHosts
<1>6. ASSUME NEW g1 \in Hosts, NEW g2 \in Hosts,
             presenceTable'[g1].client_count > 0, presenceTable'[g2].client_count > 0,
             presenceTable'[g1].handle = presenceTable'[g2].handle
      PROVE  g1 = g2
  BY <1>1, <1>2, <1>3, <1>6 DEF HandlesNameHosts
<1> QED
  BY <1>4, <1>5, <1>6 DEF HandlesNameHosts
-----------------------------------------------------------------------------
\* When one user of type t on key k is taken off the count, the lists may
\* lose one entry for t and k and the counts stay covered.
LEMMA StopCountsCovered ==
  ASSUME IInv, (FiniteLists /\ EntriesUsed)', NEW t \in Types, NEW k \in Keys,
         CountBecomes(t, k, Dec(table[k].count[t])),
         NEW m, m.type = t, m.key = k,
         (encaps \cup dying) \ {m} \subseteq (encaps \cup dying)'
  PROVE  CountsCovered'
<1>1. TablesOK /\ EntriesUsed /\ FiniteLists
  BY DEF IInv, TypeOK, TablesOK
<1>2. SUFFICES ASSUME NEW t2 \in Types, NEW k2 \in Keys
               PROVE  table'[k2].count[t2] <= Cardinality(UsersOf(t2, k2)')
  BY DEF CountsCovered
<1>3. /\ IsFiniteSet(UsersOf(t2, k2)) /\ IsFiniteSet(UsersOf(t2, k2)')
      /\ Cardinality(UsersOf(t2, k2)) \in Nat /\ Cardinality(UsersOf(t2, k2)') \in Nat
  <2>1. IsFiniteSet(UsersOf(t2, k2)) /\ Cardinality(UsersOf(t2, k2)) \in Nat
    BY <1>1, UsersFinite DEF FiniteUsers
  <2>2. (IsFiniteSet(UsersOf(t2, k2)) /\ Cardinality(UsersOf(t2, k2)) \in Nat)'
    BY UsersFiniteNext DEF FiniteUsers
  <2> QED
    BY <2>1, <2>2
<1>4. table[k2].count[t2] <= Cardinality(UsersOf(t2, k2))
  BY DEF IInv, CountsCovered
<1>5. table[k2].count[t2] \in Nat
  BY <1>1, CountsTyped
<1>6. UsersOf(t2, k2) \ {m} \subseteq UsersOf(t2, k2)'
  BY DEF UsersOf
<1>7. CASE t2 = t /\ k2 = k
  <2>1. table'[k2].count[t2] = Dec(table[k2].count[t2])
    BY <1>7 DEF CountBecomes
  <2>2. Cardinality(UsersOf(t2, k2)) <= Cardinality(UsersOf(t2, k2)') + 1
    BY <1>3, <1>6, LosesAtMostOne
  <2> QED
    BY <1>3, <1>4, <1>5, <2>1, <2>2 DEF Dec
<1>8. CASE ~(t2 = t /\ k2 = k)
  <2>1. table'[k2].count[t2] = table[k2].count[t2]
    BY <1>8 DEF CountBecomes
  <2>2. UsersOf(t2, k2) \subseteq UsersOf(t2, k2)'
    BY <1>6, <1>8 DEF UsersOf
  <2>3. Cardinality(UsersOf(t2, k2)) <= Cardinality(UsersOf(t2, k2)')
    BY <1>3, <2>2, FS_Subset
  <2> QED
    BY <1>3, <1>4, <1>5, <2>1, <2>3
<1> QED
  BY <1>7, <1>8

\* When one subscriber is taken off a host's count, the presence lists may
\* lose one entry of that host and the counts stay covered.
LEMMA UnsubscribeCovered ==
  ASSUME IInv, FiniteLists', UNCHANGED table, NEW host \in Hosts,
         ClientCountBecomes(host, Dec(presenceTable[host].client_count)),
         NEW m, "reuse" \notin Faults => m.host = host,
         (presences \cup dyingPresences) \ {m} \subseteq (presences \cup dyingPresences)'
  PROVE  PresenceCovered'
<1>1. TablesOK /\ EntriesUsed /\ FiniteLists
  BY DEF IInv, TypeOK, TablesOK
<1>2. \A g \in Hosts : MonitoredOn(g)' = MonitoredOn(g)
  BY DEF MonitoredOn
<1>3. SUFFICES ASSUME "reuse" \notin Faults, NEW g \in Hosts
               PROVE  presenceTable'[g].client_count
                        <= Cardinality(Subscribers(g)') + Cardinality(MonitoredOn(g))
  BY <1>2 DEF PresenceCovered
<1>4. presenceTable[g].client_count
        <= Cardinality(Subscribers(g)) + Cardinality(MonitoredOn(g))
  BY <1>3 DEF IInv, PresenceCovered
<1>5. /\ IsFiniteSet(Subscribers(g)) /\ IsFiniteSet(Subscribers(g)')
      /\ Cardinality(Subscribers(g)) \in Nat /\ Cardinality(Subscribers(g)') \in Nat
      /\ Cardinality(MonitoredOn(g)) \in Nat
      /\ presenceTable[g].client_count \in Nat
  <2>1. EntriesUsed'
    BY <1>1 DEF EntriesUsed, InTable
  <2>2. /\ IsFiniteSet(Subscribers(g)) /\ Cardinality(Subscribers(g)) \in Nat
        /\ Cardinality(MonitoredOn(g)) \in Nat
    BY <1>1, UsersFinite DEF FiniteUsers
  <2>3. (IsFiniteSet(Subscribers(g)) /\ Cardinality(Subscribers(g)) \in Nat)'
    BY <2>1, UsersFiniteNext DEF FiniteUsers
  <2>4. presenceTable[g].client_count \in Nat
    BY <1>1, CountsTyped
  <2> QED
    BY <2>2, <2>3, <2>4
<1>6. Subscribers(g) \ {m} \subseteq Subscribers(g)'
  BY DEF Subscribers
<1>7. CASE g = host
  <2>1. presenceTable'[g].client_count = Dec(presenceTable[g].client_count)
    BY <1>7 DEF ClientCountBecomes
  <2>2. Cardinality(Subscribers(g)) <= Cardinality(Subscribers(g)') + 1
    BY <1>5, <1>6, LosesAtMostOne
  <2> QED
    BY <1>4, <1>5, <2>1, <2>2 DEF Dec
<1>8. CASE g # host
  <2>1. presenceTable'[g].client_count = presenceTable[g].client_count
    BY <1>8 DEF ClientCountBecomes
  <2>2. Subscribers(g) \subseteq Subscribers(g)'
    BY <1>3, <1>6, <1>8 DEF Subscribers
  <2>3. Cardinality(Subscribers(g)) <= Cardinality(Subscribers(g)')
    BY <1>5, <2>2, FS_Subset
  <2> QED
    BY <1>4, <1>5, <2>1, <2>3
<1> QED
  BY <1>7, <1>8
-----------------------------------------------------------------------------
\* The initial state satisfies the invariant.
LEMMA InitIInv == Init => IInv
<1> SUFFICES ASSUME Init PROVE IInv
  OBVIOUS
<1>1. TypeOK
  <2>1. /\ NoEntry \in Entries
        /\ NoPresence \in PresenceInfos
        /\ NoTxn \in Txns
        /\ FreedCtx \in WorkerCtxs
    BY DEF NoEntry, Entries, NoPresence, PresenceInfos, NoTxn, Txns, FreedCtx, WorkerCtxs
  <2> QED
    BY <2>1 DEF Init, TypeOK
<1>3. \A k \in Keys, t \in Types : table[k].count[t] = 0 /\ ~InTable(k)
  BY DEF Init, NoEntry, InTable
<1>2. FiniteLists
  <2>1. TableKeys = {}
    BY DEF Init, NoEntry, InTable, TableKeys
  <2> QED
    BY <2>1, FS_EmptySet DEF Init, FiniteLists
<1>4. EntriesUsed
  <2>1. \A k \in Keys : ~InTable(k) /\ ~(\E t \in Types : table[k].count[t] > 0)
    BY <1>3 DEF Types
  <2> QED
    BY <2>1 DEF EntriesUsed
<1>5. FiniteUsers
  BY <1>2, <1>4, UsersFinite
<1>6. CountsCovered
  BY <1>3, <1>5 DEF CountsCovered, FiniteUsers
<1>7. \A g \in Hosts : presenceTable[g].client_count = 0
  BY DEF Init, NoPresence
<1>8. PresenceCovered
  BY <1>5, <1>7 DEF PresenceCovered, FiniteUsers
<1>9. HandlesNameHosts
  BY <1>7 DEF Init, HandlesNameHosts
<1> QED
  BY <1>1, <1>2, <1>4, <1>6, <1>8, <1>9 DEF IInv

\* Start: the count and the list grow together, by an entry with a fresh id.
LEMMA StartStep ==
  ASSUME IInv, NEW c \in Clients, NEW t \in Types, NEW k \in Keys, Start(c, t, k)
  PROVE  IInv'
<1>1. TablesOK /\ EntriesUsed /\ FiniteLists
  BY DEF IInv, TypeOK, TablesOK
<1>2. UNCHANGED <<presences, dying, dyingPresences, subscribed, unaware>>
  BY DEF Start
<1>3. k.host \in Hosts
  BY DEF Keys
<1>4. ASSUME NEW ok \in BOOLEAN, StartEncap(t, k, ok),
             encaps \subseteq encaps', encaps' \subseteq EncapHandles, IsFiniteSet(encaps'),
             held' \subseteq EncapHandles,
             \A t2 \in Types, k2 \in Keys :
               table'[k2].count[t2] <= Cardinality(UsersOf(t2, k2)')
      PROVE  IInv'
  <2>1. /\ TablesOK' /\ EntriesUsed'
        /\ TableKeys' \subseteq TableKeys \cup {k}
        /\ PresenceHandlesKept \/ \E h \in Handles : PresenceHandleNew(k.host, h)
    BY <1>1, <1>4, StartEncapEffect
  <2>2. PresenceCovered'
    BY <1>2, <1>4, StartEncapCovers
  <2>3. HandlesNameHosts'
    <3>1. HandlesNameHosts /\ (presences \cup subscribed)' = presences \cup subscribed
      BY <1>2 DEF IInv
    <3>2. CASE PresenceHandlesKept
      BY <3>1, <3>2, HandlesStillNameHosts
    <3>3. CASE \E h \in Handles : PresenceHandleNew(k.host, h)
      <4>1. PICK h \in Handles : PresenceHandleNew(k.host, h)
        BY <3>3
      <4> DEFINE p == [host |-> k.host, handle |-> h]
      <4>2. p.host = k.host /\ p.handle = h
        OBVIOUS
      <4>3. (presences \cup subscribed)' \subseteq presences \cup subscribed \cup {p}
        BY <3>1
      <4> HIDE DEF p
      <4> QED
        BY <1>3, <3>1, <4>1, <4>2, <4>3, NewHandleNamesHost
    <3> QED
      BY <2>1, <3>2, <3>3
  <2>4. FiniteLists'
    <3>1. IsFiniteSet(TableKeys')
      BY <1>1, <2>1, FS_AddElement, FS_Subset DEF FiniteLists
    <3> QED
      BY <1>1, <1>2, <1>4, <3>1 DEF FiniteLists
  <2>5. TypeOK'
    BY <1>2, <1>4, <2>1 DEF IInv, TypeOK, TablesOK
  <2>6. CountsCovered'
    BY <1>4 DEF CountsCovered
  <2> QED
    BY <2>1, <2>2, <2>3, <2>4, <2>5, <2>6 DEF IInv
<1>5. /\ \A t2 \in Types, k2 \in Keys : table[k2].count[t2] <= Cardinality(UsersOf(t2, k2))
      /\ \A t2 \in Types, k2 \in Keys : table[k2].count[t2] \in Nat
      /\ \A t2 \in Types, k2 \in Keys :
           IsFiniteSet(UsersOf(t2, k2)) /\ Cardinality(UsersOf(t2, k2)) \in Nat
  <2>1. \A t2 \in Types, k2 \in Keys : table[k2].count[t2] <= Cardinality(UsersOf(t2, k2))
    BY DEF IInv, CountsCovered
  <2> QED
    BY <1>1, <2>1, CountsTyped, UsersFinite DEF FiniteUsers
<1>6. encaps \subseteq EncapHandles /\ held \subseteq EncapHandles /\ IsFiniteSet(encaps)
  BY <1>1 DEF IInv, TypeOK, FiniteLists
<1>7. CASE StartEncap(t, k, FALSE) /\ UNCHANGED <<encaps, held>>
  <2>1. CountBecomes(t, k, table[k].count[t])
    BY <1>1, <1>7, StartEncapEffect
  <2>2. \A t2 \in Types, k2 \in Keys : UsersOf(t2, k2)' = UsersOf(t2, k2)
    BY <1>2, <1>7 DEF UsersOf
  <2>3. \A t2 \in Types, k2 \in Keys : table'[k2].count[t2] = table[k2].count[t2]
    BY <2>1 DEF CountBecomes
  <2>4. \A t2 \in Types, k2 \in Keys :
          table'[k2].count[t2] <= Cardinality(UsersOf(t2, k2)')
    BY <1>5, <2>2, <2>3
  <2> QED
    BY <1>4, <1>6, <1>7, <2>4
<1>8. CASE /\ StartEncap(t, k, TRUE)
           /\ \E i \in FreshEncapIds, arrives \in BOOLEAN :
                LET e == [id |-> i, client |-> c, type |-> t, key |-> k]
                IN /\ Replied(arrives)
                   /\ encaps' = encaps \cup {e}
                   /\ held' = IF arrives THEN held \cup {e} ELSE held
  <2>1. PICK i \in FreshEncapIds, arrives \in BOOLEAN :
          LET e == [id |-> i, client |-> c, type |-> t, key |-> k]
          IN /\ encaps' = encaps \cup {e}
             /\ held' = IF arrives THEN held \cup {e} ELSE held
    BY <1>8
  <2> DEFINE e == [id |-> i, client |-> c, type |-> t, key |-> k]
  <2>2. i \in EncapIds /\ i \notin {x.id : x \in encaps \cup dying \cup held}
    BY <2>1 DEF FreshEncapIds
  <2>3. e \in EncapHandles /\ e.type = t /\ e.key = k /\ e.id = i
    BY <2>2 DEF EncapHandles
  <2>4. e \notin encaps \cup dying
    BY <2>2, <2>3
  <2>5. encaps' = encaps \cup {e} /\ held' \subseteq held \cup {e}
    BY <2>1
  <2> HIDE DEF e
  <2>6. CountBecomes(t, k, table[k].count[t] + 1)
    BY <1>1, <1>8, StartEncapEffect
  <2>7. ASSUME NEW t2 \in Types, NEW k2 \in Keys
        PROVE  table'[k2].count[t2] <= Cardinality(UsersOf(t2, k2)')
    <3>1. CASE t2 = t /\ k2 = k
      <4>1. UsersOf(t2, k2)' = UsersOf(t2, k2) \cup {e} /\ e \notin UsersOf(t2, k2)
        BY <1>2, <2>3, <2>4, <2>5, <3>1 DEF UsersOf
      <4>2. Cardinality(UsersOf(t2, k2)') = Cardinality(UsersOf(t2, k2)) + 1
        BY <1>5, <4>1, GainsOne
      <4>3. table'[k2].count[t2] = table[k2].count[t2] + 1
        BY <2>6, <3>1 DEF CountBecomes
      <4> QED
        BY <1>5, <4>2, <4>3
    <3>2. CASE ~(t2 = t /\ k2 = k)
      <4>1. UsersOf(t2, k2)' = UsersOf(t2, k2)
        BY <1>2, <2>3, <2>5, <3>2 DEF UsersOf
      <4>2. table'[k2].count[t2] = table[k2].count[t2]
        BY <2>6, <3>2 DEF CountBecomes
      <4> QED
        BY <1>5, <4>1, <4>2
    <3> QED
      BY <3>1, <3>2
  <2>8. IsFiniteSet(encaps') /\ encaps' \subseteq EncapHandles /\ held' \subseteq EncapHandles
    BY <1>6, <2>3, <2>5, FS_AddElement
  <2> QED
    BY <1>4, <1>8, <2>5, <2>7, <2>8
<1> QED
  BY <1>7, <1>8 DEF Start

\* A stop of one user, from a client's call or from the cleanup of a client
\* that left: the lists may lose one entry for the same type and key.
LEMMA StopEncapStep ==
  ASSUME IInv, NEW e \in EncapHandles, NEW ok \in BOOLEAN, StopEncap(e.type, e.key, ok),
         NEW m, m.type = e.type, m.key = e.key,
         (encaps \cup dying) \ {m} \subseteq (encaps \cup dying)',
         encaps' \subseteq encaps, dying' \subseteq dying, held' \subseteq held,
         UNCHANGED <<presences, dyingPresences, subscribed, unaware>>
  PROVE  IInv'
<1>1. TablesOK /\ EntriesUsed /\ FiniteLists
  BY DEF IInv, TypeOK, TablesOK
<1>2. e.type \in Types /\ e.key \in Keys
  BY DEF EncapHandles
<1>3. /\ TablesOK' /\ EntriesUsed'
      /\ TableKeys' \subseteq TableKeys
      /\ CountBecomes(e.type, e.key, Dec(table[e.key].count[e.type]))
      /\ PresenceHandlesKept
  BY <1>1, <1>2, StopEncapEffect
<1>4. FiniteLists'
  BY <1>1, <1>3, FS_Subset, FS_RemoveElement DEF FiniteLists
<1>5. TypeOK'
  BY <1>3 DEF IInv, TypeOK, TablesOK
<1>6. CountsCovered'
  BY <1>2, <1>3, <1>4, StopCountsCovered
<1>7. PresenceCovered'
  BY <1>2, <1>4, StopEncapCovers
<1>8. HandlesNameHosts'
  BY <1>3, HandlesStillNameHosts DEF IInv
<1> QED
  BY <1>3, <1>4, <1>5, <1>6, <1>7, <1>8 DEF IInv

\* Stop: _icd_dbus_encap_list_remove takes an entry with the type and key
\* whose count went down.
LEMMA StopStep ==
  ASSUME IInv, NEW e \in held, Stop(e)
  PROVE  IInv'
<1>1. e \in EncapHandles
  BY DEF IInv, TypeOK
<1>2. UNCHANGED <<presences, dying, dyingPresences, subscribed, unaware>>
  BY DEF Stop
<1>3. CASE StopEncap(e.type, e.key, FALSE) /\ UNCHANGED <<encaps, held>>
  BY <1>1, <1>2, <1>3, StopEncapStep
<1>4. CASE /\ StopEncap(e.type, e.key, TRUE)
           /\ EncapListRemove(e)
           /\ \E arrives \in BOOLEAN :
                /\ Replied(arrives)
                /\ held' = IF arrives THEN held \ {e} ELSE held
  <2>1. held' \subseteq held
    BY <1>4
  <2>2. PICK m : m.type = e.type /\ m.key = e.key /\ (encaps' = encaps \/ encaps' = encaps \ {m})
    <3>1. CASE EncapListMatches(e) = {}
      BY <1>4, <3>1 DEF EncapListRemove
    <3>2. CASE EncapListMatches(e) # {}
      BY <1>4, <3>2 DEF EncapListRemove, EncapListMatches
    <3> QED
      BY <3>1, <3>2
  <2>3. encaps' \subseteq encaps /\ (encaps \cup dying) \ {m} \subseteq (encaps \cup dying)'
    BY <1>2, <2>2
  <2> QED
    BY <1>1, <1>2, <1>4, <2>1, <2>2, <2>3, StopEncapStep
<1> QED
  BY <1>3, <1>4 DEF Stop

\* CleanupEncap stops for the very entry it removes.
LEMMA CleanupEncapStep ==
  ASSUME IInv, NEW e \in dying, CleanupEncap(e)
  PROVE  IInv'
<1>1. e \in EncapHandles
  BY DEF IInv, TypeOK
<1>2. PICK ok \in BOOLEAN : StopEncap(e.type, e.key, ok)
  BY DEF CleanupEncap
<1>3. /\ dying' = dying \ {e}
      /\ UNCHANGED <<encaps, presences, dyingPresences, held, subscribed, unaware>>
  BY DEF CleanupEncap, libs
<1>4. (encaps \cup dying) \ {e} \subseteq (encaps \cup dying)'
  BY <1>3
<1> QED
  BY <1>1, <1>2, <1>3, <1>4, StopEncapStep

\* An unsubscription, from a client's call or from a cleanup: the presence
\* lists may lose one entry of the host whose count went down.
LEMMA UnsubscribeStep ==
  ASSUME IInv, NEW p \in PresenceHandles, NEW ok \in BOOLEAN,
         UnsubscribePresence(p.handle, p.host, ctx, ok),
         NEW m, "reuse" \notin Faults => m.host = p.host,
         (presences \cup dyingPresences) \ {m} \subseteq (presences \cup dyingPresences)',
         presences' \subseteq presences, dyingPresences' \subseteq dyingPresences,
         subscribed' \subseteq subscribed,
         UNCHANGED <<encaps, dying, table, held, unaware>>
  PROVE  IInv'
<1>1. TablesOK /\ EntriesUsed /\ FiniteLists
  BY DEF IInv, TypeOK, TablesOK
<1>2. p.host \in Hosts /\ ctx \in [Ctxs -> WorkerCtxs]
  BY <1>1 DEF PresenceHandles, TablesOK
<1>3. /\ presenceTable' \in [Hosts -> PresenceInfos]
      /\ txns' \in [Handles -> Txns]
      /\ ctx' \in [Ctxs -> WorkerCtxs]
      /\ ClientCountBecomes(p.host, Dec(presenceTable[p.host].client_count))
      /\ PresenceHandlesKept
  BY <1>1, <1>2, UnsubscribePresenceEffect
<1>4. FiniteLists'
  <2>1. TableKeys' = TableKeys
    BY DEF TableKeys, InTable
  <2> QED
    BY <1>1, <2>1, FS_Subset DEF FiniteLists
<1>5. TypeOK'
  BY <1>3 DEF IInv, TypeOK
<1>6. EntriesUsed'
  BY <1>1 DEF EntriesUsed, InTable
<1>7. CountsCovered'
  <2>1. \A t \in Types, k \in Keys : UsersOf(t, k)' = UsersOf(t, k)
    BY DEF UsersOf
  <2> QED
    BY <2>1 DEF IInv, CountsCovered
<1>8. PresenceCovered'
  BY <1>2, <1>3, <1>4, UnsubscribeCovered
<1>9. HandlesNameHosts'
  BY <1>3, HandlesStillNameHosts DEF IInv
<1> QED
  BY <1>4, <1>5, <1>6, <1>7, <1>8, <1>9 DEF IInv

\* RemovePresence: unless handles are reused, the entry with the caller's
\* handle is one of the caller's host.
LEMMA RemovePresenceStep ==
  ASSUME IInv, NEW p \in subscribed, RemovePresence(p)
  PROVE  IInv'
<1>1. p \in PresenceHandles
  BY DEF IInv, TypeOK
<1>2. UNCHANGED <<encaps, dying, dyingPresences, table, held, unaware>>
  BY DEF RemovePresence
<1>3. PICK ok \in BOOLEAN : /\ UnsubscribePresence(p.handle, p.host, ctx, ok)
                            /\ subscribed' \subseteq subscribed
  BY DEF RemovePresence
<1>4. PICK m : /\ "reuse" \notin Faults => m.host = p.host
               /\ presences' = presences \/ presences' = presences \ {m}
  <2>1. CASE PresenceListMatches(p) = {}
    BY <2>1 DEF RemovePresence, PresenceListRemove
  <2>2. CASE PresenceListMatches(p) # {}
    <3>1. PICK m \in PresenceListMatches(p) : presences' = presences \ {m}
      BY <2>2 DEF RemovePresence, PresenceListRemove
    <3>2. m \in presences /\ m.handle = p.handle
      BY <3>1 DEF PresenceListMatches
    <3>3. "reuse" \notin Faults => m.host = p.host
      BY <3>2 DEF IInv, HandlesNameHosts
    <3> QED
      BY <3>1, <3>3
  <2> QED
    BY <2>1, <2>2
<1>5. /\ presences' \subseteq presences
      /\ (presences \cup dyingPresences) \ {m} \subseteq (presences \cup dyingPresences)'
  BY <1>2, <1>4
<1> QED
  BY <1>1, <1>2, <1>3, <1>4, <1>5, UnsubscribeStep

\* CleanupPresence unsubscribes for the very entry it removes.
LEMMA CleanupPresenceStep ==
  ASSUME IInv, NEW p \in dyingPresences, CleanupPresence(p)
  PROVE  IInv'
<1>1. p \in PresenceHandles
  BY DEF IInv, TypeOK
<1>2. PICK ok \in BOOLEAN : UnsubscribePresence(p.handle, p.host, ctx, ok)
  BY DEF CleanupPresence
<1>3. /\ dyingPresences' = dyingPresences \ {p}
      /\ UNCHANGED <<encaps, presences, dying, table, held, subscribed, unaware>>
  BY DEF CleanupPresence, libs
<1>4. (presences \cup dyingPresences) \ {p} \subseteq (presences \cup dyingPresences)'
  BY <1>3
<1> QED
  BY <1>1, <1>2, <1>3, <1>4, UnsubscribeStep

\* AddPresence: the host's count and its list entries grow together.
LEMMA AddPresenceStep ==
  ASSUME IInv, NEW c \in Clients, NEW host \in Hosts, AddPresence(c, host)
  PROVE  IInv'
<1>1. TablesOK /\ EntriesUsed /\ FiniteLists
  BY DEF IInv, TypeOK, TablesOK
<1>2. UNCHANGED <<encaps, dying, dyingPresences, table, ctx, held, unaware>>
  BY DEF AddPresence
<1>3. PICK h \in Handles, i \in FreshPresenceIds, arrives \in BOOLEAN :
        LET p == [id |-> i, client |-> c, host |-> host, handle |-> h]
        IN /\ SubscribePresence("presence", Null, host, Null, h)
           /\ presences' = presences \cup {p}
           /\ subscribed' = IF arrives THEN subscribed \cup {p} ELSE subscribed
  BY DEF AddPresence
<1> DEFINE p == [id |-> i, client |-> c, host |-> host, handle |-> h]
<1>4. i \in PresenceIds /\ i \notin {x.id : x \in presences \cup dyingPresences \cup subscribed}
  BY DEF FreshPresenceIds
<1>5. /\ p \in PresenceHandles /\ p.host = host /\ p.handle = h
      /\ p \notin presences \cup dyingPresences
  <2>1. p \in PresenceHandles /\ p.host = host /\ p.handle = h /\ p.id = i
    BY <1>4 DEF PresenceHandles
  <2> QED
    BY <1>4, <2>1
<1>6. /\ SubscribePresence("presence", Null, host, Null, h)
      /\ presences' = presences \cup {p}
      /\ subscribed' \subseteq subscribed \cup {p}
  BY <1>3
<1> HIDE DEF p
<1>7. /\ presenceTable' \in [Hosts -> PresenceInfos]
      /\ txns' \in [Handles -> Txns]
      /\ ClientCountBecomes(host, presenceTable[host].client_count + 1)
      /\ \/ /\ PresenceHandlesKept
            /\ presenceTable[host].client_count > 0
            /\ presenceTable[host].handle = h
         \/ PresenceHandleNew(host, h)
  BY <1>1, <1>6, SubscribePresenceEffect
<1>8. FiniteLists'
  <2>1. TableKeys' = TableKeys
    BY <1>2 DEF TableKeys, InTable
  <2> QED
    BY <1>1, <1>2, <1>6, <2>1, FS_AddElement DEF FiniteLists
<1>9. TypeOK'
  BY <1>2, <1>5, <1>6, <1>7 DEF IInv, TypeOK
<1>10. EntriesUsed'
  BY <1>1, <1>2 DEF EntriesUsed, InTable
<1>11. CountsCovered'
  <2>1. \A t \in Types, k \in Keys : UsersOf(t, k)' = UsersOf(t, k)
    BY <1>2 DEF UsersOf
  <2> QED
    BY <1>2, <2>1 DEF IInv, CountsCovered
<1>12. ASSUME "reuse" \notin Faults, NEW g \in Hosts
       PROVE  presenceTable'[g].client_count
                <= Cardinality(Subscribers(g)') + Cardinality(MonitoredOn(g)')
  <2>1. MonitoredOn(g)' = MonitoredOn(g)
    BY <1>2 DEF MonitoredOn
  <2>2. presenceTable[g].client_count
          <= Cardinality(Subscribers(g)) + Cardinality(MonitoredOn(g))
    BY <1>12 DEF IInv, PresenceCovered
  <2>3. /\ IsFiniteSet(Subscribers(g)) /\ Cardinality(Subscribers(g)) \in Nat
        /\ Cardinality(MonitoredOn(g)) \in Nat
        /\ presenceTable[g].client_count \in Nat
    BY <1>1, UsersFinite, CountsTyped DEF FiniteUsers
  <2>4. CASE g = host
    <3>1. Subscribers(g)' = Subscribers(g) \cup {p} /\ p \notin Subscribers(g)
      BY <1>2, <1>5, <1>6, <2>4 DEF Subscribers
    <3>2. Cardinality(Subscribers(g)') = Cardinality(Subscribers(g)) + 1
      BY <2>3, <3>1, GainsOne
    <3>3. presenceTable'[g].client_count = presenceTable[g].client_count + 1
      BY <1>7, <2>4 DEF ClientCountBecomes
    <3> QED
      BY <2>1, <2>2, <2>3, <3>2, <3>3
  <2>5. CASE g # host
    <3>1. Subscribers(g)' = Subscribers(g)
      BY <1>2, <1>5, <1>6, <2>5 DEF Subscribers
    <3>2. presenceTable'[g].client_count = presenceTable[g].client_count
      BY <1>7, <2>5 DEF ClientCountBecomes
    <3> QED
      BY <2>1, <2>2, <3>1, <3>2
  <2> QED
    BY <2>4, <2>5
<1>13. PresenceCovered'
  BY <1>12 DEF PresenceCovered
<1>14. HandlesNameHosts'
  <2>1. HandlesNameHosts
    BY DEF IInv
  <2>2. (presences \cup subscribed)' \subseteq presences \cup subscribed \cup {p}
    BY <1>6
  <2>3. CASE PresenceHandleNew(host, h)
    BY <1>5, <2>1, <2>2, <2>3, NewHandleNamesHost
  <2>4. CASE /\ PresenceHandlesKept
             /\ presenceTable[host].client_count > 0
             /\ presenceTable[host].handle = h
    BY <1>5, <2>1, <2>2, <2>4 DEF HandlesNameHosts, PresenceHandlesKept
  <2> QED
    BY <1>7, <2>3, <2>4
<1> QED
  BY <1>8, <1>9, <1>10, <1>11, <1>13, <1>14 DEF IInv

\* A step that leaves the tables alone and only moves list entries to the
\* dying ones keeps the invariant.
LEMMA ListsMovedStep ==
  ASSUME IInv, UNCHANGED tables,
         txns' \in [Handles -> Txns], ctx' \in [Ctxs -> WorkerCtxs],
         (encaps \cup dying)' = encaps \cup dying,
         (presences \cup dyingPresences)' = presences \cup dyingPresences,
         presences' \subseteq presences, subscribed' \subseteq subscribed,
         held' \subseteq held, unaware' \subseteq Clients
  PROVE  IInv'
<1>1. TypeOK /\ FiniteLists /\ UNCHANGED <<table, presenceTable>>
  BY DEF IInv, tables
<1>2. FiniteLists'
  <2>1. IsFiniteSet(encaps \cup dying) /\ IsFiniteSet(presences \cup dyingPresences)
    BY <1>1, FS_Union DEF FiniteLists
  <2>2. /\ encaps' \subseteq encaps \cup dying /\ dying' \subseteq encaps \cup dying
        /\ presences' \subseteq presences \cup dyingPresences
        /\ dyingPresences' \subseteq presences \cup dyingPresences
    OBVIOUS
  <2>3. TableKeys' = TableKeys
    BY <1>1 DEF TableKeys, InTable
  <2> QED
    BY <1>1, <2>1, <2>2, <2>3, FS_Subset DEF FiniteLists
<1>3. TypeOK'
  BY <1>1 DEF TypeOK
<1>4. EntriesUsed'
  BY <1>1 DEF IInv, EntriesUsed, InTable
<1>5. CountsCovered'
  <2>1. \A t \in Types, k \in Keys : UsersOf(t, k)' = UsersOf(t, k)
    BY DEF UsersOf
  <2> QED
    BY <1>1, <2>1 DEF IInv, CountsCovered
<1>6. PresenceCovered'
  <2>1. \A g \in Hosts : /\ Subscribers(g)' = Subscribers(g)
                         /\ MonitoredOn(g)' = MonitoredOn(g)
    BY <1>1 DEF Subscribers, MonitoredOn
  <2> QED
    BY <1>1, <2>1 DEF IInv, PresenceCovered
<1>7. HandlesNameHosts'
  BY <1>1 DEF IInv, HandlesNameHosts
<1> QED
  BY <1>2, <1>3, <1>4, <1>5, <1>6, <1>7 DEF IInv

\* NameOwnerChanged takes a client's entries over while no other are dying.
LEMMA NameOwnerChangedStep ==
  ASSUME IInv, NEW c \in Clients, NameOwnerChanged(c),
         subscribed' \subseteq subscribed, held' \subseteq held, unaware' \subseteq unaware
  PROVE  IInv'
<1>1. dying = {} /\ dyingPresences = {}
  BY DEF NameOwnerChanged, Cleaning
<1>2. /\ (encaps \cup dying)' = encaps \cup dying
      /\ (presences \cup dyingPresences)' = presences \cup dyingPresences
      /\ presences' \subseteq presences
  BY <1>1 DEF NameOwnerChanged, EncapsOf, PresencesOf
<1>3. UNCHANGED tables /\ txns' = txns /\ ctx' = ctx
  BY DEF NameOwnerChanged, ioty
<1>4. /\ txns' \in [Handles -> Txns] /\ ctx' \in [Ctxs -> WorkerCtxs]
      /\ unaware' \subseteq Clients
  BY <1>3 DEF IInv, TypeOK
<1> QED
  BY <1>2, <1>3, <1>4, ListsMovedStep

\* The end of an observation touches no table and no list.
LEMMA ObserveDeregisterStep ==
  ASSUME IInv, NEW h \in Handles, ObserveDeregister(h)
  PROVE  IInv'
<1>1. /\ UNCHANGED tables
      /\ UNCHANGED <<encaps, presences, dying, dyingPresences, held, subscribed, unaware>>
  BY DEF ObserveDeregister, lists, libs
<1>2. NoTxn \in Txns
  BY DEF NoTxn, Txns
<1>3. txns' \in [Handles -> Txns]
  BY <1>2 DEF ObserveDeregister, IInv, TypeOK
<1>4. ctx' \in [Ctxs -> WorkerCtxs]
  BY FreeWorkerCtxTyped DEF ObserveDeregister, CtxAfterDelete, IInv, TypeOK
<1>5. unaware' \subseteq Clients
  BY <1>1 DEF IInv, TypeOK
<1> QED
  BY <1>1, <1>3, <1>4, <1>5, ListsMovedStep

\* A restarted daemon is as it was at first; the libs keep what they believe.
LEMMA DaemonRestartStep ==
  ASSUME IInv, DaemonRestart
  PROVE  IInv'
<1>1. /\ NoEntry \in Entries
      /\ NoPresence \in PresenceInfos
      /\ NoTxn \in Txns
      /\ FreedCtx \in WorkerCtxs
  BY DEF NoEntry, Entries, NoPresence, PresenceInfos, NoTxn, Txns, FreedCtx, WorkerCtxs
<1>2. TypeOK'
  BY <1>1 DEF IInv, TypeOK, DaemonRestart, libs
<1>3. FiniteLists'
  <2>1. TableKeys' = {}
    BY DEF DaemonRestart, NoEntry, InTable, TableKeys
  <2> QED
    BY <2>1, FS_EmptySet DEF DaemonRestart, FiniteLists
<1>4. \A k \in Keys, t \in Types : table'[k].count[t] = 0 /\ table'[k].worker_ctx = Null
  BY DEF DaemonRestart, NoEntry
<1>5. EntriesUsed'
  <2>1. \A k \in Keys : ~InTable(k)' /\ ~(\E t \in Types : table'[k].count[t] > 0)
    BY <1>4 DEF InTable, Types
  <2> QED
    BY <2>1 DEF EntriesUsed
<1>6. FiniteUsers'
  BY <1>3, <1>5, UsersFiniteNext
<1>7. CountsCovered'
  BY <1>4, <1>6 DEF CountsCovered, FiniteUsers
<1>8. \A g \in Hosts : presenceTable'[g].client_count = 0
  BY DEF DaemonRestart, NoPresence
<1>9. PresenceCovered'
  BY <1>6, <1>8 DEF PresenceCovered, FiniteUsers
<1>10. HandlesNameHosts'
  <2>1. (presences \cup subscribed)' \subseteq presences \cup subscribed
    BY DEF DaemonRestart, libs
  <2>2. PresenceHandlesKept
    BY <1>8 DEF PresenceHandlesKept
  <2> QED
    BY <2>1, <2>2, HandlesStillNameHosts DEF IInv
<1> QED
  BY <1>2, <1>3, <1>5, <1>7, <1>9, <1>10 DEF IInv

\* Every step, stuttering included, keeps the invariant.
LEMMA NextIInv == IInv /\ [Next]_vars => IInv'
<1> SUFFICES ASSUME IInv, [Next]_vars PROVE IInv'
  OBVIOUS
<1>1. ASSUME NEW c \in Clients, NEW t \in Types, NEW k \in Keys, Start(c, t, k)
      PROVE  IInv'
  BY <1>1, StartStep
<1>2. ASSUME NEW e \in held, Stop(e) PROVE IInv'
  BY <1>2, StopStep
<1>3. ASSUME NEW c \in Clients, NEW host \in Hosts, AddPresence(c, host) PROVE IInv'
  BY <1>3, AddPresenceStep
<1>4. ASSUME NEW p \in subscribed, RemovePresence(p) PROVE IInv'
  BY <1>4, RemovePresenceStep
<1>5. ASSUME NEW c \in Clients, ClientExit(c) PROVE IInv'
  <2>1. /\ NameOwnerChanged(c)
        /\ subscribed' \subseteq subscribed /\ held' \subseteq held /\ unaware' \subseteq unaware
    BY <1>5 DEF ClientExit
  <2> QED
    BY <2>1, NameOwnerChangedStep
<1>6. ASSUME NEW c \in Clients, ReleaseName(c) PROVE IInv'
  <2>1. /\ NameOwnerChanged(c)
        /\ subscribed' \subseteq subscribed /\ held' \subseteq held /\ unaware' \subseteq unaware
    BY <1>6 DEF ReleaseName, libs
  <2> QED
    BY <2>1, NameOwnerChangedStep
<1>7. ASSUME NEW p \in dyingPresences, CleanupPresence(p) PROVE IInv'
  BY <1>7, CleanupPresenceStep
<1>8. ASSUME NEW e \in dying, CleanupEncap(e) PROVE IInv'
  BY <1>8, CleanupEncapStep
<1>9. ASSUME NEW h \in Handles, ObserveDeregister(h) PROVE IInv'
  BY <1>9, ObserveDeregisterStep
<1>10. CASE DaemonRestart
  BY <1>10, DaemonRestartStep
<1>11. ASSUME NEW c \in Clients, NameOwnerNotify(c) PROVE IInv'
  <2>1. /\ UNCHANGED <<encaps, presences, dying, dyingPresences>>
        /\ UNCHANGED tables /\ txns' = txns /\ ctx' = ctx
        /\ subscribed' \subseteq subscribed /\ held' \subseteq held /\ unaware' \subseteq unaware
    BY <1>11 DEF NameOwnerNotify, lists, ioty
  <2>2. /\ txns' \in [Handles -> Txns] /\ ctx' \in [Ctxs -> WorkerCtxs]
        /\ unaware' \subseteq Clients
    BY <2>1 DEF IInv, TypeOK
  <2> QED
    BY <2>1, <2>2, ListsMovedStep
<1>12. CASE UNCHANGED vars
  <2>1. /\ UNCHANGED <<encaps, presences, dying, dyingPresences>>
        /\ UNCHANGED tables /\ txns' = txns /\ ctx' = ctx
        /\ UNCHANGED <<held, subscribed, unaware>>
    BY <1>12 DEF vars, lists, ioty, libs
  <2>2. /\ txns' \in [Handles -> Txns] /\ ctx' \in [Ctxs -> WorkerCtxs]
        /\ unaware' \subseteq Clients
    BY <2>1 DEF IInv, TypeOK
  <2> QED
    BY <2>1, <2>2, ListsMovedStep
<1> QED
  BY <1>1, <1>2, <1>3, <1>4, <1>5, <1>6, <1>7, <1>8, <1>9, <1>10, <1>11, <1>12 DEF Next

\* The invariant holds in every reachable state.
LEMMA Invariant == Spec => []IInv
BY InitIInv, NextIInv, PTL DEF Spec
-----------------------------------------------------------------------------
\* Every variable keeps its type, whatever fails.
THEOREM TypeCorrect == Spec => []TypeOK
<1>1. IInv => TypeOK
  BY DEF IInv
<1> QED
  BY <1>1, Invariant, PTL

\* No count ever exceeds the entries of the client lists that stand for it:
\* what the daemon keeps running is always remembered for some client, whose
\* stop or whose departure will take it down.
THEOREM Covered == Spec => []CountsCovered
<1>1. IInv => CountsCovered
  BY DEF IInv
<1> QED
  BY <1>1, Invariant, PTL

\* Likewise client_count of icd_ioty_presence_table: every subscriber of a
\* host is a list entry or a monitored resource, unless addresses are reused.
THEOREM PresencesCovered == Spec => []PresenceCovered
<1>1. IInv => PresenceCovered
  BY DEF IInv
<1> QED
  BY <1>1, Invariant, PTL

\* Once every client is gone and cleaned up, its encap table is empty, and so is
\* its presence table unless addresses are reused.
THEOREM NothingOrphaned == Spec => []NoOrphans
<1>1. IInv => NoOrphans
  <2> SUFFICES ASSUME IInv, encaps \cup dying = {} PROVE NoOrphans
    BY DEF NoOrphans
  <2>1. TablesOK
    BY DEF IInv, TypeOK, TablesOK
  <2>2. \A k \in Keys, t \in Types : table[k].count[t] = 0
    <3> SUFFICES ASSUME NEW k \in Keys, NEW t \in Types PROVE table[k].count[t] = 0
      OBVIOUS
    <3>1. UsersOf(t, k) = {}
      BY DEF UsersOf
    <3>2. table[k].count[t] <= Cardinality(UsersOf(t, k)) /\ table[k].count[t] \in Nat
      BY <2>1, CountsTyped DEF IInv, CountsCovered
    <3> QED
      BY <3>1, <3>2, FS_EmptySet
  <2>3. \A k \in Keys : ~InTable(k)
    BY <2>2 DEF IInv, EntriesUsed
  <2>4. ASSUME presences \cup dyingPresences = {}, "reuse" \notin Faults, NEW host \in Hosts
        PROVE  presenceTable[host].client_count = 0
    <3>1. Subscribers(host) = {}
      BY <2>4 DEF Subscribers
    <3>2. MonitoredOn(host) = {}
      BY <2>2 DEF MonitoredOn, Types
    <3>3. presenceTable[host].client_count
            <= Cardinality(Subscribers(host)) + Cardinality(MonitoredOn(host))
      BY <2>4 DEF IInv, PresenceCovered
    <3>4. presenceTable[host].client_count \in Nat
      BY <2>1, CountsTyped
    <3> QED
      BY <3>1, <3>2, <3>3, <3>4, FS_EmptySet
  <2> QED
    BY <2>3, <2>4 DEF NoOrphans
<1> QED
  BY <1>1, Invariant, PTL
=============================================================================
