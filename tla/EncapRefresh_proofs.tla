------------------------- MODULE EncapRefresh_proofs -------------------------
(***************************************************************************)
(* Theorems about EncapRefresh, for every set of clients, values and GETs  *)
(* and every bound:                                                        *)
(*   TypeCorrect  Spec => []TypeOK                                         *)
(*   Subscribed   Spec => []SubscribedToEntry                              *)
(*   NoneLost     Spec => []NoUpdateLost                                   *)
(*   ToldNews     Spec => OnlyNews                                         *)
(***************************************************************************)
EXTENDS EncapRefresh, SequenceTheorems, TLAPS

\* The types of what SubscribedToEntry speaks of.
UsersOK ==
  /\ users \in [Types -> SUBSET Clients]
  /\ number \in 0 .. MaxNumber /\ next \in 1 .. MaxNumber + 1
  /\ calling \in [Clients -> Calls]
  /\ sub \in [Clients -> [Types -> 0 .. MaxNumber]]

\* A call that is under way carries the number of an entry; so does a
\* subscription.  0 is never the number of an entry, and a step that adds an
\* entry therefore finds no subscription and no call.
IInv == UsersOK /\ SubscribedToEntry

userVars == <<users, number, next, calling, sub>>

LEMMA InitIInv == Init => IInv
  BY RefreshAssumption DEF Init, IInv, UsersOK, SubscribedToEntry, Types, Calls, NoCall

\* An answer, a worker and the delivery of a signal leave the counts and the
\* subscriptions alone.
LEMMA QuietStep ==
  ASSUME IInv, UNCHANGED userVars
  PROVE  IInv'
  BY DEF IInv, UsersOK, SubscribedToEntry, userVars

LEMMA StartCallIInv ==
  ASSUME IInv, NEW c \in Clients, NEW t \in Types, StartCall(c, t)
  PROVE  IInv'
<1>1. /\ number' \in 1 .. MaxNumber
      /\ next' \in 1 .. MaxNumber + 1
      /\ number # 0 => number' = number
  BY RefreshAssumption DEF StartCall, IInv, UsersOK
<1>2. /\ calling' = [calling EXCEPT ![c] = [type |-> t, number |-> number']]
      /\ users' = [users EXCEPT ![t] = @ \cup {c}]
      /\ sub' = sub
  BY DEF StartCall
<1>3. UsersOK'
  BY <1>1, <1>2 DEF IInv, UsersOK, Calls
<1>4. ASSUME NEW c2 \in Clients, NEW t2 \in Types
      PROVE  /\ sub'[c2][t2] # 0 => sub'[c2][t2] = number' /\ c2 \in users'[t2]
             /\ calling'[c2].type = t2 => calling'[c2].number = number' /\ c2 \in users'[t2]
  <2>1. users[t2] \subseteq users'[t2] /\ c \in users'[t]
    BY <1>2 DEF IInv, UsersOK
  <2>2. sub'[c2][t2] # 0 => sub'[c2][t2] = number' /\ c2 \in users'[t2]
    BY <1>1, <1>2, <2>1 DEF IInv, SubscribedToEntry
  <2>3. CASE c2 = c
    BY <1>2, <2>1, <2>2, <2>3 DEF IInv, UsersOK
  <2>4. CASE c2 # c
    <3>1. calling'[c2] = calling[c2] /\ calling[c2] \in Calls
      BY <1>2, <2>4 DEF IInv, UsersOK
    <3>2. calling[c2].type = t2 => calling[c2].number # 0
      BY <3>1, RefreshAssumption DEF Calls, NoCall, Types
    <3>. QED
      BY <1>1, <2>1, <2>2, <3>1, <3>2 DEF IInv, SubscribedToEntry
  <2>. QED
    BY <2>3, <2>4
<1>. QED
  BY <1>3, <1>4 DEF IInv, SubscribedToEntry

LEMMA SubscribeIInv ==
  ASSUME IInv, NEW c \in Clients, Subscribe(c)
  PROVE  IInv'
<1>1. /\ calling[c] \in [type : Types, number : 1 .. MaxNumber]
      /\ sub' = [sub EXCEPT ![c][calling[c].type] = calling[c].number]
      /\ calling' = [calling EXCEPT ![c] = NoCall]
      /\ users' = users /\ number' = number /\ next' = next
  BY DEF Subscribe, IInv, UsersOK, Calls, daemonVars
<1>2. UsersOK'
  BY <1>1 DEF IInv, UsersOK, Calls
<1>3. SubscribedToEntry'
  <2>1. \A t2 \in Types : NoCall.type # t2
    BY RefreshAssumption DEF Types, NoCall
  <2>. QED
    BY <1>1, <2>1 DEF IInv, UsersOK, SubscribedToEntry
<1>. QED
  BY <1>2, <1>3 DEF IInv

\* The entry goes only when nobody uses it with either type.
LEMMA StopCallIInv ==
  ASSUME IInv, NEW c \in Clients, NEW t \in Types, StopCall(c, t)
  PROVE  IInv'
<1>1. /\ calling[c] = NoCall
      /\ users' = [users EXCEPT ![t] = @ \ {c}]
      /\ number' = IF Unused(users', t) THEN 0 ELSE number
      /\ sub' = [sub EXCEPT ![c][t] = 0]
      /\ calling' = calling /\ next' = next
  BY DEF StopCall
<1>2. UsersOK'
  BY <1>1, RefreshAssumption DEF IInv, UsersOK
<1>3. ASSUME NEW c2 \in Clients, NEW t2 \in Types, c2 \in users'[t2]
      PROVE  number' = number
  BY <1>1, <1>3 DEF Unused
<1>4. ASSUME NEW c2 \in Clients, NEW t2 \in Types, <<c2, t2>> # <<c, t>>, c2 \in users[t2]
      PROVE  c2 \in users'[t2]
  BY <1>1, <1>4 DEF IInv, UsersOK
<1>5. ASSUME NEW c2 \in Clients, NEW t2 \in Types
      PROVE  /\ sub'[c2][t2] # 0 => sub'[c2][t2] = number' /\ c2 \in users'[t2]
             /\ calling'[c2].type = t2 => calling'[c2].number = number' /\ c2 \in users'[t2]
  <2>1. calling[c].type # t2
    BY <1>1, RefreshAssumption DEF NoCall, Types
  <2>2. sub'[c2][t2] # 0 => <<c2, t2>> # <<c, t>> /\ sub'[c2][t2] = sub[c2][t2]
    BY <1>1 DEF IInv, UsersOK
  <2>. QED
    BY <1>1, <1>3, <1>4, <2>1, <2>2 DEF IInv, SubscribedToEntry
<1>. QED
  BY <1>2, <1>5 DEF IInv, SubscribedToEntry

LEMMA NextIInv == IInv /\ [Next]_vars => IInv'
<1> SUFFICES ASSUME IInv, [Next]_vars
             PROVE  IInv'
  OBVIOUS
<1>1. CASE UNCHANGED vars
  BY <1>1, QuietStep DEF vars, daemonVars, clientVars, userVars
<1>2. ASSUME NEW v \in Values \cup {Null}, RemoteChange(v)
      PROVE  IInv'
  BY <1>2, QuietStep DEF RemoteChange, daemonVars, clientVars, userVars
<1>3. ASSUME NEW g \in Gets, Refresh(g) \/ GetStep(g)
      PROVE  IInv'
  BY <1>3, QuietStep
     DEF Refresh, GetStep, Answer, LookUp, Compare, Write, Emit, daemonVars, clientVars, userVars
<1>4. ASSUME NEW c \in Clients, NEW t \in Types, Deliver(c, t)
      PROVE  IInv'
  BY <1>4, QuietStep DEF Deliver, daemonVars, userVars
<1>. QED
  BY <1>1, <1>2, <1>3, <1>4, StartCallIInv, SubscribeIInv, StopCallIInv DEF Next

\* What a lib listens to, and what a daemon's answer on its way to a lib
\* names, is the entry the daemon has: no history of starts and stops of
\* either type makes a client wait for the signals of an entry that is gone
\* (_icd_ioty_stop_encap_get, icd_ioty_start_encap).
THEOREM Subscribed == Spec => []SubscribedToEntry
<1>1. IInv => SubscribedToEntry
  BY DEF IInv
<1>. QED
  BY <1>1, InitIInv, NextIInv, PTL DEF Spec
-----------------------------------------------------------------------------
(* Types, for every behaviour *)

Working == {"compare", "write", "emit"}

\* A working get has a type and an entry, and what it is about to write or to
\* emit says something.
Spoken ==
  \A g \in Gets :
    /\ gets[g].at \in Working => gets[g].type \in Types /\ gets[g].number # 0
    /\ gets[g].at \in {"write", "emit"} => Result(g, gets[g].type) # Null

\* A client without a subscription to a type has been told nothing of it, and
\* nothing is on its way to it; a call of the type that is under way finds none.
Unheard ==
  \A c \in Clients, t \in Types :
    /\ sub[c][t] = 0 => view[c][t] = Null /\ queue[c][t] = <<>>
    /\ calling[c].type = t => sub[c][t] = 0

TInv == TypeOK /\ Spoken /\ Unheard

LEMMA ResultTyped ==
  ASSUME TypeOK, NEW g \in Gets, NEW t \in Types
  PROVE  Result(g, t) \in Values \cup States \cup {Null}
BY DEF TypeOK, GetStates, Result, States

LEMMA ResultKept ==
  ASSUME NEW g \in Gets, NEW t, gets'[g].result = gets[g].result
  PROVE  Result(g, t)' = Result(g, t)
BY DEF Result

LEMMA IdleTyped ==
  /\ Idle \in GetStates
  /\ [Idle EXCEPT !.at = "request"] \in GetStates
  /\ NoCall \in Calls
  /\ NewShown \in [Types -> Values \cup States \cup {Null}]
BY RefreshAssumption DEF Idle, GetStates, Steps, NoCall, Calls, NewShown, States

\* What Spoken says of one GET, so that a step that moves one GET need only
\* look at that one.
LEMMA SpokenOthers ==
  ASSUME TypeOK, Spoken, NEW h \in Gets, gets' \in [Gets -> GetStates],
         \A g \in Gets \ {h} : gets'[g] = gets[g],
         gets'[h].at \in Working => gets'[h].type \in Types /\ gets'[h].number # 0,
         gets'[h].at \in {"write", "emit"} => Result(h, gets[h].type)' # Null
  PROVE  Spoken'
<1> SUFFICES ASSUME NEW g \in Gets
             PROVE  /\ gets'[g].at \in Working => gets'[g].type \in Types /\ gets'[g].number # 0
                    /\ gets'[g].at \in {"write", "emit"} => Result(g, gets[g].type)' # Null
  BY DEF Spoken
<1>1. CASE g = h
  BY <1>1
<1>2. CASE g # h
  <2>1. gets'[g] = gets[g]
    BY <1>2
  <2>2. Result(g, gets[g].type)' = Result(g, gets[g].type)
    BY <2>1 DEF Result
  <2>. QED
    BY <2>1, <2>2 DEF Spoken
<1>. QED
  BY <1>1, <1>2

LEMMA UnheardKept ==
  ASSUME Unheard, UNCHANGED clientVars
  PROVE  Unheard'
BY DEF Unheard, clientVars

LEMMA InitTInv == Init => TInv
<1> SUFFICES ASSUME Init
             PROVE  TInv
  OBVIOUS
<1>1. TypeOK
  BY RefreshAssumption, IdleTyped DEF Init, TypeOK
<1>2. Spoken
  BY DEF Init, Spoken, Idle, Working
<1>3. Unheard
  BY RefreshAssumption DEF Init, Unheard, NoCall, Types
<1>. QED
  BY <1>1, <1>2, <1>3 DEF TInv

LEMMA EncapGetTInv ==
  ASSUME TypeOK, Spoken, NEW g \in Gets, EncapGet(g)
  PROVE  gets' \in [Gets -> GetStates] /\ Spoken'
<1>1. gets' = [gets EXCEPT ![g] = [Idle EXCEPT !.at = "request"]]
  BY DEF EncapGet
<1>2. gets' \in [Gets -> GetStates]
  BY <1>1, IdleTyped DEF TypeOK
<1>3. gets'[g].at = "request" /\ \A h \in Gets \ {g} : gets'[h] = gets[h]
  BY <1>1 DEF TypeOK, Idle
<1>. QED
  BY <1>2, <1>3, SpokenOthers DEF Working

LEMMA AnswerTInv ==
  ASSUME TInv, NEW g \in Gets, Answer(g)
  PROVE  TInv'
<1>1. /\ gets' = [gets EXCEPT ![g].at = "lookup", ![g].result = remote]
      /\ UNCHANGED <<conditions, remote, daemonVars, clientVars>>
  BY DEF Answer
<1>2. gets' \in [Gets -> GetStates]
  <2>1. gets' = [gets EXCEPT ![g] = [[@ EXCEPT !.at = "lookup"] EXCEPT !.result = remote]]
    BY <1>1 DEF TInv, TypeOK, GetStates
  <2>2. [[gets[g] EXCEPT !.at = "lookup"] EXCEPT !.result = remote] \in GetStates
    BY DEF TInv, TypeOK, GetStates, Steps
  <2>. QED
    BY <2>1, <2>2 DEF TInv, TypeOK
<1>3. gets'[g].at = "lookup" /\ \A h \in Gets \ {g} : gets'[h] = gets[h]
  BY <1>1 DEF TInv, TypeOK, GetStates
<1>4. Spoken'
  BY <1>2, <1>3, SpokenOthers DEF TInv, Working
<1>. QED
  BY <1>1, <1>2, <1>4, UnheardKept DEF TInv, TypeOK, daemonVars, clientVars

LEMMA LookUpTInv ==
  ASSUME TInv, NEW g \in Gets, LookUp(g)
  PROVE  TInv'
<1>1. UNCHANGED <<conditions, remote, daemonVars, clientVars>>
  BY DEF LookUp
<1>2. CASE number = 0
  <2>1. gets' = [gets EXCEPT ![g] = Idle]
    BY <1>2 DEF LookUp
  <2>2. gets' \in [Gets -> GetStates]
    BY <2>1, IdleTyped DEF TInv, TypeOK
  <2>3. gets'[g].at = "idle" /\ \A h \in Gets \ {g} : gets'[h] = gets[h]
    BY <2>1 DEF TInv, TypeOK, Idle
  <2>4. Spoken'
    BY <2>2, <2>3, SpokenOthers DEF TInv, Working
  <2>. QED
    BY <1>1, <2>2, <2>4, UnheardKept DEF TInv, TypeOK, daemonVars, clientVars
<1>3. CASE number # 0
  <2>1. gets' = [gets EXCEPT ![g] = [@ EXCEPT !.at = "compare", !.type = "monitoring",
                                              !.number = number]]
    BY <1>3 DEF LookUp
  <2>2. gets' \in [Gets -> GetStates]
    BY <2>1 DEF TInv, TypeOK, GetStates, Steps, Types
  <2>3. /\ gets'[g].at = "compare" /\ gets'[g].type = "monitoring" /\ gets'[g].number = number
        /\ \A h \in Gets \ {g} : gets'[h] = gets[h]
    BY <2>1 DEF TInv, TypeOK, GetStates
  <2>4. Spoken'
    BY <1>3, <2>2, <2>3, SpokenOthers DEF TInv, Types
  <2>. QED
    BY <1>1, <2>2, <2>4, UnheardKept DEF TInv, TypeOK, daemonVars, clientVars
<1>. QED
  BY <1>2, <1>3

\* The next thing a worker does after one type.
LEMMA DoneTyped ==
  ASSUME TypeOK, Spoken, NEW g \in Gets, gets[g].at \in Working,
         gets' = [gets EXCEPT ![g] = Done(@)]
  PROVE  /\ gets' \in [Gets -> GetStates]
         /\ gets'[g] = Done(gets[g]) /\ \A h \in Gets \ {g} : gets'[h] = gets[h]
         /\ \/ gets'[g] = Idle
            \/ /\ gets'[g].at = "compare" /\ gets'[g].type = "caching"
               /\ gets'[g].number = gets[g].number /\ gets'[g].result = gets[g].result
         /\ Spoken'
<1>1. gets[g] \in GetStates /\ gets[g].number # 0
  BY DEF TypeOK, Spoken
<1>2. \/ Done(gets[g]) = Idle
      \/ /\ Done(gets[g]) \in GetStates
         /\ Done(gets[g]).at = "compare" /\ Done(gets[g]).type = "caching"
         /\ Done(gets[g]).number = gets[g].number /\ Done(gets[g]).result = gets[g].result
  BY <1>1 DEF Done, GetStates, Steps, Types
<1>3. gets'[g] = Done(gets[g]) /\ \A h \in Gets \ {g} : gets'[h] = gets[h]
  BY DEF TypeOK
<1>4. gets' \in [Gets -> GetStates]
  BY <1>2, <1>3, IdleTyped DEF TypeOK
<1>5. Spoken'
  <2>1. gets'[g].at \in {"idle", "compare"}
    BY <1>2, <1>3 DEF Idle
  <2>2. gets'[g].at \in Working => gets'[g].type \in Types /\ gets'[g].number # 0
    BY <1>1, <1>2, <1>3 DEF Idle, Working, Types
  <2>. QED
    BY <1>3, <1>4, <2>1, <2>2, SpokenOthers
<1>. QED
  BY <1>2, <1>3, <1>4, <1>5

LEMMA CompareTInv ==
  ASSUME TInv, NEW g \in Gets, Compare(g)
  PROVE  TInv'
<1>1. gets[g].at = "compare" /\ UNCHANGED <<conditions, remote, daemonVars, clientVars>>
  BY DEF Compare
<1>2. PICK news \in BOOLEAN :
         /\ news => Speaks(g)
         /\ gets' = [gets EXCEPT ![g] = IF news THEN [@ EXCEPT !.at = "write"] ELSE Done(@)]
  BY DEF Compare
<1>3. CASE news
  <2>1. gets' = [gets EXCEPT ![g] = [@ EXCEPT !.at = "write"]]
    BY <1>2, <1>3
  <2>2. gets' \in [Gets -> GetStates]
    BY <2>1 DEF TInv, TypeOK, GetStates, Steps
  <2>3. /\ gets'[g].at = "write" /\ gets'[g].type = gets[g].type
        /\ gets'[g].number = gets[g].number /\ gets'[g].result = gets[g].result
        /\ \A h \in Gets \ {g} : gets'[h] = gets[h]
    BY <2>1 DEF TInv, TypeOK, GetStates
  <2>4. Result(g, gets[g].type)' = Result(g, gets[g].type)
    BY <2>3 DEF Result
  <2>5. Spoken'
    BY <1>1, <1>2, <1>3, <2>2, <2>3, <2>4, SpokenOthers DEF TInv, Spoken, Speaks, Working
  <2>. QED
    BY <1>1, <2>2, <2>5, UnheardKept DEF TInv, TypeOK, daemonVars, clientVars
<1>4. CASE ~news
  <2>1. gets' = [gets EXCEPT ![g] = Done(@)]
    BY <1>2, <1>4
  <2>. QED
    BY <1>1, <2>1, DoneTyped, UnheardKept DEF TInv, TypeOK, Working, daemonVars, clientVars
<1>. QED
  BY <1>3, <1>4

LEMMA WriteTInv ==
  ASSUME TInv, NEW g \in Gets, Write(g)
  PROVE  TInv'
<1>1. /\ gets[g].at = "write"
      /\ gets' = [gets EXCEPT ![g].at = "emit"]
      /\ UNCHANGED <<conditions, remote, users, number, next, clientVars>>
  BY DEF Write
<1>2. gets[g].type \in Types /\ Result(g, gets[g].type) # Null
  BY <1>1 DEF TInv, Spoken, Working
<1>3. shown' \in [Types -> Values \cup States \cup {Null}]
  BY <1>2, ResultTyped DEF Write, TInv, TypeOK
<1>4. gets' \in [Gets -> GetStates]
  BY <1>1 DEF TInv, TypeOK, GetStates, Steps
<1>5. /\ gets'[g].at = "emit" /\ gets'[g].type = gets[g].type
      /\ gets'[g].number = gets[g].number /\ gets'[g].result = gets[g].result
      /\ \A h \in Gets \ {g} : gets'[h] = gets[h]
  BY <1>1 DEF TInv, TypeOK, GetStates
<1>6. Result(g, gets[g].type)' = Result(g, gets[g].type)
  BY <1>5 DEF Result
<1>7. Spoken'
  BY <1>1, <1>2, <1>4, <1>5, <1>6, SpokenOthers DEF TInv, Spoken, Working
<1>. QED
  BY <1>1, <1>3, <1>4, <1>7, UnheardKept DEF TInv, TypeOK, clientVars

LEMMA EmitTInv ==
  ASSUME TInv, NEW g \in Gets, Emit(g)
  PROVE  TInv'
<1> DEFINE t == gets[g].type
<1>1. /\ gets[g].at = "emit" /\ gets' = [gets EXCEPT ![g] = Done(@)]
      /\ UNCHANGED <<conditions, remote, daemonVars, calling, sub, view>>
  BY DEF Emit
<1>2. t \in Types /\ Result(g, t) \in Values \cup States
  BY <1>1, ResultTyped DEF TInv, Spoken, Working
<1>3. PICK n \in Targets(g) :
        queue' = [c \in Clients |-> IF n # 0 /\ sub[c][t] = n
                                    THEN [queue[c] EXCEPT ![t] = Append(@, Result(g, t))]
                                    ELSE queue[c]]
  <2>1. ASSUME NEW n, NEW c \in Clients
        PROVE  c \in {d \in Clients : n # 0 /\ sub[d][t] = n} <=> n # 0 /\ sub[c][t] = n
    OBVIOUS
  <2>. QED
    BY <2>1 DEF Emit
<1>4. queue' \in [Clients -> [Types -> Seq(Values \cup States)]]
  <2>1. ASSUME NEW c \in Clients
        PROVE  [queue[c] EXCEPT ![t] = Append(@, Result(g, t))] \in [Types -> Seq(Values \cup States)]
    BY <1>2 DEF TInv, TypeOK
  <2>. QED
    BY <1>3, <2>1 DEF TInv, TypeOK
<1>5. Unheard'
  <2> SUFFICES ASSUME NEW c \in Clients, NEW s \in Types, sub[c][s] = 0
               PROVE  queue'[c][s] = queue[c][s]
    BY <1>1 DEF TInv, Unheard
  <2>. QED
    BY <1>2, <1>3 DEF TInv, TypeOK
<1>6. gets' \in [Gets -> GetStates] /\ Spoken'
  BY <1>1, DoneTyped DEF TInv, Working
<1>. QED
  BY <1>1, <1>4, <1>5, <1>6 DEF TInv, TypeOK, daemonVars

LEMMA StartCallTInv ==
  ASSUME TInv, NEW c \in Clients, NEW t \in Types, StartCall(c, t)
  PROVE  TInv'
<1>1. /\ calling[c] = NoCall /\ sub[c][t] = 0
      /\ users' = [users EXCEPT ![t] = @ \cup {c}]
      /\ calling' = [calling EXCEPT ![c] = [type |-> t, number |-> number']]
      /\ number' \in 1 .. MaxNumber /\ next' \in 1 .. MaxNumber + 1
      /\ UNCHANGED <<conditions, remote, sub, queue, view>>
  BY RefreshAssumption DEF StartCall, TInv, TypeOK
<1>2. shown' \in [Types -> Values \cup States \cup {Null}]
  BY IdleTyped DEF StartCall, TInv, TypeOK
<1>3. gets' \in [Gets -> GetStates] /\ Spoken'
  <2>1. CASE gets' = gets
    BY <2>1 DEF TInv, TypeOK, Spoken, Result
  <2>2. CASE \E g \in Gets : EncapGet(g)
    BY <2>2, EncapGetTInv DEF TInv
  <2>. QED
    BY <2>1, <2>2 DEF StartCall
<1>4. TypeOK'
  <2>1. users' \in [Types -> SUBSET Clients] /\ calling' \in [Clients -> Calls]
    BY <1>1 DEF TInv, TypeOK, Calls
  <2>. QED
    BY <1>1, <1>2, <1>3, <2>1 DEF TInv, TypeOK
<1>5. Unheard'
  <2> SUFFICES ASSUME NEW d \in Clients, NEW s \in Types
               PROVE  calling'[d].type = s => sub[d][s] = 0
    BY <1>1 DEF TInv, Unheard
  <2>1. CASE d = c
    BY <1>1, <2>1 DEF TInv, TypeOK
  <2>2. CASE d # c
    BY <1>1, <2>2 DEF TInv, TypeOK, Unheard
  <2>. QED
    BY <2>1, <2>2
<1>. QED
  BY <1>3, <1>4, <1>5 DEF TInv

LEMMA SubscribeTInv ==
  ASSUME TInv, NEW c \in Clients, Subscribe(c)
  PROVE  TInv'
<1> DEFINE t == calling[c].type
<1>1. /\ calling[c] \in [type : Types, number : 1 .. MaxNumber]
      /\ sub' = [sub EXCEPT ![c][t] = calling[c].number]
      /\ calling' = [calling EXCEPT ![c] = NoCall]
      /\ UNCHANGED <<conditions, remote, daemonVars, gets, queue, view>>
  BY DEF Subscribe, TInv, TypeOK, Calls
<1>2. TypeOK'
  <2>1. sub' \in [Clients -> [Types -> 0 .. MaxNumber]]
    BY <1>1 DEF TInv, TypeOK
  <2>. QED
    BY <1>1, <2>1, IdleTyped DEF TInv, TypeOK, daemonVars
<1>3. Spoken'
  BY <1>1 DEF TInv, Spoken, Result
<1>4. Unheard'
  <2> SUFFICES ASSUME NEW d \in Clients, NEW s \in Types
               PROVE  /\ sub'[d][s] = 0 => sub[d][s] = 0
                      /\ calling'[d].type = s => sub'[d][s] = 0
    BY <1>1 DEF TInv, Unheard
  <2>1. calling[c].number # 0 /\ NoCall.type # s
    BY <1>1, RefreshAssumption DEF NoCall, Types
  <2>2. CASE d = c
    BY <1>1, <2>1, <2>2 DEF TInv, TypeOK
  <2>3. CASE d # c
    BY <1>1, <2>3 DEF TInv, TypeOK, Unheard
  <2>. QED
    BY <2>2, <2>3
<1>. QED
  BY <1>2, <1>3, <1>4 DEF TInv

\* A stop drops what is on its way and what was told.
LEMMA StopCallTInv ==
  ASSUME TInv, NEW c \in Clients, NEW t \in Types, StopCall(c, t)
  PROVE  TInv'
<1>1. /\ calling[c] = NoCall
      /\ users' = [users EXCEPT ![t] = @ \ {c}]
      /\ number' = IF Unused(users', t) THEN 0 ELSE number
      /\ sub' = [sub EXCEPT ![c][t] = 0]
      /\ queue' = [queue EXCEPT ![c][t] = <<>>]
      /\ view' = [view EXCEPT ![c][t] = Null]
      /\ UNCHANGED <<conditions, remote, next, shown, gets, calling>>
  BY DEF StopCall, Unsubscribe
<1>2. TypeOK'
  <2>1. /\ sub' \in [Clients -> [Types -> 0 .. MaxNumber]]
        /\ users' \in [Types -> SUBSET Clients] /\ number' \in 0 .. MaxNumber
    BY <1>1, RefreshAssumption DEF TInv, TypeOK
  <2>2. queue' \in [Clients -> [Types -> Seq(Values \cup States)]]
    BY <1>1 DEF TInv, TypeOK
  <2>3. view' \in [Clients -> [Types -> Values \cup States \cup {Null}]]
    BY <1>1 DEF TInv, TypeOK
  <2>. QED
    BY <1>1, <2>1, <2>2, <2>3 DEF TInv, TypeOK
<1>3. Spoken'
  BY <1>1 DEF TInv, Spoken, Result
<1>4. Unheard'
  <2> SUFFICES ASSUME NEW d \in Clients, NEW s \in Types
               PROVE  /\ sub'[d][s] = 0 => view'[d][s] = Null /\ queue'[d][s] = <<>>
                      /\ calling[d].type = s => sub'[d][s] = 0
    BY <1>1 DEF Unheard
  <2>1. CASE d = c /\ s = t
    BY <1>1, <2>1 DEF TInv, TypeOK
  <2>2. CASE d # c \/ s # t
    <3>1. sub'[d][s] = sub[d][s] /\ view'[d][s] = view[d][s] /\ queue'[d][s] = queue[d][s]
      BY <1>1, <2>2 DEF TInv, TypeOK
    <3>. QED
      BY <3>1 DEF TInv, Unheard
  <2>. QED
    BY <2>1, <2>2
<1>. QED
  BY <1>2, <1>3, <1>4 DEF TInv

LEMMA DeliverTInv ==
  ASSUME TInv, NEW c \in Clients, NEW t \in Types, Deliver(c, t)
  PROVE  TInv'
<1>1. /\ queue[c][t] # <<>>
      /\ view' = [view EXCEPT ![c][t] = Head(queue[c][t])]
      /\ queue' = [queue EXCEPT ![c][t] = Tail(@)]
      /\ UNCHANGED <<conditions, remote, daemonVars, gets, calling, sub>>
  BY DEF Deliver
<1>2. queue[c][t] \in Seq(Values \cup States)
  BY DEF TInv, TypeOK
<1>3. TypeOK'
  <2>1. queue' \in [Clients -> [Types -> Seq(Values \cup States)]]
    BY <1>1, <1>2 DEF TInv, TypeOK
  <2>2. view' \in [Clients -> [Types -> Values \cup States \cup {Null}]]
    BY <1>1, <1>2 DEF TInv, TypeOK
  <2>. QED
    BY <1>1, <2>1, <2>2 DEF TInv, TypeOK, daemonVars
<1>4. Spoken'
  BY <1>1 DEF TInv, Spoken, Result
<1>5. Unheard'
  <2> SUFFICES ASSUME NEW d \in Clients, NEW s \in Types, sub[d][s] = 0
               PROVE  view'[d][s] = Null /\ queue'[d][s] = <<>>
    BY <1>1 DEF TInv, Unheard
  <2>1. d # c \/ s # t
    BY <1>1 DEF TInv, Unheard
  <2>. QED
    BY <1>1, <2>1 DEF TInv, TypeOK, Unheard
<1>. QED
  BY <1>3, <1>4, <1>5 DEF TInv

LEMMA NextTInv == TInv /\ [Next]_vars => TInv'
<1> SUFFICES ASSUME TInv, [Next]_vars
             PROVE  TInv'
  OBVIOUS
<1>1. CASE UNCHANGED vars
  BY <1>1 DEF vars, daemonVars, clientVars, TInv, TypeOK, Spoken, Unheard, Result
<1>2. ASSUME NEW v \in Values \cup {Null}, RemoteChange(v)
      PROVE  TInv'
  BY <1>2 DEF RemoteChange, daemonVars, clientVars, TInv, TypeOK, Spoken, Unheard, Result
<1>3. ASSUME NEW g \in Gets, Refresh(g)
      PROVE  TInv'
  BY <1>3, EncapGetTInv, UnheardKept DEF Refresh, TInv, TypeOK, daemonVars, clientVars
<1>4. ASSUME NEW g \in Gets, GetStep(g)
      PROVE  TInv'
  BY <1>4, AnswerTInv, LookUpTInv, CompareTInv, WriteTInv, EmitTInv DEF GetStep
<1>. QED
  BY <1>1, <1>2, <1>3, <1>4, StartCallTInv, StopCallTInv, SubscribeTInv, DeliverTInv DEF Next

-----------------------------------------------------------------------------
(* What clients are told, when no GET is sent while another one, or its     *)
(* worker, is under way                                                     *)

\* One GET, or its worker, is under way.
OneTurn == \A g, h \in Gets : gets[g].at # "idle" /\ gets[h].at # "idle" => g = h

\* An entry that is added sends a GET, so while a worker is under way there is
\* the entry it looked up, or none.
OwnEntry == \A g \in Gets : gets[g].at \in Working => number \in {0, gets[g].number}

\* What a worker is about to write is news to the entry; what it is about to
\* emit is what the entry shows, and news to every subscribed client.
Announced ==
  \A g \in Gets : number # 0 =>
    /\ gets[g].at = "write" => shown[gets[g].type] # Result(g, gets[g].type)
    /\ gets[g].at = "emit" =>
         /\ shown[gets[g].type] = Result(g, gets[g].type)
         /\ \A c \in Clients : sub[c][gets[g].type] # 0 =>
              Told(c, gets[g].type) # Result(g, gets[g].type)

\* A worker has written the entry's value of the type and not emitted it yet.
Emitting(t) == number # 0 /\ \E g \in Gets : gets[g].at = "emit" /\ gets[g].type = t

Informed ==
  \A c \in Clients, t \in Types :
    sub[c][t] # 0 /\ Told(c, t) # Null /\ ~Emitting(t) => Told(c, t) = shown[t]

\* Each signal differs from what the client is told before it.
Chained ==
  \A c \in Clients, t \in Types : \A i \in 1 .. Len(queue[c][t]) :
    queue[c][t][i] # IF i = 1 THEN view[c][t] ELSE queue[c][t][i - 1]

Turns == OneTurn /\ OwnEntry /\ Announced /\ Informed /\ Chained

InTurn == "overlap" \notin conditions

LEMMA TurnsKept ==
  ASSUME Turns, UNCHANGED <<number, shown, gets, sub, queue, view>>
  PROVE  Turns'
BY DEF Turns, OneTurn, OwnEntry, Announced, Informed, Chained, Emitting, Told, Result

\* A step that leaves no worker after the comparison, and was not taken by one.
LEMMA NoneWriting ==
  ASSUME Turns, UNCHANGED <<number, shown, sub, queue, view>>, OneTurn', OwnEntry',
         \A g \in Gets : gets[g].at \notin {"write", "emit"} /\ gets'[g].at \notin {"write", "emit"}
  PROVE  Turns'
<1>1. Announced'
  BY DEF Announced
<1>2. Informed'
  <2>1. ASSUME NEW t \in Types
        PROVE  ~Emitting(t) /\ ~Emitting(t)'
    BY DEF Emitting
  <2>. QED
    BY <2>1 DEF Turns, Informed, Told
<1>3. Chained'
  BY DEF Turns, Chained
<1>. QED
  BY <1>1, <1>2, <1>3 DEF Turns

\* The GET that is under way is the only one.
LEMMA OneMoves ==
  ASSUME Turns, NEW h \in Gets, gets[h].at # "idle",
         \A g \in Gets \ {h} : gets'[g] = gets[g]
  PROVE  /\ OneTurn'
         /\ \A g \in Gets \ {h} : gets[g].at = "idle" /\ gets'[g].at = "idle"
BY DEF Turns, OneTurn

LEMMA EncapGetTurn ==
  ASSUME TInv, InTurn, NEW g \in Gets, EncapGet(g)
  PROVE  /\ \A h \in Gets : gets[h].at = "idle" /\ gets'[h].at \in {"idle", "request"}
         /\ OneTurn'
<1>1. \A h \in Gets : gets[h].at = "idle"
  BY DEF EncapGet, InTurn
<1>2. \A h \in Gets : gets'[h].at = IF h = g THEN "request" ELSE "idle"
  BY <1>1 DEF EncapGet, TInv, TypeOK, Idle
<1>. QED
  BY <1>1, <1>2 DEF OneTurn

LEMMA InitTurns == Init => Turns
<1> SUFFICES ASSUME Init
             PROVE  Turns
  OBVIOUS
<1>1. \A g \in Gets : gets[g].at = "idle"
  BY DEF Init, Idle
<1>2. Chained
  <2> SUFFICES ASSUME NEW c \in Clients, NEW t \in Types, NEW i \in 1 .. Len(queue[c][t])
               PROVE  FALSE
    BY DEF Chained
  <2>1. queue[c][t] = <<>>
    BY DEF Init
  <2>. QED
    BY <2>1
<1>. QED
  BY <1>1, <1>2
     DEF Init, Turns, OneTurn, OwnEntry, Announced, Informed, Working

LEMMA RefreshTurns ==
  ASSUME TInv, Turns, InTurn, NEW g \in Gets, Refresh(g)
  PROVE  Turns'
<1>1. /\ OneTurn'
      /\ \A h \in Gets : gets[h].at = "idle" /\ gets'[h].at \in {"idle", "request"}
  BY EncapGetTurn DEF Refresh
<1>2. OwnEntry'
  BY <1>1 DEF OwnEntry, Working
<1>. QED
  BY <1>1, <1>2, NoneWriting DEF Refresh, daemonVars, clientVars

LEMMA AnswerTurns ==
  ASSUME TInv, Turns, NEW g \in Gets, Answer(g)
  PROVE  Turns'
<1>1. /\ gets[g].at = "request" /\ gets'[g].at = "lookup"
      /\ \A h \in Gets \ {g} : gets'[h] = gets[h]
  BY DEF Answer, TInv, TypeOK, GetStates
<1>2. OneTurn' /\ \A h \in Gets \ {g} : gets[h].at = "idle" /\ gets'[h].at = "idle"
  BY <1>1, OneMoves
<1>3. OwnEntry'
  BY <1>1, <1>2 DEF OwnEntry, Working
<1>4. \A h \in Gets : gets[h].at \notin {"write", "emit"} /\ gets'[h].at \notin {"write", "emit"}
  BY <1>1, <1>2
<1>. QED
  BY <1>2, <1>3, <1>4, NoneWriting DEF Answer, daemonVars, clientVars

LEMMA LookUpTurns ==
  ASSUME TInv, Turns, NEW g \in Gets, LookUp(g)
  PROVE  Turns'
<1>1. /\ gets[g].at = "lookup"
      /\ gets'[g] = Idle \/ (gets'[g].at = "compare" /\ gets'[g].number = number)
      /\ \A h \in Gets \ {g} : gets'[h] = gets[h]
  <2>1. /\ gets[g].at = "lookup"
        /\ gets' = [gets EXCEPT ![g] = IF number = 0 THEN Idle
                                       ELSE [@ EXCEPT !.at = "compare", !.type = "monitoring",
                                                      !.number = number]]
    BY DEF LookUp
  <2>2. /\ gets'[g] = IF number = 0 THEN Idle
                      ELSE [gets[g] EXCEPT !.at = "compare", !.type = "monitoring",
                                           !.number = number]
        /\ \A h \in Gets \ {g} : gets'[h] = gets[h]
    BY <2>1 DEF TInv, TypeOK
  <2>3. /\ [gets[g] EXCEPT !.at = "compare", !.type = "monitoring", !.number = number].at = "compare"
        /\ [gets[g] EXCEPT !.at = "compare", !.type = "monitoring", !.number = number].number = number
    BY DEF TInv, TypeOK, GetStates
  <2>. QED
    BY <2>1, <2>2, <2>3
<1>2. OneTurn' /\ \A h \in Gets \ {g} : gets[h].at = "idle" /\ gets'[h].at = "idle"
  BY <1>1, OneMoves
<1>3. UNCHANGED <<number, shown, sub, queue, view>>
  BY DEF LookUp, daemonVars, clientVars
<1>4. OwnEntry'
  BY <1>1, <1>2, <1>3 DEF OwnEntry, Working, Idle
<1>5. \A h \in Gets : gets[h].at \notin {"write", "emit"} /\ gets'[h].at \notin {"write", "emit"}
  BY <1>1, <1>2 DEF Idle
<1>. QED
  BY <1>2, <1>3, <1>4, <1>5, NoneWriting

\* The memory a worker uses is its entry, or no entry.
LEMMA OneTarget ==
  ASSUME TInv, Turns, NEW g \in Gets, gets[g].at \in Working
  PROVE  Targets(g) = {number}
BY DEF TInv, Spoken, Turns, OwnEntry, Targets

LEMMA CompareTurns ==
  ASSUME TInv, Turns, NEW g \in Gets, Compare(g)
  PROVE  Turns'
<1>1. gets[g].at = "compare" /\ UNCHANGED <<conditions, remote, daemonVars, clientVars>>
  BY DEF Compare
<1>2. PICK news \in BOOLEAN :
         /\ number # 0 /\ news => Differs(g)
         /\ gets' = [gets EXCEPT ![g] = IF news THEN [@ EXCEPT !.at = "write"] ELSE Done(@)]
  BY <1>1, OneTarget DEF Compare, Working
<1>3. UNCHANGED <<number, shown, sub, queue, view>>
  BY <1>1 DEF daemonVars, clientVars
<1>4. CASE ~news
  <2>1. gets' = [gets EXCEPT ![g] = Done(@)]
    BY <1>2, <1>4
  <2>2. /\ gets'[g] = Idle \/ (gets'[g].at = "compare" /\ gets'[g].number = gets[g].number)
        /\ \A h \in Gets \ {g} : gets'[h] = gets[h]
    BY <1>1, <2>1, DoneTyped DEF TInv, Working
  <2>3. OneTurn' /\ \A h \in Gets \ {g} : gets[h].at = "idle" /\ gets'[h].at = "idle"
    BY <1>1, <2>2, OneMoves
  <2>4. OwnEntry'
    BY <1>1, <1>3, <2>2, <2>3 DEF Turns, OwnEntry, Working, Idle
  <2>5. \A h \in Gets : gets[h].at \notin {"write", "emit"} /\ gets'[h].at \notin {"write", "emit"}
    BY <1>1, <2>2, <2>3 DEF Idle
  <2>. QED
    BY <1>3, <2>3, <2>4, <2>5, NoneWriting
<1>5. CASE news
  <2>1. /\ gets'[g].at = "write" /\ gets'[g].type = gets[g].type
        /\ gets'[g].number = gets[g].number /\ gets'[g].result = gets[g].result
        /\ \A h \in Gets \ {g} : gets'[h] = gets[h]
    <3>1. gets' = [gets EXCEPT ![g] = [@ EXCEPT !.at = "write"]]
      BY <1>2, <1>5
    <3>. QED
      BY <3>1 DEF TInv, TypeOK, GetStates
  <2>2. OneTurn' /\ \A h \in Gets \ {g} : gets[h].at = "idle" /\ gets'[h].at = "idle"
    BY <1>1, <2>1, OneMoves
  <2>3. OwnEntry'
    BY <1>1, <1>3, <2>1, <2>2 DEF Turns, OwnEntry, Working
  <2>4. Announced'
    <3>1. number # 0 => shown[gets[g].type] # Result(g, gets[g].type)
      BY <1>2, <1>5 DEF Differs
    <3>2. Result(g, gets[g].type)' = Result(g, gets[g].type)
      BY <2>1 DEF Result
    <3>. QED
      BY <1>3, <2>1, <2>2, <3>1, <3>2 DEF Announced
  <2>5. Informed'
    <3>1. ASSUME NEW t \in Types
          PROVE  ~Emitting(t) /\ ~Emitting(t)'
      BY <1>1, <2>1, <2>2 DEF Emitting
    <3>. QED
      BY <1>3, <3>1 DEF Turns, Informed, Told
  <2>6. Chained'
    BY <1>3 DEF Turns, Chained
  <2>. QED
    BY <2>2, <2>3, <2>4, <2>5, <2>6 DEF Turns
<1>. QED
  BY <1>4, <1>5

\* The entry shows what the worker is about to emit, and what the clients know
\* is what the entry showed before.
LEMMA WriteTurns ==
  ASSUME TInv, Turns, NEW g \in Gets, Write(g)
  PROVE  Turns'
<1> DEFINE t == gets[g].type
<1>1. /\ gets[g].at = "write"
      /\ gets' = [gets EXCEPT ![g].at = "emit"]
      /\ UNCHANGED <<conditions, remote, users, number, next, clientVars>>
  BY DEF Write
<1>2. /\ gets'[g].at = "emit" /\ gets'[g].type = t
      /\ gets'[g].number = gets[g].number /\ gets'[g].result = gets[g].result
      /\ \A h \in Gets \ {g} : gets'[h] = gets[h]
  BY <1>1 DEF TInv, TypeOK, GetStates
<1>3. shown' = IF number = 0 THEN shown ELSE [shown EXCEPT ![t] = Result(g, t)]
  BY <1>1, OneTarget DEF Write, Working
<1>4. t \in Types
  BY <1>1 DEF TInv, Spoken, Working
<1>5. OneTurn' /\ \A h \in Gets \ {g} : gets[h].at = "idle" /\ gets'[h].at = "idle"
  BY <1>1, <1>2, OneMoves
<1>6. OwnEntry'
  BY <1>1, <1>2, <1>5 DEF Turns, OwnEntry, Working
<1>7. UNCHANGED <<sub, queue, view, number>>
  BY <1>1 DEF clientVars
<1>8. \A s \in Types : ~Emitting(s)
  BY <1>1, <1>5 DEF Emitting
<1>9. Announced'
  <2> SUFFICES ASSUME number # 0
               PROVE  /\ shown'[t] = Result(g, t)'
                      /\ \A c \in Clients : sub[c][t] # 0 => Told(c, t)' # Result(g, t)'
    BY <1>2, <1>5, <1>7 DEF Announced
  <2>1. Result(g, t)' = Result(g, t)
    BY <1>2 DEF Result
  <2>2. shown'[t] = Result(g, t) /\ shown[t] # Result(g, t) /\ Result(g, t) # Null
    BY <1>1, <1>3, <1>4 DEF TInv, TypeOK, Spoken, Turns, Announced
  <2>3. ASSUME NEW c \in Clients
        PROVE  Told(c, t)' = Told(c, t)
    BY <1>2, <1>7 DEF Told
  <2>4. ASSUME NEW c \in Clients, sub[c][t] # 0
        PROVE  Told(c, t) # Result(g, t)
    BY <1>4, <1>8, <2>2, <2>4 DEF Turns, Informed
  <2>. QED
    BY <1>2, <2>1, <2>2, <2>3, <2>4
<1>10. Informed'
  <2> SUFFICES ASSUME NEW c \in Clients, NEW s \in Types, sub[c][s] # 0, Told(c, s)' # Null,
                      ~Emitting(s)'
               PROVE  Told(c, s)' = shown'[s]
    BY <1>7 DEF Informed
  <2>1. Told(c, s)' = Told(c, s)
    BY <1>7 DEF Told
  <2>2. number = 0 \/ s # t
    BY <1>2, <1>7 DEF Emitting
  <2>3. shown'[s] = shown[s]
    BY <1>3, <2>2 DEF TInv, TypeOK
  <2>. QED
    BY <1>8, <2>1, <2>3 DEF Turns, Informed
<1>11. Chained'
  BY <1>7 DEF Turns, Chained
<1>. QED
  BY <1>5, <1>6, <1>9, <1>10, <1>11 DEF Turns

\* Every subscribed client is sent what the entry shows.
LEMMA EmitTurns ==
  ASSUME IInv, TInv, Turns, NEW g \in Gets, Emit(g)
  PROVE  Turns'
<1> DEFINE t == gets[g].type
<1>1. /\ gets[g].at = "emit" /\ gets' = [gets EXCEPT ![g] = Done(@)]
      /\ UNCHANGED <<conditions, remote, daemonVars, calling, sub, view>>
  BY DEF Emit
<1>2. t \in Types
  BY <1>1 DEF TInv, Spoken, Working
<1>3. queue' = [c \in Clients |-> IF number # 0 /\ sub[c][t] = number
                                  THEN [queue[c] EXCEPT ![t] = Append(@, Result(g, t))]
                                  ELSE queue[c]]
  <2>1. ASSUME NEW c \in Clients
        PROVE  c \in {d \in Clients : number # 0 /\ sub[d][t] = number}
                 <=> number # 0 /\ sub[c][t] = number
    OBVIOUS
  <2>2. Targets(g) = {number}
    BY <1>1, OneTarget DEF Working
  <2>. QED
    BY <2>1, <2>2 DEF Emit
<1>4. UNCHANGED <<number, shown, sub, view>>
  BY <1>1 DEF daemonVars
<1>5. /\ gets'[g] = Idle \/ (gets'[g].at = "compare" /\ gets'[g].number = gets[g].number)
      /\ \A h \in Gets \ {g} : gets'[h] = gets[h]
  BY <1>1, DoneTyped DEF TInv, Working
<1>6. OneTurn' /\ \A h \in Gets \ {g} : gets[h].at = "idle" /\ gets'[h].at = "idle"
  BY <1>1, <1>5, OneMoves
<1>7. OwnEntry'
  BY <1>1, <1>4, <1>5, <1>6 DEF Turns, OwnEntry, Working, Idle
<1>8. \A h \in Gets : gets'[h].at \notin {"write", "emit"}
  BY <1>5, <1>6 DEF Idle
<1>9. Announced'
  BY <1>8 DEF Announced
<1>10. ASSUME NEW c \in Clients, NEW s \in Types, s # t \/ sub[c][s] = 0
       PROVE  queue'[c][s] = queue[c][s]
  <2>1. CASE s # t
    BY <1>3, <2>1 DEF TInv, TypeOK
  <2>2. CASE s = t
    BY <1>3, <1>10, <2>2
  <2>. QED
    BY <2>1, <2>2
<1>11. ASSUME NEW c \in Clients, sub[c][t] # 0
       PROVE  /\ queue'[c][t] = Append(queue[c][t], Result(g, t))
              /\ queue[c][t] \in Seq(Values \cup States) /\ Result(g, t) \in Values \cup States
              /\ Told(c, t) # Result(g, t) /\ shown[t] = Result(g, t)
  <2>1. sub[c][t] = number
    BY <1>2, <1>11 DEF IInv, SubscribedToEntry
  <2>2. queue'[c] = [queue[c] EXCEPT ![t] = Append(@, Result(g, t))]
    BY <1>3, <1>11, <2>1
  <2>3. queue'[c][t] = Append(queue[c][t], Result(g, t)) /\ queue[c][t] \in Seq(Values \cup States)
    BY <1>2, <2>2 DEF TInv, TypeOK
  <2>4. Result(g, t) \in Values \cup States
    BY <1>1, <1>2, ResultTyped DEF TInv, Spoken
  <2>5. Told(c, t) # Result(g, t) /\ shown[t] = Result(g, t)
    BY <1>1, <1>11, <2>1 DEF Turns, Announced
  <2>. QED
    BY <2>3, <2>4, <2>5
<1>12. Informed'
  <2> SUFFICES ASSUME NEW c \in Clients, NEW s \in Types, sub[c][s] # 0, Told(c, s)' # Null
               PROVE  Told(c, s)' = shown[s]
    BY <1>4 DEF Informed
  <2>1. CASE s = t
    <3>1. /\ queue'[c][t] # <<>>
          /\ queue'[c][t][Len(queue'[c][t])] = Result(g, t)
      <4>1. ASSUME NEW S, NEW q \in Seq(S), NEW r \in S
            PROVE  Append(q, r) # <<>> /\ Append(q, r)[Len(Append(q, r))] = r
        OBVIOUS
      <4>. QED
        BY <1>11, <2>1, <4>1
    <3>2. Told(c, s)' = Result(g, t)
      BY <2>1, <3>1 DEF Told
    <3>. QED
      BY <1>11, <2>1, <3>2
  <2>2. CASE s # t
    <3>1. Told(c, s)' = Told(c, s)
      BY <1>4, <1>10, <2>2 DEF Told
    <3>2. ~Emitting(s)
      BY <1>6, <2>2 DEF Emitting
    <3>. QED
      BY <3>1, <3>2 DEF Turns, Informed
  <2>. QED
    BY <2>1, <2>2
<1>13. Chained'
  <2> SUFFICES ASSUME NEW c \in Clients, NEW s \in Types, NEW i \in 1 .. Len(queue'[c][s])
               PROVE  queue'[c][s][i] # IF i = 1 THEN view[c][s] ELSE queue'[c][s][i - 1]
    BY <1>4 DEF Chained
  <2>1. CASE s # t \/ sub[c][s] = 0
    BY <1>10, <2>1 DEF Turns, Chained
  <2>2. CASE s = t /\ sub[c][s] # 0
    <3> DEFINE q == queue[c][t]
               r == Result(g, t)
    <3>1. queue'[c][s] = Append(q, r) /\ q \in Seq(Values \cup States) /\ r \in Values \cup States
      BY <1>11, <2>2
    <3>2. (IF q = <<>> THEN view[c][t] ELSE q[Len(q)]) # r
      BY <1>11, <2>2 DEF Told
    <3>3. \A j \in 1 .. Len(q) : q[j] # IF j = 1 THEN view[c][t] ELSE q[j - 1]
      BY <1>2 DEF Turns, Chained
    <3> HIDE DEF q, r
    <3>4. CASE i = Len(q) + 1
      <4>1. Append(q, r)[i] = r /\ (i # 1 => Append(q, r)[i - 1] = q[Len(q)] /\ q # <<>>)
        BY <3>1, <3>4
      <4>2. i = 1 => q = <<>>
        BY <3>1, <3>4
      <4>. QED
        BY <2>2, <3>1, <3>2, <4>1, <4>2
    <3>5. CASE i # Len(q) + 1
      <4>1. i \in 1 .. Len(q) /\ Append(q, r)[i] = q[i] /\ (i # 1 => Append(q, r)[i - 1] = q[i - 1])
        BY <3>1, <3>5
      <4>. QED
        BY <2>2, <3>1, <3>3, <4>1
    <3>. QED
      BY <3>4, <3>5
  <2>. QED
    BY <2>1, <2>2
<1>. QED
  BY <1>6, <1>7, <1>9, <1>12, <1>13 DEF Turns

\* An entry is added only when nobody has subscribed to anything.
LEMMA StartCallTurns ==
  ASSUME IInv, TInv, Turns, InTurn, NEW c \in Clients, NEW t \in Types, StartCall(c, t)
  PROVE  Turns'
<1>1. UNCHANGED <<sub, queue, view>>
  BY DEF StartCall
<1>2. CASE number # 0
  BY <1>1, <1>2, TurnsKept DEF StartCall
<1>3. CASE number = 0
  <2>1. PICK g \in Gets : EncapGet(g)
    BY <1>3 DEF StartCall
  <2>2. /\ OneTurn'
        /\ \A h \in Gets : gets[h].at = "idle" /\ gets'[h].at \in {"idle", "request"}
    BY <2>1, EncapGetTurn
  <2>3. \A d \in Clients, s \in Types : sub[d][s] = 0
    BY <1>3 DEF IInv, SubscribedToEntry
  <2>4. OwnEntry' /\ Announced'
    BY <2>2 DEF OwnEntry, Announced, Working
  <2>5. Informed'
    BY <1>1, <2>3 DEF Informed
  <2>6. Chained'
    BY <1>1 DEF Turns, Chained
  <2>. QED
    BY <2>2, <2>4, <2>5, <2>6 DEF Turns
<1>. QED
  BY <1>2, <1>3

\* A new subscriber has been told nothing, so whatever is emitted is news to it.
LEMMA SubscribeTurns ==
  ASSUME TInv, Turns, NEW c \in Clients, Subscribe(c)
  PROVE  Turns'
<1> DEFINE t == calling[c].type
<1>1. /\ calling[c] \in [type : Types, number : 1 .. MaxNumber]
      /\ sub' = [sub EXCEPT ![c][t] = calling[c].number]
      /\ UNCHANGED <<daemonVars, gets, queue, view>>
  BY DEF Subscribe, TInv, TypeOK, Calls
<1>2. Told(c, t) = Null
  BY <1>1 DEF TInv, Unheard, Told
<1>3. ASSUME NEW d \in Clients, NEW s \in Types
      PROVE  /\ Told(d, s)' = Told(d, s)
             /\ sub'[d][s] # 0 => sub[d][s] # 0 \/ Told(d, s) = Null
  <2>1. (d = c /\ s = t) \/ sub'[d][s] = sub[d][s]
    BY <1>1 DEF TInv, TypeOK
  <2>. QED
    BY <1>1, <1>2, <2>1 DEF Told
<1>4. UNCHANGED <<number, shown, gets, queue, view>>
  BY <1>1 DEF daemonVars
<1>5. OneTurn' /\ OwnEntry' /\ Chained'
  BY <1>4 DEF Turns, OneTurn, OwnEntry, Chained
<1>6. Announced'
  <2> SUFFICES ASSUME NEW g \in Gets, number # 0, NEW s \in Types, s = gets[g].type
               PROVE  /\ gets[g].at = "write" => shown[s] # Result(g, s)
                      /\ gets[g].at = "emit" =>
                           /\ shown[s] = Result(g, s)
                           /\ \A d \in Clients : sub'[d][s] # 0 => Told(d, s)' # Result(g, s)
    BY <1>4 DEF TInv, Spoken, Working, Announced, Result, Told
  <2>1. number # 0
    BY <1>4
  <2>2. /\ gets[g].at = "write" => shown[s] # Result(g, s)
        /\ gets[g].at = "emit" =>
             /\ shown[s] = Result(g, s)
             /\ \A d \in Clients : sub[d][s] # 0 => Told(d, s) # Result(g, s)
    BY <2>1 DEF Turns, Announced
  <2>3. gets[g].at = "emit" => Result(g, s) # Null
    BY DEF TInv, Spoken
  <2>. QED
    BY <1>3, <2>2, <2>3
<1>7. Informed'
  <2> SUFFICES ASSUME NEW d \in Clients, NEW s \in Types, sub'[d][s] # 0, Told(d, s)' # Null,
                      ~Emitting(s)'
               PROVE  Told(d, s)' = shown[s]
    BY <1>4 DEF Informed
  <2>1. ~Emitting(s)
    BY <1>4 DEF Emitting
  <2>. QED
    BY <1>3, <2>1 DEF Turns, Informed
<1>. QED
  BY <1>5, <1>6, <1>7 DEF Turns

LEMMA StopCallTurns ==
  ASSUME IInv, IInv', TInv, TInv', Turns, NEW c \in Clients, NEW t \in Types, StopCall(c, t)
  PROVE  Turns'
<1>1. /\ number' \in {0, number}
      /\ sub' = [sub EXCEPT ![c][t] = 0]
      /\ queue' = [queue EXCEPT ![c][t] = <<>>]
      /\ view' = [view EXCEPT ![c][t] = Null]
      /\ UNCHANGED <<shown, gets>>
  BY DEF StopCall, Unsubscribe
<1>2. OneTurn' /\ OwnEntry'
  BY <1>1 DEF Turns, OneTurn, OwnEntry
<1>3. ASSUME NEW d \in Clients, NEW s \in Types, sub'[d][s] # 0
      PROVE  /\ sub[d][s] # 0 /\ number' = number /\ number # 0
             /\ queue'[d][s] = queue[d][s] /\ view'[d][s] = view[d][s]
             /\ Told(d, s)' = Told(d, s)
  <2>1. d # c \/ s # t
    BY <1>1, <1>3 DEF TInv, TypeOK
  <2>2. /\ sub'[d][s] = sub[d][s] /\ queue'[d][s] = queue[d][s] /\ view'[d][s] = view[d][s]
    BY <1>1, <2>1 DEF TInv, TypeOK
  <2>3. sub'[d][s] = number'
    BY <1>3 DEF IInv, SubscribedToEntry
  <2>. QED
    BY <1>1, <1>3, <2>2, <2>3 DEF Told
<1>4. Announced'
  <2> SUFFICES ASSUME NEW g \in Gets, number' # 0, NEW s \in Types, s = gets[g].type
               PROVE  /\ gets[g].at = "write" => shown[s] # Result(g, s)
                      /\ gets[g].at = "emit" =>
                           /\ shown[s] = Result(g, s)
                           /\ \A d \in Clients : sub'[d][s] # 0 => Told(d, s)' # Result(g, s)
    BY <1>1 DEF TInv, Spoken, Working, Announced, Result, Told
  <2>1. number # 0
    BY <1>1
  <2>2. /\ gets[g].at = "write" => shown[s] # Result(g, s)
        /\ gets[g].at = "emit" =>
             /\ shown[s] = Result(g, s)
             /\ \A d \in Clients : sub[d][s] # 0 => Told(d, s) # Result(g, s)
    BY <2>1 DEF Turns, Announced
  <2>3. gets[g].at = "emit" => Result(g, s) # Null
    BY DEF TInv, Spoken
  <2>. QED
    BY <1>3, <2>2, <2>3
<1>5. Informed'
  <2> SUFFICES ASSUME NEW d \in Clients, NEW s \in Types, sub'[d][s] # 0, Told(d, s)' # Null,
                      ~Emitting(s)'
               PROVE  Told(d, s)' = shown[s]
    BY <1>1 DEF Informed
  <2>1. ~Emitting(s)
    BY <1>1, <1>3 DEF Emitting
  <2>. QED
    BY <1>3, <2>1 DEF Turns, Informed
<1>6. Chained'
  <2> SUFFICES ASSUME NEW d \in Clients, NEW s \in Types, NEW i \in 1 .. Len(queue'[d][s])
               PROVE  queue'[d][s][i] # IF i = 1 THEN view'[d][s] ELSE queue'[d][s][i - 1]
    BY DEF Chained
  <2>1. CASE sub'[d][s] = 0
    <3>1. queue'[d][s] = <<>>
      BY <2>1 DEF TInv, Unheard
    <3>. QED
      BY <3>1
  <2>2. CASE sub'[d][s] # 0
    BY <1>3, <2>2 DEF Turns, Chained
  <2>. QED
    BY <2>1, <2>2
<1>. QED
  BY <1>2, <1>4, <1>5, <1>6 DEF Turns

LEMMA OneLess ==
  ASSUME NEW n \in Nat, n - 1 = 0
  PROVE  n = 1
OBVIOUS

\* What Told looks at stays when the head of a queue becomes the view.
LEMMA TailLast ==
  ASSUME NEW S, NEW q \in Seq(S), q # <<>>
  PROVE  (IF Tail(q) = <<>> THEN Head(q) ELSE Tail(q)[Len(Tail(q))]) = q[Len(q)]
<1>1. /\ Len(q) \in Nat \ {0}
      /\ Tail(q) \in Seq(S) /\ Len(Tail(q)) = Len(q) - 1
      /\ \A i \in 1 .. Len(Tail(q)) : Tail(q)[i] = q[i + 1]
  BY HeadTailProperties, EmptySeq
<1>2. CASE Tail(q) = <<>>
  <2>1. Len(<<>>) = 0
    OBVIOUS
  <2>2. Len(Tail(q)) = 0
    BY <1>2, <2>1, Zenon
  <2>3. Len(q) \in Nat /\ Len(q) - 1 = 0
    BY <1>1, <2>2, Zenon
  <2>4. Len(q) = 1
    BY <2>3, OneLess, Zenon
  <2>. QED
    BY <1>2, <2>4
<1>3. CASE Tail(q) # <<>>
  <2>1. Len(Tail(q)) \in Nat \ {0}
    BY <1>1, <1>3, EmptySeq
  <2>2. Tail(q)[Len(Tail(q))] = q[Len(Tail(q)) + 1]
    BY <1>1, <2>1
  <2>3. Len(Tail(q)) + 1 = Len(q)
    BY <1>1
  <2>. QED
    BY <1>3, <2>2, <2>3
<1>. QED
  BY <1>2, <1>3

\* What a client is told next was the next thing on its way: it is news to the
\* client, and the last thing it will be told stays the same.
LEMMA DeliverTurns ==
  ASSUME TInv, Turns, NEW c \in Clients, NEW t \in Types, Deliver(c, t)
  PROVE  Turns' /\ view'[c][t] # view[c][t]
<1> DEFINE q == queue[c][t]
<1>1. /\ q # <<>> /\ q \in Seq(Values \cup States)
      /\ view' = [view EXCEPT ![c][t] = Head(q)]
      /\ queue' = [queue EXCEPT ![c][t] = Tail(@)]
      /\ UNCHANGED <<daemonVars, gets, sub>>
  BY DEF Deliver, TInv, TypeOK
<1>2. view'[c][t] = Head(q) /\ queue'[c][t] = Tail(q)
  BY <1>1 DEF TInv, TypeOK
<1>3. \A j \in 1 .. Len(q) : q[j] # IF j = 1 THEN view[c][t] ELSE q[j - 1]
  BY DEF Turns, Chained
<1>4. Told(c, t) = q[Len(q)]
  BY <1>1 DEF Told
<1>5. Told(c, t)' = IF Tail(q) = <<>> THEN Head(q) ELSE Tail(q)[Len(Tail(q))]
  BY <1>2 DEF Told
<1> HIDE DEF q
<1>6. Head(q) = q[1] /\ 1 \in 1 .. Len(q)
  BY <1>1
<1>7. view'[c][t] # view[c][t]
  BY <1>2, <1>3, <1>6
<1>8. Told(c, t)' = Told(c, t)
  BY <1>1, <1>4, <1>5, TailLast
<1>9. ASSUME NEW d \in Clients, NEW s \in Types, d # c \/ s # t
      PROVE  view'[d][s] = view[d][s] /\ queue'[d][s] = queue[d][s]
  BY <1>1, <1>9 DEF TInv, TypeOK
<1>10. ASSUME NEW d \in Clients, NEW s \in Types
       PROVE  Told(d, s)' = Told(d, s)
  <2>1. CASE d = c /\ s = t
    BY <1>8, <2>1
  <2>2. CASE d # c \/ s # t
    BY <1>9, <2>2 DEF Told
  <2>. QED
    BY <2>1, <2>2
<1>11. UNCHANGED <<number, shown, gets, sub>>
  BY <1>1 DEF daemonVars
<1>12. OneTurn' /\ OwnEntry'
  BY <1>11 DEF Turns, OneTurn, OwnEntry
<1>13. Announced'
  <2> SUFFICES ASSUME NEW g \in Gets, number # 0, NEW s \in Types, s = gets[g].type
               PROVE  /\ gets[g].at = "write" => shown[s] # Result(g, s)
                      /\ gets[g].at = "emit" =>
                           /\ shown[s] = Result(g, s)
                           /\ \A d \in Clients : sub[d][s] # 0 => Told(d, s)' # Result(g, s)
    BY <1>11 DEF TInv, Spoken, Working, Announced, Result, Told
  <2>1. number # 0
    BY <1>11
  <2>2. /\ gets[g].at = "write" => shown[s] # Result(g, s)
        /\ gets[g].at = "emit" =>
             /\ shown[s] = Result(g, s)
             /\ \A d \in Clients : sub[d][s] # 0 => Told(d, s) # Result(g, s)
    BY <2>1 DEF Turns, Announced
  <2>3. gets[g].at = "emit" => Result(g, s) # Null
    BY DEF TInv, Spoken
  <2>. QED
    BY <1>10, <2>2, <2>3
<1>14. Informed'
  <2>1. ASSUME NEW s \in Types
        PROVE  Emitting(s)' = Emitting(s)
    BY <1>11 DEF Emitting
  <2>. QED
    BY <1>10, <1>11, <2>1 DEF Turns, Informed
<1>15. Chained'
  <2> SUFFICES ASSUME NEW d \in Clients, NEW s \in Types, NEW i \in 1 .. Len(queue'[d][s])
               PROVE  queue'[d][s][i] # IF i = 1 THEN view'[d][s] ELSE queue'[d][s][i - 1]
    BY DEF Chained
  <2>1. CASE d = c /\ s = t
    <3>1. i \in 1 .. Len(Tail(q)) /\ view'[d][s] = q[1] /\ queue'[d][s] = Tail(q)
      BY <1>2, <1>6, <2>1
    <3>2. /\ i + 1 \in 1 .. Len(q) /\ Tail(q)[i] = q[i + 1]
          /\ i # 1 => Tail(q)[i - 1] = q[i]
      BY <1>1, <3>1
    <3>3. q[i + 1] # q[i]
      <4>1. i + 1 # 1 /\ (i + 1) - 1 = i
        BY <3>1
      <4>. QED
        BY <1>3, <3>2, <4>1
    <3>. QED
      BY <3>1, <3>2, <3>3
  <2>2. CASE d # c \/ s # t
    BY <1>9, <2>2 DEF Turns, Chained
  <2>. QED
    BY <2>1, <2>2
<1>. QED
  BY <1>7, <1>12, <1>13, <1>14, <1>15 DEF Turns

RInv == IInv /\ TInv /\ (InTurn => Turns)

LEMMA NextRInv == RInv /\ [Next]_vars => RInv'
<1> SUFFICES ASSUME RInv, [Next]_vars
             PROVE  RInv'
  OBVIOUS
<1>1. IInv' /\ TInv'
  BY NextIInv, NextTInv DEF RInv
<1>2. conditions' = conditions
  BY DEF Next, vars, RemoteChange, Refresh, GetStep, Answer, LookUp, Compare, Write, Emit,
         StartCall, StopCall, Subscribe, Deliver
<1>3. SUFFICES ASSUME InTurn
               PROVE  Turns'
  BY <1>1, <1>2 DEF RInv, InTurn
<1>4. IInv /\ TInv /\ Turns
  BY <1>3 DEF RInv
<1>5. CASE UNCHANGED vars
  BY <1>4, <1>5, TurnsKept DEF vars, daemonVars, clientVars
<1>6. ASSUME NEW v \in Values \cup {Null}, RemoteChange(v)
      PROVE  Turns'
  BY <1>4, <1>6, TurnsKept DEF RemoteChange, daemonVars, clientVars
<1>7. ASSUME NEW g \in Gets, Refresh(g) \/ GetStep(g)
      PROVE  Turns'
  BY <1>3, <1>4, <1>7, RefreshTurns, AnswerTurns, LookUpTurns, CompareTurns, WriteTurns,
     EmitTurns DEF GetStep
<1>8. ASSUME NEW c \in Clients, NEW t \in Types, StartCall(c, t) \/ StopCall(c, t) \/ Deliver(c, t)
      PROVE  Turns'
  BY <1>1, <1>3, <1>4, <1>8, StartCallTurns, StopCallTurns, DeliverTurns
<1>9. ASSUME NEW c \in Clients, Subscribe(c)
      PROVE  Turns'
  BY <1>4, <1>9, SubscribeTurns
<1>. QED
  BY <1>5, <1>6, <1>7, <1>8, <1>9 DEF Next

LEMMA RInvKept == Spec => []RInv
<1>1. Init => RInv
  BY InitIInv, InitTInv, InitTurns DEF RInv
<1>. QED
  BY <1>1, NextRInv, PTL DEF Spec

\* Every variable keeps its type; what is on its way to a client is never the
\* Null of an error answer.
THEOREM TypeCorrect == Spec => []TypeOK
<1>1. RInv => TypeOK
  BY DEF RInv, TInv
<1>. QED
  BY <1>1, RInvKept, PTL

\* While no worker is between comparing and emitting, every subscribed client
\* that was ever told something has been told, or is about to be told, what
\* the entry shows (_worker_encap_get_cb, _icl_monitoring_cb, _icl_caching_cb),
\* in every behaviour without overlapping GETs.
THEOREM NoneLost == Spec => []NoUpdateLost
<1>1. RInv => NoUpdateLost
  <2> SUFFICES ASSUME RInv, Quiet, InTurn, NEW c \in Clients, NEW t \in Types,
                      sub[c][t] # 0, Told(c, t) # Null
               PROVE  Told(c, t) = shown[t]
    BY DEF NoUpdateLost, InTurn
  <2>1. ~Emitting(t)
    BY DEF Quiet, Emitting
  <2>. QED
    BY <2>1 DEF RInv, Turns, Informed
<1>. QED
  BY <1>1, RInvKept, PTL

\* No client is told twice in a row the same of a type, in every behaviour
\* without overlapping GETs.
THEOREM ToldNews == Spec => OnlyNews
<1>1. RInv /\ [Next]_vars =>
        ["overlap" \notin conditions =>
           \A c \in Clients, t \in Types : Deliver(c, t) => view'[c][t] # view[c][t]]_vars
  BY DeliverTurns DEF RInv, InTurn
<1>. QED
  BY <1>1, RInvKept, PTL DEF Spec, OnlyNews
==============================================================================
