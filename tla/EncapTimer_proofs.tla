-------------------------- MODULE EncapTimer_proofs --------------------------
(***************************************************************************)
(* Theorems about EncapTimer, for any number of workers, timers and        *)
(* entries and for every combination of conditions:                        *)
(*   Owned  Spec => []TimerOwned                                           *)
(*   Kept   Spec => []EntryKept                                            *)
(* They follow from one inductive invariant, IInv.                         *)
(***************************************************************************)
EXTENDS EncapTimer, TLAPS

Replacing(w) == worker[w].step \in {"found", "removed"}

\* What holds under all conditions: of all the contexts the entry's is the
\* only valid one, and requests and workers have none that is yet to come.
Shape ==
  /\ conditions \subseteq AllConditions
  /\ last \in Nat /\ (number = 0 \/ number = last)
  /\ last = 0 => number = 0
  /\ valid = IF number = 0 THEN {} ELSE {number}
  /\ requests \subseteq 1 .. last
  /\ main \in {"idle", "starting", "resetting", "stopping"}
  /\ main # "idle" => number # 0
  /\ worker \in [Workers -> [step : Steps, ctx : Nat, info : Nat]]

\* What the mutex of the context gives as long as the context lives.
Exclusive ==
  /\ \A w \in Busy : worker[w].ctx \in requests
  /\ \A w \in Workers : Replacing(w) =>
       /\ worker[w].info = number /\ worker[w].ctx = number /\ number # 0
       /\ main # "stopping" /\ number \in locked
  /\ \A v, w \in Workers : Replacing(v) /\ Replacing(w) => v = w
  /\ main = "stopping" => number \in locked

\* What that gives for the timers when start and interval change keep off.
OneTimer ==
  /\ \A s \in sources : s.number = number /\ s.id = get_timer_id
  /\ number = 0 \/ main # "idle" => sources = {}
  /\ main \in {"starting", "resetting"} => \A w \in Workers : ~Replacing(w)
  /\ main = "starting" => \A w \in Busy : worker[w].ctx # number
  /\ \A w \in Workers : worker[w].step = "removed" => sources = {}

\* The inductive invariant.
IInv ==
  /\ Shape
  /\ "freedCtx" \notin conditions => Exclusive
  /\ conditions = {} => OneTimer
-----------------------------------------------------------------------------
LEMMA InitIInv == Init => IInv
<1> SUFFICES ASSUME Init PROVE IInv
  OBVIOUS
<1>1. Idle \in [step : Steps, ctx : Nat, info : Nat] /\ Idle.step = "idle"
  BY DEF Idle, Steps
<1>2. Shape
  BY <1>1, TimerAssumption DEF Init, Shape
<1>3. Exclusive /\ OneTimer
  BY <1>1 DEF Init, Exclusive, OneTimer, Busy, Replacing
<1> QED
  BY <1>2, <1>3 DEF IInv

\* The main thread begins an entry: the number is new, so no worker has it.
LEMMA StartEncapStep == IInv /\ StartEncap => IInv'
<1> SUFFICES ASSUME IInv, StartEncap PROVE IInv'
  OBVIOUS
<1>1. /\ main = "idle" /\ number = 0 /\ main' = "starting"
      /\ number' = last + 1 /\ last' = last + 1
      /\ valid' = valid \cup {last + 1} /\ requests' = requests \cup {last + 1}
      /\ UNCHANGED <<conditions, locked, sources, worker>>
  BY DEF StartEncap
<1>2. Shape'
  BY <1>1 DEF IInv, Shape
<1>3. ASSUME "freedCtx" \notin conditions PROVE Exclusive'
  BY <1>1, <1>3 DEF IInv, Exclusive, Busy, Replacing
<1>4. ASSUME conditions = {} PROVE OneTimer'
  <2>1. Exclusive /\ OneTimer /\ Shape
    BY <1>4 DEF IInv
  <2>2. \A w \in Workers : ~Replacing(w)
    BY <1>1, <2>1 DEF Exclusive
  <2>3. \A w \in Busy : worker[w].ctx # last + 1
    BY <2>1 DEF Exclusive, Shape
  <2> QED
    BY <1>1, <2>1, <2>2, <2>3 DEF OneTimer, Busy, Replacing
<1> QED
  BY <1>1, <1>2, <1>3, <1>4 DEF IInv

\* It adds the timer it has got ready for.
LEMMA AddTimerStep == IInv /\ AddTimer => IInv'
<1> SUFFICES ASSUME IInv, AddTimer PROVE IInv'
  OBVIOUS
<1>1. /\ main \in {"starting", "resetting"} /\ main' = "idle"
      /\ UNCHANGED <<conditions, number, last, valid, requests, locked, worker>>
  BY DEF AddTimer
<1>2. PICK id \in FreeTimers : /\ sources' = sources \cup {[id |-> id, number |-> number]}
                               /\ get_timer_id' = id
  BY DEF AddTimer
<1>3. Shape'
  BY <1>1 DEF IInv, Shape
<1>4. ASSUME "freedCtx" \notin conditions PROVE Exclusive'
  BY <1>1, <1>4 DEF IInv, Exclusive, Busy, Replacing
<1>5. ASSUME conditions = {} PROVE OneTimer'
  BY <1>1, <1>2, <1>5 DEF IInv, Shape, OneTimer, Replacing, Busy
<1> QED
  BY <1>1, <1>3, <1>4, <1>5 DEF IInv

LEMMA SetTimeIntervalStep == IInv /\ SetTimeInterval => IInv'
<1> SUFFICES ASSUME IInv, SetTimeInterval PROVE IInv'
  OBVIOUS
<1>1. /\ main = "idle" /\ number # 0 /\ main' = "resetting"
      /\ sources' = SourceRemove(get_timer_id)
      /\ UNCHANGED <<conditions, number, last, get_timer_id, valid, requests, locked, worker>>
      /\ "setInterval" \in conditions \/ \A w \in Workers : ~Replacing(w)
  BY DEF SetTimeInterval, Replacing
<1>2. Shape'
  BY <1>1 DEF IInv, Shape
<1>3. ASSUME "freedCtx" \notin conditions PROVE Exclusive'
  BY <1>1, <1>3 DEF IInv, Exclusive, Busy, Replacing
<1>4. ASSUME conditions = {} PROVE OneTimer'
  BY <1>1, <1>4 DEF IInv, OneTimer, Replacing, Busy, SourceRemove
<1> QED
  BY <1>1, <1>2, <1>3, <1>4 DEF IInv

\* The stop takes the mutex, so no worker is replacing the timer.
LEMMA StopEncapGetStep == IInv /\ StopEncapGet => IInv'
<1> SUFFICES ASSUME IInv, StopEncapGet PROVE IInv'
  OBVIOUS
<1>1. /\ main = "idle" /\ number # 0 /\ number \notin locked /\ main' = "stopping"
      /\ locked' = locked \cup {number}
      /\ sources' = SourceRemove(get_timer_id)
      /\ UNCHANGED <<conditions, number, last, get_timer_id, valid, requests, worker>>
  BY DEF StopEncapGet, Unlocked
<1>2. Shape'
  BY <1>1 DEF IInv, Shape
<1>3. ASSUME "freedCtx" \notin conditions PROVE Exclusive'
  BY <1>1, <1>3 DEF IInv, Exclusive, Busy, Replacing
<1>4. ASSUME conditions = {} PROVE OneTimer'
  BY <1>1, <1>4 DEF IInv, OneTimer, Replacing, Busy, SourceRemove
<1> QED
  BY <1>1, <1>2, <1>3, <1>4 DEF IInv

\* The entry goes, and its timer has gone before.
LEMMA EncapTableRemoveStep == IInv /\ EncapTableRemove => IInv'
<1> SUFFICES ASSUME IInv, EncapTableRemove PROVE IInv'
  OBVIOUS
<1>1. /\ main = "stopping" /\ main' = "idle" /\ number' = 0
      /\ valid' = valid \ {number} /\ locked' = locked \ {number}
      /\ UNCHANGED <<conditions, last, requests, sources, worker>>
  BY DEF EncapTableRemove
<1>2. Shape'
  BY <1>1 DEF IInv, Shape
<1>3. ASSUME "freedCtx" \notin conditions PROVE Exclusive'
  BY <1>1, <1>3 DEF IInv, Exclusive, Busy, Replacing
<1>4. ASSUME conditions = {} PROVE OneTimer'
  BY <1>1, <1>4 DEF IInv, OneTimer, Replacing, Busy
<1> QED
  BY <1>1, <1>2, <1>3, <1>4 DEF IInv

LEMMA CtxFreeStep == ASSUME NEW c \in Numbers PROVE IInv /\ CtxFree(c) => IInv'
<1> SUFFICES ASSUME IInv, CtxFree(c) PROVE IInv'
  OBVIOUS
<1>1. /\ "freedCtx" \in conditions \/ \A w \in Busy : worker[w].ctx # c
      /\ requests' = requests \ {c}
      /\ UNCHANGED <<conditions, number, last, get_timer_id, valid, locked, sources, threads>>
  BY DEF CtxFree
<1>2. Shape'
  BY <1>1 DEF IInv, Shape, threads
<1>3. ASSUME "freedCtx" \notin conditions PROVE Exclusive'
  BY <1>1, <1>3 DEF IInv, Exclusive, Busy, Replacing, threads
<1>4. ASSUME conditions = {} PROVE OneTimer'
  BY <1>1, <1>4 DEF IInv, OneTimer, Replacing, Busy, threads
<1> QED
  BY <1>1, <1>2, <1>3, <1>4 DEF IInv
-----------------------------------------------------------------------------
\* A worker is started with a context that a live request points at.
LEMMA EncapCbStep ==
  ASSUME NEW w \in Workers, NEW c \in Numbers PROVE IInv /\ EncapCb(w, c) => IInv'
<1> SUFFICES ASSUME IInv, EncapCb(w, c) PROVE IInv'
  OBVIOUS
<1>1. /\ worker[w] = Idle /\ c \in requests
      /\ (c = number /\ main = "starting") => "earlyAnswer" \in conditions
      /\ worker' = [worker EXCEPT ![w] = [step |-> "started", ctx |-> c, info |-> 0]]
      /\ UNCHANGED <<conditions, number, last, get_timer_id, valid, requests, locked, sources, main>>
  BY DEF EncapCb
<1>2. c \in Nat
  BY DEF Numbers
<1>3. /\ \A v \in Workers : worker'[v] = IF v = w THEN [step |-> "started", ctx |-> c, info |-> 0]
                                                  ELSE worker[v]
      /\ worker' \in [Workers -> [step : Steps, ctx : Nat, info : Nat]]
  BY <1>1, <1>2 DEF IInv, Shape, Steps
<1>4. Shape'
  BY <1>1, <1>3 DEF IInv, Shape
<1>5. ASSUME "freedCtx" \notin conditions PROVE Exclusive'
  BY <1>1, <1>3, <1>5 DEF IInv, Exclusive, Busy, Replacing
<1>6. ASSUME conditions = {} PROVE OneTimer'
  BY <1>1, <1>3, <1>6 DEF IInv, OneTimer, Replacing, Busy
<1> QED
  BY <1>1, <1>4, <1>5, <1>6 DEF IInv

\* A worker that finds the entry has the entry's own context.
LEMMA WorkerLookupStep == ASSUME NEW w \in Workers PROVE IInv /\ WorkerLookup(w) => IInv'
<1> SUFFICES ASSUME IInv, WorkerLookup(w) PROVE IInv'
  OBVIOUS
<1>1. /\ worker[w].step = "started" /\ worker[w].ctx \notin locked
      /\ "setInterval" \in conditions \/ main # "resetting"
      /\ UNCHANGED <<conditions, number, last, get_timer_id, valid, requests, sources, main>>
  BY DEF WorkerLookup
<1>2. PICK is_valid \in IsValid(worker[w].ctx) :
        IF is_valid /\ number # 0
        THEN /\ worker' = [worker EXCEPT ![w].step = "found", ![w].info = number]
             /\ locked' = locked \cup {worker[w].ctx}
        ELSE /\ worker' = [worker EXCEPT ![w] = Idle]
             /\ UNCHANGED locked
  BY DEF WorkerLookup
<1>3. worker[w] \in [step : Steps, ctx : Nat, info : Nat] /\ number \in Nat
  BY DEF IInv, Shape
<1>4. CASE is_valid /\ number # 0
  <2>1. \A v \in Workers :
          worker'[v] = IF v = w THEN [step |-> "found", ctx |-> worker[w].ctx, info |-> number]
                       ELSE worker[v]
    BY <1>2, <1>3, <1>4 DEF IInv, Shape
  <2>2. worker' \in [Workers -> [step : Steps, ctx : Nat, info : Nat]]
    BY <1>2, <1>3, <1>4 DEF IInv, Shape, Steps
  <2>3. locked' = locked \cup {worker[w].ctx}
    BY <1>2, <1>4
  <2>4. Shape'
    BY <1>1, <2>2 DEF IInv, Shape
  <2>5. ASSUME "freedCtx" \notin conditions
        PROVE  worker[w].ctx = number /\ w \in Busy
    BY <1>1, <1>2, <1>4, <2>5 DEF IInv, Shape, Exclusive, Busy, IsValid
  <2>6. ASSUME "freedCtx" \notin conditions PROVE Exclusive'
    BY <1>1, <1>4, <2>1, <2>3, <2>5, <2>6 DEF IInv, Exclusive, Busy, Replacing
  <2>7. ASSUME conditions = {} PROVE OneTimer'
    BY <1>1, <1>4, <2>1, <2>5, <2>7 DEF IInv, OneTimer, Replacing, Busy
  <2> QED
    BY <1>1, <2>4, <2>6, <2>7 DEF IInv
<1>5. CASE ~(is_valid /\ number # 0)
  <2>1. \A v \in Workers : worker'[v] = IF v = w THEN Idle ELSE worker[v]
    BY <1>2, <1>5 DEF IInv, Shape
  <2>2. worker' \in [Workers -> [step : Steps, ctx : Nat, info : Nat]] /\ locked' = locked
    BY <1>2, <1>5 DEF IInv, Shape, Steps, Idle
  <2>3. Shape'
    BY <1>1, <2>2 DEF IInv, Shape
  <2>4. ASSUME "freedCtx" \notin conditions PROVE Exclusive'
    BY <1>1, <2>1, <2>2, <2>4 DEF IInv, Exclusive, Busy, Replacing, Idle
  <2>5. ASSUME conditions = {} PROVE OneTimer'
    BY <1>1, <2>1, <2>5 DEF IInv, OneTimer, Replacing, Busy, Idle
  <2> QED
    BY <1>1, <2>3, <2>4, <2>5 DEF IInv
<1> QED
  BY <1>4, <1>5

LEMMA WorkerRemoveStep == ASSUME NEW w \in Workers PROVE IInv /\ WorkerRemove(w) => IInv'
<1> SUFFICES ASSUME IInv, WorkerRemove(w) PROVE IInv'
  OBVIOUS
<1>1. /\ worker[w].step = "found"
      /\ worker' = [worker EXCEPT ![w].step = "removed"]
      /\ UNCHANGED <<conditions, number, last, get_timer_id, valid, requests, locked, main>>
      /\ \E id \in (IF worker[w].info = number THEN {get_timer_id} ELSE Timers \cup {None}) :
           sources' = SourceRemove(id)
  BY DEF WorkerRemove
<1>2. worker[w] \in [step : Steps, ctx : Nat, info : Nat]
  BY DEF IInv, Shape
<1>3. /\ \A v \in Workers : /\ worker'[v].ctx = worker[v].ctx /\ worker'[v].info = worker[v].info
                            /\ worker'[v].step = IF v = w THEN "removed" ELSE worker[v].step
      /\ worker' \in [Workers -> [step : Steps, ctx : Nat, info : Nat]]
  BY <1>1, <1>2 DEF IInv, Shape, Steps
<1>4. Shape'
  BY <1>1, <1>3 DEF IInv, Shape
<1>5. ASSUME "freedCtx" \notin conditions PROVE Exclusive'
  BY <1>1, <1>3, <1>5 DEF IInv, Exclusive, Busy, Replacing
<1>6. ASSUME conditions = {} PROVE OneTimer'
  <2>1. worker[w].info = number /\ OneTimer
    BY <1>1, <1>6 DEF IInv, Exclusive, Replacing
  <2>2. sources' = {}
    BY <1>1, <2>1 DEF OneTimer, SourceRemove
  <2> QED
    BY <1>1, <1>3, <2>1, <2>2 DEF OneTimer, Replacing, Busy
<1> QED
  BY <1>1, <1>4, <1>5, <1>6 DEF IInv

LEMMA WorkerAddStep == ASSUME NEW w \in Workers PROVE IInv /\ WorkerAdd(w) => IInv'
<1> SUFFICES ASSUME IInv, WorkerAdd(w) PROVE IInv'
  OBVIOUS
<1>1. /\ worker[w].step = "removed"
      /\ worker' = [worker EXCEPT ![w] = Idle]
      /\ locked' = locked \ {worker[w].ctx}
      /\ UNCHANGED <<conditions, number, last, valid, requests, main>>
  BY DEF WorkerAdd
<1>2. PICK id \in FreeTimers :
        /\ sources' = sources \cup {[id |-> id, number |-> worker[w].info]}
        /\ get_timer_id' = IF worker[w].info = number THEN id ELSE get_timer_id
  BY DEF WorkerAdd, SourceAdd
<1>3. /\ \A v \in Workers : worker'[v] = IF v = w THEN Idle ELSE worker[v]
      /\ worker' \in [Workers -> [step : Steps, ctx : Nat, info : Nat]]
  BY <1>1 DEF IInv, Shape, Steps, Idle
<1>4. Shape'
  BY <1>1, <1>3 DEF IInv, Shape
<1>5. ASSUME "freedCtx" \notin conditions PROVE Exclusive'
  BY <1>1, <1>3, <1>5 DEF IInv, Exclusive, Busy, Replacing, Idle
<1>6. ASSUME conditions = {} PROVE OneTimer'
  <2>1. /\ worker[w].info = number /\ number # 0 /\ OneTimer /\ Exclusive /\ Shape
        /\ sources = {} /\ main # "stopping" /\ Replacing(w)
    BY <1>1, <1>6 DEF IInv, Exclusive, Replacing, OneTimer
  <2>2. main = "idle"
    BY <2>1 DEF Shape, OneTimer
  <2>3. /\ sources' = {[id |-> id, number |-> number]} /\ get_timer_id' = id
    BY <1>2, <2>1
  <2>4. \A v \in Workers : worker'[v].step # "removed"
    BY <1>1, <1>3, <2>1 DEF Exclusive, Replacing, Idle
  <2> QED
    BY <1>1, <2>1, <2>2, <2>3, <2>4 DEF OneTimer
<1> QED
  BY <1>1, <1>4, <1>5, <1>6 DEF IInv

LEMMA NextIInv == IInv /\ [Next]_vars => IInv'
<1> SUFFICES ASSUME IInv, [Next]_vars PROVE IInv'
  OBVIOUS
<1>1. CASE UNCHANGED vars
  BY <1>1 DEF vars, threads, IInv, Shape, Exclusive, OneTimer, Busy, Replacing
<1>2. CASE Next
  BY <1>2, StartEncapStep, AddTimerStep, SetTimeIntervalStep, StopEncapGetStep,
     EncapTableRemoveStep, CtxFreeStep, EncapCbStep, WorkerLookupStep, WorkerRemoveStep,
     WorkerAddStep DEF Next
<1> QED
  BY <1>1, <1>2

LEMMA Invariant == Spec => []IInv
BY InitIInv, NextIInv, PTL DEF Spec
-----------------------------------------------------------------------------
\* Unless one of the three conditions occurs, there is no timer but the one
\* that the entry in the table knows, however many workers replace it.
THEOREM Owned == Spec => []TimerOwned
<1>1. IInv => TimerOwned
  BY DEF IInv, OneTimer, TimerOwned
<1> QED
  BY <1>1, Invariant, PTL

\* A worker's entry is not freed while it replaces the timer.
THEOREM Kept == Spec => []EntryKept
<1>1. IInv => EntryKept
  BY DEF IInv, Exclusive, EntryKept, Replacing
<1> QED
  BY <1>1, Invariant, PTL
=============================================================================
