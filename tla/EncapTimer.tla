------------------------------ MODULE EncapTimer ------------------------------
(***************************************************************************)
(* The periodic GET of one key of the encap table (daemon/icd-ioty.c) and  *)
(* the three who replace its timer: the start and the stop of the entry    *)
(* and a change of the time interval on the daemon's main thread, and the  *)
(* workers that an observe or presence callback starts                     *)
(* (daemon/icd-ioty-ocprocess.c, _worker_encap_get).                       *)
(*                                                                         *)
(* Stop and workers take the mutex of the entry's worker context; start    *)
(* and interval change do not.  A timer that fires sends a GET for the     *)
(* entry it was added for, with the pointer it got then, and changes       *)
(* nothing here: what counts is that no timer is left when the entry is    *)
(* freed.  Entries are numbered, and an entry's context has its number.    *)
(***************************************************************************)
EXTENDS Naturals, FiniteSets

CONSTANTS
  Workers,     \* worker threads
  Timers,      \* identifiers of GLib sources
  MaxNumber,   \* bound of the entries made for the key
  Conditions,  \* what may happen, see conditions
  None

AllConditions == {"earlyAnswer", "setInterval", "freedCtx"}

ASSUME TimerAssumption ==
  /\ Conditions \subseteq AllConditions
  /\ MaxNumber \in Nat
  /\ None \notin Timers

VARIABLES
  conditions,    \* what may happen in this run: an answer comes before
                 \* icd_ioty_start_encap has added the timer; the interval
                 \* changes while a worker is replacing the timer; a context
                 \* is freed although a worker was started with it
  number,        \* the entry in the table, 0 for none
  last,          \* entries made so far
  get_timer_id,  \* the entry's get_timer_id
  valid,         \* contexts with is_valid
  requests,      \* contexts that a live request of IoTivity points at
  locked,        \* contexts whose icd_worker_mutex is taken
  sources,       \* the attached timers, each with the entry it was made for
  main,          \* what the main thread is in the middle of
  worker         \* the worker threads: step, context, the entry they found

threads == <<main, worker>>
vars == <<conditions, number, last, get_timer_id, valid, requests, locked, sources, threads>>

Numbers == 1 .. MaxNumber
Steps == {"idle", "started", "found", "removed"}
Idle == [step |-> "idle", ctx |-> 0, info |-> 0]

Busy == {w \in Workers : worker[w].step # "idle"}
FreeTimers == Timers \ ({s.id : s \in sources} \cup {get_timer_id})

\* Bounds the timers that are left over: whoever begins finds one for
\* himself and for all who have begun.
Room == Cardinality(FreeTimers) > Cardinality(Busy) + 1

\* g_source_remove
SourceRemove(id) == {s \in sources : s.id # id}
-----------------------------------------------------------------------------
\* icd_ioty_start_encap for the first user: the entry, its context and the
\* request to the remote are there before the timer is.
StartEncap ==
  /\ main = "idle" /\ number = 0 /\ last < MaxNumber /\ Room
  /\ number' = last + 1
  /\ last' = last + 1
  /\ get_timer_id' = None
  /\ valid' = valid \cup {last + 1}
  /\ requests' = requests \cup {last + 1}
  /\ main' = "starting"
  /\ UNCHANGED <<conditions, locked, sources, worker>>

\* The end of icd_ioty_start_encap and of _encap_set_time_interval.
AddTimer ==
  /\ main \in {"starting", "resetting"}
  /\ \E id \in FreeTimers :
       /\ sources' = sources \cup {[id |-> id, number |-> number]}
       /\ get_timer_id' = id
  /\ main' = "idle"
  /\ UNCHANGED <<conditions, number, last, valid, requests, locked, worker>>

\* _encap_set_time_interval for the key's entry.
SetTimeInterval ==
  /\ main = "idle" /\ number # 0 /\ Room
  /\ "setInterval" \in conditions \/ \A w \in Workers : worker[w].step \notin {"found", "removed"}
  /\ sources' = SourceRemove(get_timer_id)
  /\ main' = "resetting"
  /\ UNCHANGED <<conditions, number, last, get_timer_id, valid, requests, locked, worker>>

\* Mutant of Unlocked: the stop does not wait for the mutex.
UnlockedAlways(c) == TRUE

\* Can the mutex of context c be taken?
Unlocked(c) == c \notin locked

\* _icd_ioty_stop_encap_get, called with the last user: up to the removal of
\* the timer ...
StopEncapGet ==
  /\ main = "idle" /\ number # 0 /\ Unlocked(number)
  /\ locked' = locked \cup {number}
  /\ sources' = SourceRemove(get_timer_id)
  /\ main' = "stopping"
  /\ UNCHANGED <<conditions, number, last, get_timer_id, valid, requests, worker>>

\* ... and from there: the entry is freed.
EncapTableRemove ==
  /\ main = "stopping"
  /\ get_timer_id' = None
  /\ valid' = valid \ {number}
  /\ number' = 0
  /\ locked' = locked \ {number}
  /\ main' = "idle"
  /\ UNCHANGED <<conditions, last, requests, sources, worker>>

\* The request of an entry that was stopped ends and IoTivity calls cd,
\* which frees the context: at once, or later where others still use the
\* host's presence subscription.
CtxFree(c) ==
  /\ c \in requests /\ c # number
  /\ "freedCtx" \in conditions \/ \A w \in Busy : worker[w].ctx # c
  /\ requests' = requests \ {c}
  /\ UNCHANGED <<conditions, number, last, get_timer_id, valid, locked, sources, threads>>
-----------------------------------------------------------------------------
\* icd_ioty_ocprocess_encap_observe_cb and _encap_presence_cb start a worker.
EncapCb(w, c) ==
  /\ worker[w] = Idle
  /\ c \in requests
  /\ (c = number /\ main = "starting") => "earlyAnswer" \in conditions
  /\ Room
  /\ worker' = [worker EXCEPT ![w] = [step |-> "started", ctx |-> c, info |-> 0]]
  /\ UNCHANGED <<conditions, number, last, get_timer_id, valid, requests, locked, sources, main>>

\* Mutant of IsValid: the flag is not looked at.
IsValidAlways(c) == {TRUE}

\* What a worker may read in is_valid: anything, once the context is freed.
IsValid(c) == IF c \in requests THEN {c \in valid} ELSE BOOLEAN

\* _worker_encap_get takes the mutex and looks the entry up; when there is
\* none or the context is invalid, the worker is done.
WorkerLookup(w) ==
  /\ worker[w].step = "started"
  /\ worker[w].ctx \notin locked
  /\ "setInterval" \in conditions \/ main # "resetting"
  /\ \E is_valid \in IsValid(worker[w].ctx) :
       IF is_valid /\ number # 0
       THEN /\ worker' = [worker EXCEPT ![w].step = "found", ![w].info = number]
            /\ locked' = locked \cup {worker[w].ctx}
       ELSE /\ worker' = [worker EXCEPT ![w] = Idle]
            /\ UNCHANGED locked
  /\ UNCHANGED <<conditions, number, last, get_timer_id, valid, requests, sources, main>>

\* It removes the entry's timer: any, if the entry was freed meanwhile.
WorkerRemove(w) ==
  /\ worker[w].step = "found"
  /\ \E id \in (IF worker[w].info = number THEN {get_timer_id} ELSE Timers \cup {None}) :
       sources' = SourceRemove(id)
  /\ worker' = [worker EXCEPT ![w].step = "removed"]
  /\ UNCHANGED <<conditions, number, last, get_timer_id, valid, requests, locked, main>>

\* Mutant of SourceAdd: the timer is not added again.
SourceAddForgotten(id, n) == sources

\* g_timeout_add_seconds with entry n as its user data.
SourceAdd(id, n) == sources \cup {[id |-> id, number |-> n]}

\* It sends a GET, adds the timer anew and gives the mutex back.
WorkerAdd(w) ==
  /\ worker[w].step = "removed"
  /\ \E id \in FreeTimers :
       /\ sources' = SourceAdd(id, worker[w].info)
       /\ get_timer_id' = IF worker[w].info = number THEN id ELSE get_timer_id
  /\ worker' = [worker EXCEPT ![w] = Idle]
  /\ locked' = locked \ {worker[w].ctx}
  /\ UNCHANGED <<conditions, number, last, valid, requests, main>>
-----------------------------------------------------------------------------
Init ==
  /\ conditions \in SUBSET Conditions
  /\ number = 0 /\ last = 0 /\ get_timer_id = None
  /\ valid = {} /\ requests = {} /\ locked = {} /\ sources = {}
  /\ main = "idle"
  /\ worker = [w \in Workers |-> Idle]

Next ==
  \/ StartEncap
  \/ AddTimer
  \/ SetTimeInterval
  \/ StopEncapGet
  \/ EncapTableRemove
  \/ \E c \in Numbers : CtxFree(c)
  \/ \E w \in Workers, c \in Numbers : EncapCb(w, c)
  \/ \E w \in Workers : WorkerLookup(w)
  \/ \E w \in Workers : WorkerRemove(w)
  \/ \E w \in Workers : WorkerAdd(w)

\* Threads are scheduled: whoever is in the middle of something goes on.
Fairness ==
  /\ WF_vars(AddTimer \/ EncapTableRemove)
  /\ \A w \in Workers : WF_vars(WorkerRemove(w) \/ WorkerAdd(w))

Spec == Init /\ [][Next]_vars /\ Fairness
-----------------------------------------------------------------------------
\* Every variable has its type.
TypeOK ==
  /\ conditions \in SUBSET Conditions
  /\ number \in 0 .. MaxNumber
  /\ last \in 0 .. MaxNumber
  /\ get_timer_id \in Timers \cup {None}
  /\ valid \subseteq Numbers
  /\ requests \subseteq Numbers
  /\ locked \subseteq Numbers
  /\ sources \subseteq [id : Timers, number : Numbers]
  /\ main \in {"idle", "starting", "resetting", "stopping"}
  /\ worker \in [Workers -> [step : Steps, ctx : 0 .. MaxNumber, info : 0 .. MaxNumber]]

\* The only timer there may be is the one the entry in the table knows, and
\* so the one that the next stop removes: none fires for a freed entry.  An
\* early answer, a change of the interval in between or a context freed
\* under a worker leaves a second timer, which nobody removes.
TimerOwned ==
  conditions = {} => \A s \in sources : s.number = number /\ s.id = get_timer_id

\* A worker that has found the entry still has it when it replaces the timer,
\* unless its context was freed before it began.
EntryKept ==
  "freedCtx" \notin conditions =>
    \A w \in Workers : worker[w].step \in {"found", "removed"} =>
      worker[w].info = number /\ number = worker[w].ctx /\ main # "stopping"

\* An entry is polled: whoever takes its timer away gives it another.
Polled ==
  \A n \in Numbers :
    ("freedCtx" \notin conditions /\ number = n)
      ~> (number # n \/ \E s \in sources : s.number = n)
=============================================================================
