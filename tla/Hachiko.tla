------------------------------ MODULE Hachiko ------------------------------
(***************************************************************************)
(* The timer pool: src/Hachiko.c and src/Hachiko.h.                        *)
(*                                                                         *)
(* The pool's slots point to timers (struct Hachiko_food) that belong to   *)
(* their users.  The 1 ms signal handler sweeps over the slots one after   *)
(* the other; cursor is the slot it visits next, and one visit is one      *)
(* step.  The users' threads run between two visits.  A registration looks *)
(* for an empty slot and publishes the timer there: two steps, because     *)
(* nothing keeps two threads, or the sweep, apart.                         *)
(***************************************************************************)
EXTENDS Naturals, FiniteSets

CONSTANTS
    NrPool,   \* NR_POOL, the number of slots
    Foods,    \* the timers
    NULL,     \* an empty slot's pointer
    Type,     \* each timer's type: "AUTO_FEED" or "ONECE" (sic, one-shot)
    Ttl,      \* each timer's length, in sweeps
    Again     \* the timers whose user may register them while they are in
              \* the pool: can_tp_bomb (src/tcu.c), can_heart_beat is not

ASSUME PoolAssumption ==
    /\ NrPool \in Nat \ {0}
    /\ NULL \notin Foods
    /\ Type \in [Foods -> {"AUTO_FEED", "ONECE"}]
    /\ Ttl \in [Foods -> Nat \ {0}]
    /\ Again \subseteq Foods

VARIABLES
    pool,      \* the slots
    status,    \* each timer's status
    remain,    \* each timer's remaining sweeps
    cursor,    \* the slot that the handler visits next
    picked,    \* the slot that a running registration has found, or 0
    age        \* history: the sweeps that ended since the timer was started,
               \* fed, or expired, while it was running

hachikoVars == <<pool, status, remain, cursor, picked, age>>

Slots == 1 .. NrPool

\* The slots that point to timer f: none, one, or several, which nothing in
\* the code forbids.
SlotsOf(f) == { i \in Slots : pool[i] = f }

Running(f) == SlotsOf(f) # {} /\ status[f] = "NORMAL"

HachikoInit ==
    /\ pool = [i \in Slots |-> NULL]
    /\ status = [f \in Foods |-> "INVALID"]
    /\ remain = [f \in Foods |-> 0]
    /\ cursor = 1
    /\ picked = [f \in Foods |-> 0]
    /\ age = [f \in Foods |-> 0]

-----------------------------------------------------------------------------
(* The users' calls.                                                       *)

Free == { i \in Slots : pool[i] = NULL }

\* _Hachiko_new finds the first empty slot (none: ERR_TIMER_BEMAX, and the
\* pool and the timer stay as they are) ...
NewPicks(f) ==
    /\ picked[f] = 0
    /\ f \in Again \/ SlotsOf(f) = {}
    /\ \E i \in Free :
         /\ \A j \in Free : i <= j
         /\ picked' = [picked EXCEPT ![f] = i]
    /\ UNCHANGED <<pool, status, remain, cursor, age>>

\* Mutant: the timer starts with what its last life left.
LoadsNothing(f) == remain' = remain

Loads(f) == remain' = [remain EXCEPT ![f] = Ttl[f]]

\* ... loads the timer and publishes it in that slot.
NewPublishes(f) ==
    /\ picked[f] # 0
    /\ Loads(f)
    /\ status' = [status EXCEPT ![f] = "NORMAL"]
    /\ pool' = [pool EXCEPT ![picked[f]] = f]
    /\ picked' = [picked EXCEPT ![f] = 0]
    /\ age' = [age EXCEPT ![f] = 0]
    /\ UNCHANGED cursor

\* The status is all that a user's call changes; the sweep acts on it.
SetStatus(f, s) ==
    /\ status' = [status EXCEPT ![f] = s]
    /\ UNCHANGED <<pool, remain, cursor, picked, age>>

Kill(f) ==
    /\ status[f] # "INVALID"
    /\ SetStatus(f, "KILLED")

Pause(f) == SetStatus(f, "PAUSE")

Resume(f) == SetStatus(f, "RESUME")

Feed(f) ==
    /\ remain' = [remain EXCEPT ![f] = Ttl[f]]
    /\ age' = [age EXCEPT ![f] = 0]
    /\ UNCHANGED <<pool, status, cursor, picked>>

-----------------------------------------------------------------------------
(* The handler's visit to the slot under the cursor.                       *)

Visited == pool[cursor]

\* Mutant: the sweep runs one slot past the end.
NextSlotPast == IF cursor > NrPool THEN 1 ELSE cursor + 1

\* Mutant: the sweep turns back before the last slot.
NextSlotShort == IF cursor + 1 >= NrPool THEN 1 ELSE cursor + 1

NextSlot == IF cursor = NrPool THEN 1 ELSE cursor + 1

\* The cursor moves on.  restarted is the set of the timers that the visit
\* starts anew; the end of a sweep is counted for all that run.
Advance(restarted) ==
    /\ cursor' = NextSlot
    /\ age' = [f \in Foods |->
                 IF f \in restarted THEN IF cursor = NrPool THEN 1 ELSE 0
                 ELSE IF cursor = NrPool /\ Running(f) THEN age[f] + 1
                 ELSE age[f]]
    /\ UNCHANGED picked

\* An empty slot, or a timer never set to run.
Skip ==
    /\ Visited = NULL \/ (Visited # NULL /\ status[Visited] = "INVALID")
    /\ Advance({})
    /\ UNCHANGED <<pool, status, remain>>

ClearSlot == pool' = [pool EXCEPT ![cursor] = NULL]

Reap ==
    /\ Visited # NULL
    /\ status[Visited] = "KILLED"
    /\ ClearSlot
    /\ Advance({})
    /\ UNCHANGED <<status, remain>>

\* A paused timer is held at its full length, a resumed one runs from it.
Hold ==
    /\ Visited # NULL
    /\ status[Visited] \in {"PAUSE", "RESUME"}
    /\ remain' = [remain EXCEPT ![Visited] = Ttl[Visited]]
    /\ status' = [status EXCEPT ![Visited] =
                    IF @ = "RESUME" THEN "NORMAL" ELSE @]
    /\ Advance({Visited})
    /\ UNCHANGED pool

CountDown ==
    /\ Visited # NULL
    /\ status[Visited] = "NORMAL"
    /\ remain[Visited] > 1
    /\ remain' = [remain EXCEPT ![Visited] = @ - 1]
    /\ Advance({})
    /\ UNCHANGED <<pool, status>>

\* The timer's notify procedure is called with HACHIKO_TIMEOUT.
Expires(f) ==
    /\ Visited = f
    /\ status[f] = "NORMAL"
    /\ remain[f] <= 1

\* Mutant: an automatic timer reloads one sweep more than its length.
ReloadLonger(f) == Ttl[f] + 1

\* What is left of an expired timer's count.
Reload(f) == IF Type[f] = "AUTO_FEED" THEN Ttl[f] ELSE 0

Expire(f) ==
    /\ Expires(f)
    /\ remain' = [remain EXCEPT ![f] = Reload(f)]
    /\ IF Type[f] = "AUTO_FEED" THEN UNCHANGED pool ELSE ClearSlot
    /\ Advance({f})
    /\ UNCHANGED status

-----------------------------------------------------------------------------

Visit == Skip \/ Reap \/ Hold \/ CountDown \/ \E f \in Foods : Expire(f)

Use(f) == NewPicks(f) \/ NewPublishes(f) \/ Kill(f) \/ Pause(f)
          \/ Resume(f) \/ Feed(f)

HachikoNext == Visit \/ \E f \in Foods : Use(f)

\* The timer signal keeps coming.
HachikoSpec == HachikoInit /\ [][HachikoNext]_hachikoVars
               /\ WF_hachikoVars(Visit)

-----------------------------------------------------------------------------
(* Properties.                                                             *)

\* The slots hold timers and the counters stay in their ranges.
PoolTypeOK ==
    /\ pool \in [Slots -> Foods \cup {NULL}]
    /\ status \in [Foods -> {"INVALID", "NORMAL", "PAUSE", "RESUME",
                             "KILLED"}]
    /\ remain \in [Foods -> Nat]
    /\ cursor \in Slots
    /\ picked \in [Foods -> Slots \cup {0}]
    /\ age \in [Foods -> Nat]

\* A running timer is never late: wherever in a sweep it was registered, fed
\* or resumed, it expires before more sweeps have ended than its length, also
\* when it sits in several slots or another registration takes one of them.
NotLate == \A f \in Foods : Running(f) => age[f] <= Ttl[f]

\* A timer whose user registers it once at a time is not early either: at
\* most the sweep in which it was started counts as a whole one.
NotEarly ==
    [][\A f \in Foods \ Again : Expire(f) => age[f] + 1 >= Ttl[f]]_hachikoVars

\* A killed timer's slots are given back.
KilledLeaves ==
    \A f \in Foods :
        status[f] = "KILLED" ~> SlotsOf(f) = {} \/ status[f] # "KILLED"

=============================================================================
