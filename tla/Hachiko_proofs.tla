--------------------------- MODULE Hachiko_proofs ---------------------------
(***************************************************************************)
(* Proofs about the timer pool for every value of its constants.           *)
(***************************************************************************)
EXTENDS Hachiko, TLAPS

\* What a timer still has to count: an expired one-shot timer that sits in a
\* second slot expires there on the next visit.
Left(f) == IF remain[f] = 0 THEN 1 ELSE remain[f]

\* The strengthening of NotLate: counted sweeps and sweeps left never exceed
\* the length by more than the sweep that is still to visit the timer.
LateInv ==
    \A f \in Foods :
        Running(f) =>
            /\ age[f] + Left(f) <= Ttl[f] + 1
            /\ (\E i \in SlotsOf(f) : i < cursor)
               => age[f] + Left(f) <= Ttl[f]

\* The strengthening of NotEarly: a timer that is not registered again while
\* in the pool sits in one slot ...
OneSlot ==
    \A f \in Foods \ Again :
        /\ \A i, j \in SlotsOf(f) : i = j
        /\ picked[f] # 0 => SlotsOf(f) = {}

\* ... and only the running sweep's visit may be missing from its count.
EarlyInv ==
    \A f \in Foods \ Again : \A i \in SlotsOf(f) :
        status[f] = "NORMAL" =>
            /\ remain[f] >= 1
            /\ IF i < cursor THEN age[f] + remain[f] + 1 >= Ttl[f]
                             ELSE age[f] + remain[f] >= Ttl[f]

-----------------------------------------------------------------------------

LEMMA InitPoolTypeOK == HachikoInit => PoolTypeOK
  BY PoolAssumption DEF HachikoInit, PoolTypeOK, Slots

\* A visit's end keeps the cursor on a slot and the counts natural.
LEMMA AdvanceType ==
    ASSUME PoolTypeOK, NEW restarted, Advance(restarted)
    PROVE  /\ cursor' \in Slots
           /\ age' \in [Foods -> Nat]
           /\ picked' \in [Foods -> Slots \cup {0}]
  BY PoolAssumption DEF PoolTypeOK, Advance, NextSlot, Slots

LEMMA NextPoolTypeOK == PoolTypeOK /\ [HachikoNext]_hachikoVars => PoolTypeOK'
  <1> SUFFICES ASSUME PoolTypeOK, [HachikoNext]_hachikoVars
               PROVE  PoolTypeOK'
    OBVIOUS
  <1> Slots' = Slots
    BY DEF Slots
  <1> USE PoolAssumption DEF PoolTypeOK
  <1>1. ASSUME NEW f \in Foods, NewPicks(f) PROVE PoolTypeOK'
    BY <1>1 DEF NewPicks, Free
  <1>2. ASSUME NEW f \in Foods, NewPublishes(f) PROVE PoolTypeOK'
    BY <1>2 DEF NewPublishes, Loads
  <1>3. ASSUME NEW f \in Foods, Kill(f) \/ Pause(f) \/ Resume(f)
        PROVE  PoolTypeOK'
    BY <1>3 DEF Kill, Pause, Resume, SetStatus
  <1>4. ASSUME NEW f \in Foods, Feed(f) PROVE PoolTypeOK'
    BY <1>4 DEF Feed
  <1>5. CASE Skip
    BY <1>5, AdvanceType DEF Skip
  <1>6. CASE Reap
    BY <1>6, AdvanceType DEF Reap, ClearSlot
  <1>7. CASE Hold
    <2>1. Visited \in Foods
      BY <1>7 DEF Hold, Visited
    <2>2. remain' \in [Foods -> Nat]
      BY <1>7, <2>1 DEF Hold
    <2>3. status' \in [Foods -> {"INVALID", "NORMAL", "PAUSE", "RESUME",
                                 "KILLED"}]
      BY <1>7, <2>1 DEF Hold
    <2> QED
      BY <1>7, <2>2, <2>3, AdvanceType DEF Hold
  <1>8. CASE CountDown
    <2>1. Visited \in Foods
      BY <1>8 DEF CountDown, Visited
    <2> QED
      BY <1>8, <2>1, AdvanceType DEF CountDown
  <1>9. ASSUME NEW f \in Foods, Expire(f) PROVE PoolTypeOK'
    <2>1. remain' \in [Foods -> Nat]
      BY <1>9 DEF Expire, Reload
    <2>2. pool' \in [Slots -> Foods \cup {NULL}]
      BY <1>9 DEF Expire, ClearSlot
    <2> QED
      BY <1>9, <2>1, <2>2, AdvanceType DEF Expire
  <1>10. CASE UNCHANGED hachikoVars
    BY <1>10 DEF hachikoVars
  <1> QED
    BY <1>1, <1>2, <1>3, <1>4, <1>5, <1>6, <1>7, <1>8, <1>9, <1>10
       DEF HachikoNext, Visit, Use

\* The pool's slots and counters keep their types, whatever the number of
\* slots and of timers.
THEOREM PoolTypeCorrect == HachikoSpec => []PoolTypeOK
  BY InitPoolTypeOK, NextPoolTypeOK, PTL DEF HachikoSpec

-----------------------------------------------------------------------------
(* Lateness.                                                               *)

\* LateInv for one timer.
Timely(f) ==
    Running(f) =>
        /\ age[f] + Left(f) <= Ttl[f] + 1
        /\ (\E i \in SlotsOf(f) : i < cursor)
           => age[f] + Left(f) <= Ttl[f]

\* A timer that the visit passes over, keeping its count and its slots or
\* losing some, is as timely as before.
LEMMA PassedOver ==
    ASSUME PoolTypeOK, NEW g \in Foods, Timely(g), NEW restarted,
           Advance(restarted), g \notin restarted, Visited # g,
           SlotsOf(g)' \subseteq SlotsOf(g), remain'[g] = remain[g],
           status'[g] = "NORMAL" => status[g] = "NORMAL"
    PROVE  Timely(g)'
  <1> SUFFICES ASSUME Running(g)' PROVE Timely(g)'
    BY DEF Timely
  <1> USE PoolAssumption DEF PoolTypeOK
  <1>1. Running(g) /\ Left(g)' = Left(g) /\ Left(g) \in Nat /\ Ttl[g] \in Nat
    BY DEF Running, Left
  <1>2. PICK i \in SlotsOf(g) : i \in SlotsOf(g)'
    BY DEF Running
  <1>3. SlotsOf(g) \subseteq Slots /\ cursor \notin SlotsOf(g)
    BY DEF SlotsOf, Visited
  <1>4. CASE cursor = NrPool
    <2>1. i < cursor
      BY <1>3, <1>4 DEF Slots
    <2>2. age'[g] = age[g] + 1 /\ cursor' = 1
      BY <1>1, <1>4 DEF Advance, NextSlot
    <2>3. age[g] + Left(g) <= Ttl[g]
      BY <1>1, <2>1 DEF Timely
    <2>4. ~ \E j \in SlotsOf(g)' : j < cursor'
      BY <1>3, <2>2 DEF Slots
    <2> QED
      BY <1>1, <2>2, <2>3, <2>4 DEF Timely
  <1>5. CASE cursor # NrPool
    <2>1. age'[g] = age[g] /\ cursor' = cursor + 1
      BY <1>5 DEF Advance, NextSlot
    <2>2. \A j \in SlotsOf(g)' : j < cursor' => j < cursor
      BY <1>3, <2>1 DEF Slots
    <2> QED
      BY <1>1, <2>1, <2>2 DEF Timely
  <1> QED
    BY <1>4, <1>5

\* A timer that the visit restarts has its length ahead.
LEMMA Restarted ==
    ASSUME PoolTypeOK, NEW g \in Foods, NEW restarted,
           Advance(restarted), g \in restarted, Left(g)' <= Ttl[g],
           Left(g)' \in Nat
    PROVE  Timely(g)'
  <1> USE PoolAssumption DEF PoolTypeOK
  <1>1. CASE cursor = NrPool
    <2>1. age'[g] = 1 /\ cursor' = 1
      BY <1>1 DEF Advance, NextSlot
    <2>2. ~ \E j \in SlotsOf(g)' : j < cursor'
      BY <2>1 DEF Slots, SlotsOf
    <2> QED
      BY <2>1, <2>2 DEF Timely
  <1>2. CASE cursor # NrPool
    <2>1. age'[g] = 0
      BY <1>2 DEF Advance
    <2> QED
      BY <2>1 DEF Timely
  <1> QED
    BY <1>1, <1>2

LEMMA LateInvIsTimely == LateInv <=> \A f \in Foods : Timely(f)
  BY DEF LateInv, Timely

LEMMA InitLate == HachikoInit => LateInv
  BY DEF HachikoInit, LateInv, Running, SlotsOf

LEMMA NextLate ==
    PoolTypeOK /\ LateInv /\ [HachikoNext]_hachikoVars => LateInv'
  <1> SUFFICES ASSUME PoolTypeOK, [HachikoNext]_hachikoVars,
                      NEW g \in Foods, Timely(g)
               PROVE  Timely(g)'
    BY DEF LateInv, Timely
  <1> USE PoolAssumption DEF PoolTypeOK
  <1>1. ASSUME NEW f \in Foods, NewPicks(f) PROVE Timely(g)'
    BY <1>1 DEF NewPicks, Timely, Running, SlotsOf, Left
  <1>2. ASSUME NEW f \in Foods, NewPublishes(f) PROVE Timely(g)'
    <2>1. CASE f = g
      <3>1. age'[g] = 0 /\ remain'[g] = Ttl[g]
        BY <1>2, <2>1 DEF NewPublishes, Loads
      <3> QED
        BY <3>1 DEF Timely, Left
    <2>2. CASE f # g
      <3>1. age'[g] = age[g] /\ Left(g)' = Left(g) /\ cursor' = cursor
        BY <1>2, <2>2 DEF NewPublishes, Loads, Left
      <3>2. SlotsOf(g)' \subseteq SlotsOf(g) /\ (Running(g)' => Running(g))
        BY <1>2, <2>2 DEF NewPublishes, SlotsOf, Running, Slots
      <3> QED
        BY <3>1, <3>2 DEF Timely
    <2> QED
      BY <2>1, <2>2
  <1>3. ASSUME NEW f \in Foods, Kill(f) \/ Pause(f) \/ Resume(f)
        PROVE  Timely(g)'
    <2>1. status'[g] = "NORMAL" => status[g] = "NORMAL"
      BY <1>3 DEF Kill, Pause, Resume, SetStatus
    <2> QED
      BY <1>3, <2>1 DEF Kill, Pause, Resume, SetStatus, Timely, Running,
                        SlotsOf, Left
  <1>4. ASSUME NEW f \in Foods, Feed(f) PROVE Timely(g)'
    <2>1. CASE f = g
      BY <1>4, <2>1 DEF Feed, Timely, Left
    <2>2. CASE f # g
      BY <1>4, <2>2 DEF Feed, Timely, Left, Running, SlotsOf
    <2> QED
      BY <2>1, <2>2
  <1>5. CASE Skip
    <2>1. CASE Visited # g
      BY <1>5, <2>1, PassedOver DEF Skip, SlotsOf
    <2>2. CASE Visited = g
      BY <1>5, <2>2 DEF Skip, Timely, Running
    <2> QED
      BY <2>1, <2>2
  <1>6. CASE Reap
    <2>1. CASE Visited # g
      <3>1. SlotsOf(g)' \subseteq SlotsOf(g)
        BY <1>6 DEF Reap, ClearSlot, SlotsOf, Slots
      <3> QED
        BY <1>6, <2>1, <3>1, PassedOver DEF Reap
    <2>2. CASE Visited = g
      BY <1>6, <2>2 DEF Reap, Timely, Running
    <2> QED
      BY <2>1, <2>2
  <1>7. CASE Hold
    <2>0. Visited \in Foods
      BY <1>7 DEF Hold, Visited
    <2>1. CASE Visited # g
      <3>1. remain'[g] = remain[g] /\ status'[g] = status[g]
        BY <1>7, <2>0, <2>1 DEF Hold
      <3> QED
        BY <1>7, <2>1, <3>1, PassedOver DEF Hold, SlotsOf
    <2>2. CASE Visited = g
      <3>1. remain'[g] = Ttl[g]
        BY <1>7, <2>2 DEF Hold
      <3> QED
        BY <1>7, <2>2, <3>1, Restarted DEF Hold, Left
    <2> QED
      BY <2>1, <2>2
  <1>8. CASE CountDown
    <2>0. Visited \in Foods
      BY <1>8 DEF CountDown, Visited
    <2>1. CASE Visited # g
      <3>1. remain'[g] = remain[g] /\ status'[g] = status[g]
        BY <1>8, <2>0, <2>1 DEF CountDown
      <3> QED
        BY <1>8, <2>1, <3>1, PassedOver DEF CountDown, SlotsOf
    <2>2. CASE Visited = g
      <3>1. Running(g) /\ Left(g) = remain[g] /\ Left(g)' = remain[g] - 1
        BY <1>8, <2>2 DEF CountDown, Running, SlotsOf, Visited, Left
      <3>2. age[g] + remain[g] <= Ttl[g] + 1
        BY <3>1 DEF Timely
      <3>3. CASE cursor = NrPool
        <4>1. age'[g] = age[g] + 1 /\ cursor' = 1
          BY <1>8, <3>1, <3>3 DEF CountDown, Advance, NextSlot
        <4>2. ~ \E j \in SlotsOf(g)' : j < cursor'
          BY <4>1 DEF Slots, SlotsOf
        <4> QED
          BY <3>1, <3>2, <4>1, <4>2 DEF Timely
      <3>4. CASE cursor # NrPool
        <4>1. age'[g] = age[g]
          BY <1>8, <3>4 DEF CountDown, Advance
        <4> QED
          BY <3>1, <3>2, <4>1 DEF Timely
      <3> QED
        BY <3>3, <3>4
    <2> QED
      BY <2>1, <2>2
  <1>9. ASSUME NEW f \in Foods, Expire(f) PROVE Timely(g)'
    <2>1. CASE f # g
      <3>1. SlotsOf(g)' \subseteq SlotsOf(g)
        BY <1>9 DEF Expire, ClearSlot, SlotsOf, Slots
      <3>2. remain'[g] = remain[g] /\ Visited # g
        BY <1>9, <2>1 DEF Expire, Expires
      <3> QED
        BY <1>9, <2>1, <3>1, <3>2, PassedOver DEF Expire
    <2>2. CASE f = g
      <3>1. Left(g)' \in Nat /\ Left(g)' <= Ttl[g]
        BY <1>9, <2>2 DEF Expire, Reload, Left
      <3> QED
        BY <1>9, <2>2, <3>1, Restarted DEF Expire
    <2> QED
      BY <2>1, <2>2
  <1>10. CASE UNCHANGED hachikoVars
    BY <1>10 DEF hachikoVars, Timely, Running, SlotsOf, Left
  <1> QED
    BY <1>1, <1>2, <1>3, <1>4, <1>5, <1>6, <1>7, <1>8, <1>9, <1>10
       DEF HachikoNext, Visit, Use

LEMMA LateInvImpliesNotLate == PoolTypeOK /\ LateInv => NotLate
  <1> SUFFICES ASSUME PoolTypeOK, LateInv, NEW f \in Foods, Running(f)
               PROVE  age[f] <= Ttl[f]
    BY DEF NotLate
  <1>1. Left(f) \in Nat /\ Left(f) >= 1 /\ age[f] \in Nat /\ Ttl[f] \in Nat
    BY PoolAssumption DEF Left, PoolTypeOK
  <1> QED
    BY <1>1 DEF LateInv

\* No running timer is late, for every number of slots and any timers.
THEOREM NeverLate == HachikoSpec => []NotLate
  <1>1. HachikoInit => PoolTypeOK /\ LateInv
    BY InitPoolTypeOK, InitLate
  <1>2. PoolTypeOK /\ LateInv /\ [HachikoNext]_hachikoVars
        => PoolTypeOK' /\ LateInv'
    BY NextPoolTypeOK, NextLate
  <1>3. PoolTypeOK /\ LateInv => NotLate
    BY LateInvImpliesNotLate
  <1> QED
    BY <1>1, <1>2, <1>3, PTL DEF HachikoSpec

-----------------------------------------------------------------------------
(* Earliness.                                                              *)

\* Where the pool's slots come from: a step adds a slot to a timer only when
\* its registration publishes it there.
LEMMA NextOneSlot ==
    PoolTypeOK /\ OneSlot /\ [HachikoNext]_hachikoVars => OneSlot'
  <1> SUFFICES ASSUME PoolTypeOK, OneSlot, [HachikoNext]_hachikoVars,
                      NEW g \in Foods \ Again
               PROVE  /\ \A i, j \in SlotsOf(g)' : i = j
                      /\ picked'[g] # 0 => SlotsOf(g)' = {}
    BY DEF OneSlot
  <1> USE PoolAssumption DEF PoolTypeOK
  <1>1. ASSUME NEW f \in Foods, NewPicks(f)
        PROVE  /\ \A i, j \in SlotsOf(g)' : i = j
               /\ picked'[g] # 0 => SlotsOf(g)' = {}
    <2>1. SlotsOf(g)' = SlotsOf(g)
      BY <1>1 DEF NewPicks, SlotsOf
    <2>2. CASE f = g
      BY <1>1, <2>1, <2>2 DEF NewPicks, OneSlot
    <2>3. CASE f # g
      BY <1>1, <2>1, <2>3 DEF NewPicks, OneSlot
    <2> QED
      BY <2>2, <2>3
  <1>2. ASSUME NEW f \in Foods, NewPublishes(f)
        PROVE  /\ \A i, j \in SlotsOf(g)' : i = j
               /\ picked'[g] # 0 => SlotsOf(g)' = {}
    <2>1. CASE f = g
      <3>1. SlotsOf(g)' \subseteq {picked[g]}
        BY <1>2, <2>1 DEF NewPublishes, OneSlot, SlotsOf, Slots
      <3>2. picked'[g] = 0
        BY <1>2, <2>1 DEF NewPublishes
      <3> QED
        BY <3>1, <3>2
    <2>2. CASE f # g
      <3>1. SlotsOf(g)' \subseteq SlotsOf(g)
        BY <1>2, <2>2 DEF NewPublishes, SlotsOf, Slots
      <3>2. picked'[g] = picked[g]
        BY <1>2, <2>2 DEF NewPublishes
      <3> QED
        BY <3>1, <3>2 DEF OneSlot
    <2> QED
      BY <2>1, <2>2
  <1>3. ASSUME SlotsOf(g)' \subseteq SlotsOf(g), picked' = picked
        PROVE  /\ \A i, j \in SlotsOf(g)' : i = j
               /\ picked'[g] # 0 => SlotsOf(g)' = {}
    BY <1>3 DEF OneSlot
  <1>4. ASSUME NEW f \in Foods, Kill(f) \/ Pause(f) \/ Resume(f) \/ Feed(f)
        PROVE  SlotsOf(g)' \subseteq SlotsOf(g) /\ picked' = picked
    BY <1>4 DEF Kill, Pause, Resume, Feed, SetStatus, SlotsOf
  <1>5. Visit => SlotsOf(g)' \subseteq SlotsOf(g) /\ picked' = picked
    BY DEF Visit, Skip, Reap, Hold, CountDown, Expire, ClearSlot, Advance,
           SlotsOf, Slots
  <1>6. CASE UNCHANGED hachikoVars
    BY <1>3, <1>6 DEF hachikoVars, SlotsOf
  <1> QED
    BY <1>1, <1>2, <1>3, <1>4, <1>5, <1>6 DEF HachikoNext, Use

\* EarlyInv for one timer.
Patient(f) ==
    \A i \in SlotsOf(f) :
        status[f] = "NORMAL" =>
            /\ remain[f] >= 1
            /\ IF i < cursor THEN age[f] + remain[f] + 1 >= Ttl[f]
                             ELSE age[f] + remain[f] >= Ttl[f]

LEMMA PassedOverPatient ==
    ASSUME PoolTypeOK, NEW g \in Foods, Patient(g), NEW restarted,
           Advance(restarted), g \notin restarted, Visited # g,
           SlotsOf(g)' \subseteq SlotsOf(g), remain'[g] = remain[g],
           status'[g] = "NORMAL" => status[g] = "NORMAL"
    PROVE  Patient(g)'
  <1> SUFFICES ASSUME NEW i \in SlotsOf(g)', status'[g] = "NORMAL"
               PROVE  /\ remain'[g] >= 1
                      /\ IF i < cursor' THEN age'[g] + remain'[g] + 1 >= Ttl[g]
                                        ELSE age'[g] + remain'[g] >= Ttl[g]
    BY DEF Patient
  <1> USE PoolAssumption DEF PoolTypeOK
  <1>1. i \in SlotsOf(g) /\ i \in Slots /\ i # cursor /\ Running(g)
    BY DEF SlotsOf, Visited, Running
  <1>2. CASE cursor = NrPool
    <2>1. age'[g] = age[g] + 1 /\ cursor' = 1 /\ i < cursor
      BY <1>1, <1>2 DEF Advance, NextSlot, Slots
    <2> QED
      BY <1>1, <2>1 DEF Patient, Slots
  <1>3. CASE cursor # NrPool
    <2>1. age'[g] = age[g] /\ cursor' = cursor + 1
      BY <1>3 DEF Advance, NextSlot
    <2> QED
      BY <1>1, <2>1 DEF Patient, Slots
  <1> QED
    BY <1>2, <1>3

LEMMA LoadedPatient ==
    ASSUME PoolTypeOK', NEW g \in Foods, remain'[g] = Ttl[g]
    PROVE  Patient(g)'
  BY PoolAssumption DEF PoolTypeOK, Patient

LEMMA InitEarly == HachikoInit => OneSlot /\ EarlyInv
  BY PoolAssumption DEF HachikoInit, OneSlot, EarlyInv, SlotsOf

LEMMA NextEarly ==
    /\ PoolTypeOK /\ PoolTypeOK' /\ OneSlot /\ EarlyInv
    /\ [HachikoNext]_hachikoVars
    => EarlyInv'
  <1> SUFFICES ASSUME PoolTypeOK, PoolTypeOK', OneSlot,
                      [HachikoNext]_hachikoVars,
                      NEW g \in Foods \ Again, Patient(g)
               PROVE  Patient(g)'
    BY DEF EarlyInv, Patient
  <1> USE PoolAssumption DEF PoolTypeOK
  <1>1. ASSUME NEW f \in Foods, NewPicks(f) PROVE Patient(g)'
    BY <1>1 DEF NewPicks, Patient, SlotsOf
  <1>2. ASSUME NEW f \in Foods, NewPublishes(f) PROVE Patient(g)'
    <2>1. CASE f = g
      BY <1>2, <2>1, LoadedPatient DEF NewPublishes, Loads
    <2>2. CASE f # g
      BY <1>2, <2>2 DEF NewPublishes, Loads, Patient, SlotsOf, Slots
    <2> QED
      BY <2>1, <2>2
  <1>3. ASSUME NEW f \in Foods, Kill(f) \/ Pause(f) \/ Resume(f)
        PROVE  Patient(g)'
    <2>1. status'[g] = "NORMAL" => status[g] = "NORMAL"
      BY <1>3 DEF Kill, Pause, Resume, SetStatus
    <2> QED
      BY <1>3, <2>1 DEF Kill, Pause, Resume, SetStatus, Patient, SlotsOf
  <1>4. ASSUME NEW f \in Foods, Feed(f) PROVE Patient(g)'
    <2>1. CASE f = g
      BY <1>4, <2>1, LoadedPatient DEF Feed
    <2>2. CASE f # g
      BY <1>4, <2>2 DEF Feed, Patient, SlotsOf
    <2> QED
      BY <2>1, <2>2
  <1>5. CASE Skip
    <2>1. CASE Visited # g
      BY <1>5, <2>1, PassedOverPatient DEF Skip, SlotsOf
    <2>2. CASE Visited = g
      BY <1>5, <2>2 DEF Skip, Patient
    <2> QED
      BY <2>1, <2>2
  <1>6. CASE Reap
    <2>1. CASE Visited # g
      <3>1. SlotsOf(g)' \subseteq SlotsOf(g)
        BY <1>6 DEF Reap, ClearSlot, SlotsOf, Slots
      <3> QED
        BY <1>6, <2>1, <3>1, PassedOverPatient DEF Reap
    <2>2. CASE Visited = g
      BY <1>6, <2>2 DEF Reap, Patient
    <2> QED
      BY <2>1, <2>2
  <1>7. CASE Hold
    <2>0. Visited \in Foods
      BY <1>7 DEF Hold, Visited
    <2>1. CASE Visited # g
      <3>1. remain'[g] = remain[g] /\ status'[g] = status[g]
        BY <1>7, <2>0, <2>1 DEF Hold
      <3> QED
        BY <1>7, <2>1, <3>1, PassedOverPatient DEF Hold, SlotsOf
    <2>2. CASE Visited = g
      <3>1. remain'[g] = Ttl[g]
        BY <1>7, <2>2 DEF Hold
      <3> QED
        BY <3>1, LoadedPatient
    <2> QED
      BY <2>1, <2>2
  <1>8. CASE CountDown
    <2>0. Visited \in Foods
      BY <1>8 DEF CountDown, Visited
    <2>1. CASE Visited # g
      <3>1. remain'[g] = remain[g] /\ status'[g] = status[g]
        BY <1>8, <2>0, <2>1 DEF CountDown
      <3> QED
        BY <1>8, <2>1, <3>1, PassedOverPatient DEF CountDown, SlotsOf
    <2>2. CASE Visited = g
      <3>1. /\ SlotsOf(g) = {cursor} /\ SlotsOf(g)' = {cursor}
            /\ Running(g) /\ remain'[g] = remain[g] - 1 /\ remain[g] > 1
        BY <1>8, <2>2 DEF CountDown, Visited, SlotsOf, OneSlot, Running
      <3>2. age[g] + remain[g] >= Ttl[g]
        BY <3>1 DEF Patient, Running, Slots
      <3>3. CASE cursor = NrPool
        <4>1. age'[g] = age[g] + 1 /\ cursor' = 1
          BY <1>8, <3>1, <3>3 DEF CountDown, Advance, NextSlot
        <4> QED
          BY <3>1, <3>2, <3>3, <4>1 DEF Patient, Slots
      <3>4. CASE cursor # NrPool
        <4>1. age'[g] = age[g] /\ cursor' = cursor + 1
          BY <1>8, <3>4 DEF CountDown, Advance, NextSlot
        <4> QED
          BY <3>1, <3>2, <4>1 DEF Patient, Slots
      <3> QED
        BY <3>3, <3>4
    <2> QED
      BY <2>1, <2>2
  <1>9. ASSUME NEW f \in Foods, Expire(f) PROVE Patient(g)'
    <2>1. CASE f # g
      <3>1. SlotsOf(g)' \subseteq SlotsOf(g)
        BY <1>9 DEF Expire, ClearSlot, SlotsOf, Slots
      <3>2. remain'[g] = remain[g] /\ Visited # g
        BY <1>9, <2>1 DEF Expire, Expires
      <3> QED
        BY <1>9, <2>1, <3>1, <3>2, PassedOverPatient DEF Expire
    <2>2. CASE f = g
      <3>1. CASE Type[g] = "AUTO_FEED"
        BY <1>9, <2>2, <3>1, LoadedPatient DEF Expire, Reload
      <3>2. CASE Type[g] # "AUTO_FEED"
        <4>1. SlotsOf(g)' = {}
          BY <1>9, <2>2, <3>2 DEF Expire, Expires, ClearSlot, SlotsOf, Slots,
                                  Visited, OneSlot
        <4> QED
          BY <4>1 DEF Patient
      <3> QED
        BY <3>1, <3>2
    <2> QED
      BY <2>1, <2>2
  <1>10. CASE UNCHANGED hachikoVars
    BY <1>10 DEF hachikoVars, Patient, SlotsOf
  <1> QED
    BY <1>1, <1>2, <1>3, <1>4, <1>5, <1>6, <1>7, <1>8, <1>9, <1>10
       DEF HachikoNext, Visit, Use

LEMMA ExpiresPatiently ==
    PoolTypeOK /\ EarlyInv
    => \A f \in Foods \ Again : Expire(f) => age[f] + 1 >= Ttl[f]
  BY PoolAssumption
     DEF PoolTypeOK, EarlyInv, Expire, Expires, Visited, SlotsOf, Slots

\* A timer registered once at a time never expires early, for every number of
\* slots, any lengths and whatever the other timers' users do.
THEOREM NeverEarly == HachikoSpec => NotEarly
  <1>1. HachikoInit => PoolTypeOK /\ OneSlot /\ EarlyInv
    BY InitPoolTypeOK, InitEarly
  <1>2. PoolTypeOK /\ OneSlot /\ EarlyInv /\ [HachikoNext]_hachikoVars
        => PoolTypeOK' /\ OneSlot' /\ EarlyInv'
    BY NextPoolTypeOK, NextOneSlot, NextEarly
  <1>3. PoolTypeOK /\ EarlyInv
        => [\A f \in Foods \ Again :
               Expire(f) => age[f] + 1 >= Ttl[f]]_hachikoVars
    BY ExpiresPatiently
  <1> QED
    BY <1>1, <1>2, <1>3, PTL DEF HachikoSpec, NotEarly

=============================================================================
