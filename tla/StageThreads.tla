---------------------------- MODULE StageThreads ----------------------------
(***************************************************************************)
(* tcu_stage and tcu_tmp_stage statement by statement: src/tcu.c without   *)
(* module TCUStage's assumption that a handler is one step.                *)
(*                                                                         *)
(* The timer signal, the write thread, the read thread and the console     *)
(* thread test and assign the two fields without a lock, always the stage  *)
(* before the phase (src/makefile builds without optimisation, so that the *)
(* source's order is the program's).  Between any two statements of one,   *)
(* the others run.                                                         *)
(*                                                                         *)
(* The counters are TCUStage's subject: here a keep-alive comes due, and a *)
(* request is late, at any tick.  The model begins when the write thread   *)
(* enters its loop.                                                        *)
(***************************************************************************)
EXTENDS TCUTables, Naturals, Sequences

CONSTANTS
    Commands,      \* numbers the operator may type; {} in the program as built
    MaxCommands    \* bound: how many the operator types

\* The commands that do nothing here but enter a phase.
ASSUME CommandsAssumption ==
    /\ Commands \subseteq {1, 2, 4, 6}
    /\ MaxCommands \in Nat

Threads == { "timer", "writer", "reader", "console" }

VARIABLES
    tcu_stage, tcu_tmp_stage, tcu_wait_stage,
    left,       \* the fields that each thread is about to assign, in order
    value,      \* and what it assigns to them
    tx,         \* the packet that the write thread has built
    typed,      \* commands typed
    reported    \* history: the charger's stop report has come

fields == <<tcu_stage, tcu_tmp_stage>>
vars == <<fields, tcu_wait_stage, left, value, tx, typed, reported>>

Init ==
    /\ tcu_stage = "TIME"
    /\ tcu_tmp_stage = "CHECKVER"
    /\ tcu_wait_stage = "INVALID"
    /\ left = [t \in Threads |-> <<>>]
    /\ value = [t \in Threads |-> "INVALID"]
    /\ tx = NoPacket
    /\ typed = 0
    /\ reported = FALSE

-----------------------------------------------------------------------------
(* Assignments.                                                            *)

Idle(t) == left[t] = <<>>

\* Thread t will assign s to the fields fs.
WillAssign(t, s, fs) ==
    /\ left' = [left EXCEPT ![t] = fs]
    /\ value' = [value EXCEPT ![t] = s]

\* Mutant: the phase behind the overlays is forgotten.
StageAlone == <<"tcu_stage">>

\* A phase is entered by two assignments.
Both == <<"tcu_stage", "tcu_tmp_stage">>

Assign(t) ==
    /\ ~Idle(t)
    /\ IF Head(left[t]) = "tcu_stage"
       THEN tcu_stage' = value[t] /\ UNCHANGED tcu_tmp_stage
       ELSE tcu_tmp_stage' = value[t] /\ UNCHANGED tcu_stage
    /\ WillAssign(t, IF Len(left[t]) = 1 THEN "INVALID" ELSE value[t],
                  Tail(left[t]))
    /\ UNCHANGED <<tcu_wait_stage, tx, typed, reported>>

-----------------------------------------------------------------------------
(* The timer signal.                                                       *)

KeepAlives == { p \in Packets : Restores(p) }

\* Mutant: the packet's own name is taken for its stage.
TakesOverByName(p) == tcu_stage' = p

TakesOver(p) == tcu_stage' = StageOf[p]

\* A keep-alive is due.
Overlay(p) ==
    /\ Idle("timer")
    /\ tcu_wait_stage = "INVALID"
    /\ TakesOver(p)
    /\ UNCHANGED <<tcu_tmp_stage, tcu_wait_stage, left, value, tx, typed,
                   reported>>

\* The current stage's request is late.
TimesOut ==
    /\ Idle("timer")
    /\ \E r \in Requests : StageOf[r] = tcu_stage
    /\ WillAssign("timer", "TIMEOUT", Both)
    /\ UNCHANGED <<fields, tcu_wait_stage, tx, typed, reported>>

-----------------------------------------------------------------------------
(* The write thread.                                                       *)

\* A loop begins.
Loops ==
    /\ Idle("writer")
    /\ tx = NoPacket
    /\ tcu_wait_stage' = IF tcu_stage \in {"CONNECT", "START"}
                         THEN "INVALID" ELSE tcu_wait_stage
    /\ UNCHANGED <<fields, left, value, typed, reported>>

\* The stage's packet is due.
Build(p) ==
    /\ Loops
    /\ StageOf[p] = tcu_stage
    /\ tx' = p

BuildsNothing == Loops /\ UNCHANGED tx

Sent(p) ==
    /\ tx = p
    /\ Idle("writer")
    /\ tx' = NoPacket
    /\ CASE p \in {"TRCT", "TRSF"} /\ tcu_stage = StageOf[p] ->
              WillAssign("writer", AfterSent(p), Both)
         [] Restores(p) ->
              WillAssign("writer", tcu_tmp_stage, <<"tcu_stage">>)
         [] OTHER -> UNCHANGED <<left, value>>
    /\ tcu_wait_stage' = IF Mutes(p) THEN "ANY" ELSE tcu_wait_stage
    /\ UNCHANGED <<fields, typed, reported>>

Fails ==
    /\ tx # NoPacket
    /\ tx' = NoPacket
    /\ UNCHANGED <<fields, tcu_wait_stage, left, value, typed,
                   reported>>

-----------------------------------------------------------------------------
(* The read thread and the console.                                        *)

\* A positive answer whose stage is current.
Recv(f) ==
    /\ Idle("reader")
    /\ tcu_stage = Answer[f].at
    /\ WillAssign("reader", Answer[f].next, Both)
    /\ UNCHANGED <<fields, tcu_wait_stage, tx, typed, reported>>

\* A stop report; one that says both that the charger stopped and that the
\* unit ordered it assigns everything twice.
RecvCST(times) ==
    /\ Idle("reader")
    /\ WillAssign("reader", "STOP_END", IF times = 2 THEN Both \o Both ELSE Both)
    /\ reported' = TRUE
    /\ UNCHANGED <<fields, tcu_wait_stage, tx, typed>>

Command(c) ==
    /\ Idle("console")
    /\ typed < MaxCommands
    /\ typed' = typed + 1
    /\ WillAssign("console", CommandStage(c), Both)
    /\ UNCHANGED <<fields, tcu_wait_stage, tx, reported>>

-----------------------------------------------------------------------------

Next ==
    \/ \E t \in Threads : Assign(t)
    \/ \E p \in KeepAlives : Overlay(p)
    \/ TimesOut
    \/ \E p \in Packets : Build(p) \/ Sent(p)
    \/ BuildsNothing
    \/ Fails
    \/ \E f \in Answers : Recv(f)
    \/ \E times \in {1, 2} : RecvCST(times)
    \/ \E c \in Commands : Command(c)

Spec == Init /\ [][Next]_vars

(* Timer and threads keep running, the keep-alives' periods end (TCUStage), *)
(* the write thread does not miss a due keep-alive for ever, and write()    *)
(* stops failing at some time.                                              *)
Fairness ==
    /\ \A t \in Threads : WF_vars(Assign(t))
    /\ WF_vars(\E p \in Packets : Sent(p))
    /\ \A p \in KeepAlives : SF_vars(Overlay(p)) /\ SF_vars(Build(p))
    /\ <>[][~Fails]_vars

FairSpec == Spec /\ Fairness

-----------------------------------------------------------------------------
(* Properties.                                                             *)

TypeOK ==
    /\ tcu_stage \in Phases \cup Overlays
    /\ tcu_tmp_stage \in Phases
    /\ tcu_wait_stage \in {"INVALID", "ANY"}
    /\ left \in [Threads -> Seq({"tcu_stage", "tcu_tmp_stage"})]
    /\ value \in [Threads -> Phases]
    /\ tx \in Packets \cup {NoPacket}
    /\ typed \in 0 .. MaxCommands
    /\ reported \in BOOLEAN

Muted == tcu_wait_stage = "ANY"

\* However the threads tear one another's assignments apart, the unit falls
\* silent only after the charger has reported that it stopped.
MutedAfterReport == Muted => reported

\* The two fields may disagree after a race, but not for good: unless the unit
\* is muted they end up naming the same phase, but for the overlays.
Settles == <>[](tcu_stage = tcu_tmp_stage \/ tcu_stage \in Overlays \/ Muted)

\* A timeout, a completed packet or a command that was under way may undo a
\* stop report; a charger that keeps reporting ends the session.
StopPrevails ==
    []<>(value["reader"] = "STOP_END")
    => <>[](tcu_tmp_stage = "STOP_END" \/ Muted)

=============================================================================
