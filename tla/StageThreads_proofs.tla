------------------------- MODULE StageThreads_proofs -------------------------
(***************************************************************************)
(* Proofs about StageThreads for any commands and any number of them.      *)
(***************************************************************************)
EXTENDS StageThreads, SequenceTheorems, TLAPS

FieldNames == { "tcu_stage", "tcu_tmp_stage" }

LEMMA TableFacts ==
    /\ \A p \in Packets : StageOf[p] \in Phases \cup Overlays
    /\ \A p \in Packets : StageOf[p] = "STOP_END" <=> p = "TRST"
    /\ \A p \in Packets : Mutes(p) <=> p = "TRST"
    /\ NoPacket \notin Packets
    /\ NoPacket # "TRST"
  BY DEF Packets, StageOf, Phases, Overlays, Mutes, NoPacket

\* No answer, no command and no packet of the unit leads to the end.
LEMMA NextPhases ==
    /\ \A f \in Answers : Answer[f].next \in Phases \ {"STOP_END"}
    /\ \A c \in Commands : CommandStage(c) \in Phases \ {"STOP_END"}
    /\ \A p \in {"TRCT", "TRSF"} : AfterSent(p) \in Phases \ {"STOP_END"}
    /\ {"TIMEOUT", "STOP_END", "INVALID"} \subseteq Phases
  <1>1. \A f \in Answers : Answer[f].next \in Phases \ {"STOP_END"}
    BY DEF Answers, Answer, Phases
  <1>2. \A c \in Commands : CommandStage(c) \in Phases \ {"STOP_END"}
    BY CommandsAssumption DEF CommandStage, Phases
  <1>3. \A p \in {"TRCT", "TRSF"} : AfterSent(p) \in Phases \ {"STOP_END"}
    BY DEF AfterSent, Phases
  <1>4. {"TIMEOUT", "STOP_END", "INVALID"} \subseteq Phases
    BY DEF Phases
  <1> QED
    BY <1>1, <1>2, <1>3, <1>4

LEMMA AssignmentLists ==
    /\ Both \in Seq(FieldNames)
    /\ Both \o Both \in Seq(FieldNames)
    /\ <<"tcu_stage">> \in Seq(FieldNames)
    /\ << >> \in Seq(FieldNames)
  <1>1. Both \in Seq(FieldNames)
    BY DEF Both, FieldNames
  <1>2. Both \o Both \in Seq(FieldNames)
    BY <1>1, ConcatProperties
  <1>3. <<"tcu_stage">> \in Seq(FieldNames)
    BY DEF FieldNames
  <1>4. << >> \in Seq(FieldNames)
    OBVIOUS
  <1> QED
    BY <1>1, <1>2, <1>3, <1>4

-----------------------------------------------------------------------------
(* The inductive invariant.  MutedAfterReport is not inductive: the unit is *)
(* muted by a packet built in the stage STOP_END, which any thread may have *)
(* assigned from what it read before.  So the report must have come as soon *)
(* as anything holds the phase STOP_END.                                    *)

EndAfterReport ==
    /\ tcu_stage = "STOP_END" => reported
    /\ tcu_tmp_stage = "STOP_END" => reported
    /\ \A t \in Threads : value[t] = "STOP_END" => reported
    /\ tx = "TRST" => reported

Inv == TypeOK /\ EndAfterReport /\ MutedAfterReport

LEMMA InitInv == Init => Inv
  <1> SUFFICES ASSUME Init PROVE Inv
    OBVIOUS
  <1>1. /\ tcu_stage \in Phases \cup Overlays
        /\ tcu_tmp_stage \in Phases
        /\ tcu_wait_stage \in {"INVALID", "ANY"}
        /\ tx \in Packets \cup {NoPacket}
        /\ reported \in BOOLEAN
    BY DEF Init, Phases, Overlays
  <1>3. left \in [Threads -> Seq(FieldNames)] /\ value \in [Threads -> Phases]
    BY AssignmentLists, NextPhases DEF Init
  <1>4. typed \in 0 .. MaxCommands
    BY CommandsAssumption DEF Init
  <1>5. TypeOK
    BY <1>1, <1>3, <1>4 DEF TypeOK, FieldNames
  <1>2. EndAfterReport /\ MutedAfterReport
    BY TableFacts DEF Init, EndAfterReport, MutedAfterReport, Muted
  <1> QED
    BY <1>2, <1>5 DEF Inv

\* A thread that decides to assign a phase keeps the threads' types, and holds
\* the end only after the report.
LEMMA WillAssignKeeps ==
    ASSUME TypeOK, EndAfterReport, NEW t \in Threads, NEW s \in Phases,
           NEW fs \in Seq(FieldNames), WillAssign(t, s, fs),
           s = "STOP_END" => reported', reported => reported'
    PROVE  /\ left' \in [Threads -> Seq(FieldNames)]
           /\ value' \in [Threads -> Phases]
           /\ \A u \in Threads : value'[u] = "STOP_END" => reported'
  BY DEF TypeOK, EndAfterReport, WillAssign, FieldNames

LEMMA AssignInv ==
    ASSUME Inv, NEW t \in Threads, Assign(t) PROVE Inv'
  <1> DEFINE s == IF Len(left[t]) = 1 THEN "INVALID" ELSE value[t]
  <1>1. /\ left[t] \in Seq(FieldNames)
        /\ left[t] # << >>
        /\ value[t] \in Phases
        /\ value[t] = "STOP_END" => reported
    BY DEF Inv, TypeOK, EndAfterReport, Assign, Idle, FieldNames
  <1>2. Tail(left[t]) \in Seq(FieldNames)
    BY <1>1, HeadTailProperties
  <1>3. WillAssign(t, s, Tail(left[t])) /\ UNCHANGED reported
    BY DEF Assign
  <1>4. s \in Phases /\ (s = "STOP_END" => reported')
    BY <1>1, <1>3, NextPhases
  <1>5. /\ left' \in [Threads -> Seq(FieldNames)]
        /\ value' \in [Threads -> Phases]
        /\ \A u \in Threads : value'[u] = "STOP_END" => reported'
    <2> HIDE DEF s
    <2> QED
      BY <1>2, <1>3, <1>4, WillAssignKeeps DEF Inv
  <1>6. \/ tcu_stage' = value[t] /\ UNCHANGED tcu_tmp_stage
        \/ tcu_tmp_stage' = value[t] /\ UNCHANGED tcu_stage
    BY DEF Assign
  <1>7. UNCHANGED <<tcu_wait_stage, tx, typed, reported>>
    BY DEF Assign
  <1>8. TypeOK'
    BY <1>1, <1>5, <1>6, <1>7 DEF Inv, TypeOK, FieldNames
  <1>9. EndAfterReport' /\ MutedAfterReport'
    BY <1>1, <1>5, <1>6, <1>7
       DEF Inv, EndAfterReport, MutedAfterReport, Muted
  <1> QED
    BY <1>8, <1>9 DEF Inv

\* A thread that tests the fields and decides what it will assign.
LEMMA DecisionInv ==
    ASSUME Inv, NEW t \in Threads, NEW s \in Phases,
           NEW fs \in Seq(FieldNames), WillAssign(t, s, fs),
           s = "STOP_END" => reported', reported => reported',
           reported' \in BOOLEAN, typed' \in 0 .. MaxCommands,
           tx' \in {tx, NoPacket},
           UNCHANGED <<tcu_stage, tcu_tmp_stage, tcu_wait_stage>>
    PROVE  Inv'
  <1>1. /\ left' \in [Threads -> Seq(FieldNames)]
        /\ value' \in [Threads -> Phases]
        /\ \A u \in Threads : value'[u] = "STOP_END" => reported'
    BY WillAssignKeeps DEF Inv
  <1>2. TypeOK'
    BY <1>1 DEF Inv, TypeOK, FieldNames
  <1>3. EndAfterReport' /\ MutedAfterReport'
    BY <1>1, TableFacts DEF Inv, EndAfterReport, MutedAfterReport, Muted
  <1> QED
    BY <1>2, <1>3 DEF Inv

LEMMA OverlayInv ==
    ASSUME Inv, NEW p \in KeepAlives, Overlay(p) PROVE Inv'
  <1>1. p \in {"TTS", "THB"} /\ p \in Packets
    BY DEF KeepAlives, Restores
  <1>2. StageOf[p] \in Overlays /\ StageOf[p] # "STOP_END"
    BY <1>1 DEF StageOf, Overlays
  <1>3. TypeOK'
    BY <1>2 DEF Overlay, TakesOver, Inv, TypeOK
  <1>4. EndAfterReport' /\ MutedAfterReport'
    BY <1>2 DEF Overlay, TakesOver, Inv, EndAfterReport, MutedAfterReport, Muted
  <1> QED
    BY <1>3, <1>4 DEF Inv

LEMMA BuildInv ==
    ASSUME Inv, NEW p \in Packets, Build(p) PROVE Inv'
  <1>1. TypeOK'
    BY DEF Build, Loops, fields, Inv, TypeOK
  <1>2. EndAfterReport'
    BY TableFacts DEF Build, Loops, fields, Inv, EndAfterReport
  <1>3. MutedAfterReport'
    BY DEF Build, Loops, fields, Inv, MutedAfterReport, Muted
  <1> QED
    BY <1>1, <1>2, <1>3 DEF Inv

LEMMA BuildsNothingInv ==
    ASSUME Inv, BuildsNothing PROVE Inv'
  <1>1. TypeOK'
    BY DEF BuildsNothing, Loops, fields, Inv, TypeOK
  <1>2. EndAfterReport' /\ MutedAfterReport'
    BY DEF BuildsNothing, Loops, fields, Inv, EndAfterReport, MutedAfterReport, Muted
  <1> QED
    BY <1>1, <1>2 DEF Inv

\* The completed packet's handler: three cases, and only TRST mutes.
LEMMA SentInv ==
    ASSUME Inv, NEW p \in Packets, Sent(p) PROVE Inv'
  <1>1. /\ tx = p /\ tx' = NoPacket
        /\ UNCHANGED <<tcu_stage, tcu_tmp_stage, typed, reported>>
        /\ tcu_wait_stage' = IF Mutes(p) THEN "ANY" ELSE tcu_wait_stage
    BY DEF Sent, fields
  <1>2. p = "TRST" => reported
    BY <1>1 DEF Inv, EndAfterReport
  <1>3. MutedAfterReport'
    BY <1>1, <1>2, TableFacts DEF Inv, MutedAfterReport, Muted
  <1>4. /\ left' \in [Threads -> Seq(FieldNames)]
        /\ value' \in [Threads -> Phases]
        /\ \A u \in Threads : value'[u] = "STOP_END" => reported'
    <2>1. CASE p \in {"TRCT", "TRSF"} /\ tcu_stage = StageOf[p]
      <3>1. WillAssign("writer", AfterSent(p), Both)
        BY <2>1 DEF Sent, Restores
      <3>2. AfterSent(p) \in Phases /\ AfterSent(p) # "STOP_END"
        BY <2>1, NextPhases
      <3> QED
        BY <1>1, <3>1, <3>2, AssignmentLists, WillAssignKeeps DEF Inv, Threads
    <2>2. CASE Restores(p)
      <3>1. WillAssign("writer", tcu_tmp_stage, <<"tcu_stage">>)
        BY <2>2 DEF Sent, Restores
      <3>2. tcu_tmp_stage \in Phases /\ (tcu_tmp_stage = "STOP_END" => reported)
        BY DEF Inv, TypeOK, EndAfterReport
      <3> QED
        BY <1>1, <3>1, <3>2, AssignmentLists, WillAssignKeeps DEF Inv, Threads
    <2>3. CASE ~(p \in {"TRCT", "TRSF"} /\ tcu_stage = StageOf[p]) /\ ~Restores(p)
      <3>1. UNCHANGED <<left, value>>
        BY <2>3 DEF Sent
      <3> QED
        BY <1>1, <3>1 DEF Inv, TypeOK, EndAfterReport, FieldNames
    <2> QED
      BY <2>1, <2>2, <2>3
  <1>5. tcu_wait_stage' \in {"INVALID", "ANY"}
    BY <1>1 DEF Inv, TypeOK
  <1>6. TypeOK'
    BY <1>1, <1>4, <1>5 DEF Inv, TypeOK, FieldNames
  <1>7. EndAfterReport'
    BY <1>1, <1>4, TableFacts DEF Inv, EndAfterReport
  <1> QED
    BY <1>3, <1>6, <1>7 DEF Inv

LEMMA NextInv == Inv /\ [Next]_vars => Inv'
  <1> SUFFICES ASSUME Inv, [Next]_vars PROVE Inv'
    OBVIOUS
  <1>1. reported \in BOOLEAN /\ typed \in 0 .. MaxCommands
    BY DEF Inv, TypeOK
  <1>2. ASSUME NEW t \in Threads, Assign(t) PROVE Inv'
    BY <1>2, AssignInv
  <1>3. ASSUME NEW p \in KeepAlives, Overlay(p) PROVE Inv'
    BY <1>3, OverlayInv
  <1>4. CASE TimesOut
    <2>1. WillAssign("timer", "TIMEOUT", Both)
      BY <1>4 DEF TimesOut
    <2>2. UNCHANGED <<tcu_stage, tcu_tmp_stage, tcu_wait_stage, tx, typed, reported>>
      BY <1>4 DEF TimesOut, fields
    <2> QED
      BY <1>1, <2>1, <2>2, AssignmentLists, NextPhases, DecisionInv DEF Threads
  <1>5. ASSUME NEW p \in Packets, Build(p) PROVE Inv'
    BY <1>5, BuildInv
  <1>6. ASSUME NEW p \in Packets, Sent(p) PROVE Inv'
    BY <1>6, SentInv
  <1>7. CASE BuildsNothing
    BY <1>7, BuildsNothingInv
  <1>8. CASE Fails
    <2>1. TypeOK'
      BY <1>8 DEF Fails, fields, Inv, TypeOK
    <2>2. EndAfterReport' /\ MutedAfterReport'
      BY <1>8, TableFacts
         DEF Fails, fields, Inv, EndAfterReport, MutedAfterReport, Muted
    <2> QED
      BY <2>1, <2>2 DEF Inv
  <1>9. ASSUME NEW f \in Answers, Recv(f) PROVE Inv'
    <2>1. WillAssign("reader", Answer[f].next, Both)
      BY <1>9 DEF Recv
    <2>2. UNCHANGED <<tcu_stage, tcu_tmp_stage, tcu_wait_stage, tx, typed, reported>>
      BY <1>9 DEF Recv, fields
    <2>3. Answer[f].next \in Phases /\ Answer[f].next # "STOP_END"
      BY NextPhases
    <2> QED
      BY <1>1, <2>1, <2>2, <2>3, AssignmentLists, DecisionInv DEF Threads
  <1>10. ASSUME NEW times \in {1, 2}, RecvCST(times) PROVE Inv'
    <2>1. PICK fs \in Seq(FieldNames) : WillAssign("reader", "STOP_END", fs)
      BY <1>10, AssignmentLists DEF RecvCST
    <2>2. /\ UNCHANGED <<tcu_stage, tcu_tmp_stage, tcu_wait_stage, tx, typed>>
          /\ reported' = TRUE
      BY <1>10 DEF RecvCST, fields
    <2> QED
      BY <1>1, <2>1, <2>2, NextPhases, DecisionInv DEF Threads
  <1>11. ASSUME NEW c \in Commands, Command(c) PROVE Inv'
    <2>1. WillAssign("console", CommandStage(c), Both)
      BY <1>11 DEF Command
    <2>2. UNCHANGED <<tcu_stage, tcu_tmp_stage, tcu_wait_stage, tx, reported>>
      BY <1>11 DEF Command, fields
    <2>3. typed' \in 0 .. MaxCommands
      BY <1>1, <1>11, CommandsAssumption DEF Command
    <2>4. CommandStage(c) \in Phases /\ CommandStage(c) # "STOP_END"
      BY NextPhases
    <2> QED
      BY <1>1, <2>1, <2>2, <2>3, <2>4, AssignmentLists, DecisionInv DEF Threads
  <1>12. CASE UNCHANGED vars
    BY <1>12 DEF vars, fields, Inv, TypeOK, EndAfterReport, MutedAfterReport, Muted
  <1> QED
    BY <1>2, <1>3, <1>4, <1>5, <1>6, <1>7, <1>8, <1>9, <1>10, <1>11, <1>12
       DEF Next

-----------------------------------------------------------------------------

\* Fields, pending assignments and packets stay in their types.
THEOREM TypeCorrect == Spec => []TypeOK
  <1>1. Inv => TypeOK
    BY DEF Inv
  <1> QED
    BY <1>1, InitInv, NextInv, PTL DEF Spec

\* No interleaving of the threads' statements mutes the unit before the
\* charger has reported that it stopped.
THEOREM MutedOnlyAfterReport == Spec => []MutedAfterReport
  <1>1. Inv => MutedAfterReport
    BY DEF Inv
  <1> QED
    BY <1>1, InitInv, NextInv, PTL DEF Spec

=============================================================================
