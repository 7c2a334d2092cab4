--------------------------- MODULE TCUWrite_proofs ---------------------------
(***************************************************************************)
(* Proofs about the write thread's use of write()'s result: with it the    *)
(* session is still the one of TCUStage, and the comparison of the result  *)
(* as an unsigned number mistakes the failure alone, never a short count.  *)
(***************************************************************************)
EXTENDS TCUWrite, TCUStage_proofs

\* The numbers are what they are on any target: a frame's size is less than
\* the largest unsigned number, and no packet is longer than a frame.
Sizes ==
    /\ UnsignedRange \in Nat
    /\ FrameSize \in Nat /\ FrameSize < UnsignedRange - 1
    /\ Datalen \in [Packets -> 0 .. FrameSize]

-----------------------------------------------------------------------------
(* The session.                                                            *)

LEMMA WriteStep ==
    ASSUME Inv, [WriteNext]_writeVars
    PROVE  [Next]_vars
  <1>1. CASE \E n \in Results : Written(n)
    <2>1. tx # NoPacket /\ (TxFails \/ TxDone(tx))
      BY <1>1 DEF Written
    <2>2. tx \in Packets
      BY <2>1 DEF Inv, TypeOK
    <2>3. Writer
      BY <2>1, <2>2 DEF Writer
    <2> QED
      BY <2>3 DEF Next
  <1>2. CASE Next
    BY <1>2
  <1>3. CASE UNCHANGED writeVars
    BY <1>3 DEF writeVars
  <1> QED
    BY <1>1, <1>2, <1>3 DEF WriteNext

LEMMA WriteInvHolds == WriteSpec => []Inv
  <1>1. WriteInit => Inv
    BY InitInv DEF WriteInit
  <1>2. Inv /\ [WriteNext]_writeVars => Inv'
    BY WriteStep, NextInv
  <1> QED
    BY <1>1, <1>2, PTL DEF WriteSpec

\* Whatever write() returns, the unit runs the session of TCUStage, so that
\* every theorem about that holds for it.
THEOREM WriteImplementsSession == WriteSpec => Spec
  <1>1. Inv /\ [WriteNext]_writeVars => [Next]_vars
    BY WriteStep
  <1>2. WriteInit => Init
    BY DEF WriteInit
  <1> QED
    BY <1>1, <1>2, WriteInvHolds, PTL DEF WriteSpec, Spec

-----------------------------------------------------------------------------
(* The comparison.                                                         *)

LEMMA Unsigned ==
    ASSUME Sizes
    PROVE  /\ \A n \in 0 .. FrameSize : AsUnsigned(n) = n
           /\ AsUnsigned(-1) = UnsignedRange - 1
  <1> DEFINE R == UnsignedRange
             S == FrameSize
  <1>1. R \in Nat /\ S \in Nat /\ S < R - 1
    BY DEF Sizes
  <1> HIDE DEF R, S
  <1>2. \A n \in 0 .. S : n % R = n
    BY <1>1, SMT
  <1>3. (-1) % R = R - 1
    BY <1>1, SMT
  <1> QED
    BY <1>2, <1>3 DEF AsUnsigned, R, S

\* A result counts as too short exactly when it is a count and too small: a
\* failure never does (src/tcu.c:1150).
THEOREM ShortIsCount ==
    ASSUME Sizes, NEW n \in Results, NEW p \in Packets
    PROVE  IsShort(n, p) <=> n \in 0 .. FrameSize /\ n < Datalen[p]
  <1>1. Datalen[p] \in 0 .. FrameSize /\ FrameSize \in Nat
        /\ UnsignedRange \in Nat /\ FrameSize < UnsignedRange - 1
    BY DEF Sizes
  <1>2. CASE n = -1
    <2>1. AsUnsigned(n) = UnsignedRange - 1
      BY <1>2, Unsigned
    <2> QED
      BY <1>1, <1>2, <2>1 DEF IsShort
  <1>3. CASE n \in 0 .. FrameSize
    <2>1. AsUnsigned(n) = n
      BY <1>3, Unsigned
    <2> QED
      BY <1>3, <2>1 DEF IsShort
  <1>4. n = -1 \/ n \in 0 .. FrameSize
    BY <1>1 DEF Results
  <1> QED
    BY <1>2, <1>3, <1>4

\* The session moves on, or is muted, because of a packet only when write()
\* took all its bytes or reported a failure: a packet of which the bus took a
\* part never counts as sent.
OnlyFailureMistaken ==
    [][Writing /\ <<tcu_tmp_stage, tcu_wait_stage>>'
                  # <<tcu_tmp_stage, tcu_wait_stage>>
       => nbytes' >= Datalen[tx] \/ nbytes' = -1]_writeVars

THEOREM PartsAreNeverTaken ==
    ASSUME Sizes
    PROVE  WriteSpec => OnlyFailureMistaken
  <1>1. ASSUME Inv, [WriteNext]_writeVars, Writing,
               <<tcu_tmp_stage, tcu_wait_stage>>'
               # <<tcu_tmp_stage, tcu_wait_stage>>
        PROVE  nbytes' >= Datalen[tx] \/ nbytes' = -1
    <2>1. tx \in Packets
      BY <1>1 DEF Writing, Inv, TypeOK
    <2>2. PICK n \in Results : Written(n)
      <3>1. CASE \E n \in Results : Written(n)
        BY <3>1
      <3>2. CASE Next /\ ~Writing /\ UNCHANGED nbytes
        BY <1>1, <3>2
      <3>3. CASE UNCHANGED writeVars
        BY <1>1, <3>3 DEF writeVars, vars, stageVars, modeVars
      <3> QED
        BY <1>1, <3>1, <3>2, <3>3 DEF WriteNext
    <2>3. ~IsShort(n, tx)
      <3>1. ASSUME TxFails PROVE FALSE
        BY <1>1, <3>1 DEF TxFails, stageVars, modeVars
      <3> QED
        BY <2>2, <3>1 DEF Written
    <2>4. n = -1 \/ (n \in 0 .. FrameSize /\ ~(n < Datalen[tx]))
      BY <2>1, <2>3, ShortIsCount DEF Results, Sizes
    <2>5. Datalen[tx] \in Nat
      BY <2>1 DEF Sizes
    <2> QED
      BY <2>2, <2>4, <2>5 DEF Written, Sizes
  <1>2. Inv /\ [WriteNext]_writeVars
        => [Writing /\ <<tcu_tmp_stage, tcu_wait_stage>>'
                       # <<tcu_tmp_stage, tcu_wait_stage>>
            => nbytes' >= Datalen[tx] \/ nbytes' = -1]_writeVars
    BY <1>1
  <1> QED
    BY <1>2, WriteInvHolds, PTL DEF WriteSpec, OnlyFailureMistaken

=============================================================================
