------------------------------ MODULE TCUWrite ------------------------------
(***************************************************************************)
(* What write() returns to the write thread, and what the thread makes of  *)
(* it (src/tcu.c): TCUStage with the choice between its TxFails and TxDone *)
(* decided.  write() itself is outside src/: it returns the number of      *)
(* bytes written, or -1.                                                   *)
(***************************************************************************)
EXTENDS TCUStage, Integers

CONSTANTS
    UnsignedRange,   \* the values of an unsigned int, 2^32 on the target
    FrameSize,       \* sizeof(struct can_frame), less than UnsignedRange - 1
    Datalen          \* generator[].datalen: the bytes of each packet

VARIABLE nbytes   \* what the last write() returned

writeVars == <<vars, nbytes>>

Results == -1 .. FrameSize

WriteInit == Init /\ nbytes = 0

\* (unsigned int)nbytes
AsUnsigned(n) == n % UnsignedRange

IsShort(n, p) == AsUnsigned(n) < Datalen[p]

\* The packet's write() returns and one of the two events follows.
Written(n) ==
    /\ tx # NoPacket
    /\ nbytes' = n
    /\ IF IsShort(n, tx) THEN TxFails ELSE TxDone(tx)

\* Everything else in TCUStage.
Writing == tx # NoPacket /\ tx' = NoPacket

WriteNext ==
    \/ \E n \in Results : Written(n)
    \/ Next /\ ~Writing /\ UNCHANGED nbytes

WriteSpec == WriteInit /\ [][WriteNext]_writeVars

-----------------------------------------------------------------------------

\* EVENT_TX_DONE "indicates that the packet has been sent correctly" (comment
\* in src/tcu.h): the session moves on, or is muted, because of a packet only
\* when write() took all its bytes.
DoneMeansSent ==
    [][Writing /\ <<tcu_tmp_stage, tcu_wait_stage>>'
                  # <<tcu_tmp_stage, tcu_wait_stage>>
       => nbytes' >= Datalen[tx]]_writeVars

=============================================================================
