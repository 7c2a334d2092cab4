--------------------------- MODULE TransferService ---------------------------
(***************************************************************************)
(* What the multi-packet transport promises of the charger's messages,     *)
(* without frames, threads, timers or a buffer: a message is delivered in  *)
(* the order in which the connections were asked for, each once unless the *)
(* transport was disturbed, and acknowledged only after its delivery.  Any *)
(* message may be lost.  CanTP implements it.                              *)
(***************************************************************************)
EXTENDS Naturals

VARIABLES
    asked,       \* the number of the latest connection asked for, 0 if none
    accepted,    \* the connection accepted last
    clean,       \* nothing has disturbed it
    delivered,   \* the connections whose message was delivered
    handing,     \* a message has just been delivered
    acking       \* an acknowledgement is wanted

serviceVars == <<asked, accepted, clean, delivered, handing, acking>>

ServiceInit ==
    /\ asked = 0
    /\ accepted = 0
    /\ clean = TRUE
    /\ delivered = {}
    /\ handing = FALSE
    /\ acking = FALSE

Ask ==
    /\ asked' = asked + 1
    /\ UNCHANGED <<accepted, clean, delivered, handing, acking>>

\* A later connection takes the place of the one accepted last.
Accept ==
    /\ ~handing
    /\ accepted' \in accepted + 1 .. asked
    /\ clean' = TRUE
    /\ acking' = FALSE
    /\ UNCHANGED <<asked, delivered, handing>>

Disturb ==
    /\ ~handing
    /\ clean' = FALSE
    /\ UNCHANGED <<asked, accepted, delivered, handing, acking>>

Hand ==
    /\ ~handing
    /\ accepted # 0
    /\ clean => accepted \notin delivered
    /\ delivered' = delivered \cup {accepted}
    /\ handing' = TRUE
    /\ UNCHANGED <<asked, accepted, clean, acking>>

Acknowledge ==
    /\ handing
    /\ handing' = FALSE
    /\ acking' = TRUE
    /\ UNCHANGED <<asked, accepted, clean, delivered>>

\* The acknowledgement is sent, or the connection given up.
Settle ==
    /\ acking' = FALSE
    /\ UNCHANGED <<asked, accepted, clean, delivered, handing>>

ServiceNext ==
    \/ Ask
    \/ Accept
    \/ Disturb
    \/ Hand
    \/ Acknowledge
    \/ Settle

ServiceSpec == ServiceInit /\ [][ServiceNext]_serviceVars

=============================================================================
