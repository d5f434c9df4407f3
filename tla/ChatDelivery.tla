---------------------------- MODULE ChatDelivery ----------------------------
(***************************************************************************)
(* What the user of the chat client is promised about the lines he types:  *)
(* they reach the server one at a time, in order, without loss or          *)
(* duplicate, and a line is acknowledged only after the server has it.     *)
(* Both may stop at any point (the client gives up and exits).             *)
(***************************************************************************)
EXTENDS Naturals, Sequences

CONSTANT Lines

VARIABLES
    submitted,   \* the lines the user has typed
    delivered,   \* the lines the server has taken
    acked        \* how many of them the client knows to be delivered

deliveryVars == <<submitted, delivered, acked>>

DeliveryInit == submitted = << >> /\ delivered = << >> /\ acked = 0

\* A line is taken from the user only when the previous one is acknowledged.
Submit ==
    /\ acked = Len(submitted)
    /\ \E line \in Lines : submitted' = Append(submitted, line)
    /\ UNCHANGED <<delivered, acked>>

\* The server takes the next line it has not seen.
Deliver ==
    /\ Len(delivered) < Len(submitted)
    /\ delivered' = Append(delivered, submitted[Len(delivered) + 1])
    /\ UNCHANGED <<submitted, acked>>

Acknowledge ==
    /\ acked < Len(delivered)
    /\ acked' = acked + 1
    /\ UNCHANGED <<submitted, delivered>>

DeliveryNext == Submit \/ Deliver \/ Acknowledge

DeliverySpec == DeliveryInit /\ [][DeliveryNext]_deliveryVars
=============================================================================
