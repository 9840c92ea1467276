------------------------------ MODULE Delivery ------------------------------
(***************************************************************************)
(* What forwarding access events to Telegram promises, whatever fails: a   *)
(* message is about an event that has been saved and is still open, so     *)
(* once an event is closed (sent_to_telegram) no channel hears of it       *)
(* again, and a closed event stays closed.  RealTime implements it.        *)
(***************************************************************************)
EXTENDS Sequences

CONSTANTS
    Events,     \* what may be saved
    Channels    \* whom it may be told to

VARIABLES
    saved,  \* the events in the table
    closed, \* those with sent_to_telegram
    inbox   \* for each channel, the events it was told of, in order

deliveryVars == <<saved, closed, inbox>>

DeliveryInit ==
    /\ saved = {}
    /\ closed = {}
    /\ inbox = [c \in Channels |-> << >>]

Save(i) ==
    /\ saved' = saved \cup {i}
    /\ UNCHANGED <<closed, inbox>>

Deliver(c, i) ==
    /\ i \in saved \ closed
    /\ inbox' = [inbox EXCEPT ![c] = Append(@, i)]
    /\ UNCHANGED <<saved, closed>>

Close(i) ==
    /\ i \in saved
    /\ closed' = closed \cup {i}
    /\ UNCHANGED <<saved, inbox>>

DeliveryNext ==
    \/ \E i \in Events : Save(i)
    \/ \E i \in saved : Close(i) \/ \E c \in Channels : Deliver(c, i)

DeliverySpec == DeliveryInit /\ [][DeliveryNext]_deliveryVars
=============================================================================
