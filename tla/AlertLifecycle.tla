---------------------------- MODULE AlertLifecycle ----------------------------
(* What the delivery of alerts promises about one NotificationDelivery row, *)
(* whatever workers, batches and leases do underneath: at most one sender,  *)
(* one call of Telegram per reservation, an outcome that is the answer of   *)
(* that call, and SENT for good. A sender may vanish at any time.           *)
EXTENDS Naturals

CONSTANT Alerts

VARIABLES
    status,      \* [Alerts -> status of the row, NONE before it exists]
    sender,      \* [Alerts -> how far the one who reserved it is]
    messages,    \* [Alerts -> messages Telegram accepted]
    lost         \* [Alerts -> accepted messages that no row will ever show]

lifecycleVars == <<status, sender, messages, lost>>

Init ==
    /\ status = [a \in Alerts |-> "NONE"]
    /\ sender = [a \in Alerts |-> "nobody"]
    /\ messages = [a \in Alerts |-> 0] /\ lost = [a \in Alerts |-> 0]

Moves(a, before, after) ==
    /\ sender[a] = before
    /\ sender' = [sender EXCEPT ![a] = after]
Becomes(a, new) == status' = [status EXCEPT ![a] = new]

(* Reserved, or found without a bot to send it: not what was sent, and not  *)
(* what another is sending.                                                 *)
Block(a) ==
    /\ status[a] # "SENT" /\ Moves(a, "nobody", "nobody") /\ Becomes(a, "BLOCKED")
    /\ UNCHANGED <<messages, lost>>
Hold(a) ==
    /\ status[a] # "SENT" /\ Moves(a, "nobody", "sending") /\ Becomes(a, "SENDING")
    /\ UNCHANGED <<messages, lost>>

(* One call: accepted, refused, or accepted without the sender hearing it.  *)
Accept(a) ==
    /\ Moves(a, "sending", "answered")
    /\ messages' = [messages EXCEPT ![a] = @ + 1]
    /\ UNCHANGED <<status, lost>>
Refuse(a) ==
    /\ Moves(a, "sending", "refused")
    /\ UNCHANGED <<status, messages, lost>>
AcceptUnheard(a) ==
    /\ Moves(a, "sending", "refused")
    /\ messages' = [messages EXCEPT ![a] = @ + 1] /\ lost' = [lost EXCEPT ![a] = @ + 1]
    /\ UNCHANGED status

(* The outcome is the answer.                                               *)
Record(a) ==
    /\ Moves(a, "answered", "nobody") /\ Becomes(a, "SENT")
    /\ UNCHANGED <<messages, lost>>
Fail(a) ==
    /\ Moves(a, "refused", "nobody") /\ Becomes(a, "FAILED")
    /\ UNCHANGED <<messages, lost>>

(* The process dies, or an exception ends its batch.                        *)
Vanish(a) ==
    /\ sender[a] # "nobody" /\ sender' = [sender EXCEPT ![a] = "nobody"]
    /\ lost' = IF sender[a] = "answered" THEN [lost EXCEPT ![a] = @ + 1] ELSE lost
    /\ UNCHANGED <<status, messages>>

AlertStep(a) ==
    \/ Block(a) \/ Hold(a) \/ Accept(a) \/ Refuse(a) \/ AcceptUnheard(a)
    \/ Record(a) \/ Fail(a) \/ Vanish(a)

Next == \E a \in Alerts : AlertStep(a)

Spec == Init /\ [][Next]_lifecycleVars
=============================================================================
