--------------------------- MODULE TransferContract ---------------------------
(* What a stock transfer promises, whoever acts on it and in whatever order:  *)
(* units leave once, all that was asked; what arrives and what is reported    *)
(* missing never exceeds what left; a transfer is over when nothing is left   *)
(* on the road; it can be called off only while nothing has arrived, and      *)
(* nothing ever reopens it.                                                   *)
EXTENDS Integers

CONSTANTS
    Transfers,  \* ids of transfers
    Keys        \* ids of the items of one

VARIABLES
    phase,      \* of each transfer
    asked, sent, arrived, missing   \* units of each item of each transfer

cvars == <<phase, asked, sent, arrived, missing>>

Units == [Keys -> Nat]
Phases == {"NONE", "ASKED", "MOVING", "OVER", "CALLED_OFF"}

Init ==
    /\ phase = [t \in Transfers |-> "NONE"]
    /\ asked = [t \in Transfers |-> [k \in Keys |-> 0]]
    /\ sent = [t \in Transfers |-> [k \in Keys |-> 0]]
    /\ arrived = [t \in Transfers |-> [k \in Keys |-> 0]]
    /\ missing = [t \in Transfers |-> [k \in Keys |-> 0]]

\* Some transfers are asked for.
Ask(T) ==
    /\ \A t \in T : phase[t] = "NONE"
    /\ phase' = [t \in Transfers |-> IF t \in T THEN "ASKED" ELSE phase[t]]
    /\ asked' \in [Transfers -> Units]
    /\ \A t \in Transfers \ T : asked'[t] = asked[t]
    /\ UNCHANGED <<sent, arrived, missing>>

\* All the units of t leave.
Send(t) ==
    /\ phase[t] = "ASKED"
    /\ phase' = [phase EXCEPT ![t] = "MOVING"]
    /\ sent' = [sent EXCEPT ![t] = asked[t]]
    /\ UNCHANGED <<asked, arrived, missing>>

\* Some units of t arrive and some are reported missing.
Take(t) ==
    /\ phase[t] = "MOVING"
    /\ arrived' \in [Transfers -> Units] /\ missing' \in [Transfers -> Units]
    /\ \A u \in Transfers \ {t} : arrived'[u] = arrived[u] /\ missing'[u] = missing[u]
    /\ \A k \in Keys :
         /\ arrived[t][k] <= arrived'[t][k] /\ missing[t][k] <= missing'[t][k]
         /\ arrived'[t][k] + missing'[t][k] <= sent[t][k]
    /\ \E k \in Keys : arrived[t][k] + missing[t][k] < arrived'[t][k] + missing'[t][k]
    /\ phase' = [phase EXCEPT ![t] =
                   IF \A k \in Keys : arrived'[t][k] + missing'[t][k] = sent[t][k]
                   THEN "OVER" ELSE "MOVING"]
    /\ UNCHANGED <<asked, sent>>

\* t does not happen: it has not left, or all of it goes back.
CallOff(t) ==
    /\ phase[t] \in {"ASKED", "MOVING"}
    /\ \A k \in Keys : arrived[t][k] = 0 /\ missing[t][k] = 0
    /\ phase' = [phase EXCEPT ![t] = "CALLED_OFF"]
    /\ UNCHANGED <<asked, sent, arrived, missing>>

Next ==
    \/ \E T \in SUBSET Transfers : Ask(T)
    \/ \E t \in Transfers : Send(t) \/ Take(t) \/ CallOff(t)

Spec == Init /\ [][Next]_cvars
=============================================================================
