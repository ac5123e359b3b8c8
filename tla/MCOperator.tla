------------------------------ MODULE MCOperator ------------------------------
(* A small instance of Operator for TLC.                                   *)
EXTENDS Operator

CONSTANTS h1, h2, p1

Secret(h) == [there |-> TRUE, host |-> h, password |-> h]

Missing == [there |-> FALSE, host |-> "absent", password |-> "absent"]

AnySecret == {Secret(h1), Secret(h2), Missing}

EmptyServers ==
    {[h \in Hosts |->
        [role |-> NoPassword, owner |-> "none", granted |-> FALSE, repaired |-> FALSE]]}

\* The servers are alike, so let the secret name h1 if it names one at first;
\* and let them be up or down together.
Start == Init /\ adminSecret # Secret(h2) /\ up \in {{}, Hosts}

StartSpec == Start /\ [][Next]_vars /\ Fairness

=============================================================================
