------------------------ MODULE MCClusterController ------------------------
(* Small instances of ClusterController for TLC.                           *)
EXTENDS ClusterController

CONSTANTS h1, h2

Secret(h, p) == [there |-> TRUE, host |-> h, password |-> p]

Missing == [there |-> FALSE, host |-> "absent", password |-> "absent"]

\* The secret of either server, one without a key, one with an empty value,
\* none at all.
AnySecret == {Secret(h1, h1), Secret(h2, h2), Secret(h1, "absent"), Secret("empty", h2), Missing}

=============================================================================
