------------------------------ MODULE MCFederation ------------------------------
(***************************************************************************)
(* The environments that Federation is checked with.                       *)
(***************************************************************************)
EXTENDS Federation

OneCluster == {Environment(FALSE, rosa, metallb, Tests, 1) : rosa, metallb \in BOOLEAN}
              \ {Environment(FALSE, TRUE, TRUE, Tests, 1)}
TwoKubeconfigs == {Environment(TRUE, rosa, FALSE, Tests, 0) : rosa \in BOOLEAN}
WithReruns == {Environment(TRUE, FALSE, FALSE, <<"failover", "split">>, 1)}
WithMetalLB == {Environment(TRUE, FALSE, TRUE, <<"failover">>, 0),
                Environment(TRUE, FALSE, TRUE, <<"split">>, 0)}

Environments == OneCluster \cup TwoKubeconfigs \cup WithReruns \cup WithMetalLB

================================================================================
