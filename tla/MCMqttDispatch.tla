--------------------------- MODULE MCMqttDispatch ---------------------------
(***************************************************************************)
(* Instances of MqttDispatch for TLC.                                      *)
(***************************************************************************)
EXTENDS MqttDispatch, TLC

\* The typed subscriptions of a client with OnConnection, OnState and
\* OnVisualization, and one OnTopic filter.
MCTyped == [r \in Routes |-> {"connection", "state", "visualization", "custom"}]

\* Connection messages only.
MCConnection == [r \in Routes |-> {"connection"}]

AGVSymmetry == Permutations(AGVs)
=============================================================================
