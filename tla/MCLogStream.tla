---------------------------- MODULE MCLogStream ----------------------------
(***************************************************************************)
(* A small instance of LogStream for TLC: a kind called in every poll, one *)
(* whose refresh updates the client's list, and one whose list is shared   *)
(* with a helper thread and whose field goes through FLOAT_VALID.          *)
(***************************************************************************)
EXTENDS LogStream

MCOrder == <<"CPU_CORE", "NETWORK", "SENSOR">>
MCFields == [CPU_CORE |-> {"CPU_CORE_PERC"}, NETWORK |-> {"NETWORK_INCOMING"},
             SENSOR |-> {"SENSOR_VALUE"}]
MCValue == [CPU_CORE |-> {1}, NETWORK |-> {0, 1}, SENSOR |-> {-1, 1}]
=============================================================================
