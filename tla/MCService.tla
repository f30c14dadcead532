------------------------------ MODULE MCService ------------------------------
(***************************************************************************)
(* Instances of Service: two workers, three requests, two statements.      *)
(***************************************************************************)
EXTENDS Service

BothBackends == {"mongodb", "postgresql"}
==============================================================================
