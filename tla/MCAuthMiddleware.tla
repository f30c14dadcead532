-------------------------- MODULE MCAuthMiddleware --------------------------
(* An instance of AuthMiddleware for TLC: two requests at a time, the       *)
(* tokens of one client, and a cache that has room for one of them.         *)
EXTENDS AuthMiddleware, TLC

CONSTANTS c1

CallerToken(exp) ==
    [kind |-> "signed", client_id |-> c1, roles |-> {"vendor"}, exp |-> exp, iss |-> "own"]
MCCallers == {CallerToken(0), CallerToken(9)}
=============================================================================
