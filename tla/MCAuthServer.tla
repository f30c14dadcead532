---------------------------- MODULE MCAuthServer ----------------------------
(* Instances of AuthServer for TLC: one vendor client that is updated,      *)
(* deactivated and given a new secret, and administrators that come into    *)
(* being, by an administrator's request or as the bootstrap.                *)
EXTENDS AuthServer, TLC

CONSTANTS c1, c2, c3

Stored(roles, bootstrap) ==
    [clientSecretHashed |-> hashClientSecretBuffer("first"), roles |-> roles,
     active |-> "true", isBootstrapAdmin |-> bootstrap]

Bootstrapped == [c \in Clients |-> IF c = c1 THEN Stored({"admin"}, TRUE) ELSE NoClient]
VendorOnly == [c \in Clients |-> IF c = c1 THEN Stored({"vendor"}, FALSE) ELSE NoClient]
MCInitialClients == {VendorOnly, Bootstrapped}

Ask(op, c, secret) ==
    [op |-> op, clientId |-> c, secret |-> secret, roles |-> {}, active |-> "omitted",
     body |-> "valid", header |-> "none"]
Update(active) == [Ask("updateClient", c1, "guess") EXCEPT !.roles = {"host"}, !.active = active]
Create(roles) == [Ask("createClient", NoClientId, "guess") EXCEPT !.roles = roles]

MCInputs ==
    {[Ask("requestToken", c1, "first") EXCEPT !.body = "grantOnly", !.header = "basic"],
     Ask("requestToken", admin1, "hardcoded"),
     Ask("verifyToken", NoClientId, "guess"),
     Update("false"), Update("omitted"),
     Ask("resetSecret", c1, "guess"),
     Create({"admin"}), Create({"vendor"}),
     Ask("getClientById", NoClientId, "guess"), Ask("getClients", NoClientId, "guess")}

Token(client, roles, exp, iss) ==
    [kind |-> "signed", client_id |-> client, roles |-> roles, exp |-> exp, iss |-> iss]
MCForeign ==
    {NoBearer, Bearer("unreadable"), Token(c2, {"admin"}, 0, "own"), Token(c1, {"vendor"}, 0, "own")}
=============================================================================
