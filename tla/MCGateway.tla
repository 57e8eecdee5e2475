------------------------------ MODULE MCGateway ------------------------------
(* A small instance of Gateway for TLC. *)
EXTENDS Gateway, TLC

Production ==
  [stage |-> "production", hostname |-> "mcp", adminHostname |-> "admin",
   adminEmail |-> "operator", audience |-> "McpAccess", authMode |-> Unset, mode |-> "real"]

\* The .env of local-development.md with the hostname it leaves out.
Local ==
  [stage |-> "dev", hostname |-> "localhost", adminHostname |-> "localhost",
   adminEmail |-> Unset, audience |-> Unset, authMode |-> "test", mode |-> "real"]

\* A stage with the default authMode, which is test, and without Access for its admin
\* hostname.
Staging ==
  [Production EXCEPT !.stage = "dev", !.adminEmail = Unset, !.audience = Unset]

\* In production with the audience of the other application, with an empty one, without
\* an email, which is not deployed, and with hostnames that change places; the stage with
\* an email; locally without a hostname in fake mode.
SomeSettings ==
  {Production,
   [Production EXCEPT !.audience = "AdminAccess"],
   [Production EXCEPT !.audience = ""],
   [Production EXCEPT !.adminEmail = Unset],
   [Production EXCEPT !.hostname = "admin", !.adminHostname = "mcp"],
   Staging, [Staging EXCEPT !.adminEmail = "operator"], Local,
   [Local EXCEPT !.hostname = Unset, !.mode = Unset]}

Symmetry == Permutations(Sends)
=============================================================================
