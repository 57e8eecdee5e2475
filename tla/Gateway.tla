------------------------------- MODULE Gateway -------------------------------
(***************************************************************************)
(* How a request gets from a client to what serves it: the stack that      *)
(* Alchemy deploys (alchemy.run.ts), Cloudflare Access at the edge, the    *)
(* Worker (worker.ts, access-authentication.ts) and its tools (mcp.ts),    *)
(* and for a send the limit of the Durable Object, SendWindow.             *)
(*                                                                         *)
(* Edge, Worker and stack each have an opinion of who may do what, and are *)
(* not replaced at one moment: a deployment may come between them, and     *)
(* isolates with the environment of an earlier one go on serving. One      *)
(* request is followed at a time, next to the send the object serves for   *)
(* another; the Worker itself keeps nothing between requests.              *)
(*                                                                         *)
(* Left out: the bindings, which the stack always provides, the issuer of  *)
(* a token, and what the tools do, which is in the other modules.          *)
(***************************************************************************)
EXTENDS SendWindow

CONSTANT Settings   \* the configurations that are deployed, see Setting

Unset == "unset"          \* a variable that is not in the environment
Hosts == {"mcp", "admin", "localhost"}
Clients == {"hermes", "operator", "stranger"}
Paths == {"/health", "/admin/pair/", "/mcp", "/attachments/", "/attachments/stored", "/"}

\* What an operator sets. Access applications and their audiences go by the name of
\* their resource.
Setting ==
  [stage : {"production", "dev"}, hostname : Hosts \union {Unset},
   adminHostname : Hosts \union {Unset}, adminEmail : {"operator", Unset},
   audience : {"McpAccess", "AdminAccess", Unset, ""},
   authMode : {"access", "test", "other", Unset}, mode : {"real", "fake", Unset}]

ASSUME SettingsAssumption == Settings \subseteq Setting

VARIABLES deployed,  \* the setting last deployed
          running,   \* environments of the isolates there are
          request    \* the request that is followed

vars == <<deployed, running, request, windowVars>>

-----------------------------------------------------------------------------
(* alchemy.run.ts *)

withDefault(x, default) == IF x = Unset THEN default ELSE x

\* Without its mandatory variables a production stage is not deployed.
Deployable(d) ==
  d.stage = "production" => Unset \notin {d.adminHostname, d.adminEmail, d.audience}

\* The env of the Worker. An unset hostname is bound as "".
Env(d) ==
  [hostname      |-> withDefault(d.hostname, ""),
   adminHostname |-> withDefault(d.adminHostname, ""),
   audience      |-> withDefault(d.audience, "local-development"),
   authMode      |-> withDefault(d.authMode,
                                 IF d.stage = "production" THEN "access" ELSE "test"),
   mode          |-> withDefault(d.mode, "fake")]

\* The Access applications, each with a domain and the one client its policy admits.
\* Without an email there is none for the admin hostname.
Applications(d) ==
  {a \in {[name |-> "McpAccess", domain |-> d.hostname, admits |-> "hermes"],
          [name |-> "AdminAccess", domain |-> d.adminHostname,
           admits |-> IF d.adminEmail = Unset THEN Unset ELSE "operator"]} :
     Unset \notin {a.domain, a.admits}}

\* Where the Worker is reached: its domain with the alias, no workers.dev, and the
\* local server of alchemy dev.
Reachable(d) ==
  (IF d.hostname = Unset THEN {} ELSE {d.hostname, d.adminHostname} \ {Unset})
    \union (IF d.stage = "dev" THEN {"localhost"} ELSE {})

-----------------------------------------------------------------------------
(* Cloudflare Access *)

Assertion == [aud : {"McpAccess", "AdminAccess", Unset}, email : BOOLEAN, subject : BOOLEAN]
NoAssertion == [aud |-> Unset, email |-> FALSE, subject |-> FALSE]

\* What stands before a hostname. The local server is not behind the edge.
Guards(d, h) == {x \in Applications(d) : x.domain = h /\ h # "localhost"}

\* The assertions a request of client c to host h may carry when it gets past the
\* edge, none if it does not. A user has a subject, a service token need not have one.
Assertions(d, c, h) ==
  IF Guards(d, h) = {} THEN {NoAssertion}
  ELSE {a \in Assertion :
          /\ \E x \in Guards(d, h) : x.admits = c /\ a.aud = x.name
          /\ a.email = (c = "operator")
          /\ c = "operator" => a.subject}

-----------------------------------------------------------------------------
(* access-authentication.ts *)

\* What x-gmessages-test-token may say. Unset stands for every other token too: none and
\* an unknown one are refused alike.
Tokens == {"local-mcp-token", "local-admin-token", Unset}

\* The token alone decides, whoever sends it.
TestPrincipal(q) ==
  CASE q.token = "local-admin-token" -> "user"
    [] q.token = "local-mcp-token"   -> "service"
    [] OTHER                         -> "none"

\* Wrong: who has a subject is a user.
UserIfSubject(e, q) ==
  IF q.assertion.aud # e.audience THEN "none"
  ELSE IF q.assertion.subject THEN "user" ELSE "service"

AccessPrincipal(e, q) ==
  IF q.assertion.aud # e.audience \/ ~(q.assertion.subject \/ q.assertion.email) THEN "none"
  ELSE IF q.assertion.email THEN "user" ELSE "service"

authenticate(e, q) ==
  IF e.authMode = "test" THEN TestPrincipal(q) ELSE AccessPrincipal(e, q)

-----------------------------------------------------------------------------
(* worker.ts *)

\* selectAuthenticationLayer has a layer for the environment.
HasAuthentication(e) ==
  e.authMode = "test" \/ (e.authMode = "access" /\ e.audience # "")

\* Wrong: the hostname says who comes.
AuthorizedByHost(e, q, type) == q.host = e.hostname

\* Wrong: a service is served over any hostname.
AuthorizedByType(e, q, type) == type = "service"

isMcpAuthorized(e, q, type) == type = "service" /\ q.host = e.hostname

handlePairingRequest(e, q, type) ==
  IF type # "user" \/ q.host # e.adminHostname THEN "403"
  ELSE IF e.mode = "real" THEN "pairing" ELSE "409"

\* For every principal.
handleAttachmentRequest(q) == IF q.path = "/attachments/stored" THEN "attachment" ELSE "404"

\* fetch, up to what serves the request.
Route(e, q) ==
  LET type == authenticate(e, q)
  IN  IF ~HasAuthentication(e) THEN "503"
      ELSE IF type = "none" THEN "401"
      ELSE CASE q.path = "/health" -> "health"
             [] q.path = "/admin/pair/" -> handlePairingRequest(e, q, type)
             [] q.path = "/mcp" -> IF isMcpAuthorized(e, q, type) THEN "mcp" ELSE "403"
             [] q.path \in {"/attachments/", "/attachments/stored"} -> handleAttachmentRequest(q)
             [] OTHER -> "404"

-----------------------------------------------------------------------------

\* mcp: at the tools. sending: a send is with the object. result, error: the tool's
\* answer, both with status 200.
InTools == {"mcp", "sending", "result", "error"}
Refusals == {"401", "403", "404", "409", "503"}
Answers == InTools \union Refusals \union {"health", "pairing", "attachment"}

\* A request on its way from the edge, where it was let in under the setting d.
Arriving(c, h, p, t, a, d) ==
  [client |-> c, host |-> h, path |-> p, token |-> t, assertion |-> a, admitted |-> d,
   env |-> Env(d), answer |-> "none"]

NoRequest == [answer |-> "closed"]

GatewayTypeOK ==
  /\ WindowTypeOK
  /\ deployed \in Settings
  /\ running \subseteq {Env(d) : d \in Settings}
  /\ Env(deployed) \in running
  /\ request.answer \in Answers \union {"none", "closed"}
  /\ request.answer = "sending" => serving # NoSend

GatewayInit ==
  /\ WindowInit
  /\ deployed \in {d \in Settings : Deployable(d)}
  /\ running = {Env(deployed)}
  /\ request = NoRequest

Deploy(d) ==
  /\ Deployable(d) /\ d.stage = deployed.stage
  /\ deployed' = d
  /\ running' = running \union {Env(d)}
  /\ UNCHANGED <<request, windowVars>>

\* The isolates of an earlier deployment are gone.
Retire(e) ==
  /\ e \in running \ {Env(deployed)}
  /\ running' = running \ {e}
  /\ UNCHANGED <<deployed, request, windowVars>>

\* handleMcpRequest, or fetch itself, has returned the answer.
Close ==
  /\ request.answer \notin {"none", "closed", "mcp", "sending"}
  /\ request' = NoRequest
  /\ UNCHANGED <<deployed, running, windowVars>>

\* Any client may come with any token.
Arrive(c, h, p) ==
  /\ request.answer = "closed"
  /\ h \in Reachable(deployed)
  /\ \E t \in Tokens, a \in Assertions(deployed, c, h) :
       request' = Arriving(c, h, p, t, a, deployed)
  /\ UNCHANGED <<deployed, running, windowVars>>

\* An isolate, of the present deployment or of an earlier one, takes the request.
Serve(e) ==
  /\ request.answer = "none"
  /\ e \in running
  /\ request' = [request EXCEPT !.env = e, !.answer = Route(e, request)]
  /\ UNCHANGED <<deployed, running, windowVars>>

Reply(answer) == request' = [request EXCEPT !.answer = answer]

\* Any of the tools, with input that its schema accepts or not: runTool answers the
\* success or the text of the error. A send in fake mode, one that was completed
\* before, or one that fails before it gets to the provider does no more than that.
CallTool ==
  /\ request.answer = "mcp"
  /\ \E answer \in {"result", "error"} : Reply(answer)
  /\ UNCHANGED <<deployed, running, windowVars>>

\* messages.send in real mode, as it gets to the object.
CallSend ==
  /\ request.answer = "mcp" /\ request.env.mode = "real"
  /\ \/ \E s \in Sends : Stamp(s) /\ Reply("sending")
     \/ TurnAway /\ Reply("error")
  /\ UNCHANGED <<deployed, running>>

\* Wrong: the client does not hear of a send that was cut off.
SendGoesOnSilently ==
  /\ \/ ForwardSend /\ \E answer \in {"result", "error"} :
                         IF request.answer = "sending" THEN Reply(answer) ELSE UNCHANGED request
     \/ CutOffSend /\ UNCHANGED request
  /\ UNCHANGED <<deployed, running>>

\* The object goes on with the send, which may be that of a request given up before.
SendGoesOn ==
  /\ \/ ForwardSend /\ \E answer \in {"result", "error"} :
                         IF request.answer = "sending" THEN Reply(answer) ELSE UNCHANGED request
     \/ CutOffSend /\ IF request.answer = "sending" THEN Reply("error") ELSE UNCHANGED request
  /\ UNCHANGED <<deployed, running>>

\* The 30 seconds of the tool's send are over; the object goes on.
GiveUp ==
  /\ request.answer = "sending"
  /\ Reply("error")
  /\ UNCHANGED <<deployed, running, windowVars>>

TimePasses == Tick /\ UNCHANGED <<deployed, running, request>>

GatewayNext ==
  \/ \E d \in Settings : Deploy(d)
  \/ \E e \in running : Retire(e) \/ Serve(e)
  \/ \E c \in Clients, h \in Hosts, p \in Paths : Arrive(c, h, p)
  \/ CallTool \/ CallSend \/ SendGoesOn \/ GiveUp \/ TimePasses \/ Close

GatewaySpec == GatewayInit /\ [][GatewayNext]_vars

-----------------------------------------------------------------------------
(* Properties *)

\* The local token that is meant for a client.
LocalToken(c) ==
  CASE c = "hermes" -> "local-mcp-token" [] c = "operator" -> "local-admin-token"
    [] OTHER -> Unset

\* A request shows what the isolate that served it takes for client c: in test mode the
\* local token, else an assertion, which only c gets.
Presents(q, c) == IF q.env.authMode = "test" THEN q.token = LocalToken(c) ELSE q.client = c

\* Whichever deployment let the request in and whichever serves it, nobody gets to tools
\* or pairing but over the hostname of the isolate's environment and with what that
\* environment demands of its client, and without any of it nobody gets anything
\* (deployment.md:18; "missing credentials are denied", access-authentication.ts:27).
RoutesHaveTheirClients ==
  /\ request.answer \in InTools =>
       request.host = request.env.hostname /\ Presents(request, "hermes")
  /\ request.answer = "pairing" =>
       request.host = request.env.adminHostname /\ Presents(request, "operator")
  /\ request.answer \notin Refusals \union {"none", "closed"} =>
       \E c \in {"hermes", "operator"} : Presents(request, c)

\* "The MCP hostname accepts only the stage Service Auth token. The admin hostname
\* accepts only the configured operator" (deployment.md:18): where an Access application
\* stands before a hostname, that is so in every mode of the Worker, the test mode with
\* its tokens included, as long as hostnames are kept separate, as asked there, and no
\* deployment came between edge and Worker.
GuardedRoutesHaveTheirClients ==
  (/\ request.answer \in InTools \union {"pairing"}
   /\ request.env = Env(request.admitted)
   /\ Guards(request.admitted, request.host) # {}
   /\ request.admitted.hostname # request.admitted.adminHostname) =>
    request.client = IF request.answer = "pairing" THEN "operator" ELSE "hermes"

\* What the stack deploys, what the edge asserts and what the Worker demands agree: a
\* client the edge let in for the application whose audience the Worker checks, or one
\* that comes with its local token in test mode, gets what its hostname is for, unless a
\* deployment came between edge and Worker. A service token has to have a subject for it.
Agreed ==
  /\ request.answer # "none"
  /\ request.env = Env(request.admitted)
  /\ \/ request.env.authMode = "test" /\ request.token = LocalToken(request.client)
     \/ request.env.authMode = "access"
          /\ request.assertion.aud = request.env.audience /\ request.assertion.subject

ClientsAreServed ==
  (request.answer # "closed" /\ Agreed) =>
    /\ (/\ request.client = "hermes" /\ request.path = "/mcp"
        /\ request.host = request.admitted.hostname) => request.answer \in InTools
    /\ (/\ request.client = "operator" /\ request.path = "/admin/pair/"
        /\ request.host = request.admitted.adminHostname) =>
         request.answer = IF request.admitted.mode = "real" THEN "pairing" ELSE "409"

=============================================================================
