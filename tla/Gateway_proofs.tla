---------------------------- MODULE Gateway_proofs ----------------------------
(***************************************************************************)
(* Who is served what, and how many sends get through, for any settings,   *)
(* any limit and any window.                                               *)
(***************************************************************************)
EXTENDS Gateway, SendWindow_proofs

Followed ==
  [client : Clients, host : Hosts, path : Paths, token : Tokens, assertion : Assertion,
   admitted : Settings, env : {Env(d) : d \in Settings}, answer : Answers \union {"none"}]

\* An assertion is that of the client, and whatever guards the hostname admits the client.
Identified(q) ==
  /\ q.assertion.email => q.client = "operator"
  /\ (q.assertion.aud # Unset /\ ~q.assertion.email) => q.client = "hermes"
  /\ Guards(q.admitted, q.host) # {} =>
       \E x \in Guards(q.admitted, q.host) : x.admits = q.client

\* An answer is what the isolate's environment makes of the request, whatever is deployed
\* by now; the tools only add to it.
Routed(q) ==
  q.answer # "none" =>
    IF q.answer \in InTools THEN Route(q.env, q) = "mcp" ELSE Route(q.env, q) = q.answer

RequestInv ==
  \/ request = NoRequest
  \/ request \in Followed /\ Identified(request) /\ Routed(request)

DeploymentInv ==
  /\ deployed \in Settings
  /\ running \subseteq {Env(d) : d \in Settings}
  /\ Env(deployed) \in running

SendingInv == request.answer = "sending" => serving # NoSend

-----------------------------------------------------------------------------
(* The window, as a part of the whole *)

\* Only a send reaches the window, and time; everything else leaves it alone.
LEMMA WindowPartStep == [GatewayNext]_vars => [WindowNext]_windowVars
BY DEF GatewayNext, WindowNext, vars, Deploy, Retire, Serve, Arrive, CallTool, CallSend,
       SendGoesOn, GiveUp, TimePasses, Close

\* The gateway implements the send window: whatever is deployed, served and given up, the
\* object counts as it does on its own.
THEOREM WindowRefined == GatewaySpec => WindowSpec
<1>1. GatewayInit => WindowInit
  BY DEF GatewayInit
<1> QED BY <1>1, WindowPartStep, PTL DEF GatewaySpec, WindowSpec

\* Whatever is deployed and whoever calls the tools, at most SendLimit + 1 sends are
\* forwarded within a window.
THEOREM GatewayLimited == GatewaySpec => []SendsAreLimited
BY WindowRefined, Limited, PTL

-----------------------------------------------------------------------------
(* The request *)

\* The Worker answers a request itself or hands it to the tools (fetch of worker.ts).
LEMMA RouteIsAnAnswer ==
  ASSUME NEW e, NEW q
  PROVE  Route(e, q) \in (Answers \ InTools) \union {"mcp"}
BY DEF Route, handlePairingRequest, handleAttachmentRequest, Answers, InTools, Refusals

\* What the stack binds for a variable that is set, and that it binds something.
LEMMA EnvFields ==
  ASSUME NEW d
  PROVE  /\ Env(d).hostname = withDefault(d.hostname, "")
         /\ Env(d).adminHostname = withDefault(d.adminHostname, "")
         /\ Env(d).audience # Unset
         /\ Env(d).mode = "real" <=> d.mode = "real"
<1>1. /\ Env(d).audience = withDefault(d.audience, "local-development")
      /\ Env(d).mode = withDefault(d.mode, "fake")
  BY DEF Env
<1>2. "local-development" # Unset /\ "fake" # "real" /\ Unset # "real"
  BY DEF Unset
<1> QED BY <1>1, <1>2 DEF Env, withDefault

\* What comes past the edge is what the invariant speaks of.
LEMMA ArrivingIsFollowed ==
  ASSUME NEW d \in Settings, NEW c \in Clients, NEW h \in Hosts, NEW p \in Paths,
         NEW t \in Tokens, NEW a \in Assertions(d, c, h)
  PROVE  LET q == Arriving(c, h, p, t, a, d)
         IN  q \in Followed /\ Identified(q) /\ q.answer = "none"
<1>1. ASSUME NEW x \in Applications(d)
      PROVE  /\ x.name \in {"McpAccess", "AdminAccess"}
             /\ x.admits \in {"hermes", "operator"}
  BY <1>1 DEF Applications, Unset
<1> DEFINE q == Arriving(c, h, p, t, a, d)
<1>2. q.assertion = a /\ q.client = c /\ q.host = h /\ q.admitted = d
  BY DEF Arriving
<1>3. a \in Assertion /\ Identified(q)
  <2>1. CASE Guards(d, h) = {}
    <3>1. a = NoAssertion
      BY <2>1 DEF Assertions
    <3> QED BY <1>2, <2>1, <3>1 DEF NoAssertion, Assertion, Identified
  <2>2. CASE Guards(d, h) # {}
    <3>1. /\ a \in Assertion
          /\ a.email = (c = "operator")
          /\ \E x \in Guards(d, h) : x.admits = c
      BY <2>2 DEF Assertions
    <3>2. c \in {"hermes", "operator"}
      BY <1>1, <3>1 DEF Guards
    <3> QED BY <1>2, <3>1, <3>2 DEF Identified
  <2> QED BY <2>1, <2>2
<1> QED BY <1>3 DEF Arriving, Followed

\* What follows an answer of Route.
LEMMA ReplyKeeps ==
  ASSUME NEW q \in Followed, Identified(q), Routed(q), NEW answer \in InTools,
         q.answer \in InTools
  PROVE  LET r == [q EXCEPT !.answer = answer]
         IN  r \in Followed /\ Identified(r) /\ Routed(r)
BY DEF Followed, Identified, Routed, Route, authenticate, TestPrincipal, AccessPrincipal,
       handlePairingRequest, handleAttachmentRequest, isMcpAuthorized, HasAuthentication,
       InTools, Answers

\* No step of the gateway, a redeployment included, changes what an answer rests on.
LEMMA RequestStep ==
  ASSUME RequestInv, DeploymentInv, [GatewayNext]_vars
  PROVE  RequestInv'
<1>1. ASSUME NEW c \in Clients, NEW h \in Hosts, NEW p \in Paths, Arrive(c, h, p)
      PROVE  RequestInv'
  <2>1. PICK t \in Tokens, a \in Assertions(deployed, c, h) :
               request' = Arriving(c, h, p, t, a, deployed)
    BY <1>1 DEF Arrive
  <2>2. request' \in Followed /\ Identified(request') /\ request'.answer = "none"
    BY <2>1, ArrivingIsFollowed DEF DeploymentInv
  <2> QED BY <2>2 DEF RequestInv, Routed
<1>2. ASSUME NEW e \in running, Serve(e) PROVE RequestInv'
  <2>1. request \in Followed /\ Identified(request)
    BY <1>2 DEF Serve, RequestInv, NoRequest
  <2>2. e \in {Env(d) : d \in Settings}
    BY <1>2 DEF DeploymentInv
  <2>3. Route(e, request) \in (Answers \ InTools) \union {"mcp"}
    BY RouteIsAnAnswer
  <2>4. Route(e, request) \in Answers /\ "mcp" \in InTools
    BY <2>3 DEF Answers, InTools
  <2>5. request' = [request EXCEPT !.env = e, !.answer = Route(e, request)]
    BY <1>2 DEF Serve
  <2>6. request' \in Followed
    BY <2>1, <2>2, <2>4, <2>5 DEF Followed
  <2>7. /\ request'.env = e /\ request'.answer = Route(e, request)
        /\ request'.client = request.client /\ request'.host = request.host
        /\ request'.path = request.path /\ request'.assertion = request.assertion
        /\ request'.token = request.token /\ request'.admitted = request.admitted
    BY <2>1, <2>5 DEF Followed
  <2>8. Route(e, request') = Route(e, request)
    BY <2>7 DEF Route, authenticate, TestPrincipal, AccessPrincipal,
                handlePairingRequest, handleAttachmentRequest, isMcpAuthorized
  <2>9. Identified(request') /\ Routed(request')
    BY <2>1, <2>3, <2>7, <2>8 DEF Identified, Routed
  <2> QED BY <2>6, <2>9 DEF RequestInv
<1>3. ASSUME NEW answer \in InTools, request.answer \in InTools, Reply(answer)
      PROVE  RequestInv'
  <2>1. request \in Followed /\ Identified(request) /\ Routed(request)
    BY <1>3 DEF RequestInv, NoRequest, InTools
  <2> QED BY <1>3, <2>1, ReplyKeeps DEF Reply, RequestInv
<1>4. CASE CallTool \/ CallSend \/ GiveUp
  BY <1>3, <1>4 DEF CallTool, CallSend, GiveUp, InTools
<1>5. CASE SendGoesOn
  BY <1>3, <1>5 DEF SendGoesOn, InTools, RequestInv
<1>6. CASE Close
  BY <1>6 DEF Close, RequestInv
<1>7. CASE UNCHANGED request
  BY <1>7 DEF RequestInv
<1> QED
  BY <1>1, <1>2, <1>4, <1>5, <1>6, <1>7 DEF GatewayNext, vars, Deploy, Retire, TimePasses

\* The environment of what is deployed is among those that are running.
LEMMA DeploymentStep == DeploymentInv /\ [GatewayNext]_vars => DeploymentInv'
BY DEF DeploymentInv, GatewayNext, vars, Deploy, Retire, Serve, Arrive, CallTool, CallSend,
       SendGoesOn, GiveUp, TimePasses, Close

\* The object goes on with a send as long as a client waits for it.
LEMMA SendingStep ==
  ASSUME RequestInv, SendingInv, WindowTypeOK, [GatewayNext]_vars
  PROVE  SendingInv'
<1> USE DEF SendingInv
<1>1. ASSUME NEW s \in Sends, Stamp(s) PROVE serving' # NoSend
  BY <1>1, WindowAssumption DEF Stamp
<1>2. CASE request' = NoRequest
  BY <1>2 DEF NoRequest
<1>3. ASSUME NEW answer, answer # "sending", Reply(answer), request \in Followed
      PROVE  SendingInv'
  BY <1>3 DEF Reply, Followed
<1>4. request.answer # "closed" => request \in Followed
  BY DEF RequestInv, NoRequest
<1>5. CASE CallTool \/ CallSend \/ GiveUp
  BY <1>1, <1>3, <1>4, <1>5 DEF CallTool, CallSend, GiveUp
<1>6. CASE SendGoesOn
  BY <1>3, <1>4, <1>6 DEF SendGoesOn
<1>7. ASSUME NEW e \in running, Serve(e) PROVE SendingInv'
  <2>1. Route(e, request) # "sending"
    BY DEF Route, handlePairingRequest, handleAttachmentRequest
  <2> QED BY <1>4, <1>7, <2>1 DEF Serve, Followed
<1>8. ASSUME NEW c \in Clients, NEW h \in Hosts, NEW p \in Paths, Arrive(c, h, p)
      PROVE  SendingInv'
  BY <1>8 DEF Arrive, Arriving
<1>9. CASE UNCHANGED request /\ UNCHANGED serving
  BY <1>9
<1> QED
  BY <1>2, <1>5, <1>6, <1>7, <1>8, <1>9
     DEF GatewayNext, vars, windowVars, Deploy, Retire, TimePasses, Tick, Close

-----------------------------------------------------------------------------

GatewayInv == WindowTypeOK /\ DeploymentInv /\ RequestInv /\ SendingInv

\* The invariant of deployments, requests and sends.
LEMMA GatewayInvariant == GatewaySpec => []GatewayInv
<1>1. GatewayInit => GatewayInv
  BY WindowInvariantInit
     DEF GatewayInit, GatewayInv, WindowInv, DeploymentInv, RequestInv, SendingInv, NoRequest
<1>2. GatewayInv /\ [GatewayNext]_vars => GatewayInv'
  BY WindowPartStep, WindowTypeStep, DeploymentStep, RequestStep, SendingStep DEF GatewayInv
<1> QED BY <1>1, <1>2, PTL DEF GatewaySpec

\* The window keeps its types, the present environment is running, and a send whose
\* client waits is being served.
THEOREM GatewayTypeCorrect == GatewaySpec => []GatewayTypeOK
<1>1. GatewayInv => GatewayTypeOK
  BY DEF GatewayInv, GatewayTypeOK, DeploymentInv, RequestInv, SendingInv, Followed, NoRequest
<1> QED BY <1>1, GatewayInvariant, PTL

\* What a principal is made of: the local token in test mode, the assertion else.
LEMMA PrincipalsPresent ==
  ASSUME NEW q \in Followed, Identified(q)
  PROVE  /\ authenticate(q.env, q) \in {"user", "service", "none"}
         /\ authenticate(q.env, q) = "user" => Presents(q, "operator")
         /\ authenticate(q.env, q) = "service" => Presents(q, "hermes")
<1>1. PICK d \in Settings : q.env = Env(d)
  BY DEF Followed
<1>2. q.env.audience # Unset
  BY <1>1, EnvFields
<1>3. CASE q.env.authMode = "test"
  BY <1>3 DEF authenticate, TestPrincipal, Presents, LocalToken
<1>4. CASE q.env.authMode # "test"
  <2>1. authenticate(q.env, q) = AccessPrincipal(q.env, q)
    BY <1>4 DEF authenticate
  <2>2. /\ AccessPrincipal(q.env, q) \in {"user", "service", "none"}
        /\ AccessPrincipal(q.env, q) = "user" => q.assertion.email
        /\ AccessPrincipal(q.env, q) = "service" =>
             q.assertion.aud = q.env.audience /\ ~q.assertion.email
    BY DEF AccessPrincipal
  <2> QED BY <1>2, <1>4, <2>1, <2>2 DEF Identified, Presents
<1> QED BY <1>3, <1>4

\* What fetch has checked of a request when it gets to the tools, to pairing, or to
\* anything at all.
LEMMA RoutesRestOn ==
  ASSUME NEW q, authenticate(q.env, q) \in {"user", "service", "none"}
  PROVE  /\ Route(q.env, q) = "mcp" =>
              authenticate(q.env, q) = "service" /\ q.host = q.env.hostname
         /\ Route(q.env, q) = "pairing" =>
              authenticate(q.env, q) = "user" /\ q.host = q.env.adminHostname
         /\ Route(q.env, q) \notin Refusals => authenticate(q.env, q) # "none"
BY DEF Route, isMcpAuthorized, handlePairingRequest, handleAttachmentRequest, Refusals

\* Over every mixture of deployments, tools and pairing are reached only over their
\* hostnames and with the credentials that the serving isolate demands for them.
THEOREM RoutesChecked == GatewaySpec => []RoutesHaveTheirClients
<1>1. RequestInv => RoutesHaveTheirClients
  <2>1. CASE request = NoRequest
    BY <2>1 DEF NoRequest, RoutesHaveTheirClients, InTools
  <2>2. ASSUME request \in Followed, Identified(request), Routed(request)
        PROVE  RoutesHaveTheirClients
    BY <2>2, PrincipalsPresent, RoutesRestOn
       DEF Routed, RoutesHaveTheirClients, InTools, Refusals
  <2> QED BY <2>1, <2>2 DEF RequestInv
<1> QED BY <1>1, GatewayInvariant, PTL DEF GatewayInv

\* Where hostnames are separate, each has at most one application, which admits its own
\* client (alchemy.run.ts).
LEMMA GuardsAreApart ==
  ASSUME NEW d \in Setting, NEW h \in Hosts, NEW x \in Guards(d, h),
         d.hostname # d.adminHostname
  PROVE  /\ h = Env(d).hostname => x.admits = "hermes"
         /\ h = Env(d).adminHostname => x.admits = "operator"
<1>1. /\ d.hostname \in Hosts \union {Unset} /\ d.adminHostname \in Hosts \union {Unset}
      /\ "" \notin Hosts /\ h # Unset
  BY DEF Setting, Hosts, Unset
<1>2. /\ h = Env(d).hostname => h = d.hostname
      /\ h = Env(d).adminHostname => h = d.adminHostname
  BY <1>1, EnvFields DEF withDefault
<1>3. \/ x.domain = d.hostname /\ x.admits = "hermes"
      \/ x.domain = d.adminHostname /\ x.admits \in {"operator", Unset}
  BY DEF Guards, Applications
<1>4. x.domain = h /\ x.admits # Unset
  BY DEF Guards, Applications
<1> QED BY <1>2, <1>3, <1>4

\* Where Cloudflare Access stands before separate hostnames, tools and pairing are their
\* clients' in every mode of the Worker, whatever tokens are sent.
THEOREM GuardedRoutesChecked == GatewaySpec => []GuardedRoutesHaveTheirClients
<1>1. RequestInv => GuardedRoutesHaveTheirClients
  <2>1. CASE request = NoRequest
    BY <2>1 DEF NoRequest, GuardedRoutesHaveTheirClients, InTools
  <2>2. ASSUME request \in Followed, Identified(request), Routed(request),
               request.answer \in InTools \union {"pairing"},
               request.env = Env(request.admitted),
               Guards(request.admitted, request.host) # {},
               request.admitted.hostname # request.admitted.adminHostname
        PROVE  request.client = IF request.answer = "pairing" THEN "operator" ELSE "hermes"
    <3>1. request.admitted \in Setting /\ request.host \in Hosts
      BY <2>2, SettingsAssumption DEF Followed
    <3>2. PICK x \in Guards(request.admitted, request.host) : x.admits = request.client
      BY <2>2 DEF Identified
    <3>3. IF request.answer = "pairing" THEN request.host = request.env.adminHostname
                                        ELSE request.host = request.env.hostname
      BY <2>2, PrincipalsPresent, RoutesRestOn DEF Routed, InTools
    <3> QED BY <2>2, <3>1, <3>2, <3>3, GuardsAreApart
  <2> QED BY <2>1, <2>2 DEF RequestInv, GuardedRoutesHaveTheirClients
<1> QED BY <1>1, GatewayInvariant, PTL DEF GatewayInv

\* A client whose deployment, edge and Worker agree is served.
THEOREM ServiceChecked == GatewaySpec => []ClientsAreServed
<1>1. RequestInv => ClientsAreServed
  <2>1. CASE request = NoRequest
    BY <2>1 DEF NoRequest, ClientsAreServed
  <2>2. ASSUME request \in Followed, Identified(request), Routed(request), Agreed
        PROVE  ClientsAreServed
    <3> DEFINE q == request
               d == request.admitted
               e == request.env
    <3>1. /\ d \in Setting /\ e = Env(d) /\ q.answer # "none"
          /\ q.client \in Clients /\ q.host \in Hosts /\ q.answer \in Answers
          /\ q.assertion \in Assertion
      BY <2>2, SettingsAssumption DEF Agreed, Followed
    <3>2. e.audience # Unset
      BY <3>1, EnvFields DEF withDefault, Unset
    <3>3. \/ e.authMode = "test" /\ q.token = LocalToken(q.client)
          \/ /\ e.authMode = "access"
             /\ q.assertion.aud = e.audience /\ q.assertion.subject
      BY <2>2 DEF Agreed
    <3>4. HasAuthentication(e)
      BY <3>1, <3>3 DEF HasAuthentication, Assertion, Unset
    <3>5. q.client = "hermes" => authenticate(e, q) = "service"
      <4>1. CASE e.authMode = "test"
        BY <3>3, <4>1 DEF authenticate, TestPrincipal, LocalToken
      <4>2. CASE e.authMode # "test" /\ q.client = "hermes"
        <5>1. ~q.assertion.email
          BY <2>2, <4>2 DEF Identified
        <5> QED BY <3>3, <4>2, <5>1 DEF authenticate, AccessPrincipal
      <4> QED BY <4>1, <4>2
    <3>6. q.client = "operator" => authenticate(e, q) = "user"
      <4>1. CASE e.authMode = "test"
        BY <3>3, <4>1 DEF authenticate, TestPrincipal, LocalToken
      <4>2. CASE e.authMode # "test" /\ q.client = "operator"
        <5>1. q.assertion.email
          BY <2>2, <3>2, <3>3, <4>2 DEF Identified
        <5> QED BY <3>3, <4>2, <5>1 DEF authenticate, AccessPrincipal
      <4> QED BY <4>1, <4>2
    <3>7. q.host = d.hostname => q.host = e.hostname
      BY <3>1, EnvFields DEF withDefault, Hosts, Unset
    <3>8. q.host = d.adminHostname => q.host = e.adminHostname
      BY <3>1, EnvFields DEF withDefault, Hosts, Unset
    <3>9. e.mode = "real" <=> d.mode = "real"
      BY <3>1, EnvFields DEF withDefault, Unset
    <3>10. ASSUME q.client = "hermes", q.path = "/mcp", q.host = d.hostname
           PROVE  q.answer \in InTools
      <4>1. Route(e, q) = "mcp"
        BY <3>4, <3>5, <3>7, <3>10 DEF Route, isMcpAuthorized
      <4> QED BY <2>2, <3>1, <4>1 DEF Routed, InTools
    <3>11. ASSUME q.client = "operator", q.path = "/admin/pair/", q.host = d.adminHostname
           PROVE  q.answer = IF d.mode = "real" THEN "pairing" ELSE "409"
      <4>1. Route(e, q) = IF d.mode = "real" THEN "pairing" ELSE "409"
        BY <3>4, <3>6, <3>8, <3>9, <3>11 DEF Route, handlePairingRequest
      <4> QED BY <2>2, <3>1, <4>1 DEF Routed, InTools
    <3> QED BY <3>10, <3>11 DEF ClientsAreServed
  <2> QED BY <2>1, <2>2 DEF RequestInv, ClientsAreServed
<1> QED BY <1>1, GatewayInvariant, PTL DEF GatewayInv

=============================================================================
