-------------------------------- MODULE Gateway --------------------------------
(***************************************************************************)
(* The way of a request into the control plane: the table of endpoints of  *)
(* http.ts, who may call which, the tools of the MCP server, which come    *)
(* back through the same table with the token of their caller, and the     *)
(* tokens themselves.  What the endpoints do is the other modules'.        *)
(*                                                                         *)
(* Between the authentication of a request and its handler the body is     *)
(* read, and a tool is authenticated twice; other requests are served in   *)
(* between and may revoke the token.                                       *)
(***************************************************************************)
EXTENDS Integers, Sequences, FiniteSets

CONSTANT MaxTokens   \* bound: API tokens created

ASSUME GatewayAssumption == MaxTokens \in Nat

VARIABLES
    apiTokens,  \* the tokens, by number: scopes, who created it, revoked;
                \* history: the requests with this token that fetch() had
                \* still to authenticate when it was revoked
    calls       \* two requests: one of any kind, and another that may revoke
                \* a token meanwhile

gatewayVars == <<apiTokens, calls>>

-----------------------------------------------------------------------------
(* registerRoutes(): the endpoints in the order they are tried.  A path is  *)
(* the sequence of its segments below /api/v1; ":" stands for a parameter.  *)

Endpoint(method, path, access) ==
    [method |-> method, path |-> path, access |-> access]
Public(method, path)    == Endpoint(method, path, "public")
SignedIn(method, path)  == Endpoint(method, path, "session")
OwnerOnly(method, path) == Endpoint(method, path, "owner")

AuthRoutes ==
    << Public("GET", <<"auth", "state">>), Public("GET", <<"setup">>),
       Public("POST", <<"setup", "domain">>),
       Public("POST", <<"setup", "restore">>),
       Public("POST", <<"auth", "register", "options">>),
       Public("POST", <<"auth", "register", "verify">>),
       Public("POST", <<"auth", "login", "options">>),
       Public("POST", <<"auth", "login", "verify">>),
       SignedIn("POST", <<"auth", "logout">>),
       OwnerOnly("GET", <<"security">>), OwnerOnly("POST", <<"invitations">>),
       OwnerOnly("DELETE", <<"invitations", ":">>),
       OwnerOnly("DELETE", <<"passkeys", ":">>),
       OwnerOnly("DELETE", <<"sessions">>),
       OwnerOnly("DELETE", <<"sessions", ":">>), SignedIn("GET", <<"me">>),
       SignedIn("PATCH", <<"me">>), SignedIn("GET", <<"status">>),
       OwnerOnly("GET", <<"dashboard">>),
       OwnerOnly("GET", <<"dashboard", "events">>) >>

ConnectionRoutes ==
    << SignedIn("GET", <<"connections">>),
       SignedIn("GET", <<"connections", ":", "diagnostics">>),
       SignedIn("POST", <<"connections">>),
       SignedIn("GET", <<"connections", ":">>),
       SignedIn("PATCH", <<"connections", ":">>),
       OwnerOnly("DELETE", <<"connections", ":">>),
       SignedIn("GET", <<"connections", ":", "subscription">>),
       SignedIn("POST", <<"connections", ":", "retry">>),
       OwnerOnly("POST", <<"connections", ":", "rotate">>),
       OwnerOnly("POST", <<"connections", ":", "suspend">>),
       OwnerOnly("POST", <<"connections", ":", "resume">>) >>

RouteRoutes ==
    << SignedIn("GET", <<"routes">>),
       SignedIn("GET", <<"routes", "revisions">>),
       SignedIn("GET", <<"routes", "preview">>),
       SignedIn("POST", <<"routes">>), SignedIn("PATCH", <<"routes", ":">>),
       SignedIn("DELETE", <<"routes", ":">>),
       SignedIn("POST", <<"routes", "reorder">>),
       SignedIn("POST", <<"routes", "publish">>),
       SignedIn("POST", <<"routes", "discard">>),
       SignedIn("POST", <<"routes", "rollback", ":">>),
       OwnerOnly("GET", <<"rulesets">>),
       OwnerOnly("POST", <<"rulesets", "refresh">>) >>

SystemRoutes ==
    << SignedIn("GET", <<"traffic">>),
       SignedIn("GET", <<"system", "metrics">>),
       SignedIn("GET", <<"system">>), SignedIn("GET", <<"system", "events">>),
       SignedIn("GET", <<"engines">>),
       SignedIn("POST", <<"engines", "check">>),
       SignedIn("POST", <<"engines", ":", "check">>),
       SignedIn("GET", <<"methods">>), SignedIn("POST", <<"methods">>),
       SignedIn("POST", <<"methods", "reorder">>),
       SignedIn("PATCH", <<"methods", ":">>),
       SignedIn("DELETE", <<"methods", ":">>),
       SignedIn("GET", <<"settings">>), SignedIn("PATCH", <<"settings">>),
       OwnerOnly("POST", <<"updates", "check">>),
       OwnerOnly("POST", <<"updates", "prepare">>),
       SignedIn("GET", <<"engines", "configurations">>),
       SignedIn("POST", <<"engines", "configurations", "preview">>),
       SignedIn("POST", <<"engines", "configurations", "apply">>),
       SignedIn("POST", <<"engines", "configurations", ":", "rollback", ":">>) >>

OperationRoutes ==
    << SignedIn("GET", <<"operations">>),
       SignedIn("GET", <<"operations", "events">>),
       SignedIn("GET", <<"operations", ":">>),
       SignedIn("POST", <<"diagnostics">>),
       SignedIn("GET", <<"diagnostics", ":">>),
       SignedIn("POST", <<"diagnostics", ":", "cancel">>),
       Endpoint("POST", <<"diagnostics", ":", "claim">>, "connections:secret"),
       SignedIn("POST", <<"diagnostics", ":", "report">>),
       SignedIn("GET", <<"backups", ":">>),
       Endpoint("POST", <<"operations", "preview">>, "connections:rotate"),
       Endpoint("POST", <<"operations", "confirm">>, "connections:rotate"),
       SignedIn("POST", <<"tokens">>), SignedIn("GET", <<"tokens">>),
       SignedIn("DELETE", <<"tokens", ":">>) >>

Registry == AuthRoutes \o ConnectionRoutes \o RouteRoutes \o SystemRoutes
            \o OperationRoutes

Fits(pattern, path) ==
    /\ Len(pattern) = Len(path)
    /\ \A i \in DOMAIN path : pattern[i] \in {":", path[i]}

(* The first endpoint that fits, or 0.                                      *)
EndpointOf(method, path) ==
    LET fitting == {i \in DOMAIN Registry :
                       Registry[i].method = method /\ Fits(Registry[i].path, path)}
    IN IF fitting = {} THEN 0 ELSE CHOOSE i \in fitting : \A j \in fitting : i <= j

-----------------------------------------------------------------------------
(* Scopes, as pairs of an area and what is done in it.  The last three      *)
(* stand for "*", "read" and "write".                                       *)

AllScopes   == <<"*">>
ReadScopes  == <<"read">>
WriteScopes == <<"write">>

Reads(areas) == {<<area, "read">> : area \in areas}

readScopes ==
    Reads({"status", "traffic", "connections", "routes", "operations", "system",
           "settings", "engines", "diagnostics"})
manageScopes ==
    readScopes
    \cup {<<area, "write">> : area \in {"connections", "routes", "operations",
                                        "settings", "engines"}}
    \cup {<<"connections", "secret">>, <<"connections", "rotate">>,
          <<"diagnostics", "run">>}
allowedApiScopes == manageScopes \cup {<<"backups", "read">>}

(* The scope of an endpoint; the two that are named before the others are   *)
(* not implied by the scope of everything that reads or writes.             *)
Required(method, path) ==
    LET area == Head(path)
        kind == IF method = "GET" THEN "read" ELSE "write"
    IN CASE path = <<"status">>     -> <<"status", "read">>
         [] area = "diagnostics"    -> <<area, IF method = "GET" THEN "read" ELSE "run">>
         [] area = "dashboard"      -> <<"owner", "session">>
         [] path = <<"me">>         -> <<"settings", kind>>
         [] area = "rulesets"       -> <<"routes", kind>>
         [] area \in {"connections", "routes", "operations", "settings"} ->
                                       <<area, kind>>
         [] area \in {"traffic", "backups", "system"} -> <<area, "read">>
         [] area \in {"engines", "methods"} -> <<"engines", kind>>
         [] area = "tokens"         -> <<"tokens", "write">>
         [] OTHER                   -> <<"api", "read">>

(* The two paths that never follow from a wider scope.                      *)
Special(path) ==
    IF Len(path) = 3 /\ Head(path) = "connections" /\ path[3] \in {"subscription", "rotate"}
    THEN {<<"connections", IF path[3] = "rotate" THEN "rotate" ELSE "secret">>}
    ELSE {}

authorized(method, path, scopes) ==
    \/ AllScopes \in scopes
    \/ Special(path) # {} /\ Special(path) \subseteq scopes
    \/ /\ Special(path) = {}
       /\ \/ Required(method, path) \in scopes
          \/ method = "GET" /\ ReadScopes \in scopes
          \/ method # "GET" /\ WriteScopes \in scopes

(* requireApiScope() and ownerOnly(), which the handlers call: a session    *)
(* has no scopes and may do everything.                                     *)
HasApiScope(scopes, scope) == {AllScopes, scope} \cap scopes # {}

HandlerAllows(endpoint, action, scopes) ==
    CASE endpoint.access = "owner" -> FALSE
      [] endpoint.access = "connections:secret" ->
            HasApiScope(scopes, <<"connections", "secret">>)
      [] endpoint.access = "connections:rotate" ->
            action = "connection.rotate" =>
                HasApiScope(scopes, <<"connections", "rotate">>)
      [] OTHER -> TRUE

-----------------------------------------------------------------------------
(* createMcpServer(): what each tool sends                                  *)

Tool(name, method, path, action) ==
    [tool |-> name, method |-> method, path |-> path, action |-> action]
Get(name, path)  == Tool(name, "GET", path, "none")
Post(name, path) == Tool(name, "POST", path, "none")

SystemTools ==
    {Get("settings_get", <<"settings">>),
     Tool("settings_update", "PATCH", <<"settings">>, "none"),
     Get("outpost_status", <<"status">>), Get("traffic_get", <<"traffic">>),
     Get("system_metrics_get", <<"system", "metrics">>),
     Get("connection_diagnostics_get", <<"connections", "x", "diagnostics">>),
     Get("events_get", <<"system", "events">>),
     Get("operations_get", <<"operations">>), Get("operations_get", <<"operations", "x">>),
     Post("diagnostic_run", <<"diagnostics">>),
     Get("diagnostic_get", <<"diagnostics", "x">>),
     Post("diagnostic_cancel", <<"diagnostics", "x", "cancel">>)}

ConnectionTools ==
    {Get("connections_list", <<"connections">>),
     Post("connection_create", <<"connections">>),
     Get("connection_subscription", <<"connections", "x", "subscription">>),
     Tool("connection_rotate", "POST", <<"operations", "preview">>, "connection.rotate"),
     Get("routes_get", <<"routes">>), Post("route_add", <<"routes">>),
     Post("routes_publish", <<"routes", "publish">>),
     Tool("operation_preview", "POST", <<"operations", "preview">>, "service.restart"),
     Tool("operation_preview", "POST", <<"operations", "preview">>, "connection.rotate"),
     Tool("operation_confirm", "POST", <<"operations", "confirm">>, "service.restart"),
     Tool("operation_confirm", "POST", <<"operations", "confirm">>, "connection.rotate")}

EngineTools ==
    {Get("engines_get", <<"engines">>), Post("engines_check", <<"engines", "check">>),
     Post("engines_check", <<"engines", "x", "check">>),
     Get("methods_get", <<"methods">>), Post("method_create", <<"methods">>),
     Tool("method_update", "PATCH", <<"methods", "x">>, "none"),
     Tool("method_delete", "DELETE", <<"methods", "x">>, "none"),
     Post("methods_reorder", <<"methods", "reorder">>)}

Tools == SystemTools \cup ConnectionTools \cup EngineTools

Sample(pattern) ==
    [k \in DOMAIN pattern |-> IF pattern[k] = ":" THEN "x" ELSE pattern[k]]

(* Every endpoint, called directly.                                         *)
Direct ==
    {Tool("none", Registry[i].method, Sample(Registry[i].path), "none") :
        i \in DOMAIN Registry}

-----------------------------------------------------------------------------
(* Tokens and requests                                                      *)

OwnerSession == 0    \* the caller of a request: the owner's session, a token,
Anonymous    == -1   \* or neither

Scopes(caller) == IF caller > 0 THEN apiTokens[caller].scopes ELSE {}
ValidCaller(caller) ==
    caller = OwnerSession \/ (caller > 0 /\ ~ apiTokens[caller].revoked)

IdleCall == [state |-> "idle"]

GatewayInit == apiTokens = <<>> /\ calls = [n \in {"any", "token"} |-> IdleCall]

Becomes(n, state) == calls' = [calls EXCEPT ![n].state = state]

(* A request arrives, and is for a tool or for the API.  handleMcp() takes  *)
(* tokens only and authenticates before it reads the body.                  *)
Arrives(n, what, caller) ==
    /\ what.tool # "none" => caller # OwnerSession
    /\ calls' = [calls EXCEPT ![n] =
                   [what |-> what, caller |-> caller,
                    state |-> IF what.tool = "none" THEN "sent"
                              ELSE IF ValidCaller(caller) THEN "mcp" ELSE "refused"]]
    /\ UNCHANGED apiTokens

Arrive ==
    /\ calls["any"].state = "idle"
    /\ \E what \in Tools \cup Direct, caller \in Anonymous..Len(apiTokens) :
          Arrives("any", what, caller)

(* Another request meanwhile: only a revocation changes what the first one  *)
(* reads.                                                                   *)
ArriveMeanwhile ==
    /\ calls["token"].state = "idle"
    /\ \E what \in Direct :
          what.path = <<"tokens", "x">> /\ Arrives("token", what, OwnerSession)

(* The answer has been sent.                                                *)
Answered(n) ==
    /\ calls[n].state \in {"done", "refused", "missing", "invalid"}
    /\ calls' = [calls EXCEPT ![n] = IdleCall]
    /\ UNCHANGED apiTokens

(* The body of a tool's call has been read: it is sent on, with the token.  *)
Dispatch(n) ==
    /\ calls[n].state = "mcp"
    /\ Becomes(n, "sent")
    /\ UNCHANGED apiTokens

(* Mutant of Authenticated: a tool's call is not authenticated again.       *)
AuthenticatedOnce(what, caller) == what.tool # "none" \/ ValidCaller(caller)

(* fetch() authenticates every request, one that handleMcp() has            *)
(* authenticated too.                                                       *)
Authenticated(what, caller) == ValidCaller(caller)

(* fetch(), up to the handler.                                              *)
Route(n) ==
    LET what     == calls[n].what
        found    == EndpointOf(what.method, what.path)
        endpoint == Registry[found]
        caller   == calls[n].caller
    IN /\ calls[n].state = "sent"
       /\ Becomes(n, CASE found = 0 -> "missing"
                       [] found > 0 /\ endpoint.access = "public" -> "routed"
                       [] found > 0 /\ endpoint.access # "public" ->
                            IF /\ Authenticated(what, caller)
                               /\ \/ caller = OwnerSession
                                  \/ authorized(what.method, what.path, Scopes(caller))
                            THEN "routed" ELSE "refused")
       /\ UNCHANGED apiTokens

(* The requests that have still to be authenticated by fetch().             *)
Unauthenticated == {n \in DOMAIN calls : calls[n].state \in {"mcp", "sent"}}

(* The handler, once the body has been read.  The requests about tokens     *)
(* change them: createApiToken(), revokeApiToken().                         *)
Handle(n) ==
    LET what     == calls[n].what
        endpoint == Registry[EndpointOf(what.method, what.path)]
        caller   == calls[n].caller
        allows   == \/ caller = OwnerSession \/ endpoint.access = "public"
                    \/ HandlerAllows(endpoint, what.action, Scopes(caller))
        Done     == Becomes(n, "done")
    IN /\ calls[n].state = "routed"
       /\ \/ ~ allows /\ Becomes(n, "refused") /\ UNCHANGED apiTokens
          \/ /\ allows /\ endpoint.path = <<"tokens">> /\ what.method = "POST"
             /\ \E scopes \in {readScopes, allowedApiScopes,
                               {<<"operations", "write">>, <<"connections", "write">>},
                               {<<"tokens", "write">>}, {AllScopes}} :
                   IF scopes \subseteq allowedApiScopes /\ Len(apiTokens) < MaxTokens
                   THEN /\ apiTokens' = Append(apiTokens,
                              [scopes |-> scopes, by |-> caller, revoked |-> FALSE,
                               waiting |-> {}])
                        /\ Done
                   ELSE Becomes(n, "invalid") /\ UNCHANGED apiTokens
          \/ /\ allows /\ endpoint.path = <<"tokens", ":">>
             /\ \/ /\ \A id \in DOMAIN apiTokens : apiTokens[id].revoked
                   /\ Becomes(n, "invalid") /\ UNCHANGED apiTokens
                \/ \E id \in DOMAIN apiTokens :
                      /\ ~ apiTokens[id].revoked
                      /\ apiTokens' = [apiTokens EXCEPT ![id].revoked = TRUE,
                                                       ![id].waiting = Unauthenticated]
                      /\ Done
          \/ allows /\ Head(endpoint.path) # "tokens" /\ Done /\ UNCHANGED apiTokens
          \/ /\ allows /\ endpoint.path = <<"tokens">> /\ what.method = "GET"
             /\ Done /\ UNCHANGED apiTokens

GatewayNext ==
    \/ Arrive
    \/ ArriveMeanwhile
    \/ \E n \in DOMAIN calls : Dispatch(n) \/ Route(n) \/ Handle(n) \/ Answered(n)

GatewaySpec == GatewayInit /\ [][GatewayNext]_gatewayVars

-----------------------------------------------------------------------------
(* The permissions docs/MCP.md names for a tool.                            *)
Documented(what) ==
    CASE what.tool = "settings_get"    -> {<<"settings", "read">>}
      [] what.tool = "settings_update" -> {<<"settings", "write">>}
      [] what.tool = "outpost_status"  -> {<<"status", "read">>}
      [] what.tool = "traffic_get"     -> {<<"traffic", "read">>}
      [] what.tool \in {"system_metrics_get", "events_get"} -> {<<"system", "read">>}
      [] what.tool \in {"connection_diagnostics_get", "connections_list"} ->
            {<<"connections", "read">>}
      [] what.tool = "connection_create"       -> {<<"connections", "write">>}
      [] what.tool = "connection_subscription" -> {<<"connections", "secret">>}
      [] what.tool = "operations_get"  -> {<<"operations", "read">>}
      [] what.tool = "diagnostic_get"  -> {<<"diagnostics", "read">>}
      [] what.tool \in {"diagnostic_run", "diagnostic_cancel"} -> {<<"diagnostics", "run">>}
      [] what.tool = "routes_get"      -> {<<"routes", "read">>}
      [] what.tool \in {"route_add", "routes_publish"} -> {<<"routes", "write">>}
      [] what.tool = "operation_preview" -> {<<"operations", "write">>}
      [] what.tool \in {"operation_confirm", "connection_rotate"} ->
            {<<"operations", "write">>}
            \cup (IF what.action = "connection.rotate"
                  THEN {<<"connections", "rotate">>} ELSE {})
      [] what.tool \in {"engines_get", "methods_get"} -> {<<"engines", "read">>}
      [] OTHER                         -> {<<"engines", "write">>}

(* The preview of connection.rotate asks for connections:rotate, which      *)
(* docs/MCP.md (line 47) does not name for operation_preview; http.ts does  *)
(* (line 421), and a test of the API relies on it (api.test.ts, 297-312).   *)
Undocumented(what) ==
    IF what.tool = "operation_preview" /\ what.action = "connection.rotate"
    THEN {<<"connections", "rotate">>} ELSE {}

Needs(what) == Documented(what) \cup Undocumented(what)

(* A tool needs the permissions documented for it, and the preview of a     *)
(* rotation one that is not: with these it is served, unless its token is   *)
(* revoked meanwhile, and without one of them it is refused.  A token that  *)
(* is revoked before fetch() has authenticated a request serves it no more, *)
(* also when handleMcp() had authenticated it before the body was read.  No *)
(* endpoint is hidden behind an earlier one, and every token was created by *)
(* a session, whatever tokens are used for (authorized, requireApiScope,    *)
(* registerRoutes, createMcpServer).                                        *)
CallsAreAuthorised ==
    /\ \A n \in DOMAIN calls : calls[n].state # "idle" =>
          LET what     == calls[n].what
              caller   == calls[n].caller
              endpoint == Registry[EndpointOf(what.method, what.path)]
              enough   == Needs(what) \subseteq Scopes(caller)
          IN /\ what.tool # "none" =>
                   /\ calls[n].state = "done" => enough
                   /\ calls[n].state = "refused" => ~ enough \/ ~ ValidCaller(caller)
             /\ calls[n].state \in {"routed", "done"} /\ endpoint.access # "public"
                /\ caller > 0 => n \notin apiTokens[caller].waiting
             /\ Sample(endpoint.path) = what.path
    /\ \A id \in DOMAIN apiTokens : apiTokens[id].by = OwnerSession
=============================================================================
