---------------------------- MODULE Authentication ----------------------------
(***************************************************************************)
(* Who a request is from (auth.rs). A request presents a secret in its     *)
(* path, in the x-mcp-token header or as a bearer token (`secrets`), and   *)
(* its bearer token may be an unexpired OAuth access token for this        *)
(* server, issued to `oauth` (None when it is not; DurableState is about   *)
(* which are).                                                             *)
(***************************************************************************)
EXTENDS Configuration

Nobody == [who |-> None, how |-> "denied"]

\* The configured tokens that the request presents.
Presented(config, request) ==
  {i \in DOMAIN config.tokens : config.tokens[i].value \in request.secrets}

\* Mutant: MCP_ALLOW_UNAUTHENTICATED is looked at alone.
Authenticated_Lenient(config, request) ==
  CASE Presented(config, request) # {} ->
         [who |-> config.tokens[CHOOSE i \in Presented(config, request) :
                    \A j \in Presented(config, request) : i <= j].id,
          how |-> "token"]
    [] Presented(config, request) = {} /\ config.oauth /\ request.oauth # None ->
         [who |-> request.oauth, how |-> "oauth"]
    [] OTHER -> IF config.anonymous THEN [who |-> "local", how |-> "anonymous"]
                ELSE Nobody

\* authenticated_principal: the first configured token that is presented; then
\* OAuth; then nobody in particular, if there is no other way to come in.
Authenticated(config, request) ==
  CASE Presented(config, request) # {} ->
         [who |-> config.tokens[CHOOSE i \in Presented(config, request) :
                    \A j \in Presented(config, request) : i <= j].id,
          how |-> "token"]
    [] Presented(config, request) = {} /\ config.oauth /\ request.oauth # None ->
         [who |-> request.oauth, how |-> "oauth"]
    [] OTHER -> IF config.tokens = <<>> /\ ~config.oauth /\ config.anonymous
                THEN [who |-> "local", how |-> "anonymous"]
                ELSE Nobody
=============================================================================
