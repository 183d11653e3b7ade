----------------------------- MODULE Configuration -----------------------------
(***************************************************************************)
(* How the bridge reads its environment at start (config.rs): which        *)
(* environments it refuses, and the configuration it takes from the        *)
(* others.                                                                 *)
(*                                                                         *)
(* An environment is a record with one field per variable that decides     *)
(* something; None stands for a variable that is not set and, where the    *)
(* code makes no difference, for a blank one. (A blank profile or number   *)
(* is a value, and a bad one.) The numbers are kept in one function, from  *)
(* the names of those that are set to their values; Junk is a value that   *)
(* is no number. A variable's name, in capitals, is the sequence of the    *)
(* pieces it falls into when it is cut around the texts that               *)
(* is_secret_env_name looks for: NPM_TOKEN is <<"NPM_", "TOKEN">>.         *)
(***************************************************************************)
EXTENDS Integers, FiniteSets, Sequences, TLC

CONSTANT None

Junk == -1

\* The name, default and range of each number.
Ranges ==
  [accessTTL       |-> <<3600, 60, 86400>>,
   refreshTTL      |-> <<2592000, 300, 31536000>>,
   codeTTL         |-> <<300, 60, 900>>,
   failedLogins    |-> <<6, 1, 50>>,
   loginBuckets    |-> <<1024, 16, 100000>>,
   codes           |-> <<256, 16, 100000>>,
   clients         |-> <<1024, 16, 100000>>,
   accessTokens    |-> <<1024, 16, 100000>>,
   refreshTokens   |-> <<1024, 16, 100000>>,
   clientTTL       |-> <<2592000, 3600, 31536000>>,
   metadataTimeout |-> <<10, 2, 30>>,
   metadataBytes   |-> <<65536, 4096, 1048576>>,
   metadataTTL     |-> <<300, 30, 3600>>,
   loginWindow     |-> <<60, 10, 3600>>,
   port            |-> <<3000, 0, 65535>>,
   backendResponse |-> <<1048576, 16384, 16777216>>,
   sessions        |-> <<256, 1, 10000>>,
   shellTimeout    |-> <<30, 1, 600>>,
   browserTimeout  |-> <<30, 1, 300>>,
   stdout          |-> <<1048576, 4096, 16777216>>,
   stderr          |-> <<262144, 4096, 4194304>>,
   shellSlots      |-> <<2, 1, 16>>,
   browserSlots    |-> <<1, 1, 8>>]

InRange(value, range) == value \in range[2]..range[3]

\* env_u64, env_usize, env_u16: the default only replaces a variable that is not
\* set. A value out of range is refused, not moved into the range.
Number(env, name) ==
  IF name \in DOMAIN env.numbers THEN env.numbers[name] ELSE Ranges[name][1]

-----------------------------------------------------------------------------
\* validated_public_url. A URL has a scheme, may name the loopback host, and is
\* bare when it has no path, query, fragment or user information.
PublicUrlOK(env) ==
  env.url # None =>
    /\ env.url.bare
    /\ env.url.scheme = "http" => env.insecure /\ env.url.loopback
    /\ env.url.scheme \in {"https", "http"}

\* The password is known by its length.
OAuthEnabled(env) == env.url # None /\ env.password # None

\* configured_tokens: the entries of MCP_TOKENS, named or numbered by their place
\* in the list, blank ones included; MCP_TOKEN counts when there are none.
ConfiguredTokens(env) ==
  LET named  == [i \in DOMAIN env.tokens |->
                   [id    |-> IF env.tokens[i].id = None
                              THEN "user-" \o ToString(i) ELSE env.tokens[i].id,
                    value |-> env.tokens[i].value]]
      listed == SelectSeq(named, LAMBDA token : token.value # None)
  IN  IF listed # <<>> THEN listed
      ELSE IF env.token # None THEN <<[id |-> "default", value |-> env.token]>>
      ELSE <<>>

\* What is_secret_env_name looks for anywhere in a name, and at its start.
SecretParts    == {"TOKEN", "SECRET", "PASSWORD", "PASSWD", "API_KEY", "APIKEY",
                   "PRIVATE_KEY", "CREDENTIAL", "AUTH", "COOKIE"}
SecretPrefixes == {"MCP_", "CLOUDFLARE_"}

IsSecretEnvName(name) ==
  \/ \E i \in DOMAIN name : name[i] \in SecretParts
  \/ name # <<>> /\ name[1] \in SecretPrefixes

\* None of these has such a text in it, so each is one piece.
DefaultChildEnv(profile) ==
  {<<name>> : name \in
     {"PATH", "HOME", "USER", "LOGNAME", "SHELL", "LANG", "LC_ALL", "LC_CTYPE", "TERM",
      "TMPDIR", "XDG_CONFIG_HOME", "XDG_CACHE_HOME", "XDG_DATA_HOME"}
     \cup IF profile # "personal-desktop" THEN {}
          ELSE {"DISPLAY", "WAYLAND_DISPLAY", "XDG_RUNTIME_DIR",
                "DBUS_SESSION_BUS_ADDRESS", "XDG_SESSION_TYPE", "XDG_CURRENT_DESKTOP",
                "DESKTOP_SESSION", "PULSE_SERVER", "PIPEWIRE_REMOTE"}}

\* Profile::from_env
Profile(env) == IF env.profile = None THEN "personal-desktop" ELSE env.profile

-----------------------------------------------------------------------------
\* Config::from_env succeeds. Every conjunct is a refusal of its own, with which
\* the process exits (main: code 2).
Acceptable(env) ==
  /\ Profile(env) \in {"personal-desktop", "server-secure"}
  /\ env.workdirExists
  /\ env.trustProxy \in {None, "none", "cloudflare"}
  /\ PublicUrlOK(env)
  /\ \A name \in DOMAIN Ranges : InRange(Number(env, name), Ranges[name])
  /\ (env.url = None) = (env.password = None)
  /\ env.password # None => env.password >= 12
  /\ ConfiguredTokens(env) # <<>> \/ OAuthEnabled(env) \/ env.anonymous
  /\ \A name \in env.childEnvAllow : ~IsSecretEnvName(name)
  /\ env.anonymous => env.loopbackHost

\* The configuration, as far as the calls to the backend depend on it.
Config(env) ==
  [tokens       |-> ConfiguredTokens(env),
   oauth        |-> OAuthEnabled(env),
   username     |-> IF env.username = None THEN "admin" ELSE env.username,
   anonymous    |-> env.anonymous,
   loopbackHost |-> env.loopbackHost,
   durable      |-> env.stateFile # ":memory:",
   maxSessions  |-> Number(env, "sessions"),
   childEnv     |-> DefaultChildEnv(Profile(env)) \cup env.childEnvAllow]
=============================================================================
