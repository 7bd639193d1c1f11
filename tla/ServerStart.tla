------------------------------ MODULE ServerStart ------------------------------
(***************************************************************************)
(* What the server makes of its configuration: config.py, create_server    *)
(* and main of server.py, config_registry.py, and the Bearer check of      *)
(* auth.py.  Paths and hosts are left out: the service is started with     *)
(* --config and --transport, and what is read there is always found there. *)
(***************************************************************************)
EXTENDS Integers, Sequences

\* A value that is not set.
None == "none"

\* _PROFILE_CONFIG
_PROFILE_CONFIG ==
    [p \in {"A", "B-core", "B-enterprise", "C"} |->
        IF p \in {"A", "C"} THEN [mode |-> "offline", override |-> FALSE]
        ELSE [mode |-> "live", override |-> TRUE]]

ForestModes == {"live", "offline"}

\* A LEGACYMCP_ variable of the allowlist sets the key of its name.  Only the profile is read
\* again: port and host are looked up under server:, and the transport is not looked up.
_apply_env_overrides(config, env) ==
    IF env.profile = None THEN config ELSE [config EXCEPT !.profile = env.profile]

\* The profile that is in force: with neither profile nor mode it is A, with a mode alone none.
Profile(config) ==
    IF config.profile = None /\ config.mode = None THEN "A" ELSE config.profile

MayOverride(config) ==
    Profile(config) = None \/ _PROFILE_CONFIG[Profile(config)].override

GlobalMode(config) ==
    IF Profile(config) = None THEN config.mode ELSE _PROFILE_CONFIG[Profile(config)].mode

\* _validate raises nothing.
Validates(config) ==
    /\ Profile(config) = None => config.mode \in ForestModes
    /\ Profile(config) # None => Profile(config) \in DOMAIN _PROFILE_CONFIG
    /\ config.forests # <<>>
    /\ \A i \in DOMAIN config.forests :
          config.forests[i].mode # None => /\ config.forests[i].mode \in ForestModes
                                           /\ MayOverride(config)
    /\ config.ssl # "half"

\* Workspace.from_config: the mode of each forest, and what that mode needs.
EffectiveMode(config, i) ==
    IF config.forests[i].mode # None THEN config.forests[i].mode ELSE GlobalMode(config)

Connects(config) ==
    \A i \in DOMAIN config.forests :
        IF EffectiveMode(config, i) = "offline" THEN config.forests[i].file
        ELSE config.forests[i].dc

\* load_config and Workspace.from_config in create_server succeed.
Loads(config, env) ==
    LET c == _apply_env_overrides(config, env)
    IN  Validates(c) /\ Connects(c)
-----------------------------------------------------------------------------
\* The first of two settings, unless it is not set.
Or(a, b) == IF a # None THEN a ELSE b

\* The port of main and create_server: command line, registry, config file, FastMCP's 8000.
Port(cli, registry, config) == Or(cli, Or(registry, Or(config.port, "8000")))

\* validate_request: "Bearer " and the key.
validate_request(request, api_key) == request.scheme = "bearer" /\ request.token = api_key

\* BearerApiKeyMiddleware.  Without an API key there is no middleware.
Admits(request, api_key) ==
    \/ api_key = 0
    \/ request.path \in {"/.well-known/x", "/token"}
    \/ validate_request(request, api_key)
================================================================================
