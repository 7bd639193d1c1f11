------------------------------ MODULE Deployment -------------------------------
(***************************************************************************)
(* The machine of a Profile B server: Setup-LegacyMCP.ps1 installs and     *)
(* reconfigures it step by step and may stop or lose power after any step; *)
(* the service (NSSM) starts the server and starts it again whenever it    *)
(* exits; main() of server.py finds in the registry, config.yaml and the   *)
(* certificate files whatever Setup has left there.  Left out: the venv's  *)
(* contents, the firewall rule, the event log and the snapshot path.       *)
(***************************************************************************)
EXTENDS ServerStart, FiniteSets

CONSTANTS Account,        \* service accounts
          Ports,
          ConfigSet,      \* what the administrator may make of config.yaml
          Template,       \* config.example-B.yaml
          EnvProfiles,    \* what he may set LEGACYMCP_PROFILE to
          MaxOps,         \* bound: runs of Setup
          MaxEdits,       \* bound: edits of config.yaml
          MaxInterrupts,  \* bound: runs of Setup that end early, and reboots
          MaxGlitches     \* bound: calls that fail for no lasting reason

\* config.yaml: the profile and the mode it names, whether its TLS paths are absent, half there,
\* those of the certs directory or others, the port, and the forests.
ASSUME DeploymentAssumption ==
    /\ None \notin Account /\ None \notin Ports
    /\ \A c \in ConfigSet \cup {Template} :
          DOMAIN c = {"profile", "mode", "ssl", "port", "forests"} /\ c.forests # <<>>
    /\ {MaxOps, MaxEdits, MaxInterrupts, MaxGlitches} \subseteq Nat

VARIABLES cert,      \* server.crt: the number of its key pair, 0 if absent or torn
          key,       \* server.key: its key pair and the number of its password, 0 if plain
          yaml,      \* config.yaml, or NoConfig
          binaries,  \* the venv is there
          registry,  \* HKLM\SOFTWARE\LegacyMCP
          service,   \* the Windows service
          env,       \* the LEGACYMCP_ variables of the service
          setup,     \* the run of Setup: its steps, the number of the next, and what it holds
          srv,       \* the server process
          hist,      \* history: how Setup's runs ended, and with which accounts
          counts     \* the numbers given out, and what the bounds count

machine == <<cert, key, yaml, binaries, registry, service, env>>
vars == <<machine, setup, srv, hist, counts>>

NoConfig == [Template EXCEPT !.forests = <<>>]
NoKey == [pair |-> 0, no |-> 0]

\* What ConvertTo-DpapiNGSecret gives: the secret of that number, for that account only.
Secret(account, no) == [account |-> account, no |-> no]
NoSecret == Secret(None, 0)

NoSetup == [op |-> None, steps |-> <<>>, next |-> 1,
            account |-> None, port |-> "8000", blob |-> NoSecret]
Off == [pc |-> "off", api |-> 0, whole |-> TRUE, password |-> 0, port |-> "8000",
        tls |-> FALSE, current |-> TRUE]

Init == /\ cert = 0 /\ key = NoKey /\ yaml = NoConfig /\ binaries = FALSE
        /\ registry = [root |-> FALSE, apikey |-> NoSecret, blob |-> NoSecret, port |-> None]
        /\ service = [installed |-> FALSE, running |-> FALSE, account |-> None]
        /\ env = [profile |-> None]
        /\ setup = NoSetup /\ srv = Off
        /\ hist = [last |-> None, clean |-> TRUE, used |-> {}]
        /\ counts = [pairs |-> 0, keys |-> 0, ops |-> 0, edits |-> 0, interrupts |-> 0,
                     glitches |-> 0]
-----------------------------------------------------------------------------
Idle == setup.op = None

\* Configure of a machine without the service does not count as clean: the registry key it makes
\* passes for an installation.
Begin(op, steps, account, port) ==
    /\ Idle /\ counts.ops < MaxOps
    /\ setup' = [NoSetup EXCEPT !.op = op, !.steps = steps, !.account = account, !.port = port]
    /\ hist' = [hist EXCEPT !.last = None, !.used = @ \cup ({account} \ {None}),
                            !.clean = @ /\ (op = "configured" => service.installed)]
    /\ counts' = [counts EXCEPT !.ops = @ + 1]

\* Slip: the blob of a regenerated key is left to Configure.
InstallStepsNoBlob(keep, imported, given) ==
    <<"binaries">>
    \o (IF keep THEN <<>>
        ELSE IF imported THEN <<"copy_cert", "copy_key">> ELSE <<"new_cert", "new_key">>)
    \o (IF given \/ ~keep THEN <<"api_key">> ELSE <<>>)
    \o <<"config", "ssl", "yaml_port", "service", "registry", "start">>

\* Slip: what is kept needs no change of config.yaml.
InstallStepsKeepNoSsl(keep, imported, given) ==
    <<"binaries">>
    \o (IF keep THEN <<>>
        ELSE IF imported THEN <<"copy_cert", "copy_key">>
        ELSE <<"new_cert", "new_key", "protect">>)
    \o (IF given \/ ~keep THEN <<"api_key">> ELSE <<>>)
    \o <<"config">> \o (IF keep THEN <<>> ELSE <<"ssl">>)
    \o <<"yaml_port", "service", "registry", "start">>

\* The steps of Install: existing credentials are kept, or a certificate is imported or made;
\* "given" stands for -ApiKey.
InstallSteps(keep, imported, given) ==
    <<"binaries">>
    \o (IF keep THEN <<>>
        ELSE IF imported THEN <<"copy_cert", "copy_key">>
        ELSE <<"new_cert", "new_key", "protect">>)
    \o (IF given \/ ~keep THEN <<"api_key">> ELSE <<>>)
    \o <<"config", "ssl", "yaml_port", "service", "registry", "start">>

\* Whether there is something to keep is decided by the registry key alone.  The service of an
\* existing installation is stopped first.
Install ==
    /\ \E account \in Account, port \in Ports, imported, given \in BOOLEAN :
         \E keep \in IF registry.root THEN BOOLEAN ELSE {FALSE} :
            Begin(IF keep THEN "kept" ELSE IF imported THEN "imported" ELSE "regenerated",
                  InstallSteps(keep, imported, given), account, port)
    /\ service' = IF registry.root THEN [service EXCEPT !.running = FALSE] ELSE service
    /\ srv' = IF registry.root THEN Off ELSE srv
    /\ UNCHANGED <<env, cert, key, yaml, binaries, registry>>

\* The account that Configure encrypts for: -ServiceAccount, or that of the service if any.
ConfigureAccounts ==
    Account \cup {IF service.installed THEN service.account ELSE None}

\* Configure: without an account nothing but an import goes on, which needs config.yaml.
Configure ==
    /\ \E account \in ConfigureAccounts, port \in Ports :
         \/ /\ yaml # NoConfig
            /\ Begin("configured", <<"copy_cert", "copy_key", "ssl", "encrypt", "store_blob">>,
                     account, port)
         \/ /\ account # None
            /\ \/ Begin("configured", <<"new_cert", "new_key", "write_blob", "ssl", "restart">>,
                        account, port)
               \/ Begin("configured", <<"api_key">>, account, port)
         \/ Begin("configured", <<"registry_port", "yaml_port", "restart">>, None, port)
    /\ UNCHANGED <<machine, srv>>

\* Without -Purge the registry, config.yaml and the certificate stay.
Uninstall ==
    /\ \E purge \in BOOLEAN :
         Begin("uninstalled", <<"remove_service", "remove_binaries">>
                              \o (IF purge THEN <<"remove_registry", "remove_data">> ELSE <<>>),
               None, "8000")
    /\ UNCHANGED <<machine, srv>>
-----------------------------------------------------------------------------
\* What comes next is the step of that name.
AtStep(name) == setup.next \in DOMAIN setup.steps /\ setup.steps[setup.next] = name

Step(name) == AtStep(name) /\ setup' = [setup EXCEPT !.next = @ + 1]

\* Something went wrong that Setup only warns of.
Warned == hist' = [hist EXCEPT !.clean = FALSE]

MakeBinaries == /\ Step("binaries")
                /\ binaries' = TRUE
                /\ UNCHANGED <<env, cert, key, yaml, registry, service, srv, hist, counts>>

\* New-LMSelfSignedCert, which writes the certificate, and then the key, encrypted with a password
\* of its own; Import-LMCert, which copies both.  The first needs the venv.
CertFile == /\ \/ Step("new_cert") /\ binaries
               \/ Step("copy_cert")
            /\ cert' = counts.pairs + 1
            /\ counts' = [counts EXCEPT !.pairs = @ + 1]
            /\ UNCHANGED <<env, key, yaml, binaries, registry, service, srv, hist>>

KeyFile == /\ \/ Step("new_key") /\ key' = [pair |-> cert, no |-> cert]
              \/ Step("copy_key") /\ key' = [pair |-> cert, no |-> 0]
           /\ UNCHANGED <<env, cert, yaml, binaries, registry, service, srv, hist, counts>>

\* Protect-LMKeyPasswordBlob in Install: the blob is kept in memory until the registry step.
Protect == /\ AtStep("protect")
           /\ setup' = [setup EXCEPT !.next = @ + 1, !.blob = Secret(setup.account, key.no)]
           /\ UNCHANGED <<machine, srv, hist, counts>>

\* Protect-LMApiKey
ApiKey == /\ Step("api_key")
          /\ registry' = [registry EXCEPT !.root = TRUE,
                                          !.apikey = Secret(setup.account, counts.keys + 1)]
          /\ counts' = [counts EXCEPT !.keys = @ + 1]
          /\ srv' = [srv EXCEPT !.current = FALSE]
          /\ UNCHANGED <<env, cert, key, yaml, binaries, service, hist>>

\* config.yaml is made from the template if there is none, or if the answer is y; ConfigPath is
\* written to the registry.
ConfigFile == /\ Step("config")
              /\ \/ yaml' = Template
                 \/ yaml # NoConfig /\ yaml' = yaml
              /\ registry' = [registry EXCEPT !.root = TRUE]
              /\ UNCHANGED <<env, cert, key, binaries, service, srv, hist, counts>>

\* Update-LMYamlSslFields and Update-LMYamlPort replace the file by a whole new one.
YamlFile == /\ yaml # NoConfig
            /\ \/ Step("ssl") /\ yaml' = [yaml EXCEPT !.ssl = "certs"]
               \/ Step("yaml_port") /\ yaml' = [yaml EXCEPT !.port = setup.port]
            /\ UNCHANGED <<env, cert, key, binaries, registry, service, srv, hist, counts>>

\* Install-LMService: the service that was there is stopped and removed.
ServiceStep == /\ Step("service")
               /\ service' = [installed |-> TRUE, running |-> FALSE, account |-> setup.account]
               /\ srv' = Off
               /\ UNCHANGED <<env, cert, key, yaml, binaries, registry, hist, counts>>

\* Slip: the blob is written whether or not there is a new one.
RegistryBlobAlways ==
    /\ Step("registry")
    /\ registry' = [registry EXCEPT !.root = TRUE, !.port = setup.port, !.blob = setup.blob]
    /\ srv' = [srv EXCEPT !.current = FALSE]
    /\ UNCHANGED <<env, cert, key, yaml, binaries, service, hist, counts>>

\* The registry step of Install, and the port of Configure: a blob only if there is a new one.
RegistryStep ==
    /\ \/ /\ Step("registry")
          /\ registry' = [registry EXCEPT !.root = TRUE, !.port = setup.port,
                                          !.blob = IF setup.blob = NoSecret THEN @ ELSE setup.blob]
       \/ Step("registry_port") /\ registry' = [registry EXCEPT !.root = TRUE, !.port = setup.port]
    /\ srv' = [srv EXCEPT !.current = FALSE]
    /\ UNCHANGED <<env, cert, key, yaml, binaries, service, hist, counts>>

\* Start-Service, and Restart-Service, which needs a service.
StartStep == /\ \/ Step("start")
                \/ Step("restart") /\ service.installed
             /\ service' = [service EXCEPT !.running = TRUE]
             /\ srv' = Off
             /\ UNCHANGED <<env, cert, key, yaml, binaries, registry, hist, counts>>

\* Invoke-LMReplaceCert encrypts the imported key where it is, if the venv is there.
Encrypt == /\ Step("encrypt")
           /\ key' = IF binaries THEN [key EXCEPT !.no = key.pair] ELSE key
           /\ UNCHANGED <<env, cert, yaml, binaries, registry, service, srv, hist, counts>>

\* The password of the imported key: a failure, or an unknown account, is a warning.
StoreBlob ==
    /\ Step("store_blob")
    /\ \/ key.no = 0 /\ UNCHANGED <<registry, hist>>
       \/ /\ key.no # 0 /\ setup.account # None
          /\ registry' = [registry EXCEPT !.root = TRUE, !.blob = Secret(setup.account, key.no)]
          /\ UNCHANGED hist
       \/ key.no # 0 /\ Warned /\ UNCHANGED registry
    /\ UNCHANGED <<env, cert, key, yaml, binaries, service, srv, counts>>

\* The password of the rotated key: a failure is fatal.
WriteBlob == /\ Step("write_blob")
             /\ registry' = [registry EXCEPT !.root = TRUE,
                                             !.blob = Secret(setup.account, key.no)]
             /\ UNCHANGED <<env, cert, key, yaml, binaries, service, srv, hist, counts>>

\* Slip: the process is left running.
RemoveServiceOnly ==
    /\ Step("remove_service")
    /\ service' = [installed |-> FALSE, running |-> FALSE, account |-> None]
    /\ UNCHANGED <<env, cert, key, yaml, binaries, registry, srv, hist, counts>>

\* Uninstall-LMService
RemoveService ==
    /\ Step("remove_service")
    /\ service' = [installed |-> FALSE, running |-> FALSE, account |-> None]
    /\ srv' = Off
    /\ UNCHANGED <<env, cert, key, yaml, binaries, registry, hist, counts>>

\* What cannot be removed is left, with a warning.
RemoveBinaries == /\ Step("remove_binaries")
                  /\ binaries' \in {FALSE, binaries}
                  /\ UNCHANGED <<env, cert, key, yaml, registry, service, srv, hist, counts>>

RemoveRegistry ==
    /\ Step("remove_registry")
    /\ \/ /\ registry' = [root |-> FALSE, apikey |-> NoSecret, blob |-> NoSecret, port |-> None]
          /\ UNCHANGED hist
       \/ Warned /\ UNCHANGED registry
    /\ srv' = [srv EXCEPT !.current = FALSE]
    /\ UNCHANGED <<env, cert, key, yaml, binaries, service, counts>>

RemoveData == /\ Step("remove_data")
              /\ \/ cert' = 0 /\ key' = NoKey /\ yaml' = NoConfig /\ UNCHANGED hist
                 \/ Warned /\ UNCHANGED <<cert, key, yaml>>
              /\ UNCHANGED <<env, binaries, registry, service, srv, counts>>

Finish == /\ ~Idle /\ setup.next \notin DOMAIN setup.steps
          /\ setup' = NoSetup
          /\ hist' = [hist EXCEPT !.last = setup.op]
          /\ UNCHANGED <<machine, srv, counts>>

\* A step fails, or is never taken: Setup throws, exits with 1, or is stopped.  The file that the
\* step writes may be torn.
Stops ==
    /\ ~Idle
    /\ setup' = NoSetup
    /\ hist' = [hist EXCEPT !.last = None, !.clean = FALSE]
    /\ cert' \in {cert} \cup (IF \E s \in {"new_cert", "copy_cert"} : AtStep(s) THEN {0} ELSE {})
    /\ key' \in {key} \cup (IF \E s \in {"new_key", "copy_key", "encrypt"} : AtStep(s)
                            THEN {NoKey} ELSE {})

Interrupt == /\ counts.interrupts < MaxInterrupts /\ Stops
             /\ counts' = [counts EXCEPT !.interrupts = @ + 1]
             /\ UNCHANGED <<env, yaml, binaries, registry, service, srv>>

\* The machine starts again, and with it the service (SERVICE_AUTO_START).
Reboot == /\ counts.interrupts < MaxInterrupts
          /\ IF Idle THEN UNCHANGED <<setup, hist, cert, key>> ELSE Stops
          /\ service' = [service EXCEPT !.running = service.installed]
          /\ srv' = Off
          /\ counts' = [counts EXCEPT !.interrupts = @ + 1]
          /\ UNCHANGED <<env, yaml, binaries, registry>>

\* An administrator, or Manage-Workspaces.ps1, edits config.yaml, perhaps the TLS paths in it, or
\* sets a variable.
Edit == /\ Idle /\ counts.edits < MaxEdits
        /\ \/ /\ yaml # NoConfig
              /\ \E c \in ConfigSet, ssl \in {yaml.ssl, "none", "half"} :
                    yaml' = [c EXCEPT !.ssl = ssl, !.port = yaml.port]
              /\ UNCHANGED env
           \/ env' \in [profile : EnvProfiles] /\ UNCHANGED yaml
        /\ counts' = [counts EXCEPT !.edits = @ + 1]
        /\ UNCHANGED <<cert, key, binaries, registry, service, setup, srv, hist>>

\* Restart-Service, as Configure asks for when it is through.
RestartService == /\ Idle /\ service.installed /\ srv.pc = "serving"
                  /\ srv' = Off
                  /\ UNCHANGED <<machine, setup, hist, counts>>
-----------------------------------------------------------------------------
\* The account of the service, and no other, can decrypt what was encrypted for it.
Decrypts(secret) == secret.account = service.account

Glitch == /\ counts.glitches < MaxGlitches
          /\ counts' = [counts EXCEPT !.glitches = @ + 1]

\* main() goes on, or raises or exits; the service manager then starts it again.
Goto(next) == srv' = next /\ UNCHANGED <<machine, setup, hist>>

Launch == /\ service.running /\ srv.pc = "off"
          /\ Goto([Off EXCEPT !.pc = "registry"])
          /\ UNCHANGED counts

\* Slip: a key that cannot be decrypted is no key, as before SEC-H2.
ReadRegistryLenient ==
    /\ srv.pc = "registry"
    /\ Goto([srv EXCEPT !.pc = "create", !.current = TRUE, !.port = registry.port,
                        !.api = IF Decrypts(registry.apikey) THEN registry.apikey.no ELSE 0])
    /\ UNCHANGED counts

\* read_registry_config: an ApiKey that is there must be decrypted.
ReadRegistry ==
    /\ srv.pc = "registry"
    /\ Goto(IF registry.apikey = NoSecret \/ Decrypts(registry.apikey)
            THEN [srv EXCEPT !.pc = "create", !.current = TRUE, !.api = registry.apikey.no,
                             !.port = registry.port]
            ELSE Off)
    /\ UNCHANGED counts

\* The helper times out, and main exits; or something else goes wrong, and the registry is taken
\* to be empty.
ReadRegistryFails ==
    /\ srv.pc = "registry" /\ Glitch
    /\ \/ registry.apikey # NoSecret /\ Goto(Off)
       \/ Goto([srv EXCEPT !.pc = "create", !.whole = FALSE, !.port = None])

\* create_server, and the choice of main: without a certificate FastMCP serves plain HTTP.
CreateServer ==
    /\ srv.pc = "create"
    /\ Goto(IF ~Loads(yaml, env) THEN Off
            ELSE [srv EXCEPT !.pc = IF yaml.ssl = "none" THEN "serving" ELSE "password",
                             !.tls = yaml.ssl # "none",
                             !.port = Port(None, srv.port, yaml)])
    /\ UNCHANGED counts

\* Slip: the key file is inspected even when there is a password.
GetKeyPasswordUnused ==
    /\ srv.pc = "password"
    /\ Goto(IF registry.blob = NoSecret THEN [srv EXCEPT !.pc = "check"]
            ELSE IF Decrypts(registry.blob)
            THEN [srv EXCEPT !.pc = "check", !.password = registry.blob.no]
            ELSE Off)
    /\ UNCHANGED counts

\* _get_key_password
GetKeyPassword ==
    /\ srv.pc = "password"
    /\ Goto(IF registry.blob = NoSecret THEN [srv EXCEPT !.pc = "check"]
            ELSE IF Decrypts(registry.blob)
            THEN [srv EXCEPT !.pc = "load", !.password = registry.blob.no]
            ELSE Off)
    /\ UNCHANGED counts

GetKeyPasswordFails == /\ srv.pc = "password" /\ registry.blob # NoSecret
                       /\ Glitch /\ Goto(Off)

\* _run_with_tls: without a password the key file must be there, and plain.
Here == yaml.ssl = "certs"

CheckKey == /\ srv.pc = "check"
            /\ Goto(IF Here /\ key # NoKey /\ key.no = 0 THEN [srv EXCEPT !.pc = "load"] ELSE Off)
            /\ UNCHANGED counts

\* load_cert_chain in uvicorn, and the server serves.  The password of a plain key is not asked for.
LoadTls == /\ srv.pc = "load"
           /\ Goto(IF Here /\ cert # 0 /\ key.pair = cert /\ key.no \in {0, srv.password}
                   THEN [srv EXCEPT !.pc = "serving"] ELSE Off)
           /\ UNCHANGED counts

Server == \/ Launch \/ ReadRegistry \/ ReadRegistryFails \/ CreateServer
          \/ GetKeyPassword \/ GetKeyPasswordFails \/ CheckKey \/ LoadTls

SetupStep == \/ MakeBinaries \/ CertFile \/ KeyFile \/ Protect \/ ApiKey \/ ConfigFile \/ YamlFile
             \/ ServiceStep \/ RegistryStep \/ StartStep \/ Encrypt \/ StoreBlob \/ WriteBlob
             \/ RemoveService \/ RemoveBinaries \/ RemoveRegistry \/ RemoveData \/ Finish

Next == \/ Install \/ Configure \/ Uninstall \/ SetupStep
        \/ Interrupt \/ Reboot \/ Edit \/ RestartService
        \/ Server

\* A running service starts the server, which needs no one to go on; Setup waits for a person.
Fairness == WF_vars(Server)

Spec == Init /\ [][Next]_vars /\ Fairness
-----------------------------------------------------------------------------
Secrets == [account : Account \cup {None}, no : Nat]

TypeOK ==
    /\ cert \in 0 .. counts.pairs
    /\ key.pair \in 0 .. counts.pairs /\ key.no \in {0, key.pair}
    /\ registry.apikey \in Secrets /\ registry.blob \in Secrets
    /\ registry.apikey.no <= counts.keys /\ registry.blob.no <= counts.pairs
    /\ registry.port \in Ports \cup {None}
    /\ service.running => service.installed
    /\ service.installed => service.account \in Account
    /\ srv.pc # "off" => service.running
    /\ srv.api <= counts.keys /\ srv.password <= counts.pairs

\* A start of the server would find nothing to refuse.
Startable ==
    /\ service.installed
    /\ registry.apikey = NoSecret \/ Decrypts(registry.apikey)
    /\ registry.blob = NoSecret \/ Decrypts(registry.blob)
    /\ Loads(yaml, env)
    /\ yaml.ssl # "none" => /\ Here /\ cert # 0 /\ key.pair = cert
                            /\ key.no \in {0, registry.blob.no}

\* As long as no run of Setup stopped early or warned, and all named one service account, the
\* registry, the two certificate files and config.yaml agree whenever Setup is not running:
\* whatever was installed, kept, imported, rotated or removed, a server that is installed starts.
CleanSetupServes ==
    Idle /\ hist.clean /\ Cardinality(hist.used) <= 1 /\ service.installed /\ Loads(yaml, env)
        => Startable

\* An Install that makes new credentials and gets to its end leaves a server that starts, whatever
\* state earlier runs were stopped in and whichever accounts they were for (the [R] of Setup, and
\* "Reinstall to restore the key password" of _run_with_tls).
RegenerateRecovers ==
    Idle /\ hist.last = "regenerated" /\ Loads(yaml, env) => Startable

\* An Install that keeps what is there and gets to its end leaves a server that starts, whatever
\* stopped runs had left, if all were for one account and the certificate, the key file and the
\* password in the registry fit: they are all that [K] takes on trust where Setup promises
\* "Existing clients will continue to work without reconfiguration."
KeepServes ==
    Idle /\ hist.last = "kept" /\ Cardinality(hist.used) <= 1 /\ Loads(yaml, env)
    /\ cert # 0 /\ key.pair = cert /\ key.no \in {0, registry.blob.no}
        => Startable

Requests == [path : {"/mcp", "/token"}, scheme : {"none", "bearer"}, token : 0 .. counts.keys]

\* A server that serves with TLS lets in exactly who has the registry's API key, and listens on the
\* registry's port, unless these have been written since it read them, or it could not read them.
ServesWhatIsSet ==
    srv.pc = "serving" /\ srv.tls /\ srv.whole /\ srv.current =>
        /\ srv.port = Or(registry.port, srv.port)
        /\ registry.apikey # NoSecret =>
              \A r \in Requests :
                  r.path = "/mcp" => (Admits(r, srv.api)
                                      <=> r.scheme = "bearer" /\ r.token = registry.apikey.no)

\* After such an Install the server comes to serve, through reboots and passing failures of the
\* decryption, unless Setup is run again or config.yaml is edited into one that does not load.
ServesAfterSetup ==
    Idle /\ hist.last = "regenerated" ~> srv.pc = "serving" \/ ~Idle \/ ~Loads(yaml, env)
================================================================================
