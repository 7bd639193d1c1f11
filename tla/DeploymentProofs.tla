---------------------------- MODULE DeploymentProofs ----------------------------
(***************************************************************************)
(* For any accounts, ports and configurations, and any number of runs of   *)
(* Setup, edits, interruptions and passing failures: the machine keeps its *)
(* form, an Install that makes new credentials recovers from whatever was  *)
(* there, and a server serves what is set.                                 *)
(***************************************************************************)
EXTENDS Deployment, TLAPS

InstallOps == {"kept", "imported", "regenerated"}
Ops == InstallOps \cup {"configured", "uninstalled"}

InstallPlans == {InstallSteps(keep, imported, given) : keep, imported, given \in BOOLEAN}

Regenerate == InstallSteps(FALSE, FALSE, TRUE)

ConfigurePlans == {<<"copy_cert", "copy_key", "ssl", "encrypt", "store_blob">>,
                   <<"new_cert", "new_key", "write_blob", "ssl", "restart">>,
                   <<"api_key">>,
                   <<"registry_port", "yaml_port", "restart">>}

UninstallPlans ==
    {<<"remove_service", "remove_binaries">>
        \o (IF purge THEN <<"remove_registry", "remove_data">> ELSE <<>>) : purge \in BOOLEAN}

Plans == InstallPlans \cup ConfigurePlans \cup UninstallPlans

AnyPort == Ports \cup {None, "8000", Template.port}

\* The form of each variable.
Numbers == counts \in [pairs : Nat, keys : Nat, ops : Nat, edits : Nat, interrupts : Nat,
                       glitches : Nat]

YamlFields == {"profile", "mode", "ssl", "port", "forests"}

Files == /\ cert \in 0 .. counts.pairs
         /\ key \in [pair : 0 .. counts.pairs, no : Nat] /\ key.no \in {0, key.pair}
         /\ DOMAIN yaml = YamlFields /\ yaml.port \in AnyPort

Registry == /\ registry \in [root : BOOLEAN, apikey : Secrets, blob : Secrets,
                             port : Ports \cup {None}]
            /\ registry.apikey.no <= counts.keys /\ registry.blob.no <= counts.pairs
            /\ registry.apikey = NoSecret \/ registry.apikey.no # 0

Service == /\ service \in [installed : BOOLEAN, running : BOOLEAN, account : Account \cup {None}]
           /\ service.running => service.installed
           /\ service.installed => service.account \in Account

PCs == {"off", "registry", "create", "password", "check", "load", "serving"}

Process == /\ srv \in [pc : PCs, api : Nat, whole : BOOLEAN, password : Nat, port : AnyPort,
                       tls : BOOLEAN, current : BOOLEAN]
           /\ srv.api <= counts.keys /\ srv.password <= counts.pairs
           /\ srv.pc # "off" => service.running

History == hist \in [last : Ops \cup {None}, clean : BOOLEAN, used : SUBSET Account]

SetupForm ==
    /\ setup \in [op : Ops \cup {None}, steps : Plans \cup {<<>>}, next : Nat \ {0},
                  account : Account \cup {None}, port : AnyPort, blob : Secrets]
    /\ setup.blob.no <= counts.pairs
    /\ setup.op = None => setup.steps = <<>>
    /\ setup.op \in InstallOps => /\ setup.steps \in InstallPlans
                                  /\ setup.account \in Account /\ setup.port \in Ports
    /\ setup.op = "regenerated" => setup.steps = Regenerate
    /\ setup.op = "configured" => setup.steps \in ConfigurePlans /\ setup.port \in Ports
    /\ setup.op = "uninstalled" => setup.steps \in UninstallPlans

\* An Install that has come past its service step has made the service.
InstallUnderway ==
    setup.op \in InstallOps /\ setup.next >= Len(setup.steps) - 1 =>
        service.installed /\ service.account = setup.account

\* What an Install that makes new credentials has in place at each of its steps, whatever there
\* was before it.
Midway ==
    setup.op = "regenerated" =>
        /\ setup.next > 2 => cert # 0
        /\ setup.next > 3 => key = [pair |-> cert, no |-> cert]
        /\ setup.next > 4 => setup.blob = Secret(setup.account, cert)
        /\ setup.next > 5 => registry.apikey.account = setup.account
        /\ setup.next > 7 => yaml.ssl = "certs"
        /\ setup.next > 10 => registry.blob = setup.blob

\* What it leaves, and what is kept until Setup is run again.
Recovered ==
    Idle /\ hist.last = "regenerated" =>
        /\ service.installed /\ cert # 0 /\ key = [pair |-> cert, no |-> cert]
        /\ registry.blob = Secret(service.account, cert)
        /\ registry.apikey.account = service.account
        /\ yaml.ssl \in {"certs", "none", "half"}

\* What the server has read is what is there.
Current ==
    srv.whole /\ srv.current /\ srv.pc \notin {"off", "registry"} =>
        /\ srv.api = registry.apikey.no
        /\ srv.pc = "create" => srv.port = registry.port
        /\ srv.pc # "create" => srv.port = Or(registry.port, srv.port)

IInv == /\ Numbers /\ Files /\ Registry /\ Service /\ Process /\ History
        /\ SetupForm /\ InstallUnderway /\ Midway /\ Recovered /\ Current
-----------------------------------------------------------------------------
LEMMA InstallPlanFacts ==
    ASSUME NEW s \in InstallPlans
    PROVE  /\ Len(s) \in 7 .. 11 /\ DOMAIN s = 1 .. Len(s)
           /\ \A i \in DOMAIN s : /\ s[i] = "service" <=> i = Len(s) - 2
                                  /\ s[i] = "start" <=> i = Len(s)
                                  /\ s[i] \notin {"remove_service", "registry_port"}
  <1>1. PICK keep \in BOOLEAN, imported \in BOOLEAN, given \in BOOLEAN :
            s = InstallSteps(keep, imported, given)
    BY DEF InstallPlans
  <1>2. CASE ~keep /\ ~imported
    BY <1>1, <1>2, SMTT(30) DEF InstallSteps
  <1>3. CASE ~keep /\ imported
    BY <1>1, <1>3, SMTT(30) DEF InstallSteps
  <1>4. CASE keep /\ given
    BY <1>1, <1>4, SMTT(30) DEF InstallSteps
  <1>5. CASE keep /\ ~given
    BY <1>1, <1>5, SMTT(30) DEF InstallSteps
  <1>6. QED
    BY <1>2, <1>3, <1>4, <1>5

LEMMA RegenerateFacts ==
    /\ Regenerate \in InstallPlans
    /\ \A given \in BOOLEAN : InstallSteps(FALSE, FALSE, given) = Regenerate
    /\ Len(Regenerate) = 11 /\ DOMAIN Regenerate = 1 .. 11
    /\ Regenerate[1] = "binaries" /\ Regenerate[2] = "new_cert" /\ Regenerate[3] = "new_key"
    /\ Regenerate[4] = "protect" /\ Regenerate[5] = "api_key" /\ Regenerate[6] = "config"
    /\ Regenerate[7] = "ssl" /\ Regenerate[8] = "yaml_port" /\ Regenerate[9] = "service"
    /\ Regenerate[10] = "registry" /\ Regenerate[11] = "start"
  <1>1. Regenerate \in InstallPlans
    <2>1. \E keep, imported, given \in BOOLEAN : Regenerate = InstallSteps(keep, imported, given)
      BY DEF Regenerate
    <2>2. QED
      BY <2>1 DEF InstallPlans
  <1>2. \A given \in BOOLEAN : InstallSteps(FALSE, FALSE, given) = Regenerate
    BY DEF Regenerate, InstallSteps
  <1>3. Len(Regenerate) = 11 /\ DOMAIN Regenerate = 1 .. 11
    BY SMT DEF Regenerate, InstallSteps
  <1>4. /\ Regenerate[1] = "binaries" /\ Regenerate[2] = "new_cert" /\ Regenerate[3] = "new_key"
        /\ Regenerate[4] = "protect" /\ Regenerate[5] = "api_key" /\ Regenerate[6] = "config"
    BY SMT DEF Regenerate, InstallSteps
  <1>5. /\ Regenerate[7] = "ssl" /\ Regenerate[8] = "yaml_port" /\ Regenerate[9] = "service"
        /\ Regenerate[10] = "registry" /\ Regenerate[11] = "start"
    BY SMT DEF Regenerate, InstallSteps
  <1>6. QED
    BY <1>1, <1>2, <1>3, <1>4, <1>5

LEMMA OtherPlanFacts ==
    /\ \A s \in ConfigurePlans \cup UninstallPlans : \A i \in DOMAIN s :
          s[i] \notin {"service", "start", "registry"}
    /\ \A s \in UninstallPlans : \A i \in DOMAIN s : s[i] # "registry_port"
  <1>1. \A s \in ConfigurePlans : \A i \in DOMAIN s : s[i] \notin {"service", "start", "registry"}
    BY SMT DEF ConfigurePlans
  <1>2. \A s \in UninstallPlans : \A i \in DOMAIN s :
           s[i] \notin {"service", "start", "registry", "registry_port"}
    <2> SUFFICES ASSUME NEW s \in UninstallPlans
                 PROVE  \A i \in DOMAIN s :
                           s[i] \notin {"service", "start", "registry", "registry_port"}
      OBVIOUS
    <2>1. CASE s = <<"remove_service", "remove_binaries">> \o <<"remove_registry", "remove_data">>
      BY <2>1, SMT
    <2>2. CASE s = <<"remove_service", "remove_binaries">> \o <<>>
      BY <2>2, SMT
    <2>3. QED
      BY <2>1, <2>2 DEF UninstallPlans
  <1>3. QED
    BY <1>1, <1>2
-----------------------------------------------------------------------------
\* What a step of Setup that is of that name tells of the run.
LEMMA WhichStep ==
    ASSUME SetupForm
    PROVE  /\ AtStep("service") => setup.op \in InstallOps
           /\ AtStep("start") => setup.op \in InstallOps
           /\ AtStep("registry") => setup.port \in Ports
           /\ AtStep("registry_port") => setup.port \in Ports
           /\ AtStep("remove_service") => setup.op \notin InstallOps
           /\ \A name : AtStep(name) => setup.op # None
  <1>1. \A name : AtStep(name) => setup.op # None
    BY SMT DEF AtStep, SetupForm
  <1>2. setup.op \in InstallOps \cup {"configured", "uninstalled", None}
    BY DEF SetupForm, Ops
  <1>3. CASE setup.op \in InstallOps
    <2>1. setup.steps \in InstallPlans /\ setup.port \in Ports
      BY <1>3 DEF SetupForm
    <2>2. \A i \in DOMAIN setup.steps : setup.steps[i] # "remove_service"
      BY <2>1, InstallPlanFacts
    <2>3. QED
      BY <1>1, <1>3, <2>1, <2>2 DEF AtStep
  <1>4. CASE setup.op = "configured"
    <2>1. setup.steps \in ConfigurePlans /\ setup.port \in Ports
      BY <1>4 DEF SetupForm
    <2>2. \A i \in DOMAIN setup.steps : setup.steps[i] \notin {"service", "start", "registry"}
      BY <2>1, OtherPlanFacts
    <2>3. setup.op \notin InstallOps
      BY <1>4 DEF InstallOps
    <2>4. QED
      BY <1>1, <2>1, <2>2, <2>3 DEF AtStep
  <1>5. CASE setup.op = "uninstalled"
    <2>1. setup.steps \in UninstallPlans
      BY <1>5 DEF SetupForm
    <2>2. /\ \A i \in DOMAIN setup.steps : setup.steps[i] \notin {"service", "start", "registry"}
          /\ \A i \in DOMAIN setup.steps : setup.steps[i] # "registry_port"
      BY <2>1, OtherPlanFacts
    <2>3. setup.op \notin InstallOps
      BY <1>5 DEF InstallOps
    <2>4. QED
      BY <1>1, <2>2, <2>3 DEF AtStep
  <1>6. QED
    BY <1>1, <1>2, <1>3, <1>4, <1>5

\* The steps of Install that make the service and start it.
LEMMA ServiceSteps ==
    ASSUME SetupForm, setup.op \in InstallOps
    PROVE  /\ setup.next \in Nat /\ Len(setup.steps) \in Nat
           /\ AtStep("service") <=> setup.next = Len(setup.steps) - 2
           /\ AtStep("start") => setup.next = Len(setup.steps)
  <1>1. setup.steps \in InstallPlans /\ setup.next \in Nat \ {0}
    BY DEF SetupForm
  <1>2. QED
    BY <1>1, InstallPlanFacts, SMT DEF AtStep

LEMMA StartFindsService ==
    ASSUME SetupForm, InstallUnderway, AtStep("start")
    PROVE  service.installed
  <1>1. setup.op \in InstallOps
    BY WhichStep
  <1>2. QED
    BY <1>1, ServiceSteps, SMT DEF InstallUnderway

LEMMA NumbersKept ==
    ASSUME Numbers, [Next]_vars
    PROVE  Numbers' /\ counts.pairs <= counts'.pairs /\ counts.keys <= counts'.keys
  <1>1. CASE Install \/ Configure \/ Uninstall
    <2>1. counts' = [counts EXCEPT !.ops = @ + 1]
      BY <1>1 DEF Install, Configure, Uninstall, Begin
    <2>2. QED
      BY <2>1, SMT DEF Numbers
  <1>2. CASE CertFile
    BY <1>2, SMT DEF CertFile, Numbers
  <1>3. CASE ApiKey
    BY <1>3, SMT DEF ApiKey, Numbers
  <1>4. CASE Interrupt \/ Reboot \/ Edit
    <2>1. \/ counts' = [counts EXCEPT !.interrupts = @ + 1]
          \/ counts' = [counts EXCEPT !.edits = @ + 1]
      BY <1>4 DEF Interrupt, Reboot, Edit
    <2>2. QED
      BY <2>1, SMT DEF Numbers
  <1>5. CASE ReadRegistryFails \/ GetKeyPasswordFails
    BY <1>5, SMT DEF ReadRegistryFails, GetKeyPasswordFails, Glitch, Numbers
  <1>6. CASE \/ MakeBinaries \/ KeyFile \/ Protect \/ ConfigFile \/ YamlFile \/ ServiceStep
             \/ RegistryStep \/ StartStep \/ Encrypt \/ StoreBlob \/ WriteBlob \/ RemoveService
             \/ RemoveBinaries \/ RemoveRegistry \/ RemoveData \/ Finish \/ RestartService
             \/ Launch \/ ReadRegistry \/ CreateServer \/ GetKeyPassword \/ CheckKey \/ LoadTls
             \/ UNCHANGED vars
    <2>1. counts' = counts
      BY <1>6 DEF MakeBinaries, KeyFile, Protect, ConfigFile, YamlFile, ServiceStep, RegistryStep,
        StartStep, Encrypt, StoreBlob, WriteBlob, RemoveService, RemoveBinaries, RemoveRegistry,
        RemoveData, Finish, RestartService, Launch, ReadRegistry, CreateServer, GetKeyPassword,
        CheckKey, LoadTls, vars
    <2>2. QED
      BY <2>1, SMT DEF Numbers
  <1>7. QED
    BY <1>1, <1>2, <1>3, <1>4, <1>5, <1>6 DEF Next, SetupStep, Server

LEMMA FilesKept ==
    ASSUME Numbers, Numbers', counts.pairs <= counts'.pairs, SetupForm, Files, [Next]_vars
    PROVE  Files'
  <1>1. Numbers /\ counts.pairs \in Nat /\ counts'.pairs \in Nat
    BY SMT DEF Numbers
  <1>2. /\ cert \in 0 .. counts.pairs /\ key.pair \in 0 .. counts.pairs
        /\ key \in [pair : 0 .. counts.pairs, no : Nat]
        /\ key.no \in {0, key.pair}
        /\ DOMAIN yaml = YamlFields /\ yaml.port \in AnyPort
    BY SMT DEF Files
  <1>3. /\ DOMAIN Template = YamlFields /\ Template.port \in AnyPort
        /\ \A c \in ConfigSet : DOMAIN c = YamlFields
    BY DeploymentAssumption DEF YamlFields, AnyPort
  <1>4. DOMAIN NoConfig = YamlFields /\ NoConfig.port \in AnyPort
    BY <1>3, SMT DEF NoConfig, YamlFields
  \* Certificate and key.
  <1>5. cert' \in 0 .. counts'.pairs
    <2>1. CASE CertFile
      BY <1>1, <2>1, SMT DEF CertFile, Numbers
    <2>2. CASE Interrupt \/ Reboot \/ RemoveData
      <3>1. cert' \in {cert, 0}
        BY <2>2 DEF Interrupt, Reboot, RemoveData, Stops
      <3>2. QED
        BY <1>1, <1>2, <3>1, SMT
    <2>3. CASE ~(CertFile \/ Interrupt \/ Reboot \/ RemoveData)
      <3>1. cert' = cert
        BY <2>3 DEF Next, SetupStep, Server, Install, Configure, Uninstall, MakeBinaries, KeyFile,
          Protect, ApiKey, ConfigFile, YamlFile, ServiceStep, RegistryStep, StartStep, Encrypt,
          StoreBlob, WriteBlob, RemoveService, RemoveBinaries, RemoveRegistry, Finish, Edit,
          RestartService, Launch, ReadRegistry, ReadRegistryFails, CreateServer, GetKeyPassword,
          GetKeyPasswordFails, CheckKey, LoadTls, Goto, machine, vars
      <3>2. QED
        BY <1>1, <1>2, <3>1, SMT
    <2>4. QED
      BY <2>1, <2>2, <2>3
  <1>6. key' \in [pair : 0 .. counts'.pairs, no : Nat] /\ key'.no \in {0, key'.pair}
    <2>1. CASE KeyFile
      <3>1. key' = [pair |-> cert, no |-> cert] \/ key' = [pair |-> cert, no |-> 0]
        BY <2>1 DEF KeyFile
      <3>2. QED
        BY <1>1, <1>2, <3>1, SMT
    <2>2. CASE Interrupt \/ Reboot \/ RemoveData
      <3>1. key' \in {key, NoKey}
        BY <2>2 DEF Interrupt, Reboot, RemoveData, Stops
      <3>2. QED
        BY <1>1, <1>2, <3>1, SMT DEF NoKey
    <2>3. CASE Encrypt
      <3>1. key' = key \/ key' = [key EXCEPT !.no = key.pair]
        BY <2>3 DEF Encrypt
      <3>2. QED
        BY <1>1, <1>2, <3>1, SMT
    <2>4. CASE ~(KeyFile \/ Interrupt \/ Reboot \/ RemoveData \/ Encrypt)
      <3>1. key' = key
        BY <2>4 DEF Next, SetupStep, Server, Install, Configure, Uninstall, MakeBinaries, CertFile,
          Protect, ApiKey, ConfigFile, YamlFile, ServiceStep, RegistryStep, StartStep,
          StoreBlob, WriteBlob, RemoveService, RemoveBinaries, RemoveRegistry, Finish, Edit,
          RestartService, Launch, ReadRegistry, ReadRegistryFails, CreateServer, GetKeyPassword,
          GetKeyPasswordFails, CheckKey, LoadTls, Goto, machine, vars
      <3>2. QED
        BY <1>1, <1>2, <3>1, SMT
    <2>5. QED
      BY <2>1, <2>2, <2>3, <2>4
  \* config.yaml.
  <1>7. DOMAIN yaml' = YamlFields /\ yaml'.port \in AnyPort
    <2>1. CASE ConfigFile \/ RemoveData
      <3>1. yaml' \in {Template, NoConfig, yaml}
        BY <2>1 DEF ConfigFile, RemoveData
      <3>2. QED
        BY <1>2, <1>3, <1>4, <3>1
    <2>2. CASE YamlFile
      <3>1. yaml' = [yaml EXCEPT !.ssl = "certs"] \/ yaml' = [yaml EXCEPT !.port = setup.port]
        BY <2>2 DEF YamlFile
      <3>2. setup.port \in AnyPort
        BY DEF SetupForm
      <3>3. QED
        BY <1>2, <3>1, <3>2, SMT DEF YamlFields
    <2>3. CASE Edit
      <3>1. CASE yaml' = yaml
        BY <1>2, <3>1
      <3>2. CASE yaml' # yaml
        <4>1. PICK c \in ConfigSet, ssl \in {yaml.ssl, "none", "half"} :
                 yaml' = [c EXCEPT !.ssl = ssl, !.port = yaml.port]
          BY <2>3, <3>2 DEF Edit
        <4>2. QED
          BY <1>2, <1>3, <4>1, SMT DEF YamlFields
      <3>3. QED
        BY <3>1, <3>2
    <2>4. CASE ~(ConfigFile \/ RemoveData \/ YamlFile \/ Edit)
      <3>1. yaml' = yaml
        BY <2>4 DEF Next, SetupStep, Server, Install, Configure, Uninstall, MakeBinaries, CertFile,
          KeyFile, Protect, ApiKey, ServiceStep, RegistryStep, StartStep, Encrypt, StoreBlob,
          WriteBlob, RemoveService, RemoveBinaries, RemoveRegistry, Finish, Interrupt, Reboot,
          RestartService, Launch, ReadRegistry, ReadRegistryFails, CreateServer, GetKeyPassword,
          GetKeyPasswordFails, CheckKey, LoadTls, Goto, machine, vars
      <3>2. QED
        BY <1>2, <3>1
    <2>5. QED
      BY <2>1, <2>2, <2>3, <2>4
  <1>8. QED
    BY <1>5, <1>6, <1>7 DEF Files

LEMMA RegistryKept ==
    ASSUME Numbers, Numbers', counts.pairs <= counts'.pairs, counts.keys <= counts'.keys,
           Files, SetupForm, Registry, [Next]_vars
    PROVE  Registry'
  <1>1. /\ counts \in [pairs : Nat, keys : Nat, ops : Nat, edits : Nat, interrupts : Nat,
                       glitches : Nat]
        /\ counts.pairs \in Nat /\ counts'.pairs \in Nat
        /\ counts.keys \in Nat /\ counts'.keys \in Nat
    BY SMT DEF Numbers
  <1>2. /\ registry \in [root : BOOLEAN, apikey : Secrets, blob : Secrets, port : Ports \cup {None}]
        /\ registry.apikey.no \in Nat /\ registry.blob.no \in Nat
        /\ registry.apikey.no <= counts'.keys /\ registry.blob.no <= counts'.pairs
        /\ registry.apikey = NoSecret \/ registry.apikey.no # 0
    BY <1>1, SMT DEF Registry, Secrets
  <1>3. /\ setup.account \in Account \cup {None} /\ setup.blob \in Secrets
        /\ setup.blob.no \in Nat /\ setup.blob.no <= counts'.pairs
    BY <1>1, SMT DEF SetupForm, Secrets
  <1>4. key.no \in Nat /\ key.no <= counts'.pairs
    BY <1>1, SMT DEF Files
  <1>5. /\ \A account \in Account \cup {None}, no \in Nat :
              Secret(account, no) \in Secrets /\ Secret(account, no).no = no
        /\ NoSecret \in Secrets /\ NoSecret.no = 0
    BY SMT DEF Secret, Secrets, NoSecret
  <1>6. CASE ApiKey
    <2>1. /\ registry' = [registry EXCEPT !.root = TRUE,
                                          !.apikey = Secret(setup.account, counts.keys + 1)]
          /\ counts' = [counts EXCEPT !.keys = @ + 1]
      BY <1>6 DEF ApiKey
    <2>2. /\ Secret(setup.account, counts.keys + 1) \in Secrets
          /\ Secret(setup.account, counts.keys + 1).no = counts.keys + 1
      BY <1>1, <1>3, <1>5, SMT
    <2>3. registry' \in [root : BOOLEAN, apikey : Secrets, blob : Secrets, port : Ports \cup {None}]
      BY <1>2, <2>1, <2>2, Zenon
    <2>4. /\ registry'.apikey.no = counts.keys + 1 /\ counts'.keys = counts.keys + 1
          /\ registry'.blob = registry.blob
      BY <1>1, <1>2, <2>1, <2>2, SMT
    <2>5. QED
      BY <1>1, <1>2, <2>3, <2>4, SMT DEF Registry
  <1>7. CASE ConfigFile
    <2>1. registry' = [registry EXCEPT !.root = TRUE]
      BY <1>7 DEF ConfigFile
    <2>2. registry' \in [root : BOOLEAN, apikey : Secrets, blob : Secrets, port : Ports \cup {None}]
      BY <1>2, <2>1, Zenon
    <2>3. registry'.apikey = registry.apikey /\ registry'.blob = registry.blob
      BY <1>2, <2>1, Zenon
    <2>4. QED
      BY <1>2, <2>2, <2>3 DEF Registry
  <1>8. CASE RegistryStep
    <2>1. setup.port \in Ports
      BY <1>8, WhichStep DEF RegistryStep, Step
    <2>2. \/ registry' = [registry EXCEPT !.root = TRUE, !.port = setup.port, !.blob = registry.blob]
          \/ registry' = [registry EXCEPT !.root = TRUE, !.port = setup.port, !.blob = setup.blob]
          \/ registry' = [registry EXCEPT !.root = TRUE, !.port = setup.port]
      BY <1>8 DEF RegistryStep
    <2>3. registry' \in [root : BOOLEAN, apikey : Secrets, blob : Secrets, port : Ports \cup {None}]
      BY <1>2, <1>3, <2>1, <2>2, Zenon
    <2>4. registry'.apikey = registry.apikey /\ registry'.blob \in {registry.blob, setup.blob}
      BY <1>2, <2>2, Zenon
    <2>5. QED
      BY <1>2, <1>3, <2>3, <2>4 DEF Registry
  <1>9. CASE StoreBlob \/ WriteBlob
    <2>1. \/ registry' = registry
          \/ registry' = [registry EXCEPT !.root = TRUE, !.blob = Secret(setup.account, key.no)]
      BY <1>9 DEF StoreBlob, WriteBlob
    <2>2. /\ Secret(setup.account, key.no) \in Secrets
          /\ Secret(setup.account, key.no).no = key.no
      BY <1>3, <1>4, <1>5
    <2>3. registry' \in [root : BOOLEAN, apikey : Secrets, blob : Secrets, port : Ports \cup {None}]
      BY <1>2, <2>1, <2>2, Zenon
    <2>4. /\ registry'.apikey = registry.apikey
          /\ registry'.blob \in {registry.blob, Secret(setup.account, key.no)}
      BY <1>2, <2>1, Zenon
    <2>5. QED
      BY <1>2, <1>4, <2>2, <2>3, <2>4 DEF Registry
  <1>10. CASE RemoveRegistry
    <2>1. \/ registry' = registry
          \/ registry' = [root |-> FALSE, apikey |-> NoSecret, blob |-> NoSecret, port |-> None]
      BY <1>10 DEF RemoveRegistry
    <2>2. CASE registry' = registry
      BY <1>2, <2>2 DEF Registry
    <2>3. CASE registry' = [root |-> FALSE, apikey |-> NoSecret, blob |-> NoSecret, port |-> None]
      BY <1>1, <1>5, <2>3, SMT DEF Registry
    <2>4. QED
      BY <2>1, <2>2, <2>3
  <1>11. CASE ~(ApiKey \/ ConfigFile \/ RegistryStep \/ StoreBlob \/ WriteBlob \/ RemoveRegistry)
    <2>1. registry' = registry
      BY <1>11 DEF Next, SetupStep, Server, Install, Configure, Uninstall, MakeBinaries, CertFile,
        KeyFile, Protect, YamlFile, ServiceStep, StartStep, Encrypt, RemoveService,
        RemoveBinaries, RemoveData, Finish, Interrupt, Reboot, Edit, RestartService, Launch,
        ReadRegistry, ReadRegistryFails, CreateServer, GetKeyPassword, GetKeyPasswordFails,
        CheckKey, LoadTls, Goto, machine, vars
    <2>2. QED
      BY <1>2, <2>1 DEF Registry
  <1>12. QED
    BY <1>6, <1>7, <1>8, <1>9, <1>10, <1>11

LEMMA ServiceKept ==
    ASSUME SetupForm, InstallUnderway, Service, [Next]_vars
    PROVE  Service'
  <1>1. /\ service \in [installed : BOOLEAN, running : BOOLEAN, account : Account \cup {None}]
        /\ service.running => service.installed
        /\ service.installed => service.account \in Account
    BY DEF Service
  <1>2. CASE Install
    <2>1. service' = service \/ service' = [service EXCEPT !.running = FALSE]
      BY <1>2 DEF Install
    <2>2. service' \in [installed : BOOLEAN, running : BOOLEAN, account : Account \cup {None}]
      BY <1>1, <2>1, Zenon
    <2>3. /\ service'.running => service.running
          /\ service'.installed = service.installed /\ service'.account = service.account
      BY <1>1, <2>1, Zenon
    <2>4. QED
      BY <1>1, <2>2, <2>3 DEF Service
  <1>3. CASE ServiceStep
    <2>1. setup.account \in Account
      BY <1>3, WhichStep DEF ServiceStep, Step, SetupForm
    <2>2. service' = [installed |-> TRUE, running |-> FALSE, account |-> setup.account]
      BY <1>3 DEF ServiceStep
    <2>3. QED
      BY <2>1, <2>2, SMT DEF Service
  <1>4. CASE StartStep
    <2>1. service.installed
      <3>1. AtStep("start") \/ service.installed
        BY <1>4 DEF StartStep, Step
      <3>2. QED
        BY <3>1, StartFindsService
    <2>2. service' = [service EXCEPT !.running = TRUE]
      BY <1>4 DEF StartStep
    <2>3. service' \in [installed : BOOLEAN, running : BOOLEAN, account : Account \cup {None}]
      BY <1>1, <2>2, Zenon
    <2>4. service'.installed = service.installed /\ service'.account = service.account
      BY <1>1, <2>2, Zenon
    <2>5. QED
      BY <1>1, <2>1, <2>3, <2>4 DEF Service
  <1>5. CASE RemoveService
    <2>1. service' = [installed |-> FALSE, running |-> FALSE, account |-> None]
      BY <1>5 DEF RemoveService
    <2>2. QED
      BY <2>1, SMT DEF Service
  <1>6. CASE Reboot
    <2>1. service' = [service EXCEPT !.running = service.installed]
      BY <1>6 DEF Reboot
    <2>2. QED
      BY <1>1, <2>1, SMT DEF Service
  <1>7. CASE ~(Install \/ ServiceStep \/ StartStep \/ RemoveService \/ Reboot)
    <2>1. service' = service
      BY <1>7 DEF Next, SetupStep, Server, Configure, Uninstall, MakeBinaries, CertFile, KeyFile,
        Protect, ApiKey, ConfigFile, YamlFile, RegistryStep, Encrypt, StoreBlob, WriteBlob,
        RemoveBinaries, RemoveRegistry, RemoveData, Finish, Interrupt, Edit, RestartService,
        Launch, ReadRegistry, ReadRegistryFails, CreateServer, GetKeyPassword,
        GetKeyPasswordFails, CheckKey, LoadTls, Goto, machine, vars
    <2>2. QED
      BY <1>1, <2>1 DEF Service
  <1>8. QED
    BY <1>2, <1>3, <1>4, <1>5, <1>6, <1>7

LEMMA RunForm ==
    ASSUME NEW op \in Ops, NEW steps \in Plans, NEW account \in Account \cup {None},
           NEW port \in AnyPort, NEW run,
           run = [op |-> op, steps |-> steps, next |-> 1, account |-> account, port |-> port,
                  blob |-> NoSecret]
    PROVE  /\ run \in [op : Ops \cup {None}, steps : Plans \cup {<<>>}, next : Nat \ {0},
                       account : Account \cup {None}, port : AnyPort, blob : Secrets]
           /\ run.op = op /\ run.steps = steps /\ run.next = 1
           /\ run.account = account /\ run.port = port /\ run.blob = NoSecret
  <1>1. NoSecret \in Secrets /\ 1 \in Nat \ {0}
    BY SMT DEF NoSecret, Secret, Secrets
  <1>2. QED
    BY <1>1, SMT

\* A run of Setup begins with what Begin is given.
LEMMA BeginForm ==
    ASSUME Numbers, NEW op \in Ops, NEW steps \in Plans, NEW account \in Account \cup {None},
           NEW port \in AnyPort, setup' = [NoSetup EXCEPT !.op = op, !.steps = steps,
                                                          !.account = account, !.port = port]
    PROVE  /\ setup' \in [op : Ops \cup {None}, steps : Plans \cup {<<>>}, next : Nat \ {0},
                          account : Account \cup {None}, port : AnyPort, blob : Secrets]
           /\ setup'.op = op /\ setup'.steps = steps /\ setup'.next = 1
           /\ setup'.account = account /\ setup'.port = port
           /\ setup'.blob = NoSecret
  <1>1. setup' = [op |-> op, steps |-> steps, next |-> 1, account |-> account, port |-> port,
                  blob |-> NoSecret]
    BY Zenon DEF NoSetup
  <1>2. PICK run : run = [op |-> op, steps |-> steps, next |-> 1, account |-> account,
                          port |-> port, blob |-> NoSecret]
    OBVIOUS
  <1>3. /\ run \in [op : Ops \cup {None}, steps : Plans \cup {<<>>}, next : Nat \ {0},
                    account : Account \cup {None}, port : AnyPort, blob : Secrets]
        /\ run.op = op /\ run.steps = steps /\ run.next = 1
        /\ run.account = account /\ run.port = port /\ run.blob = NoSecret
    BY <1>2, RunForm
  <1>4. setup' = run
    BY <1>1, <1>2
  <1>5. QED
    BY <1>3, <1>4

LEMMA SetupFormKept ==
    ASSUME Numbers, Numbers', counts.pairs <= counts'.pairs, Files, Service, SetupForm,
           [Next]_vars
    PROVE  SetupForm'
  <1>1. counts.pairs \in Nat /\ counts'.pairs \in Nat
    BY SMT DEF Numbers
  <1>2. /\ setup \in [op : Ops \cup {None}, steps : Plans \cup {<<>>}, next : Nat \ {0},
                      account : Account \cup {None}, port : AnyPort, blob : Secrets]
        /\ setup.blob.no \in Nat /\ setup.blob.no <= counts'.pairs
        /\ setup.op = None => setup.steps = <<>>
        /\ setup.op \in InstallOps => /\ setup.steps \in InstallPlans
                                      /\ setup.account \in Account /\ setup.port \in Ports
        /\ setup.op = "regenerated" => setup.steps = Regenerate
        /\ setup.op = "configured" => setup.steps \in ConfigurePlans /\ setup.port \in Ports
        /\ setup.op = "uninstalled" => setup.steps \in UninstallPlans
    BY <1>1, SMT DEF SetupForm, Secrets
  <1>3. /\ NoSetup \in [op : Ops \cup {None}, steps : Plans \cup {<<>>}, next : Nat \ {0},
                        account : Account \cup {None}, port : AnyPort, blob : Secrets]
        /\ NoSetup.op = None /\ NoSetup.steps = <<>> /\ NoSetup.blob.no = 0
    BY SMT DEF NoSetup, NoSecret, Secret, Secrets, AnyPort
  <1>4. /\ None \notin Ops /\ InstallOps \subseteq Ops
        /\ "configured" \notin InstallOps /\ "uninstalled" \notin InstallOps
    BY DEF Ops, InstallOps, None
  <1>5. NoSecret.no = 0
    BY DEF NoSecret, Secret
  <1>6. CASE Install
    <2>1. PICK account \in Account, port \in Ports, imported \in BOOLEAN, given \in BOOLEAN,
               keep \in BOOLEAN :
             Begin(IF keep THEN "kept" ELSE IF imported THEN "imported" ELSE "regenerated",
                   InstallSteps(keep, imported, given), account, port)
      BY <1>6 DEF Install
    <2> DEFINE op == IF keep THEN "kept" ELSE IF imported THEN "imported" ELSE "regenerated"
               steps == InstallSteps(keep, imported, given)
    <2>2. op \in InstallOps /\ op \in Ops /\ steps \in InstallPlans /\ steps \in Plans
      BY DEF InstallOps, Ops, InstallPlans, Plans
    <2>3. op = "regenerated" => steps = Regenerate
      BY RegenerateFacts
    <2>4. port \in AnyPort /\ account \in Account \cup {None}
      BY DEF AnyPort
    <2>5. setup' = [NoSetup EXCEPT !.op = op, !.steps = steps, !.account = account, !.port = port]
      BY <2>1 DEF Begin
    <2> HIDE DEF op, steps
    <2>6. /\ setup' \in [op : Ops \cup {None}, steps : Plans \cup {<<>>}, next : Nat \ {0},
                         account : Account \cup {None}, port : AnyPort, blob : Secrets]
          /\ setup'.op = op /\ setup'.steps = steps
          /\ setup'.account = account /\ setup'.port = port
          /\ setup'.blob = NoSecret
      BY <2>2, <2>4, <2>5, BeginForm
    <2>7. op # "configured" /\ op # "uninstalled" /\ op # None
      BY <1>4, <2>2
    <2>8. setup'.blob.no <= counts'.pairs
      BY <1>1, <1>5, <2>6, SMT
    <2>9. QED
      BY <2>2, <2>3, <2>6, <2>7, <2>8 DEF SetupForm
  <1>7. CASE Configure
    <2>1. PICK account \in ConfigureAccounts \cup {None}, port \in Ports, steps \in ConfigurePlans :
             setup' = [NoSetup EXCEPT !.op = "configured", !.steps = steps, !.account = account,
                                      !.port = port]
      <3>1. \A account, port, steps :
               Begin("configured", steps, account, port) =>
                 setup' = [NoSetup EXCEPT !.op = "configured", !.steps = steps,
                                          !.account = account, !.port = port]
        BY DEF Begin
      <3>2. PICK account \in ConfigureAccounts \cup {None}, port \in Ports :
              \/ Begin("configured", <<"copy_cert", "copy_key", "ssl", "encrypt", "store_blob">>,
                       account, port)
              \/ Begin("configured", <<"new_cert", "new_key", "write_blob", "ssl", "restart">>,
                       account, port)
              \/ Begin("configured", <<"api_key">>, account, port)
              \/ Begin("configured", <<"registry_port", "yaml_port", "restart">>, account, port)
        BY <1>7 DEF Configure
      <3>3. PICK steps \in ConfigurePlans : Begin("configured", steps, account, port)
        BY <3>2 DEF ConfigurePlans
      <3>4. setup' = [NoSetup EXCEPT !.op = "configured", !.steps = steps, !.account = account,
                                     !.port = port]
        BY <3>1, <3>3, Zenon
      <3>5. QED
        BY <3>4, Zenon
    <2>2. account \in Account \cup {None} /\ port \in AnyPort
      BY DEF ConfigureAccounts, Service, AnyPort
    <2>3. "configured" \in Ops /\ steps \in Plans
      BY DEF Ops, Plans
    <2>4. /\ setup' \in [op : Ops \cup {None}, steps : Plans \cup {<<>>}, next : Nat \ {0},
                         account : Account \cup {None}, port : AnyPort, blob : Secrets]
          /\ setup'.op = "configured" /\ setup'.steps = steps /\ setup'.port = port
          /\ setup'.blob = NoSecret
      BY <2>1, <2>2, <2>3, BeginForm
    <2>5. setup'.blob.no <= counts'.pairs
      BY <1>1, <1>5, <2>4, SMT
    <2>6. QED
      BY <1>4, <2>3, <2>4, <2>5 DEF SetupForm
  <1>8. CASE Uninstall
    <2>1. PICK steps \in UninstallPlans :
             setup' = [NoSetup EXCEPT !.op = "uninstalled", !.steps = steps, !.account = None,
                                      !.port = "8000"]
      BY <1>8 DEF Uninstall, Begin, UninstallPlans
    <2>2. None \in Account \cup {None} /\ "8000" \in AnyPort
      BY DEF AnyPort
    <2>3. "uninstalled" \in Ops /\ steps \in Plans
      BY DEF Ops, Plans
    <2>4. /\ setup' \in [op : Ops \cup {None}, steps : Plans \cup {<<>>}, next : Nat \ {0},
                         account : Account \cup {None}, port : AnyPort, blob : Secrets]
          /\ setup'.op = "uninstalled" /\ setup'.steps = steps
          /\ setup'.blob = NoSecret
      BY <2>1, <2>2, <2>3, BeginForm
    <2>5. setup'.blob.no <= counts'.pairs
      BY <1>1, <1>5, <2>4, SMT
    <2>6. QED
      BY <1>4, <2>3, <2>4, <2>5 DEF SetupForm
  <1>9. CASE Finish \/ Interrupt \/ Reboot
    <2>1. setup' = NoSetup \/ setup' = setup
      BY <1>9 DEF Finish, Interrupt, Reboot, Stops
    <2>2. CASE setup' = NoSetup
      <3>1. None \notin InstallOps /\ None # "configured" /\ None # "uninstalled"
            /\ None # "regenerated"
        BY DEF None, InstallOps
      <3>2. QED
        BY <1>1, <1>3, <2>2, <3>1, SMT DEF SetupForm
    <2>3. CASE setup' = setup
      BY <1>2, <2>3 DEF SetupForm
    <2>4. QED
      BY <2>1, <2>2, <2>3
  <1>10. CASE Protect
    <2>1. setup' = [setup EXCEPT !.next = @ + 1, !.blob = Secret(setup.account, key.no)]
      BY <1>10 DEF Protect
    <2>2. key.no \in Nat /\ key.no <= counts'.pairs
      BY <1>1, SMT DEF Files
    <2>3. /\ Secret(setup.account, key.no) \in Secrets /\ setup.next + 1 \in Nat \ {0}
          /\ Secret(setup.account, key.no).no = key.no
      BY <1>2, <2>2, SMT DEF Secret, Secrets
    <2>4. /\ setup' \in [op : Ops \cup {None}, steps : Plans \cup {<<>>}, next : Nat \ {0},
                         account : Account \cup {None}, port : AnyPort, blob : Secrets]
          /\ setup'.op = setup.op /\ setup'.steps = setup.steps
          /\ setup'.account = setup.account /\ setup'.port = setup.port
          /\ setup'.blob = Secret(setup.account, key.no)
      BY <1>2, <2>1, <2>3, Zenon
    <2>5. QED
      BY <1>2, <2>2, <2>3, <2>4 DEF SetupForm
  <1>11. CASE ~(Install \/ Configure \/ Uninstall \/ Finish \/ Interrupt \/ Reboot \/ Protect)
    <2>1. setup' = setup \/ setup' = [setup EXCEPT !.next = @ + 1]
      BY <1>11 DEF Next, SetupStep, Server, MakeBinaries, CertFile, KeyFile, ApiKey, ConfigFile,
        YamlFile, ServiceStep, RegistryStep, StartStep, Encrypt, StoreBlob, WriteBlob,
        RemoveService, RemoveBinaries, RemoveRegistry, RemoveData, Edit, RestartService, Step,
        Launch, ReadRegistry, ReadRegistryFails, CreateServer, GetKeyPassword,
        GetKeyPasswordFails, CheckKey, LoadTls, Goto, machine, vars
    <2>2. setup.next + 1 \in Nat \ {0}
      BY <1>2, SMT
    <2>3. /\ setup' \in [op : Ops \cup {None}, steps : Plans \cup {<<>>}, next : Nat \ {0},
                         account : Account \cup {None}, port : AnyPort, blob : Secrets]
          /\ setup'.op = setup.op /\ setup'.steps = setup.steps
          /\ setup'.account = setup.account /\ setup'.port = setup.port
          /\ setup'.blob = setup.blob
      BY <1>2, <2>1, <2>2, Zenon
    <2>4. QED
      BY <1>2, <2>3 DEF SetupForm
  <1>12. QED
    BY <1>6, <1>7, <1>8, <1>9, <1>10, <1>11

\* A step goes on to the next and keeps the run.
LEMMA StepKeepsRun ==
    ASSUME SetupForm, NEW name, Step(name)
    PROVE  /\ AtStep(name) /\ setup.op # None
           /\ setup'.next = setup.next + 1 /\ setup'.op = setup.op
           /\ setup'.steps = setup.steps /\ setup'.account = setup.account
           /\ setup'.port = setup.port /\ setup'.blob = setup.blob
  <1>1. AtStep(name) /\ setup' = [setup EXCEPT !.next = @ + 1]
    BY DEF Step
  <1>2. setup \in [op : Ops \cup {None}, steps : Plans \cup {<<>>}, next : Nat \ {0},
                   account : Account \cup {None}, port : AnyPort, blob : Secrets]
    BY DEF SetupForm
  <1>3. setup.op # None
    BY <1>1, WhichStep
  <1>4. QED
    BY <1>1, <1>2, <1>3, Zenon

LEMMA ProtectKeepsRun ==
    ASSUME SetupForm, Protect
    PROVE  /\ AtStep("protect") /\ setup.op # None
           /\ setup'.next = setup.next + 1 /\ setup'.op = setup.op
           /\ setup'.steps = setup.steps /\ setup'.account = setup.account
           /\ setup'.port = setup.port /\ setup'.blob = Secret(setup.account, key.no)
  <1>1. AtStep("protect") /\ setup' = [setup EXCEPT !.next = @ + 1,
                                                    !.blob = Secret(setup.account, key.no)]
    BY DEF Protect
  <1>2. setup \in [op : Ops \cup {None}, steps : Plans \cup {<<>>}, next : Nat \ {0},
                   account : Account \cup {None}, port : AnyPort, blob : Secrets]
    BY DEF SetupForm
  <1>3. setup.op # None
    BY <1>1, WhichStep
  <1>4. QED
    BY <1>1, <1>2, <1>3, Zenon

\* What Begin makes of setup.
LEMMA BeginsAtOne ==
    ASSUME NEW op, NEW steps, NEW account, NEW port, Begin(op, steps, account, port)
    PROVE  /\ setup'.op = op /\ setup'.steps = steps /\ setup'.next = 1
           /\ setup'.account = account /\ setup'.port = port
  BY Zenon DEF Begin, NoSetup

LEMMA InstallUnderwayKept ==
    ASSUME Service, SetupForm, SetupForm', InstallUnderway, [Next]_vars
    PROVE  InstallUnderway'
  <1> SUFFICES ASSUME setup'.op \in InstallOps, setup'.next >= Len(setup'.steps) - 1
               PROVE  service'.installed /\ service'.account = setup'.account
    BY DEF InstallUnderway
  <1>1. setup'.next \in Nat /\ setup'.steps \in InstallPlans /\ Len(setup'.steps) \in 7 .. 11
    BY InstallPlanFacts DEF SetupForm
  <1>2. setup'.next # 1
    <2>1. PICK n \in Nat, m \in 7 .. 11 : n = setup'.next /\ m = Len(setup'.steps)
      BY <1>1
    <2>2. n >= m - 1
      BY <2>1
    <2>3. n # 1
      BY <2>2
    <2>4. QED
      BY <2>1, <2>3
  <1>3. setup'.op # None
    BY DEF InstallOps, None
  <1>4. ~Install /\ ~Configure /\ ~Uninstall
    <2>1. Install \/ Configure \/ Uninstall => setup'.next = 1
      <3>1. Install \/ Configure \/ Uninstall =>
               \E op, steps, account, port : Begin(op, steps, account, port)
        BY DEF Install, Configure, Uninstall
      <3>2. QED
        BY <3>1, BeginsAtOne
    <2>2. QED
      BY <1>2, <2>1
  <1>5. ~Finish /\ ~Interrupt
    BY <1>3 DEF Finish, Interrupt, Stops, NoSetup
  <1>6. CASE ServiceStep
    <2>1. Step("service")
      BY <1>6 DEF ServiceStep
    <2>2. setup'.account = setup.account
      BY <2>1, StepKeepsRun
    <2>3. service' = [installed |-> TRUE, running |-> FALSE, account |-> setup.account]
      BY <1>6 DEF ServiceStep
    <2>4. QED
      BY <2>2, <2>3, Zenon
  <1>7. ~RemoveService
    <2>1. RemoveService => Step("remove_service")
      BY DEF RemoveService
    <2>2. QED
      BY <2>1, StepKeepsRun, WhichStep
  <1>8. CASE Reboot
    <2>1. setup' = setup /\ setup.op = None
      BY <1>3, <1>8 DEF Reboot, Stops, Idle, NoSetup
    <2>2. QED
      BY <1>3, <2>1
  <1>9. CASE \/ MakeBinaries \/ CertFile \/ KeyFile \/ Protect \/ ApiKey \/ ConfigFile \/ YamlFile
             \/ RegistryStep \/ StartStep \/ Encrypt \/ StoreBlob \/ WriteBlob
             \/ RemoveBinaries \/ RemoveRegistry \/ RemoveData
    <2>1. ~Protect => \E name : name # "service" /\ Step(name)
      BY <1>9 DEF MakeBinaries, CertFile, KeyFile, ApiKey, ConfigFile, YamlFile, RegistryStep,
        StartStep, Encrypt, StoreBlob, WriteBlob, RemoveBinaries, RemoveRegistry, RemoveData
    <2>2. /\ ~AtStep("service")
          /\ setup'.next = setup.next + 1 /\ setup'.op = setup.op
          /\ setup'.steps = setup.steps /\ setup'.account = setup.account
      <3>1. CASE Protect
        <4>1. AtStep("protect")
          BY <3>1, ProtectKeepsRun
        <4>2. QED
          BY <3>1, <4>1, ProtectKeepsRun DEF AtStep
      <3>2. CASE ~Protect
        <4>1. PICK name : name # "service" /\ Step(name)
          BY <2>1, <3>2
        <4>2. AtStep(name)
          BY <4>1, StepKeepsRun
        <4>3. QED
          BY <4>1, <4>2, StepKeepsRun DEF AtStep
      <3>3. QED
        BY <3>1, <3>2
    <2>3. /\ setup.next \in Nat /\ Len(setup.steps) \in Nat
          /\ setup.next # Len(setup.steps) - 2
      BY <2>2, ServiceSteps
    <2>4. setup.next >= Len(setup.steps) - 1
      BY <2>2, <2>3, SMT
    <2>5. service.installed /\ service.account = setup.account
      BY <2>2, <2>4 DEF InstallUnderway
    <2>6. service' = service \/ service' = [service EXCEPT !.running = TRUE]
      BY <1>9 DEF MakeBinaries, CertFile, KeyFile, Protect, ApiKey, ConfigFile, YamlFile,
        RegistryStep, StartStep, Encrypt, StoreBlob, WriteBlob, RemoveBinaries, RemoveRegistry,
        RemoveData, machine
    <2>7. service'.installed = service.installed /\ service'.account = service.account
      BY <2>6, Zenon DEF Service
    <2>8. QED
      BY <2>2, <2>5, <2>7
  <1>10. CASE Edit \/ RestartService \/ Server \/ UNCHANGED vars
    <2>1. setup' = setup /\ service' = service
      BY <1>10 DEF Edit, RestartService, Server, Launch, ReadRegistry, ReadRegistryFails,
        CreateServer, GetKeyPassword, GetKeyPasswordFails, CheckKey, LoadTls, Goto, machine, vars
    <2>2. QED
      BY <2>1 DEF InstallUnderway
  <1>11. QED
    BY <1>4, <1>5, <1>6, <1>7, <1>8, <1>9, <1>10 DEF Next, SetupStep

LEMMA HistoryKept ==
    ASSUME History, SetupForm, Service, [Next]_vars
    PROVE  History'
  <1>1. hist \in [last : Ops \cup {None}, clean : BOOLEAN, used : SUBSET Account]
    BY DEF History
  <1>2. setup.op \in Ops \cup {None}
    BY DEF SetupForm
  <1>3. CASE Install \/ Configure \/ Uninstall
    <2>1. PICK account \in Account \cup {None} : \E op, steps, port :
             Begin(op, steps, account, port)
      <3>1. \A account \in ConfigureAccounts : account \in Account \cup {None}
        BY DEF ConfigureAccounts, Service
      <3>2. Install => \E account \in Account : \E op, steps, port :
                          Begin(op, steps, account, port)
        BY DEF Install
      <3>3. Configure => \E account \in ConfigureAccounts \cup {None} : \E op, steps, port :
                            Begin(op, steps, account, port)
        BY DEF Configure
      <3>4. Uninstall => \E op, steps, port : Begin(op, steps, None, port)
        BY DEF Uninstall
      <3>5. QED
        BY <1>3, <3>1, <3>2, <3>3, <3>4
    <2>2. PICK op :
             hist' = [hist EXCEPT !.last = None, !.used = hist.used \cup ({account} \ {None}),
                                  !.clean = hist.clean
                                            /\ (op = "configured" => service.installed)]
      BY <2>1 DEF Begin
    <2>3. hist.used \cup ({account} \ {None}) \in SUBSET Account
      BY <1>1
    <2>4. (hist.clean /\ (op = "configured" => service.installed)) \in BOOLEAN
      OBVIOUS
    <2>5. QED
      BY <1>1, <2>2, <2>3, <2>4, Zenon DEF History
  <1>4. CASE StoreBlob \/ RemoveRegistry \/ RemoveData
    <2>1. hist' = hist \/ hist' = [hist EXCEPT !.clean = FALSE]
      BY <1>4 DEF StoreBlob, RemoveRegistry, RemoveData, Warned
    <2>2. QED
      BY <1>1, <2>1, Zenon DEF History
  <1>5. CASE Finish
    <2>1. hist' = [hist EXCEPT !.last = setup.op]
      BY <1>5 DEF Finish
    <2>2. QED
      BY <1>1, <1>2, <2>1, Zenon DEF History
  <1>6. CASE Interrupt \/ Reboot
    <2>1. hist' = hist \/ hist' = [hist EXCEPT !.last = None, !.clean = FALSE]
      BY <1>6 DEF Interrupt, Reboot, Stops
    <2>2. QED
      BY <1>1, <2>1, Zenon DEF History
  <1>7. CASE ~(\/ Install \/ Configure \/ Uninstall \/ StoreBlob \/ RemoveRegistry \/ RemoveData
               \/ Finish \/ Interrupt \/ Reboot)
    <2>1. hist' = hist
      BY <1>7 DEF Next, SetupStep, Server, MakeBinaries, CertFile, KeyFile, Protect, ApiKey,
        ConfigFile, YamlFile, ServiceStep, RegistryStep, StartStep, Encrypt, WriteBlob,
        RemoveService, RemoveBinaries, Edit, RestartService, Launch, ReadRegistry,
        ReadRegistryFails, CreateServer, GetKeyPassword, GetKeyPasswordFails, CheckKey, LoadTls,
        Goto, machine, vars
    <2>2. QED
      BY <1>1, <2>1 DEF History
  <1>8. QED
    BY <1>3, <1>4, <1>5, <1>6, <1>7

LEMMA ProcessKept ==
    ASSUME Numbers, Numbers', counts.pairs <= counts'.pairs, counts.keys <= counts'.keys, Files,
           Registry, Service, Process, [Next]_vars
    PROVE  Process'
  <1>1. /\ counts.pairs \in Nat /\ counts'.pairs \in Nat
        /\ counts.keys \in Nat /\ counts'.keys \in Nat
    BY SMT DEF Numbers
  <1>2. /\ srv \in [pc : PCs, api : Nat, whole : BOOLEAN, password : Nat, port : AnyPort,
                    tls : BOOLEAN, current : BOOLEAN]
        /\ srv.api \in Nat /\ srv.password \in Nat
        /\ srv.api <= counts'.keys /\ srv.password <= counts'.pairs
        /\ srv.pc # "off" => service.running
    BY <1>1, SMT DEF Process
  <1>3. /\ registry.port \in AnyPort /\ registry.apikey.no \in Nat /\ registry.blob.no \in Nat
        /\ registry.apikey.no <= counts'.keys /\ registry.blob.no <= counts'.pairs
    BY <1>1, SMT DEF Registry, Secrets, AnyPort
  <1>4. /\ Off \in [pc : PCs, api : Nat, whole : BOOLEAN, password : Nat, port : AnyPort,
                    tls : BOOLEAN, current : BOOLEAN]
        /\ Off.api = 0 /\ Off.password = 0 /\ Off.pc = "off"
    BY SMT DEF Off, PCs, AnyPort
  <1>5. CASE srv' = Off
    BY <1>1, <1>4, <1>5 DEF Process
  <1>6. CASE Install
    <2>1. /\ service' = IF registry.root THEN [service EXCEPT !.running = FALSE] ELSE service
          /\ srv' = IF registry.root THEN Off ELSE srv
      BY <1>6 DEF Install
    <2>2. CASE registry.root
      BY <1>5, <2>1, <2>2
    <2>3. CASE ~registry.root
      <3>1. srv' = srv /\ service' = service
        BY <2>1, <2>3
      <3>2. QED
        BY <1>2, <3>1 DEF Process
    <2>4. QED
      BY <2>2, <2>3
  <1>7. CASE ApiKey \/ RegistryStep \/ RemoveRegistry
    <2>1. srv' = [srv EXCEPT !.current = FALSE] /\ service' = service
      BY <1>7 DEF ApiKey, RegistryStep, RemoveRegistry
    <2>2. /\ srv' \in [pc : PCs, api : Nat, whole : BOOLEAN, password : Nat, port : AnyPort,
                       tls : BOOLEAN, current : BOOLEAN]
          /\ srv'.api = srv.api /\ srv'.password = srv.password /\ srv'.pc = srv.pc
      BY <1>2, <2>1, Zenon
    <2>3. QED
      BY <1>2, <2>1, <2>2 DEF Process
  <1>8. CASE ServiceStep \/ StartStep \/ RemoveService \/ Reboot \/ RestartService
    BY <1>5, <1>8 DEF ServiceStep, StartStep, RemoveService, Reboot, RestartService
  <1>9. CASE Server
    <2>1. service' = service
      BY <1>9 DEF Server, Launch, ReadRegistry, ReadRegistryFails, CreateServer, GetKeyPassword,
        GetKeyPasswordFails, CheckKey, LoadTls, Goto, machine
    <2>2. CASE Launch
      <3>1. srv' = [Off EXCEPT !.pc = "registry"] /\ service.running
        BY <2>2 DEF Launch, Goto
      <3>2. /\ srv' \in [pc : PCs, api : Nat, whole : BOOLEAN, password : Nat, port : AnyPort,
                         tls : BOOLEAN, current : BOOLEAN]
            /\ srv'.api = 0 /\ srv'.password = 0
        <4>1. "registry" \in PCs
          BY DEF PCs
        <4>2. QED
          BY <1>4, <3>1, <4>1, Zenon
      <3>3. QED
        BY <1>1, <2>1, <3>1, <3>2 DEF Process
    <2>3. CASE ReadRegistry /\ srv' # Off
      <3>1. srv' = [srv EXCEPT !.pc = "create", !.current = TRUE, !.api = registry.apikey.no,
                               !.port = registry.port]
        BY <2>3 DEF ReadRegistry, Goto
      <3>2. srv.pc = "registry" /\ "create" \in PCs
        BY <2>3 DEF ReadRegistry, PCs
      <3>3. /\ srv' \in [pc : PCs, api : Nat, whole : BOOLEAN, password : Nat, port : AnyPort,
                         tls : BOOLEAN, current : BOOLEAN]
            /\ srv'.api = registry.apikey.no /\ srv'.password = srv.password
        BY <1>2, <1>3, <3>1, <3>2, Zenon
      <3>4. service.running
        BY <1>2, <3>2
      <3>5. QED
        BY <1>2, <1>3, <2>1, <3>3, <3>4 DEF Process
    <2>4. CASE ReadRegistryFails /\ srv' # Off
      <3>1. srv' = [srv EXCEPT !.pc = "create", !.whole = FALSE, !.port = None]
        BY <2>4 DEF ReadRegistryFails, Goto
      <3>2. srv.pc = "registry" /\ "create" \in PCs /\ None \in AnyPort
        BY <2>4 DEF ReadRegistryFails, PCs, AnyPort
      <3>3. /\ srv' \in [pc : PCs, api : Nat, whole : BOOLEAN, password : Nat, port : AnyPort,
                         tls : BOOLEAN, current : BOOLEAN]
            /\ srv'.api = srv.api /\ srv'.password = srv.password
        BY <1>2, <3>1, <3>2, Zenon
      <3>4. service.running
        BY <1>2, <3>2
      <3>5. QED
        BY <1>2, <2>1, <3>3, <3>4 DEF Process
    <2>5. CASE CreateServer /\ srv' # Off
      <3>1. PICK pc \in {"serving", "password"}, tls \in BOOLEAN :
               srv' = [srv EXCEPT !.pc = pc, !.tls = tls, !.port = Port(None, srv.port, yaml)]
        BY <2>5 DEF CreateServer, Goto
      <3>2. srv.pc = "create" /\ pc \in PCs
        BY <2>5, <3>1 DEF CreateServer, PCs
      <3>3. Port(None, srv.port, yaml) \in AnyPort
        BY <1>2 DEF Port, Or, Files, AnyPort
      <3>4. /\ srv' \in [pc : PCs, api : Nat, whole : BOOLEAN, password : Nat, port : AnyPort,
                         tls : BOOLEAN, current : BOOLEAN]
            /\ srv'.api = srv.api /\ srv'.password = srv.password
        BY <1>2, <3>1, <3>2, <3>3, Zenon
      <3>5. service.running
        BY <1>2, <3>2
      <3>6. QED
        BY <1>2, <2>1, <3>4, <3>5 DEF Process
    <2>6. CASE GetKeyPassword /\ srv' # Off
      <3>1. \/ srv' = [srv EXCEPT !.pc = "check"]
            \/ srv' = [srv EXCEPT !.pc = "load", !.password = registry.blob.no]
        BY <2>6 DEF GetKeyPassword, Goto
      <3>2. srv.pc = "password" /\ "check" \in PCs /\ "load" \in PCs
        BY <2>6 DEF GetKeyPassword, PCs
      <3>3. /\ srv' \in [pc : PCs, api : Nat, whole : BOOLEAN, password : Nat, port : AnyPort,
                         tls : BOOLEAN, current : BOOLEAN]
            /\ srv'.api = srv.api /\ srv'.password \in {srv.password, registry.blob.no}
        BY <1>2, <1>3, <3>1, <3>2, Zenon
      <3>4. service.running
        BY <1>2, <3>2
      <3>5. QED
        BY <1>2, <1>3, <2>1, <3>3, <3>4 DEF Process
    <2>7. CASE GetKeyPasswordFails
      BY <1>5, <2>7 DEF GetKeyPasswordFails, Goto
    <2>8. CASE (CheckKey \/ LoadTls) /\ srv' # Off
      <3>1. PICK pc \in {"load", "serving"} : srv' = [srv EXCEPT !.pc = pc]
        BY <2>8 DEF CheckKey, LoadTls, Goto
      <3>2. srv.pc \in {"check", "load"} /\ pc \in PCs
        BY <2>8, <3>1 DEF CheckKey, LoadTls, PCs
      <3>3. /\ srv' \in [pc : PCs, api : Nat, whole : BOOLEAN, password : Nat, port : AnyPort,
                         tls : BOOLEAN, current : BOOLEAN]
            /\ srv'.api = srv.api /\ srv'.password = srv.password
        BY <1>2, <3>1, <3>2, Zenon
      <3>4. service.running
        BY <1>2, <3>2
      <3>5. QED
        BY <1>2, <2>1, <3>3, <3>4 DEF Process
    <2>9. QED
      BY <1>5, <1>9, <2>2, <2>3, <2>4, <2>5, <2>6, <2>7, <2>8 DEF Server
  <1>10. CASE ~(\/ Install \/ ApiKey \/ RegistryStep \/ RemoveRegistry \/ ServiceStep \/ StartStep
                \/ RemoveService \/ Reboot \/ RestartService \/ Server)
    <2>1. srv' = srv /\ service' = service
      BY <1>10 DEF Next, SetupStep, Configure, Uninstall, MakeBinaries, CertFile, KeyFile, Protect,
        ConfigFile, YamlFile, Encrypt, StoreBlob, WriteBlob, RemoveBinaries, RemoveData, Finish,
        Interrupt, Edit, machine, vars
    <2>2. QED
      BY <1>2, <2>1 DEF Process
  <1>11. QED
    BY <1>6, <1>7, <1>8, <1>9, <1>10

LEMMA CurrentKept ==
    ASSUME Registry, Process, Current, [Next]_vars
    PROVE  Current'
  <1>1. srv \in [pc : PCs, api : Nat, whole : BOOLEAN, password : Nat, port : AnyPort,
                 tls : BOOLEAN, current : BOOLEAN]
    BY DEF Process
  <1>2. CASE srv' = Off
    BY <1>2, Zenon DEF Off, Current
  <1>3. CASE srv' = srv /\ registry'.apikey = registry.apikey /\ registry'.port = registry.port
    BY <1>3 DEF Current
  <1>4. CASE Install
    <2>1. /\ srv' = IF registry.root THEN Off ELSE srv
          /\ registry' = registry
      BY <1>4 DEF Install
    <2>2. CASE registry.root
      BY <1>2, <2>1, <2>2
    <2>3. CASE ~registry.root
      BY <1>3, <2>1, <2>3
    <2>4. QED
      BY <2>2, <2>3
  <1>5. CASE ApiKey \/ RegistryStep \/ RemoveRegistry
    <2>1. srv' = [srv EXCEPT !.current = FALSE]
      BY <1>5 DEF ApiKey, RegistryStep, RemoveRegistry
    <2>2. srv'.current = FALSE
      BY <1>1, <2>1, Zenon
    <2>3. QED
      BY <2>2 DEF Current
  <1>6. CASE ConfigFile \/ StoreBlob \/ WriteBlob
    <2>1. /\ srv' = srv
          /\ \/ registry' = registry
             \/ registry' = [registry EXCEPT !.root = TRUE]
             \/ registry' = [registry EXCEPT !.root = TRUE,
                                             !.blob = Secret(setup.account, key.no)]
      BY <1>6 DEF ConfigFile, StoreBlob, WriteBlob
    <2>2. registry'.apikey = registry.apikey /\ registry'.port = registry.port
      BY <2>1, Zenon DEF Registry
    <2>3. QED
      BY <1>3, <2>1, <2>2
  <1>7. CASE ServiceStep \/ StartStep \/ RemoveService \/ Reboot \/ RestartService
    BY <1>2, <1>7 DEF ServiceStep, StartStep, RemoveService, Reboot, RestartService
  <1>8. CASE Server /\ srv' # Off
    <2>1. registry' = registry
      BY <1>8 DEF Server, Launch, ReadRegistry, ReadRegistryFails, CreateServer, GetKeyPassword,
        GetKeyPasswordFails, CheckKey, LoadTls, Goto, machine
    <2>2. CASE Launch
      <3>1. srv' = [Off EXCEPT !.pc = "registry"]
        BY <2>2 DEF Launch, Goto
      <3>2. srv'.pc = "registry"
        BY <3>1, Zenon DEF Off
      <3>3. QED
        BY <3>2 DEF Current
    <2>3. CASE ReadRegistry
      <3>1. srv' = [srv EXCEPT !.pc = "create", !.current = TRUE, !.api = registry.apikey.no,
                               !.port = registry.port]
        BY <1>8, <2>3 DEF ReadRegistry, Goto
      <3>2. srv'.pc = "create" /\ srv'.api = registry.apikey.no /\ srv'.port = registry.port
        BY <1>1, <3>1, Zenon
      <3>3. QED
        BY <2>1, <3>2 DEF Current
    <2>4. CASE ReadRegistryFails
      <3>1. srv' = [srv EXCEPT !.pc = "create", !.whole = FALSE, !.port = None]
        BY <1>8, <2>4 DEF ReadRegistryFails, Goto
      <3>2. srv'.whole = FALSE
        BY <1>1, <3>1, Zenon
      <3>3. QED
        BY <3>2 DEF Current
    <2>5. CASE CreateServer
      <3>1. PICK pc \in {"serving", "password"}, tls \in BOOLEAN :
               srv' = [srv EXCEPT !.pc = pc, !.tls = tls, !.port = Port(None, srv.port, yaml)]
        BY <1>8, <2>5 DEF CreateServer, Goto
      <3>2. srv.pc = "create" /\ pc # "create"
        BY <2>5, <3>1 DEF CreateServer
      <3>3. /\ srv'.pc = pc /\ srv'.port = Port(None, srv.port, yaml)
            /\ srv'.api = srv.api /\ srv'.whole = srv.whole /\ srv'.current = srv.current
        BY <1>1, <3>1, Zenon
      <3>4. Port(None, srv.port, yaml) = Or(srv.port, Port(None, srv.port, yaml))
        BY DEF Port, Or
      <3>5. QED
        BY <2>1, <3>2, <3>3, <3>4 DEF Current
    <2>6. CASE GetKeyPassword
      <3>1. \/ srv' = [srv EXCEPT !.pc = "check"]
            \/ srv' = [srv EXCEPT !.pc = "load", !.password = registry.blob.no]
        BY <1>8, <2>6 DEF GetKeyPassword, Goto
      <3>2. srv.pc = "password"
        BY <2>6 DEF GetKeyPassword
      <3>3. /\ srv'.pc \in {"check", "load"} /\ srv'.port = srv.port
            /\ srv'.api = srv.api /\ srv'.whole = srv.whole /\ srv'.current = srv.current
        BY <1>1, <3>1, Zenon
      <3>4. QED
        BY <2>1, <3>2, <3>3 DEF Current
    <2>7. CASE GetKeyPasswordFails
      BY <1>8, <2>7 DEF GetKeyPasswordFails, Goto
    <2>8. CASE CheckKey \/ LoadTls
      <3>1. PICK pc \in {"load", "serving"} : srv' = [srv EXCEPT !.pc = pc]
        BY <1>8, <2>8 DEF CheckKey, LoadTls, Goto
      <3>2. srv.pc \in {"check", "load"}
        BY <2>8 DEF CheckKey, LoadTls
      <3>3. /\ srv'.pc = pc /\ srv'.port = srv.port
            /\ srv'.api = srv.api /\ srv'.whole = srv.whole /\ srv'.current = srv.current
        BY <1>1, <3>1, Zenon
      <3>4. QED
        BY <2>1, <3>2, <3>3 DEF Current
    <2>9. QED
      BY <1>8, <2>2, <2>3, <2>4, <2>5, <2>6, <2>7, <2>8 DEF Server
  <1>9. CASE ~(\/ Install \/ ApiKey \/ RegistryStep \/ RemoveRegistry \/ ConfigFile \/ StoreBlob
               \/ WriteBlob \/ ServiceStep \/ StartStep \/ RemoveService \/ Reboot
               \/ RestartService \/ Server)
    <2>1. srv' = srv /\ registry' = registry
      BY <1>9 DEF Next, SetupStep, Configure, Uninstall, MakeBinaries, CertFile, KeyFile, Protect,
        YamlFile, Encrypt, RemoveBinaries, RemoveData, Finish, Interrupt, Edit, machine, vars
    <2>2. QED
      BY <1>3, <2>1
  <1>10. QED
    BY <1>2, <1>4, <1>5, <1>6, <1>7, <1>8, <1>9

LEMMA RecoveredKept ==
    ASSUME Files, Registry, Service, History, SetupForm, InstallUnderway, Midway, Recovered,
           [Next]_vars
    PROVE  Recovered'
  <1> SUFFICES ASSUME Idle', hist'.last = "regenerated"
               PROVE  /\ service'.installed /\ cert' # 0 /\ key' = [pair |-> cert', no |-> cert']
                      /\ registry'.blob = Secret(service'.account, cert')
                      /\ registry'.apikey.account = service'.account
                      /\ yaml'.ssl \in {"certs", "none", "half"}
    BY DEF Recovered
  <1>1. /\ hist \in [last : Ops \cup {None}, clean : BOOLEAN, used : SUBSET Account]
        /\ None # "regenerated"
    BY DEF History, None
  <1>2. setup'.op = None
    BY DEF Idle
  <1>3. ~Install /\ ~Configure /\ ~Uninstall
    <2>1. Install \/ Configure \/ Uninstall =>
             \E op, steps, account, port : Begin(op, steps, account, port)
      BY DEF Install, Configure, Uninstall
    <2>2. \A op, steps, account, port : Begin(op, steps, account, port) => hist'.last = None
      BY <1>1, Zenon DEF Begin
    <2>3. QED
      BY <1>1, <2>1, <2>2
  <1>4. ~(\/ MakeBinaries \/ CertFile \/ KeyFile \/ ApiKey \/ ConfigFile \/ YamlFile
          \/ ServiceStep \/ RegistryStep \/ StartStep \/ Encrypt \/ StoreBlob \/ WriteBlob
          \/ RemoveService \/ RemoveBinaries \/ RemoveRegistry \/ RemoveData)
    <2>1. (\/ MakeBinaries \/ CertFile \/ KeyFile \/ ApiKey \/ ConfigFile \/ YamlFile
           \/ ServiceStep \/ RegistryStep \/ StartStep \/ Encrypt \/ StoreBlob \/ WriteBlob
           \/ RemoveService \/ RemoveBinaries \/ RemoveRegistry \/ RemoveData)
          => \E name : Step(name)
      BY DEF MakeBinaries, CertFile, KeyFile, ApiKey, ConfigFile, YamlFile, ServiceStep,
        RegistryStep, StartStep, Encrypt, StoreBlob, WriteBlob, RemoveService, RemoveBinaries,
        RemoveRegistry, RemoveData
    <2>2. \A name : Step(name) => setup'.op = setup.op /\ setup.op # None
      BY StepKeepsRun
    <2>3. QED
      BY <1>2, <2>1, <2>2
  <1>5. ~Protect
    BY <1>2, ProtectKeepsRun
  <1>6. CASE Finish
    <2>1. /\ setup.op = "regenerated" /\ setup.next \notin DOMAIN setup.steps
          /\ UNCHANGED machine
      <3>1. hist' = [hist EXCEPT !.last = setup.op]
        BY <1>6 DEF Finish
      <3>2. hist'.last = setup.op
        BY <1>1, <3>1, Zenon
      <3>3. QED
        BY <1>6, <3>2 DEF Finish
    <2>2. /\ setup.steps = Regenerate /\ setup.next \in Nat \ {0}
          /\ setup.op \in InstallOps
      BY <2>1 DEF SetupForm, InstallOps
    <2>3. setup.next > 11 /\ Len(setup.steps) = 11
      BY <2>1, <2>2, RegenerateFacts, SMT
    <2>4. service.installed /\ service.account = setup.account
      BY <2>2, <2>3, SMT DEF InstallUnderway
    <2>5. setup.next > 2 /\ setup.next > 3 /\ setup.next > 4 /\ setup.next > 5
          /\ setup.next > 7 /\ setup.next > 10
      BY <2>2, <2>3, SMT
    <2>6. /\ cert # 0 /\ key = [pair |-> cert, no |-> cert]
          /\ setup.blob = Secret(setup.account, cert) /\ registry.blob = setup.blob
          /\ registry.apikey.account = setup.account /\ yaml.ssl = "certs"
      BY <2>1, <2>5 DEF Midway
    <2>7. QED
      BY <2>1, <2>4, <2>6 DEF machine
  <1>7. ~Interrupt
    <2>1. Interrupt => hist' = [hist EXCEPT !.last = None, !.clean = FALSE]
      BY DEF Interrupt, Stops
    <2>2. QED
      BY <1>1, <2>1, Zenon
  <1>8. CASE Reboot
    <2>1. Idle
      <3>1. ~Idle => hist' = [hist EXCEPT !.last = None, !.clean = FALSE]
        BY <1>8 DEF Reboot, Stops
      <3>2. QED
        BY <1>1, <3>1, Zenon
    <2>2. /\ UNCHANGED <<hist, cert, key, yaml, registry>>
          /\ service' = [service EXCEPT !.running = service.installed]
      BY <1>8, <2>1 DEF Reboot
    <2>3. service'.installed = service.installed /\ service'.account = service.account
      BY <2>2, Zenon DEF Service
    <2>4. QED
      BY <2>1, <2>2, <2>3 DEF Recovered
  <1>9. CASE Edit
    <2>1. Idle /\ UNCHANGED <<hist, cert, key, registry, service>>
      BY <1>9 DEF Edit
    <2>2. \/ yaml' = yaml
          \/ \E c \in ConfigSet, ssl \in {yaml.ssl, "none", "half"} :
                yaml' = [c EXCEPT !.ssl = ssl, !.port = yaml.port]
      BY <1>9 DEF Edit
    <2>3. yaml'.ssl \in {yaml.ssl, "none", "half"}
      <3>1. CASE yaml' = yaml
        BY <3>1
      <3>2. CASE yaml' # yaml
        <4>1. PICK c \in ConfigSet, ssl \in {yaml.ssl, "none", "half"} :
                 yaml' = [c EXCEPT !.ssl = ssl, !.port = yaml.port]
          BY <2>2, <3>2
        <4>2. "ssl" \in DOMAIN c
          BY DeploymentAssumption
        <4>3. yaml'.ssl = ssl
          BY <4>1, <4>2
        <4>4. QED
          BY <4>3
      <3>3. QED
        BY <3>1, <3>2
    <2>4. QED
      BY <2>1, <2>3 DEF Recovered
  <1>10. CASE RestartService \/ Server \/ UNCHANGED vars
    <2>1. /\ setup' = setup /\ UNCHANGED <<hist, cert, key, yaml, registry, service>>
      BY <1>10 DEF RestartService, Server, Launch, ReadRegistry, ReadRegistryFails,
        CreateServer, GetKeyPassword, GetKeyPasswordFails, CheckKey, LoadTls, Goto, machine, vars
    <2>2. QED
      BY <1>2, <2>1 DEF Recovered, Idle
  <1>11. QED
    BY <1>3, <1>4, <1>5, <1>6, <1>7, <1>8, <1>9, <1>10 DEF Next, SetupStep

\* In an Install that makes new credentials, the number of each step.
LEMMA RegenerateSteps ==
    ASSUME SetupForm, setup.op = "regenerated"
    PROVE  /\ setup.next \in Nat \ {0} /\ setup.account \in Account
           /\ AtStep("binaries") => setup.next = 1
           /\ AtStep("new_cert") => setup.next = 2
           /\ AtStep("new_key") => setup.next = 3
           /\ AtStep("protect") => setup.next = 4
           /\ AtStep("api_key") => setup.next = 5
           /\ AtStep("config") => setup.next = 6
           /\ AtStep("ssl") => setup.next = 7
           /\ AtStep("yaml_port") => setup.next = 8
           /\ AtStep("service") => setup.next = 9
           /\ AtStep("registry") => setup.next = 10
           /\ AtStep("start") => setup.next = 11
           /\ \A name : AtStep(name) =>
                 name \in {"binaries", "new_cert", "new_key", "protect", "api_key", "config",
                           "ssl", "yaml_port", "service", "registry", "start"}
  <1>1. setup.steps = Regenerate /\ setup.next \in Nat \ {0} /\ setup.account \in Account
    BY DEF SetupForm, InstallOps
  <1>2. \A name : AtStep(name) => setup.next \in 1 .. 11 /\ Regenerate[setup.next] = name
    BY <1>1, RegenerateFacts DEF AtStep
  <1>3. QED
    BY <1>1, <1>2, RegenerateFacts, SMTT(30)

\* Each step of such an Install leaves alone what the earlier ones have put in place.
LEMMA MidwayKept ==
    ASSUME Numbers, Files, Registry, SetupForm, SetupForm', Midway, [Next]_vars
    PROVE  Midway'
  <1> SUFFICES ASSUME setup'.op = "regenerated"
               PROVE  /\ setup'.next > 2 => cert' # 0
                      /\ setup'.next > 3 => key' = [pair |-> cert', no |-> cert']
                      /\ setup'.next > 4 => setup'.blob = Secret(setup'.account, cert')
                      /\ setup'.next > 5 => registry'.apikey.account = setup'.account
                      /\ setup'.next > 7 => yaml'.ssl = "certs"
                      /\ setup'.next > 10 => registry'.blob = setup'.blob
    BY DEF Midway
  <1>1. None # "regenerated"
    BY DEF None
  <1>2. CASE Install \/ Configure \/ Uninstall
    <2>1. \E op, steps, account, port : Begin(op, steps, account, port)
      BY <1>2 DEF Install, Configure, Uninstall
    <2>2. setup'.next = 1
      BY <2>1, BeginsAtOne
    <2>3. QED
      BY <2>2, SMT
  <1>3. CASE Finish \/ Interrupt \/ Reboot
    <2>1. CASE setup' = NoSetup
      BY <1>1, <2>1 DEF NoSetup
    <2>2. CASE Reboot /\ Idle
      <3>1. setup' = setup /\ setup.op = None
        BY <2>2 DEF Reboot, Idle
      <3>2. QED
        BY <1>1, <3>1
    <2>3. Reboot /\ ~Idle => setup' = NoSetup
      BY DEF Reboot, Stops
    <2>4. Finish \/ Interrupt => setup' = NoSetup
      BY DEF Finish, Interrupt, Stops
    <2>5. QED
      BY <1>3, <2>1, <2>2, <2>3, <2>4
  <1>4. CASE Edit \/ RestartService
    BY <1>1, <1>4 DEF Edit, RestartService, Idle
  <1>5. CASE Server \/ UNCHANGED vars
    <2>1. setup' = setup /\ UNCHANGED <<cert, key, yaml, registry>>
      BY <1>5 DEF Server, Launch, ReadRegistry, ReadRegistryFails,
        CreateServer, GetKeyPassword, GetKeyPasswordFails, CheckKey, LoadTls, Goto, machine, vars
    <2>2. QED
      BY <2>1 DEF Midway
  \* The steps, whose run goes on.
  <1>6. CASE SetupStep /\ ~Finish
    <2>1. PICK name : /\ AtStep(name) /\ setup.op = "regenerated"
                      /\ setup'.next = setup.next + 1 /\ setup'.account = setup.account
                      /\ setup'.blob = IF Protect THEN Secret(setup.account, key.no)
                                       ELSE setup.blob
      <3>1. CASE Protect
        BY <3>1, ProtectKeepsRun
      <3>2. CASE ~Protect
        <4>1. PICK name : Step(name)
          BY <1>6, <3>2 DEF SetupStep, MakeBinaries, CertFile, KeyFile, ApiKey, ConfigFile,
            YamlFile, ServiceStep, RegistryStep, StartStep, Encrypt, StoreBlob, WriteBlob,
            RemoveService, RemoveBinaries, RemoveRegistry, RemoveData
        <4>2. QED
          BY <3>2, <4>1, StepKeepsRun
      <3>3. QED
        BY <3>1, <3>2
    <2>2. /\ setup.next \in Nat /\ setup.account \in Account
          /\ setup.next > 2 => cert # 0
          /\ setup.next > 3 => key = [pair |-> cert, no |-> cert]
          /\ setup.next > 4 => setup.blob = Secret(setup.account, cert)
          /\ setup.next > 5 => registry.apikey.account = setup.account
          /\ setup.next > 7 => yaml.ssl = "certs"
          /\ setup.next > 10 => registry.blob = setup.blob
      BY <2>1, RegenerateSteps DEF Midway
    <2> DEFINE n == setup.next
    <2>3. n \in Nat /\ setup'.next = n + 1
      BY <2>1, <2>2
    <2>4. CASE MakeBinaries
      <3>1. n = 1
        BY <2>1, <2>4, RegenerateSteps DEF MakeBinaries, Step
      <3>2. setup'.next = 2
        BY <2>3, <3>1
      <3>3. QED
        BY <3>2, SMT
    <2>5. CASE CertFile
      <3>1. n = 2
        BY <2>1, <2>5, RegenerateSteps DEF CertFile, Step
      <3>2. setup'.next = 3
        BY <2>3, <3>1
      <3>3. cert' # 0
        BY <2>5, SMT DEF CertFile, Numbers
      <3>4. QED
        BY <3>2, <3>3, SMT
    <2>6. CASE KeyFile
      <3>1. Step("new_key") /\ key' = [pair |-> cert, no |-> cert] /\ cert' = cert
        BY <2>1, <2>6, RegenerateSteps DEF KeyFile, Step
      <3>2. n = 3
        BY <2>1, <3>1, RegenerateSteps DEF Step
      <3>3. setup'.next = 4 /\ cert # 0
        BY <2>2, <2>3, <3>2
      <3>4. ~(setup'.next > 4) /\ ~(setup'.next > 5) /\ ~(setup'.next > 7) /\ ~(setup'.next > 10)
        BY <3>3, SMT
      <3>5. QED
        BY <3>1, <3>3, <3>4
    <2>7. CASE Protect
      <3>1. n = 4
        BY <2>1, <2>7, RegenerateSteps DEF Protect
      <3>2. setup'.next = 5 /\ cert # 0 /\ key = [pair |-> cert, no |-> cert]
        BY <2>2, <2>3, <3>1
      <3>3. ~(setup'.next > 5) /\ ~(setup'.next > 7) /\ ~(setup'.next > 10)
        BY <3>2, SMT
      <3>4. cert' = cert /\ key' = key
        BY <2>7 DEF Protect, machine
      <3>5. setup'.blob = Secret(setup'.account, cert')
        BY <2>1, <2>7, <3>2, <3>4
      <3>6. QED
        BY <3>2, <3>3, <3>4, <3>5
    <2>8. CASE ApiKey
      <3>1. n = 5
        BY <2>1, <2>8, RegenerateSteps DEF ApiKey, Step
      <3>2. /\ setup'.next = 6 /\ cert # 0 /\ key = [pair |-> cert, no |-> cert]
            /\ setup.blob = Secret(setup.account, cert)
        BY <2>2, <2>3, <3>1
      <3>3. ~(setup'.next > 7) /\ ~(setup'.next > 10)
        BY <3>2, SMT
      <3>4. /\ cert' = cert /\ key' = key
            /\ registry' = [registry EXCEPT !.root = TRUE,
                                            !.apikey = Secret(setup.account, counts.keys + 1)]
        BY <2>8 DEF ApiKey
      <3>5. registry'.apikey.account = setup.account
        BY <3>4, Zenon DEF Registry, Secret
      <3>6. ~Protect
        BY <2>1, <3>1, RegenerateSteps DEF Protect
      <3>7. QED
        BY <2>1, <3>2, <3>3, <3>4, <3>5, <3>6
    <2>9. CASE ConfigFile \/ YamlFile \/ ServiceStep \/ RegistryStep \/ StartStep
      <3>1. n \in 6 .. 11 /\ ~Protect
        <4>1. \/ AtStep("config") \/ AtStep("ssl") \/ AtStep("yaml_port") \/ AtStep("service")
              \/ AtStep("registry") \/ AtStep("registry_port") \/ AtStep("start")
              \/ AtStep("restart")
          BY <2>9 DEF ConfigFile, YamlFile, ServiceStep, RegistryStep, StartStep, Step
        <4>2. ~AtStep("registry_port") /\ ~AtStep("restart")
          BY <2>1, RegenerateSteps
        <4>3. n \in 6 .. 11
          BY <2>1, <4>1, <4>2, RegenerateSteps
        <4>4. ~Protect
          BY <2>1, <4>3, RegenerateSteps DEF Protect
        <4>5. QED
          BY <4>3, <4>4
      <3>2. /\ cert # 0 /\ key = [pair |-> cert, no |-> cert]
            /\ setup.blob = Secret(setup.account, cert)
            /\ registry.apikey.account = setup.account
        BY <2>2, <3>1
      <3>3. cert' = cert /\ key' = key /\ setup'.blob = setup.blob
        BY <2>1, <2>9, <3>1 DEF ConfigFile, YamlFile, ServiceStep, RegistryStep, StartStep
      <3>4. registry'.apikey = registry.apikey
        <4>1. \/ registry' = registry
              \/ registry' = [registry EXCEPT !.root = TRUE]
              \/ registry' = [registry EXCEPT !.root = TRUE, !.port = setup.port]
              \/ registry' = [registry EXCEPT !.root = TRUE, !.port = setup.port,
                                              !.blob = registry.blob]
              \/ registry' = [registry EXCEPT !.root = TRUE, !.port = setup.port,
                                              !.blob = setup.blob]
          BY <2>9 DEF ConfigFile, YamlFile, ServiceStep, RegistryStep, StartStep
        <4>2. QED
          BY <4>1, Zenon DEF Registry
      <3>5. setup'.next > 7 => yaml'.ssl = "certs"
        <4>1. CASE ConfigFile
          <5>1. n = 6
            BY <2>1, <4>1, RegenerateSteps DEF ConfigFile, Step
          <5>2. QED
            BY <2>3, <5>1
        <4>2. CASE YamlFile /\ Step("ssl")
          <5>1. n = 7
            BY <2>1, <4>2, RegenerateSteps DEF Step
          <5>2. ~Step("yaml_port")
            BY <2>1, <5>1, RegenerateSteps DEF Step
          <5>3. yaml' = [yaml EXCEPT !.ssl = "certs"]
            BY <4>2, <5>2 DEF YamlFile
          <5>4. "ssl" \in DOMAIN yaml
            BY DEF Files, YamlFields
          <5>5. QED
            BY <5>3, <5>4
        <4>3. CASE YamlFile /\ ~Step("ssl")
          <5>1. Step("yaml_port") /\ yaml' = [yaml EXCEPT !.port = setup.port]
            BY <4>3 DEF YamlFile
          <5>2. n = 8
            BY <2>1, <5>1, RegenerateSteps DEF Step
          <5>3. yaml.ssl = "certs"
            BY <2>2, <5>2
          <5>4. "ssl" \in DOMAIN yaml
            BY DEF Files, YamlFields
          <5>5. QED
            BY <5>1, <5>3, <5>4
        <4>4. CASE ServiceStep \/ RegistryStep \/ StartStep
          <5>1. yaml' = yaml
            BY <4>4 DEF ServiceStep, RegistryStep, StartStep
          <5>2. n > 7
            <6>1. AtStep("service") \/ AtStep("registry") \/ AtStep("registry_port")
                  \/ AtStep("start") \/ AtStep("restart")
              BY <4>4 DEF ServiceStep, RegistryStep, StartStep, Step
            <6>2. QED
              BY <2>1, <6>1, RegenerateSteps
          <5>3. QED
            BY <2>2, <5>1, <5>2
        <4>5. QED
          BY <2>9, <4>1, <4>2, <4>3, <4>4
      <3>6. setup'.next > 10 => registry'.blob = setup'.blob
        <4>1. CASE RegistryStep
          <5>1. AtStep("registry")
            BY <2>1, <4>1, RegenerateSteps DEF RegistryStep, Step
          <5>2. ~AtStep("registry_port")
            BY <2>1, RegenerateSteps
          <5>3. setup.blob # NoSecret
            BY <2>2, <3>2, DeploymentAssumption DEF NoSecret, Secret
          <5>4. registry' = [registry EXCEPT !.root = TRUE, !.port = setup.port,
                                             !.blob = setup.blob]
            BY <4>1, <5>2, <5>3 DEF RegistryStep, Step
          <5>5. registry'.blob = setup.blob
            BY <5>4, Zenon DEF Registry
          <5>6. QED
            BY <3>3, <5>5
        <4>2. CASE StartStep
          <5>1. AtStep("start") \/ AtStep("restart")
            BY <4>2 DEF StartStep, Step
          <5>2. n = 11
            BY <2>1, <5>1, RegenerateSteps
          <5>3. registry.blob = setup.blob /\ registry' = registry
            BY <2>2, <4>2, <5>2 DEF StartStep
          <5>4. QED
            BY <3>3, <5>3
        <4>3. CASE ConfigFile \/ YamlFile \/ ServiceStep
          <5>1. AtStep("config") \/ AtStep("ssl") \/ AtStep("yaml_port") \/ AtStep("service")
            BY <4>3 DEF ConfigFile, YamlFile, ServiceStep, Step
          <5>2. n < 10
            BY <2>1, <5>1, RegenerateSteps
          <5>3. QED
            BY <2>3, <5>2
        <4>4. QED
          BY <2>9, <4>1, <4>2, <4>3
      <3>7. QED
        BY <2>1, <3>2, <3>3, <3>4, <3>5, <3>6
    <2>10. ~(\/ Encrypt \/ StoreBlob \/ WriteBlob \/ RemoveService \/ RemoveBinaries
             \/ RemoveRegistry \/ RemoveData)
      <3>1. (\/ Encrypt \/ StoreBlob \/ WriteBlob \/ RemoveService \/ RemoveBinaries
             \/ RemoveRegistry \/ RemoveData)
            => \/ AtStep("encrypt") \/ AtStep("store_blob") \/ AtStep("write_blob")
               \/ AtStep("remove_service") \/ AtStep("remove_binaries")
               \/ AtStep("remove_registry") \/ AtStep("remove_data")
        BY DEF Encrypt, StoreBlob, WriteBlob, RemoveService, RemoveBinaries, RemoveRegistry,
          RemoveData, Step
      <3>2. QED
        BY <2>1, <3>1, RegenerateSteps
    <2>11. QED
      BY <1>6, <2>4, <2>5, <2>6, <2>7, <2>8, <2>9, <2>10 DEF SetupStep
  <1>7. QED
    BY <1>2, <1>3, <1>4, <1>5, <1>6 DEF Next

LEMMA InitHolds == Init => IInv
  <1> SUFFICES ASSUME Init
               PROVE  IInv
    OBVIOUS
  <1>1. /\ None \notin Account /\ None \notin Ports /\ NoSecret \in Secrets
        /\ NoSecret.no = 0
    BY DeploymentAssumption DEF NoSecret, Secret, Secrets
  <1>2. Numbers /\ counts.pairs = 0 /\ counts.keys = 0
    BY SMT DEF Init, Numbers
  <1>3. Files
    <2>1. DOMAIN Template = YamlFields /\ Template.port \in AnyPort
      BY DeploymentAssumption DEF YamlFields, AnyPort
    <2>2. DOMAIN yaml = YamlFields /\ yaml.port \in AnyPort
      BY <2>1, SMT DEF Init, NoConfig, YamlFields
    <2>3. cert \in 0 .. counts.pairs /\ key \in [pair : 0 .. counts.pairs, no : Nat]
          /\ key.no \in {0, key.pair}
      BY <1>2, SMT DEF Init, NoKey
    <2>4. QED
      BY <2>2, <2>3 DEF Files
  <1>4. Registry
    <2>1. registry = [root |-> FALSE, apikey |-> NoSecret, blob |-> NoSecret, port |-> None]
      BY DEF Init
    <2>2. registry \in [root : BOOLEAN, apikey : Secrets, blob : Secrets, port : Ports \cup {None}]
      BY <1>1, <2>1, Zenon
    <2>3. registry.apikey = NoSecret /\ registry.blob = NoSecret
      BY <2>1, Zenon
    <2>4. QED
      BY <1>1, <1>2, <2>2, <2>3, SMT DEF Registry
  <1>5. Service
    <2>1. service = [installed |-> FALSE, running |-> FALSE, account |-> None]
      BY DEF Init
    <2>2. service \in [installed : BOOLEAN, running : BOOLEAN, account : Account \cup {None}]
      BY <2>1, Zenon
    <2>3. ~service.running /\ ~service.installed
      BY <2>1, Zenon
    <2>4. QED
      BY <2>2, <2>3 DEF Service
  <1>6. Process
    <2>1. srv = [pc |-> "off", api |-> 0, whole |-> TRUE, password |-> 0, port |-> "8000",
                 tls |-> FALSE, current |-> TRUE]
      BY DEF Init, Off
    <2>2. 0 \in Nat /\ "off" \in PCs /\ "8000" \in AnyPort
      BY SMT DEF PCs, AnyPort
    <2>3. srv \in [pc : PCs, api : Nat, whole : BOOLEAN, password : Nat, port : AnyPort,
                   tls : BOOLEAN, current : BOOLEAN]
      BY <2>1, <2>2, Zenon
    <2>4. srv.pc = "off" /\ srv.api = 0 /\ srv.password = 0
      BY <2>1, Zenon
    <2>5. QED
      BY <1>2, <2>3, <2>4, SMT DEF Process
  <1>7. hist = [last |-> None, clean |-> TRUE, used |-> {}]
    BY DEF Init
  <1>8. History
    BY <1>7, Zenon DEF History
  <1>9. setup = [op |-> None, steps |-> <<>>, next |-> 1, account |-> None, port |-> "8000",
                 blob |-> NoSecret]
    BY DEF Init, NoSetup
  <1>10. /\ setup.op = None /\ setup.steps = <<>> /\ setup.blob = NoSecret
    BY <1>9, Zenon
  <1>11. setup.op \notin InstallOps /\ setup.op \notin {"configured", "uninstalled"}
    BY <1>10 DEF None, InstallOps
  <1>12. SetupForm
    <2>1. 1 \in Nat \ {0} /\ "8000" \in AnyPort
      BY SMT DEF AnyPort
    <2>2. setup \in [op : Ops \cup {None}, steps : Plans \cup {<<>>}, next : Nat \ {0},
                     account : Account \cup {None}, port : AnyPort, blob : Secrets]
      BY <1>1, <1>9, <2>1, Zenon
    <2>3. setup.blob.no <= counts.pairs
      BY <1>1, <1>2, <1>10, SMT
    <2>4. QED
      BY <1>10, <1>11, <2>2, <2>3 DEF SetupForm, InstallOps
  <1>13. InstallUnderway /\ Midway
    BY <1>11 DEF InstallUnderway, Midway, InstallOps
  <1>14. Recovered
    <2>1. hist.last = None
      BY <1>7, Zenon
    <2>2. QED
      BY <2>1 DEF Recovered, None
  <1>15. Current
    <2>1. srv.pc = "off"
      BY DEF Init, Off
    <2>2. QED
      BY <2>1 DEF Current
  <1>16. QED
    BY <1>2, <1>3, <1>4, <1>5, <1>6, <1>8, <1>12, <1>13, <1>14, <1>15 DEF IInv

LEMMA InvariantKept == IInv /\ [Next]_vars => IInv'
  <1> SUFFICES ASSUME IInv, [Next]_vars
               PROVE  IInv'
    OBVIOUS
  <1>1. /\ Numbers /\ Files /\ Registry /\ Service /\ Process /\ History
        /\ SetupForm /\ InstallUnderway /\ Midway /\ Recovered /\ Current
    BY DEF IInv
  <1>2. Numbers' /\ counts.pairs <= counts'.pairs /\ counts.keys <= counts'.keys
    BY <1>1, NumbersKept
  <1>3. SetupForm'
    BY <1>1, <1>2, SetupFormKept
  <1>4. Files' /\ Registry' /\ Service' /\ History'
    BY <1>1, <1>2, FilesKept, RegistryKept, ServiceKept, HistoryKept
  <1>5. Process'
    BY <1>1, <1>2, ProcessKept
  <1>6. InstallUnderway' /\ Midway' /\ Recovered' /\ Current'
    BY <1>1, <1>3, InstallUnderwayKept, MidwayKept, RecoveredKept, CurrentKept
  <1>7. QED
    BY <1>2, <1>3, <1>4, <1>5, <1>6 DEF IInv

LEMMA Invariance == Spec => []IInv
  <1>1. Init => IInv
    BY InitHolds
  <1>2. IInv /\ [Next]_vars => IInv'
    BY InvariantKept
  <1>3. QED
    BY <1>1, <1>2, PTL DEF Spec
-----------------------------------------------------------------------------
\* Whatever is run, edited, stopped or failing, each variable has its type, the numbers it holds
\* have been given out, and a process of the server belongs to a service that is installed.
THEOREM TypeCorrect == Spec => []TypeOK
  <1>1. IInv => TypeOK
    <2> SUFFICES ASSUME IInv
                 PROVE  TypeOK
      OBVIOUS
    <2>1. Files /\ Registry /\ Service /\ Process
      BY DEF IInv
    <2>2. key.pair \in 0 .. counts.pairs
      BY <2>1, Zenon DEF Files
    <2>3. registry.apikey \in Secrets /\ registry.blob \in Secrets
          /\ registry.port \in Ports \cup {None}
      BY <2>1, Zenon DEF Registry
    <2>4. QED
      BY <2>1, <2>2, <2>3 DEF TypeOK, Files, Registry, Service, Process
  <1>2. QED
    BY <1>1, Invariance, PTL

\* An Install that makes new credentials recovers: it leaves an API key and a password that the
\* service's account can decrypt, and a certificate and a key that are of one pair and of that
\* password, whatever was there before it.
THEOREM RegenerationRecovers == Spec => []RegenerateRecovers
  <1>1. IInv => RegenerateRecovers
    <2> SUFFICES ASSUME IInv, Idle, hist.last = "regenerated", Loads(yaml, env)
                 PROVE  Startable
      BY DEF RegenerateRecovers
    <2>1. /\ service.installed /\ cert # 0 /\ key = [pair |-> cert, no |-> cert]
          /\ registry.blob = Secret(service.account, cert)
          /\ registry.apikey.account = service.account
          /\ yaml.ssl \in {"certs", "none", "half"}
      BY DEF IInv, Recovered
    <2>2. Decrypts(registry.apikey) /\ Decrypts(registry.blob) /\ registry.blob.no = cert
      BY <2>1 DEF Decrypts, Secret
    <2>3. key.pair = cert /\ key.no = cert
      BY <2>1
    <2>4. yaml.ssl # "half"
      <3>1. DOMAIN yaml = YamlFields
        BY DEF IInv, Files
      <3>2. _apply_env_overrides(yaml, env).ssl = yaml.ssl
        BY <3>1, SMT DEF _apply_env_overrides, YamlFields
      <3>3. _apply_env_overrides(yaml, env).ssl # "half"
        BY DEF Loads, Validates
      <3>4. QED
        BY <3>2, <3>3
    <2>5. yaml.ssl # "none" => Here
      BY <2>1, <2>4 DEF Here
    <2>6. QED
      BY <2>1, <2>2, <2>3, <2>5 DEF Startable
  <1>2. QED
    BY <1>1, Invariance, PTL

\* A server that serves with TLS asks for the registry's API key, once there is one, on every
\* request to the protocol's path, and listens on the registry's port.
THEOREM ServesAlways == Spec => []ServesWhatIsSet
  <1>1. IInv => ServesWhatIsSet
    <2> SUFFICES ASSUME IInv, srv.pc = "serving", srv.tls, srv.whole, srv.current
                 PROVE  /\ srv.port = Or(registry.port, srv.port)
                        /\ registry.apikey # NoSecret =>
                              \A r \in Requests :
                                  r.path = "/mcp" =>
                                      (Admits(r, srv.api)
                                       <=> r.scheme = "bearer" /\ r.token = registry.apikey.no)
      BY DEF ServesWhatIsSet
    <2>1. srv.api = registry.apikey.no /\ srv.port = Or(registry.port, srv.port)
      BY DEF IInv, Current
    <2>2. registry.apikey # NoSecret => srv.api # 0
      BY <2>1 DEF IInv, Registry
    <2>3. ASSUME registry.apikey # NoSecret, NEW r \in Requests, r.path = "/mcp"
          PROVE  Admits(r, srv.api) <=> r.scheme = "bearer" /\ r.token = registry.apikey.no
      BY <2>1, <2>2, <2>3 DEF Admits, validate_request
    <2>4. QED
      BY <2>1, <2>3
  <1>2. QED
    BY <1>1, Invariance, PTL
================================================================================
