---------------------------- MODULE CleanSetupProofs ----------------------------
(***************************************************************************)
(* For any accounts, ports and configurations: as long as no run of Setup  *)
(* stops early or warns, and all runs name one service account, the        *)
(* machine is in order whenever Setup is not running.  A run takes it out  *)
(* of order and puts it in order again, one step after the other, and each *)
(* kind of run does so in its own way.  And whatever stopped runs leave,   *)
(* an Install that keeps the credentials repairs all but these.            *)
(***************************************************************************)
EXTENDS DeploymentProofs, FiniteSetTheorems

\* The two certificate files and the password that the registry keeps belong together.
Matched == cert # 0 /\ key.pair = cert /\ key.no \in {0, registry.blob.no}

\* config.yaml names the certificates of the certs directory, if it names any that are there.
Named == yaml.ssl \in {"certs", "none", "half"}

ImportPlan == InstallSteps(FALSE, TRUE, TRUE)
KeptPlans == {InstallSteps(TRUE, FALSE, given) : given \in BOOLEAN}

ReplacePlan == <<"copy_cert", "copy_key", "ssl", "encrypt", "store_blob">>
RotatePlan == <<"new_cert", "new_key", "write_blob", "ssl", "restart">>
OtherPlans == {<<"api_key">>, <<"registry_port", "yaml_port", "restart">>}

\* Which plan a run follows, and that it has the account and the password its steps need.
PlanInv ==
    /\ setup.op = "imported" => setup.steps = ImportPlan
    /\ setup.op = "kept" => setup.steps \in KeptPlans
    /\ setup.op = "configured" /\ setup.account = None =>
          setup.steps \notin {RotatePlan, <<"api_key">>}
    /\ setup.blob # NoSecret => setup.op = "regenerated" /\ setup.account # None

\* Whatever is encrypted is for an account that a run of Setup has named, and so is the service.
UsedInv ==
    /\ IsFiniteSet(hist.used)
    /\ registry.apikey # NoSecret => registry.apikey.account \in hist.used
    /\ registry.blob # NoSecret => registry.blob.account \in hist.used
    /\ service.installed => service.account \in hist.used
    /\ setup.account # None => setup.account \in hist.used
    /\ setup.blob # NoSecret => setup.blob.account \in hist.used

\* Between the runs.
RestInv ==
    setup.op = None => /\ registry.root \/ service.installed => Matched
                       /\ service.installed => Named

\* An Install writes the certificate's paths to config.yaml, four steps before its end.
NamedInv ==
    setup.op \in InstallOps /\ setup.next > Len(setup.steps) - 4 => yaml.ssl = "certs"

\* An Install that keeps what is there keeps what belongs together.
KeptInv == setup.op = "kept" => Matched

\* One that imports a certificate copies its file, and then that of the key, which is plain.
ImportInv ==
    setup.op = "imported" => /\ setup.next > 2 => cert # 0
                             /\ setup.next > 3 => key.pair = cert /\ key.no = 0

\* Configure replaces the certificate by another, and encrypts its key, or makes a new one.
ConfigureInv ==
    setup.op = "configured" =>
        /\ service.installed /\ Named
        /\ setup.steps = ReplacePlan =>
              /\ setup.next = 1 \/ setup.next > 5 => Matched
              /\ setup.next > 1 => cert # 0
              /\ setup.next > 2 => key.pair = cert
              /\ setup.next \in {3, 4} => key.no = 0
        /\ setup.steps = RotatePlan =>
              /\ setup.next \notin {2, 3} => Matched
              /\ setup.next \in {2, 3} => cert # 0
              /\ setup.next = 3 => key.pair = cert
        /\ setup.steps \in OtherPlans => Matched

\* Uninstall removes first what needs the files.
UninstallInv ==
    setup.op = "uninstalled" =>
        /\ setup.next = 1 /\ service.installed => Matched /\ Named
        /\ setup.next > 1 => ~service.installed
        /\ setup.next <= 3 /\ registry.root => Matched
        /\ setup.next > 3 => ~registry.root

\* What an Install that keeps the credentials leaves, whatever it has kept.
KeptLeaves == setup.op = None /\ hist.last = "kept" => service.installed /\ Named

CleanInv == hist.clean => RestInv /\ KeptInv /\ ImportInv /\ ConfigureInv /\ UninstallInv

CInv == IInv /\ PlanInv /\ UsedInv /\ NamedInv /\ KeptLeaves /\ CleanInv
-----------------------------------------------------------------------------
(* The plans, step by step. *)

LEMMA ImportPlanFacts ==
    /\ DOMAIN ImportPlan = 1 .. 10 /\ Len(ImportPlan) = 10
    /\ ImportPlan[1] = "binaries" /\ ImportPlan[2] = "copy_cert" /\ ImportPlan[3] = "copy_key"
    /\ ImportPlan[4] = "api_key" /\ ImportPlan[5] = "config" /\ ImportPlan[6] = "ssl"
    /\ ImportPlan[7] = "yaml_port" /\ ImportPlan[8] = "service" /\ ImportPlan[9] = "registry"
    /\ ImportPlan[10] = "start"
  <1>1. DOMAIN ImportPlan = 1 .. 10 /\ Len(ImportPlan) = 10
    BY SMT DEF ImportPlan, InstallSteps
  <1>2. /\ ImportPlan[1] = "binaries" /\ ImportPlan[2] = "copy_cert" /\ ImportPlan[3] = "copy_key"
        /\ ImportPlan[4] = "api_key" /\ ImportPlan[5] = "config"
    BY SMT DEF ImportPlan, InstallSteps
  <1>3. /\ ImportPlan[6] = "ssl" /\ ImportPlan[7] = "yaml_port" /\ ImportPlan[8] = "service"
        /\ ImportPlan[9] = "registry" /\ ImportPlan[10] = "start"
    BY SMT DEF ImportPlan, InstallSteps
  <1>4. QED
    BY <1>1, <1>2, <1>3

\* What keeps the credentials writes none of the files.
KeptNames == {"binaries", "api_key", "config", "ssl", "yaml_port", "service", "registry", "start"}

LEMMA KeptPlanFacts ==
    ASSUME NEW s \in KeptPlans
    PROVE  \A i \in DOMAIN s : s[i] \in KeptNames
  <1>1. PICK given \in BOOLEAN : s = InstallSteps(TRUE, FALSE, given)
    BY DEF KeptPlans
  <1>2. CASE given
    BY <1>1, <1>2, SMTT(30) DEF InstallSteps, KeptNames
  <1>3. CASE ~given
    BY <1>1, <1>3, SMTT(30) DEF InstallSteps, KeptNames
  <1>4. QED
    BY <1>2, <1>3

LEMMA SslStepFacts ==
    ASSUME NEW s \in InstallPlans
    PROVE  \A i \in DOMAIN s : /\ s[i] = "ssl" <=> i = Len(s) - 4
                               /\ s[i] = "config" => i < Len(s) - 4
                               /\ s[i] # "remove_data"
  <1>1. PICK keep \in BOOLEAN, imported \in BOOLEAN, given \in BOOLEAN :
            s = InstallSteps(keep, imported, given)
    BY DEF InstallPlans
  <1>2. CASE ~keep /\ ~imported
    BY <1>1, <1>2, SMTT(30) DEF InstallSteps
  <1>3. CASE ~keep /\ imported
    BY <1>1, <1>3, SMTT(30) DEF InstallSteps
  <1>4. CASE keep /\ given
    BY <1>1, <1>4, SMTT(30) DEF InstallSteps
  <1>5. CASE keep /\ ~given
    BY <1>1, <1>5, SMTT(30) DEF InstallSteps
  <1>6. QED
    BY <1>2, <1>3, <1>4, <1>5

LEMMA ConfigurePlanFacts ==
    /\ ConfigurePlans = {ReplacePlan, RotatePlan} \cup OtherPlans
    /\ DOMAIN ReplacePlan = 1 .. 5 /\ DOMAIN RotatePlan = 1 .. 5
    /\ ReplacePlan[1] = "copy_cert" /\ ReplacePlan[2] = "copy_key" /\ ReplacePlan[3] = "ssl"
    /\ ReplacePlan[4] = "encrypt" /\ ReplacePlan[5] = "store_blob"
    /\ RotatePlan[1] = "new_cert" /\ RotatePlan[2] = "new_key" /\ RotatePlan[3] = "write_blob"
    /\ RotatePlan[4] = "ssl" /\ RotatePlan[5] = "restart"
    /\ \A s \in OtherPlans : \A i \in DOMAIN s :
          s[i] \in {"api_key", "registry_port", "yaml_port", "restart"}
    /\ ReplacePlan # RotatePlan /\ ReplacePlan \notin OtherPlans /\ RotatePlan \notin OtherPlans
  <1>1. ConfigurePlans = {ReplacePlan, RotatePlan} \cup OtherPlans
    BY DEF ConfigurePlans, ReplacePlan, RotatePlan, OtherPlans
  <1>2. /\ DOMAIN ReplacePlan = 1 .. 5
        /\ ReplacePlan[1] = "copy_cert" /\ ReplacePlan[2] = "copy_key" /\ ReplacePlan[3] = "ssl"
        /\ ReplacePlan[4] = "encrypt" /\ ReplacePlan[5] = "store_blob"
    BY SMT DEF ReplacePlan
  <1>3. /\ DOMAIN RotatePlan = 1 .. 5
        /\ RotatePlan[1] = "new_cert" /\ RotatePlan[2] = "new_key"
        /\ RotatePlan[3] = "write_blob" /\ RotatePlan[4] = "ssl" /\ RotatePlan[5] = "restart"
    BY SMT DEF RotatePlan
  <1>4. \A s \in OtherPlans : \A i \in DOMAIN s :
           s[i] \in {"api_key", "registry_port", "yaml_port", "restart"}
    BY SMT DEF OtherPlans
  <1>5. \A s \in OtherPlans : 1 \in DOMAIN s /\ s[1] \in {"api_key", "registry_port"}
    BY SMT DEF OtherPlans
  <1>6. ReplacePlan # RotatePlan /\ ReplacePlan \notin OtherPlans /\ RotatePlan \notin OtherPlans
    BY <1>2, <1>3, <1>5
  <1>7. QED
    BY <1>1, <1>2, <1>3, <1>4, <1>6

LEMMA UninstallPlanFacts ==
    ASSUME NEW s \in UninstallPlans
    PROVE  /\ {1, 2} \subseteq DOMAIN s /\ DOMAIN s \subseteq 1 .. 4
           /\ s[1] = "remove_service" /\ s[2] = "remove_binaries"
           /\ 3 \in DOMAIN s => s[3] = "remove_registry"
           /\ 4 \in DOMAIN s => s[4] = "remove_data"
           /\ 3 \in DOMAIN s => 4 \in DOMAIN s
  <1>1. CASE s = <<"remove_service", "remove_binaries">> \o <<"remove_registry", "remove_data">>
    BY <1>1, SMT
  <1>2. CASE s = <<"remove_service", "remove_binaries">> \o <<>>
    BY <1>2, SMT
  <1>3. QED
    BY <1>1, <1>2 DEF UninstallPlans
-----------------------------------------------------------------------------
(* What a step of each name does. *)

\* The action of each step.
LEMMA NamedAction ==
    ASSUME SetupStep, ~Finish, NEW name, AtStep(name)
    PROVE  /\ CertFile <=> name \in {"new_cert", "copy_cert"}
           /\ KeyFile <=> name \in {"new_key", "copy_key"}
           /\ YamlFile <=> name \in {"ssl", "yaml_port"}
           /\ ConfigFile <=> name = "config"
           /\ ApiKey <=> name = "api_key"
           /\ RegistryStep <=> name \in {"registry", "registry_port"}
           /\ ServiceStep <=> name = "service"
           /\ StartStep <=> name \in {"start", "restart"}
           /\ Encrypt <=> name = "encrypt"
           /\ StoreBlob <=> name = "store_blob"
           /\ WriteBlob <=> name = "write_blob"
           /\ RemoveService <=> name = "remove_service"
           /\ RemoveRegistry <=> name = "remove_registry"
           /\ RemoveData <=> name = "remove_data"
           /\ Protect <=> name = "protect"
           /\ MakeBinaries <=> name = "binaries"
           /\ RemoveBinaries <=> name = "remove_binaries"
  <1>1. \A n : AtStep(n) => n = name
    BY DEF AtStep
  <1>2. /\ CertFile => name \in {"new_cert", "copy_cert"}
        /\ KeyFile => name \in {"new_key", "copy_key"}
        /\ YamlFile => name \in {"ssl", "yaml_port"}
        /\ ConfigFile => name = "config"
        /\ ApiKey => name = "api_key"
        /\ RegistryStep => name \in {"registry", "registry_port"}
        /\ ServiceStep => name = "service"
        /\ StartStep => name \in {"start", "restart"}
        /\ Encrypt => name = "encrypt"
        /\ StoreBlob => name = "store_blob"
        /\ WriteBlob => name = "write_blob"
        /\ RemoveService => name = "remove_service"
        /\ RemoveRegistry => name = "remove_registry"
        /\ RemoveData => name = "remove_data"
        /\ Protect => name = "protect"
        /\ MakeBinaries => name = "binaries"
        /\ RemoveBinaries => name = "remove_binaries"
    BY <1>1 DEF CertFile, KeyFile, YamlFile, ConfigFile, ApiKey, RegistryStep, ServiceStep,
      StartStep, Encrypt, StoreBlob, WriteBlob, RemoveService, RemoveRegistry, RemoveData,
      Protect, MakeBinaries, RemoveBinaries, Step
  <1>3. \/ MakeBinaries \/ CertFile \/ KeyFile \/ Protect \/ ApiKey \/ ConfigFile \/ YamlFile
        \/ ServiceStep \/ RegistryStep \/ StartStep \/ Encrypt \/ StoreBlob \/ WriteBlob
        \/ RemoveService \/ RemoveBinaries \/ RemoveRegistry \/ RemoveData
    BY DEF SetupStep
  <1>4. QED
    BY <1>2, <1>3, SMTT(30)
\* The actions of Setup that are steps of a run.
Steps == SetupStep /\ ~Finish

LEMMA CertEffect ==
    ASSUME Numbers, Steps, NEW name, AtStep(name)
    PROVE  /\ name \in {"new_cert", "copy_cert"} => cert' # 0
           /\ name \notin {"new_cert", "copy_cert", "remove_data"} => cert' = cert
  <1>1. CASE CertFile
    <2>1. cert' = counts.pairs + 1 /\ counts.pairs \in Nat
      BY <1>1 DEF CertFile, Numbers
    <2>2. name \in {"new_cert", "copy_cert"}
      BY <1>1, NamedAction DEF Steps
    <2>3. QED
      BY <2>1, <2>2
  <1>2. CASE ~CertFile /\ ~RemoveData
    <2>1. cert' = cert
      BY <1>2 DEF Steps, SetupStep, MakeBinaries, KeyFile, Protect, ApiKey, ConfigFile, YamlFile,
        ServiceStep, RegistryStep, StartStep, Encrypt, StoreBlob, WriteBlob, RemoveService,
        RemoveBinaries, RemoveRegistry, machine
    <2>2. name \notin {"new_cert", "copy_cert"}
      BY <1>2, NamedAction DEF Steps
    <2>3. QED
      BY <2>1, <2>2
  <1>3. CASE RemoveData
    BY <1>3, NamedAction DEF Steps
  <1>4. QED
    BY <1>1, <1>2, <1>3

LEMMA KeyEffect ==
    ASSUME Files, Steps, NEW name, AtStep(name)
    PROVE  /\ name \in {"new_key", "copy_key"} => key'.pair = cert /\ key'.no \in {0, cert}
           /\ name = "copy_key" => key'.no = 0
           /\ name = "encrypt" => key'.pair = key.pair
           /\ name \notin {"new_key", "copy_key", "encrypt", "remove_data"} => key' = key
  <1>1. CASE KeyFile
    <2>1. name \in {"new_key", "copy_key"} /\ \A n : AtStep(n) => n = name
      BY <1>1, NamedAction DEF Steps, AtStep
    <2>2. \/ key' = [pair |-> cert, no |-> cert] /\ name = "new_key"
          \/ key' = [pair |-> cert, no |-> 0]
      BY <1>1, <2>1 DEF KeyFile, Step
    <2>3. QED
      BY <2>1, <2>2
  <1>2. CASE Encrypt
    <2>1. key' = key \/ key' = [key EXCEPT !.no = key.pair]
      BY <1>2 DEF Encrypt
    <2>2. key'.pair = key.pair
      BY <2>1 DEF Files
    <2>3. name = "encrypt"
      BY <1>2, NamedAction DEF Steps
    <2>4. QED
      BY <2>2, <2>3
  <1>3. CASE ~KeyFile /\ ~Encrypt /\ ~RemoveData
    <2>1. key' = key
      BY <1>3 DEF Steps, SetupStep, MakeBinaries, CertFile, Protect, ApiKey, ConfigFile, YamlFile,
        ServiceStep, RegistryStep, StartStep, StoreBlob, WriteBlob, RemoveService,
        RemoveBinaries, RemoveRegistry, machine
    <2>2. name \notin {"new_key", "copy_key", "encrypt"}
      BY <1>3, NamedAction DEF Steps
    <2>3. QED
      BY <2>1, <2>2
  <1>4. CASE RemoveData
    BY <1>4, NamedAction DEF Steps
  <1>5. QED
    BY <1>1, <1>2, <1>3, <1>4

LEMMA YamlEffect ==
    ASSUME Files, Steps, NEW name, AtStep(name)
    PROVE  /\ name = "ssl" => yaml'.ssl = "certs"
           /\ name \notin {"ssl", "config", "remove_data"} => yaml'.ssl = yaml.ssl
  <1>1. DOMAIN yaml = YamlFields
    BY DEF Files
  <1>2. CASE YamlFile
    <2>1. name \in {"ssl", "yaml_port"} /\ \A n : AtStep(n) => n = name
      BY <1>2, NamedAction DEF Steps, AtStep
    <2>2. \/ name = "ssl" /\ yaml' = [yaml EXCEPT !.ssl = "certs"]
          \/ name = "yaml_port" /\ yaml' = [yaml EXCEPT !.port = setup.port]
      BY <1>2, <2>1 DEF YamlFile, Step
    <2>3. QED
      BY <1>1, <2>2 DEF YamlFields
  <1>3. CASE ~YamlFile /\ ~ConfigFile /\ ~RemoveData
    <2>1. yaml' = yaml
      BY <1>3 DEF Steps, SetupStep, MakeBinaries, CertFile, KeyFile, Protect, ApiKey,
        ServiceStep, RegistryStep, StartStep, Encrypt, StoreBlob, WriteBlob, RemoveService,
        RemoveBinaries, RemoveRegistry, machine
    <2>2. name # "ssl"
      BY <1>3, NamedAction DEF Steps
    <2>3. QED
      BY <2>1, <2>2
  <1>4. CASE ConfigFile \/ RemoveData
    BY <1>4, NamedAction DEF Steps
  <1>5. QED
    BY <1>2, <1>3, <1>4

LEMMA ServiceEffect ==
    ASSUME Service, Steps, NEW name, AtStep(name)
    PROVE  /\ name = "remove_service" => ~service'.installed
           /\ name \notin {"service", "remove_service"} =>
                 service'.installed = service.installed /\ service'.account = service.account
  <1>1. CASE RemoveService
    <2>1. service' = [installed |-> FALSE, running |-> FALSE, account |-> None]
      BY <1>1 DEF RemoveService
    <2>2. ~service'.installed
      BY <2>1, Zenon
    <2>3. name = "remove_service"
      BY <1>1, NamedAction DEF Steps
    <2>4. QED
      BY <2>2, <2>3
  <1>2. CASE ~RemoveService /\ ~ServiceStep
    <2>1. service' = service \/ service' = [service EXCEPT !.running = TRUE]
      BY <1>2 DEF Steps, SetupStep, MakeBinaries, CertFile, KeyFile, Protect, ApiKey, ConfigFile,
        YamlFile, RegistryStep, StartStep, Encrypt, StoreBlob, WriteBlob, RemoveBinaries,
        RemoveRegistry, RemoveData, machine
    <2>2. service'.installed = service.installed /\ service'.account = service.account
      BY <2>1, Zenon DEF Service
    <2>3. name # "remove_service"
      BY <1>2, NamedAction DEF Steps
    <2>4. QED
      BY <2>2, <2>3
  <1>3. CASE ServiceStep
    BY <1>3, NamedAction DEF Steps
  <1>4. QED
    BY <1>1, <1>2, <1>3

LEMMA RegistryEffect ==
    ASSUME Registry, History, Steps, NEW name, AtStep(name)
    PROVE  /\ name = "store_blob" /\ hist'.clean => key.no \in {0, registry'.blob.no}
           /\ name = "write_blob" => registry'.blob.no = key.no
           /\ name = "registry" /\ setup.blob = NoSecret => registry'.blob = registry.blob
           /\ name \notin {"registry", "store_blob", "write_blob", "remove_registry"} =>
                 registry'.blob = registry.blob
           /\ name \in {"remove_service", "remove_binaries", "remove_data"} => registry' = registry
           /\ name = "remove_registry" /\ hist'.clean => ~registry'.root
  <1>1. /\ registry \in [root : BOOLEAN, apikey : Secrets, blob : Secrets, port : Ports \cup {None}]
        /\ hist \in [last : Ops \cup {None}, clean : BOOLEAN, used : SUBSET Account]
    BY DEF Registry, History
  <1>2. Warned => ~hist'.clean
    BY <1>1, Zenon DEF Warned
  <1>3. CASE StoreBlob
    <2>1. name = "store_blob"
      BY <1>3, NamedAction DEF Steps
    <2>2. \/ key.no = 0 \/ Warned
          \/ registry' = [registry EXCEPT !.root = TRUE, !.blob = Secret(setup.account, key.no)]
      BY <1>3 DEF StoreBlob
    <2>3. registry' = [registry EXCEPT !.root = TRUE, !.blob = Secret(setup.account, key.no)]
             => registry'.blob = Secret(setup.account, key.no)
      BY <1>1, Zenon
    <2>4. Secret(setup.account, key.no).no = key.no
      BY DEF Secret
    <2>5. QED
      BY <1>2, <2>1, <2>2, <2>3, <2>4
  <1>4. CASE WriteBlob
    <2>1. name = "write_blob"
      BY <1>4, NamedAction DEF Steps
    <2>2. registry'.blob = Secret(setup.account, key.no)
      BY <1>1, <1>4, Zenon DEF WriteBlob
    <2>3. QED
      BY <2>1, <2>2 DEF Secret
  <1>5. CASE RegistryStep
    <2>1. name \in {"registry", "registry_port"} /\ \A n : AtStep(n) => n = name
      BY <1>5, NamedAction DEF Steps, AtStep
    <2>2. \/ /\ name = "registry"
             /\ registry' = [registry EXCEPT !.root = TRUE, !.port = setup.port,
                                 !.blob = IF setup.blob = NoSecret THEN @ ELSE setup.blob]
          \/ /\ name = "registry_port"
             /\ registry' = [registry EXCEPT !.root = TRUE, !.port = setup.port]
      BY <1>5, <2>1 DEF RegistryStep, Step
    <2>3. registry'.blob = registry.blob \/ (name = "registry" /\ setup.blob # NoSecret)
      BY <1>1, <2>2, Zenon
    <2>4. QED
      BY <2>1, <2>3
  <1>6. CASE RemoveRegistry
    <2>1. name = "remove_registry"
      BY <1>6, NamedAction DEF Steps
    <2>2. \/ Warned
          \/ registry' = [root |-> FALSE, apikey |-> NoSecret, blob |-> NoSecret, port |-> None]
      BY <1>6 DEF RemoveRegistry
    <2>3. ASSUME registry' = [root |-> FALSE, apikey |-> NoSecret, blob |-> NoSecret, port |-> None]
          PROVE  ~registry'.root
      BY <2>3, Zenon
    <2>4. QED
      BY <1>2, <2>1, <2>2, <2>3
  <1>7. CASE ApiKey \/ ConfigFile
    <2>1. name \in {"api_key", "config"}
      BY <1>7, NamedAction DEF Steps
    <2>2. \/ \E s : registry' = [registry EXCEPT !.root = TRUE, !.apikey = s]
          \/ registry' = [registry EXCEPT !.root = TRUE]
      BY <1>7 DEF ApiKey, ConfigFile
    <2>3. registry'.blob = registry.blob
      BY <1>1, <2>2, Zenon
    <2>4. QED
      BY <2>1, <2>3
  <1>8. CASE ~(StoreBlob \/ WriteBlob \/ RegistryStep \/ RemoveRegistry \/ ApiKey \/ ConfigFile)
    <2>1. registry' = registry
      BY <1>8 DEF Steps, SetupStep, MakeBinaries, CertFile, KeyFile, Protect, YamlFile,
        ServiceStep, StartStep, Encrypt, RemoveService, RemoveBinaries, RemoveData, machine
    <2>2. name \notin {"registry", "store_blob", "write_blob", "remove_registry"}
      BY <1>8, NamedAction DEF Steps
    <2>3. QED
      BY <2>1, <2>2
  <1>9. QED
    BY <1>3, <1>4, <1>5, <1>6, <1>7, <1>8

\* A step keeps the run that it belongs to.
LEMMA RunEffect ==
    ASSUME SetupForm, Steps
    PROVE  \E name : /\ AtStep(name) /\ setup.op # None
                     /\ setup'.next = setup.next + 1 /\ setup'.op = setup.op
                     /\ setup'.steps = setup.steps /\ setup'.account = setup.account
                     /\ setup'.blob = IF Protect THEN Secret(setup.account, key.no)
                                      ELSE setup.blob
  <1>1. CASE Protect
    BY <1>1, ProtectKeepsRun
  <1>2. CASE ~Protect
    <2>1. PICK name : Step(name)
      BY <1>2 DEF Steps, SetupStep, MakeBinaries, CertFile, KeyFile, ApiKey, ConfigFile,
        YamlFile, ServiceStep, RegistryStep, StartStep, Encrypt, StoreBlob, WriteBlob,
        RemoveService, RemoveBinaries, RemoveRegistry, RemoveData
    <2>2. QED
      BY <1>2, <2>1, StepKeepsRun
  <1>3. QED
    BY <1>1, <1>2
-----------------------------------------------------------------------------
(* How a clean run begins, goes on and ends. *)

\* What everything but Setup does to what the invariants are about.
Quiet == /\ setup' = setup /\ UNCHANGED <<cert, key, registry, hist>>
         /\ service'.installed = service.installed /\ service'.account = service.account
         /\ yaml'.ssl = yaml.ssl \/ (setup.op = None /\ yaml'.ssl \in {"none", "half"})

LEMMA CleanBefore ==
    ASSUME History, [Next]_vars, hist'.clean
    PROVE  hist.clean
  <1>1. hist \in [last : Ops \cup {None}, clean : BOOLEAN, used : SUBSET Account]
    BY DEF History
  <1>2. CASE Install \/ Configure \/ Uninstall
    <2>1. PICK op, steps, account, port : Begin(op, steps, account, port)
      BY <1>2 DEF Install, Configure, Uninstall
    <2>2. hist' = [hist EXCEPT !.last = None, !.used = hist.used \cup ({account} \ {None}),
                               !.clean = hist.clean /\ (op = "configured" => service.installed)]
      BY <2>1 DEF Begin
    <2>3. QED
      BY <1>1, <2>2, Zenon
  <1>3. CASE StoreBlob \/ RemoveRegistry \/ RemoveData \/ Interrupt \/ Reboot
    <2>1. \/ hist' = hist
          \/ hist' = [hist EXCEPT !.clean = FALSE]
          \/ hist' = [hist EXCEPT !.last = None, !.clean = FALSE]
      BY <1>3 DEF StoreBlob, RemoveRegistry, RemoveData, Warned, Interrupt, Reboot, Stops
    <2>2. QED
      BY <1>1, <2>1, Zenon
  <1>4. CASE Finish
    <2>1. hist' = [hist EXCEPT !.last = setup.op]
      BY <1>4 DEF Finish
    <2>2. QED
      BY <1>1, <2>1, Zenon
  <1>5. CASE ~(\/ Install \/ Configure \/ Uninstall \/ StoreBlob \/ RemoveRegistry \/ RemoveData
               \/ Finish \/ Interrupt \/ Reboot)
    <2>1. hist' = hist
      BY <1>5 DEF Next, SetupStep, Server, MakeBinaries, CertFile, KeyFile, Protect, ApiKey,
        ConfigFile, YamlFile, ServiceStep, RegistryStep, StartStep, Encrypt, WriteBlob,
        RemoveService, RemoveBinaries, Edit, RestartService, Launch, ReadRegistry,
        ReadRegistryFails, CreateServer, GetKeyPassword, GetKeyPasswordFails, CheckKey, LoadTls,
        Goto, machine, vars
    <2>2. QED
      BY <2>1
  <1>6. QED
    BY <1>2, <1>3, <1>4, <1>5

\* What a run of Setup that is stopped leaves of itself.
Stopped == setup'.op = None /\ hist'.last = None /\ ~hist'.clean

LEMMA AnythingHappens ==
    ASSUME History, Service, [Next]_vars
    PROVE  Install \/ Configure \/ Uninstall \/ Steps \/ Finish \/ Quiet \/ Stopped
  <1>1. hist \in [last : Ops \cup {None}, clean : BOOLEAN, used : SUBSET Account]
    BY DEF History
  <1>2. Stops => Stopped
    <2>1. Stops => /\ setup' = NoSetup
                   /\ hist' = [hist EXCEPT !.last = None, !.clean = FALSE]
      BY DEF Stops
    <2>2. Stops => hist'.last = None /\ ~hist'.clean
      BY <1>1, <2>1, Zenon
    <2>3. NoSetup.op = None
      BY Zenon DEF NoSetup
    <2>4. QED
      BY <2>1, <2>2, <2>3 DEF Stopped
  <1>3. CASE Reboot /\ Idle
    <2>1. UNCHANGED <<setup, hist, cert, key, yaml, registry>>
      BY <1>3 DEF Reboot
    <2>2. service' = [service EXCEPT !.running = service.installed]
      BY <1>3 DEF Reboot
    <2>3. service'.installed = service.installed /\ service'.account = service.account
      BY <2>2, Zenon DEF Service
    <2>4. QED
      BY <2>1, <2>3 DEF Quiet
  <1>4. CASE Edit
    <2>1. setup.op = None /\ UNCHANGED <<setup, hist, cert, key, registry, service>>
      BY <1>4 DEF Edit, Idle
    <2>2. \/ yaml' = yaml
          \/ \E c \in ConfigSet, ssl \in {yaml.ssl, "none", "half"} :
                yaml' = [c EXCEPT !.ssl = ssl, !.port = yaml.port]
      BY <1>4 DEF Edit
    <2>3. yaml'.ssl \in {yaml.ssl, "none", "half"}
      <3>1. CASE yaml' = yaml
        BY <3>1
      <3>2. CASE yaml' # yaml
        <4>1. PICK c \in ConfigSet, ssl \in {yaml.ssl, "none", "half"} :
                 yaml' = [c EXCEPT !.ssl = ssl, !.port = yaml.port]
          BY <2>2, <3>2
        <4>2. "ssl" \in DOMAIN c
          BY DeploymentAssumption
        <4>3. yaml'.ssl = ssl
          BY <4>1, <4>2
        <4>4. QED
          BY <4>3
      <3>3. QED
        BY <3>1, <3>2
    <2>4. QED
      BY <2>1, <2>3 DEF Quiet
  <1>5. CASE RestartService \/ Server \/ UNCHANGED vars
    <2>1. UNCHANGED <<setup, hist, cert, key, yaml, registry, service>>
      BY <1>5 DEF RestartService, Server, Launch, ReadRegistry, ReadRegistryFails,
        CreateServer, GetKeyPassword, GetKeyPasswordFails, CheckKey, LoadTls, Goto, machine, vars
    <2>2. QED
      BY <2>1 DEF Quiet
  <1>6. Interrupt \/ (Reboot /\ ~Idle) => Stopped
    BY <1>2 DEF Interrupt, Reboot
  <1>7. QED
    BY <1>3, <1>4, <1>5, <1>6 DEF Next, Steps

\* What may happen in a history that stays clean.
LEMMA WhatHappens ==
    ASSUME History, Service, [Next]_vars, hist'.clean
    PROVE  Install \/ Configure \/ Uninstall \/ Steps \/ Finish \/ Quiet
  BY AnythingHappens DEF Stopped

LEMMA InstallsByPlan ==
    \A given \in BOOLEAN :
       /\ \A imported \in BOOLEAN : InstallSteps(TRUE, imported, given) \in KeptPlans
       /\ InstallSteps(FALSE, TRUE, given) = ImportPlan
  <1> SUFFICES ASSUME NEW given \in BOOLEAN
               PROVE  /\ \A imported \in BOOLEAN : InstallSteps(TRUE, imported, given) \in KeptPlans
                      /\ InstallSteps(FALSE, TRUE, given) = ImportPlan
    OBVIOUS
  <1>1. ASSUME NEW imported \in BOOLEAN
        PROVE  InstallSteps(TRUE, imported, given) = InstallSteps(TRUE, FALSE, given)
    BY DEF InstallSteps
  <1>2. InstallSteps(TRUE, FALSE, given) \in KeptPlans
    BY DEF KeptPlans
  <1>3. InstallSteps(FALSE, TRUE, given) = ImportPlan
    BY DEF InstallSteps, ImportPlan
  <1>4. QED
    BY <1>1, <1>2, <1>3

\* What Begin makes of the history.
LEMMA BeginsHistory ==
    ASSUME History, NEW op, NEW steps, NEW account, NEW port, Begin(op, steps, account, port)
    PROVE  /\ setup.op = None /\ setup'.blob = NoSecret
           /\ setup'.op = op /\ setup'.steps = steps /\ setup'.next = 1
           /\ setup'.account = account
           /\ hist'.used = hist.used \cup ({account} \ {None})
           /\ op = "configured" /\ hist'.clean => service.installed
  <1>1. hist \in [last : Ops \cup {None}, clean : BOOLEAN, used : SUBSET Account]
    BY DEF History
  <1>2. hist' = [hist EXCEPT !.last = None, !.used = hist.used \cup ({account} \ {None}),
                             !.clean = hist.clean /\ (op = "configured" => service.installed)]
    BY DEF Begin
  <1>3. /\ hist'.used = hist.used \cup ({account} \ {None})
        /\ op = "configured" /\ hist'.clean => service.installed
    BY <1>1, <1>2, Zenon
  <1>4. setup'.blob = NoSecret
    BY Zenon DEF Begin, NoSetup
  <1>5. QED
    BY <1>3, <1>4, BeginsAtOne DEF Begin, Idle

\* A run begins with its plan, and has an account if the plan needs one.
LEMMA Begins ==
    ASSUME History, Service, Install \/ Configure \/ Uninstall
    PROVE  /\ setup.op = None /\ setup'.next = 1 /\ setup'.blob = NoSecret
           /\ UNCHANGED <<cert, key, yaml, registry>>
           /\ service'.installed = service.installed /\ service'.account = service.account
           /\ hist'.used = hist.used \cup ({setup'.account} \ {None})
           /\ setup'.op \in Ops
           /\ setup'.op = "kept" => registry.root /\ setup'.steps \in KeptPlans
           /\ setup'.op = "imported" => setup'.steps = ImportPlan
           /\ setup'.op = "configured" /\ hist'.clean => service.installed
           /\ setup'.op = "configured" /\ setup'.account = None =>
                 setup'.steps \notin {RotatePlan, <<"api_key">>}
  <1>1. \A op, steps, account, port : Begin(op, steps, account, port) =>
           /\ setup.op = None /\ setup'.blob = NoSecret
           /\ setup'.op = op /\ setup'.steps = steps /\ setup'.next = 1
           /\ setup'.account = account
           /\ hist'.used = hist.used \cup ({account} \ {None})
           /\ op = "configured" /\ hist'.clean => service.installed
    BY BeginsHistory
  <1>2. CASE Install
    <2>1. PICK account \in Account, port \in Ports, imported \in BOOLEAN, given \in BOOLEAN,
               keep \in BOOLEAN :
             /\ keep => registry.root
             /\ Begin(IF keep THEN "kept" ELSE IF imported THEN "imported" ELSE "regenerated",
                      InstallSteps(keep, imported, given), account, port)
      BY <1>2 DEF Install
    <2> DEFINE op == IF keep THEN "kept" ELSE IF imported THEN "imported" ELSE "regenerated"
    <2>2. /\ op \in InstallOps
          /\ op = "kept" => registry.root /\ InstallSteps(keep, imported, given) \in KeptPlans
          /\ op = "imported" => InstallSteps(keep, imported, given) = ImportPlan
      BY <2>1, InstallsByPlan DEF InstallOps
    <2>3. op \in Ops /\ op # "configured"
      BY DEF Ops, InstallOps
    <2>4. service' = service \/ service' = [service EXCEPT !.running = FALSE]
      BY <1>2 DEF Install
    <2>5. service'.installed = service.installed /\ service'.account = service.account
      BY <2>4, Zenon DEF Service
    <2>6. UNCHANGED <<cert, key, yaml, registry>>
      BY <1>2 DEF Install
    <2>7. Begin(op, InstallSteps(keep, imported, given), account, port)
      BY <2>1
    <2> HIDE DEF op
    <2>8. /\ setup.op = None /\ setup'.blob = NoSecret
          /\ setup'.op = op /\ setup'.steps = InstallSteps(keep, imported, given)
          /\ setup'.next = 1 /\ setup'.account = account
          /\ hist'.used = hist.used \cup ({account} \ {None})
      BY <1>1, <2>7
    <2>9. QED
      BY <2>2, <2>3, <2>5, <2>6, <2>8
  <1>3. CASE Configure
    <2>1. PICK account, steps, port :
             /\ Begin("configured", steps, account, port)
             /\ account = None => steps \in {ReplacePlan, <<"registry_port", "yaml_port", "restart">>}
      <3>1. PICK account \in ConfigureAccounts \cup {None}, port \in Ports :
              \/ Begin("configured", ReplacePlan, account, port)
              \/ account # None /\ Begin("configured", RotatePlan, account, port)
              \/ account # None /\ Begin("configured", <<"api_key">>, account, port)
              \/ Begin("configured", <<"registry_port", "yaml_port", "restart">>, None, port)
        BY <1>3 DEF Configure, ReplacePlan, RotatePlan
      <3>2. QED
        BY <3>1
    <2>2. /\ ReplacePlan \notin {RotatePlan, <<"api_key">>}
          /\ <<"registry_port", "yaml_port", "restart">> \notin {RotatePlan, <<"api_key">>}
      BY SMT DEF ReplacePlan, RotatePlan
    <2>3. UNCHANGED <<cert, key, yaml, registry, service>>
      BY <1>3 DEF Configure, machine
    <2>4. "configured" \in Ops
      BY DEF Ops
    <2>5. QED
      BY <1>1, <2>1, <2>2, <2>3, <2>4
  <1>4. CASE Uninstall
    <2>1. \E steps : Begin("uninstalled", steps, None, "8000")
      BY <1>4 DEF Uninstall
    <2>2. UNCHANGED <<cert, key, yaml, registry, service>>
      BY <1>4 DEF Uninstall, machine
    <2>3. "uninstalled" \in Ops
      BY DEF Ops
    <2>4. QED
      BY <1>1, <2>1, <2>2, <2>3
  <1>5. QED
    BY <1>2, <1>3, <1>4
-----------------------------------------------------------------------------
(* Each part of the invariant is kept. *)

\* What is disjoint, said once.
LEMMA OpsDiffer ==
    /\ None \notin Ops /\ "configured" \notin InstallOps /\ "uninstalled" \notin InstallOps
    /\ None \notin InstallOps /\ {"kept", "imported", "regenerated"} \subseteq InstallOps
    /\ Ops = InstallOps \cup {"configured", "uninstalled"}
    /\ \A op \in InstallOps : op \in {"kept", "imported", "regenerated"}
  BY DEF Ops, InstallOps, None

LEMMA FinishEnds ==
    ASSUME Finish
    PROVE  /\ setup.op # None /\ setup.next \notin DOMAIN setup.steps
           /\ setup'.op = None /\ setup'.account = None /\ setup'.blob = NoSecret
           /\ UNCHANGED <<cert, key, yaml, registry, service>>
  <1>1. setup.op # None /\ setup.next \notin DOMAIN setup.steps /\ setup' = NoSetup
    BY DEF Finish, Idle
  <1>2. setup'.op = None /\ setup'.account = None /\ setup'.blob = NoSecret
    BY <1>1, Zenon DEF NoSetup
  <1>3. QED
    BY <1>1, <1>2 DEF Finish, machine

\* What belongs together is left together by whatever leaves the files and the password.
LEMMA MatchedKept ==
    ASSUME Matched, cert' = cert, key' = key, registry'.blob = registry.blob
    PROVE  Matched'
  BY DEF Matched

LEMMA PlanKept ==
    ASSUME History, Service, SetupForm, PlanInv, [Next]_vars
    PROVE  PlanInv'
  <1>1. CASE Install \/ Configure \/ Uninstall
    <2>1. /\ setup'.blob = NoSecret
          /\ setup'.op = "kept" => setup'.steps \in KeptPlans
          /\ setup'.op = "imported" => setup'.steps = ImportPlan
          /\ setup'.op = "configured" /\ setup'.account = None =>
                setup'.steps \notin {RotatePlan, <<"api_key">>}
      BY <1>1, Begins
    <2>2. QED
      BY <2>1 DEF PlanInv
  <1>2. CASE Steps
    <2>1. PICK name : /\ AtStep(name)
                      /\ setup'.op = setup.op /\ setup'.steps = setup.steps
                      /\ setup'.account = setup.account
                      /\ setup'.blob = IF Protect THEN Secret(setup.account, key.no)
                                       ELSE setup.blob
      BY <1>2, RunEffect
    <2>2. Protect => setup.op = "regenerated" /\ setup.account # None
      <3> SUFFICES ASSUME Protect
                   PROVE  setup.op = "regenerated" /\ setup.account # None
        OBVIOUS
      <3>1. AtStep("protect")
        BY DEF Protect
      <3>2. setup.op \in InstallOps \cup {"configured", "uninstalled", None} /\ setup.op # None
        BY <3>1, WhichStep DEF SetupForm, Ops
      <3>3. setup.op # "kept"
        BY <3>1, KeptPlanFacts DEF PlanInv, AtStep, KeptNames
      <3>4. setup.op # "imported"
        <4>1. setup.op = "imported" => setup.next \in 1 .. 10 /\ ImportPlan[setup.next] = "protect"
          BY <3>1, ImportPlanFacts DEF PlanInv, AtStep
        <4>2. QED
          BY <4>1, ImportPlanFacts
      <3>5. setup.op # "configured"
        <4>1. \A s \in ConfigurePlans : \A i \in DOMAIN s : s[i] # "protect"
          BY SMT DEF ConfigurePlans
        <4>2. QED
          BY <3>1, <4>1 DEF SetupForm, AtStep
      <3>6. setup.op # "uninstalled"
        <4>1. ASSUME NEW s \in UninstallPlans, NEW i \in DOMAIN s
              PROVE  s[i] # "protect"
          <5>1. i \in 1 .. 4
            BY UninstallPlanFacts
          <5>2. QED
            BY <5>1, UninstallPlanFacts
        <4>2. QED
          BY <3>1, <4>1 DEF SetupForm, AtStep
      <3>7. setup.op = "regenerated"
        BY <3>2, <3>3, <3>4, <3>5, <3>6 DEF InstallOps
      <3>8. setup.account \in Account /\ None \notin Account
        BY <3>7, DeploymentAssumption DEF SetupForm, InstallOps
      <3>9. QED
        BY <3>7, <3>8
    <2>3. QED
      BY <2>1, <2>2 DEF PlanInv
  <1>3. CASE Finish \/ Interrupt \/ Reboot
    <2>1. setup' = NoSetup \/ setup' = setup
      BY <1>3 DEF Finish, Interrupt, Reboot, Stops
    <2>2. NoSetup.op = None /\ NoSetup.blob = NoSecret
      BY Zenon DEF NoSetup
    <2>3. None \notin {"kept", "imported", "configured"}
      BY DEF None
    <2>4. QED
      BY <2>1, <2>2, <2>3 DEF PlanInv
  <1>4. CASE Edit \/ RestartService \/ Server \/ UNCHANGED vars
    <2>1. setup' = setup
      BY <1>4 DEF Edit, RestartService, Server, Launch, ReadRegistry, ReadRegistryFails,
        CreateServer, GetKeyPassword, GetKeyPasswordFails, CheckKey, LoadTls, Goto, machine, vars
    <2>2. QED
      BY <2>1 DEF PlanInv
  <1>5. QED
    BY <1>1, <1>2, <1>3, <1>4 DEF Next, Steps

\* What keeps the credentials keeps them throughout.
LEMMA KeptKept ==
    ASSUME IInv, PlanInv, RestInv, KeptInv, [Next]_vars, hist'.clean
    PROVE  KeptInv'
  <1> SUFFICES ASSUME setup'.op = "kept"
               PROVE  Matched'
    BY DEF KeptInv
  <1> USE DEF IInv
  <1>1. CASE Install \/ Configure \/ Uninstall
    <2>1. setup.op = None /\ registry.root /\ UNCHANGED <<cert, key, registry>>
      BY <1>1, Begins
    <2>2. QED
      BY <2>1, MatchedKept DEF RestInv
  <1>2. CASE Steps
    <2>1. PICK name : AtStep(name) /\ setup.op = "kept"
      BY <1>2, RunEffect
    <2>2. Matched /\ setup.blob = NoSecret /\ name \in KeptNames
      BY <2>1, KeptPlanFacts DEF KeptInv, PlanInv, AtStep
    <2>3. name \notin {"new_cert", "copy_cert", "remove_data", "new_key", "copy_key", "encrypt",
                       "store_blob", "write_blob", "remove_registry"}
      BY <2>2 DEF KeptNames
    <2>4. cert' = cert /\ key' = key
      BY <1>2, <2>1, <2>3, CertEffect, KeyEffect
    <2>5. registry'.blob = registry.blob
      BY <1>2, <2>1, <2>2, <2>3, RegistryEffect
    <2>6. QED
      BY <2>2, <2>4, <2>5, MatchedKept
  <1>3. ~Finish
    BY FinishEnds, OpsDiffer
  <1>4. CASE Quiet
    BY <1>4, MatchedKept DEF Quiet, KeptInv
  <1>5. QED
    BY <1>1, <1>2, <1>3, <1>4, WhatHappens

LEMMA ImportKept ==
    ASSUME IInv, PlanInv, ImportInv, [Next]_vars, hist'.clean
    PROVE  ImportInv'
  <1> SUFFICES ASSUME setup'.op = "imported"
               PROVE  /\ setup'.next > 2 => cert' # 0
                      /\ setup'.next > 3 => key'.pair = cert' /\ key'.no = 0
    BY DEF ImportInv
  <1> USE DEF IInv
  <1>1. CASE Install \/ Configure \/ Uninstall
    BY <1>1, Begins
  <1>2. CASE Steps
    <2>1. PICK name : AtStep(name) /\ setup.op = "imported" /\ setup'.next = setup.next + 1
      BY <1>2, RunEffect
    <2>2. PICK n \in 1 .. 10 : n = setup.next /\ name = ImportPlan[n]
      BY <2>1, ImportPlanFacts DEF PlanInv, AtStep
    <2>3. /\ n > 2 => cert # 0
          /\ n > 3 => key.pair = cert /\ key.no = 0
      BY <2>1, <2>2 DEF ImportInv
    <2>4. /\ n = 1 => name = "binaries"
          /\ n = 2 => name = "copy_cert"
          /\ n = 3 => name = "copy_key"
          /\ n > 3 => name \in {"api_key", "config", "ssl", "yaml_port", "service", "registry",
                                "start"}
      BY <2>2, ImportPlanFacts
    <2>5. /\ n = 2 => cert' # 0
          /\ n > 2 => cert' = cert
      BY <1>2, <2>1, <2>2, <2>4, CertEffect
    <2>6. /\ n = 3 => key'.pair = cert /\ key'.no = 0
          /\ n > 3 => key' = key
      BY <1>2, <2>1, <2>2, <2>4, KeyEffect
    <2>7. QED
      BY <2>1, <2>2, <2>3, <2>5, <2>6
  <1>3. ~Finish
    BY FinishEnds, OpsDiffer
  <1>4. CASE Quiet
    BY <1>4 DEF Quiet, ImportInv
  <1>5. QED
    BY <1>1, <1>2, <1>3, <1>4, WhatHappens

LEMMA NamedKept ==
    ASSUME IInv, NamedInv, [Next]_vars, SetupForm'
    PROVE  NamedInv'
  <1> SUFFICES ASSUME setup'.op \in InstallOps, setup'.next > Len(setup'.steps) - 4
               PROVE  yaml'.ssl = "certs"
    BY DEF NamedInv
  <1> USE DEF IInv
  <1>1. setup'.steps \in InstallPlans
    BY DEF SetupForm
  <1>2. ~(Install \/ Configure \/ Uninstall)
    <2>1. Install \/ Configure \/ Uninstall => setup'.next = 1
      BY Begins
    <2>2. PICK n \in Nat, m \in 7 .. 11 : n = setup'.next /\ m = Len(setup'.steps)
      BY <1>1, InstallPlanFacts DEF SetupForm
    <2>3. n > m - 4
      BY <2>2
    <2>4. n # 1
      BY <2>3
    <2>5. QED
      BY <2>1, <2>2, <2>4
  <1>3. CASE Steps
    <2>1. PICK name : /\ AtStep(name) /\ setup.op \in InstallOps /\ setup'.next = setup.next + 1
                      /\ setup.steps = setup'.steps
      BY <1>3, RunEffect
    <2>2. setup.steps \in InstallPlans /\ setup.next \in DOMAIN setup.steps
          /\ name = setup.steps[setup.next]
      BY <1>1, <2>1 DEF AtStep
    <2>3. PICK n \in Nat, m \in 7 .. 11 : n = setup.next /\ m = Len(setup.steps)
      BY <2>2, InstallPlanFacts DEF SetupForm
    <2>4. /\ name = "ssl" <=> n = m - 4
          /\ name = "config" => n < m - 4
          /\ name # "remove_data"
      BY <2>2, <2>3, SslStepFacts
    <2>5. n + 1 > m - 4 /\ n >= m - 4
      BY <2>1, <2>3
    <2>6. CASE n = m - 4
      BY <1>3, <2>1, <2>4, <2>6, YamlEffect
    <2>7. CASE n > m - 4
      <3>1. yaml.ssl = "certs"
        BY <2>1, <2>3, <2>7 DEF NamedInv
      <3>2. name \notin {"ssl", "config", "remove_data"}
        BY <2>4, <2>7
      <3>3. QED
        BY <1>3, <2>1, <3>1, <3>2, YamlEffect
    <2>8. QED
      BY <2>5, <2>6, <2>7
  <1>4. ~Finish
    BY FinishEnds, OpsDiffer
  <1>5. ~Stopped
    BY OpsDiffer DEF Stopped
  <1>6. CASE Quiet
    BY <1>6, OpsDiffer DEF Quiet, NamedInv
  <1>7. QED
    BY <1>2, <1>3, <1>4, <1>5, <1>6, AnythingHappens

\* An Install that has come to its end has named its certificate and made its service.
LEMMA InstallEnds ==
    ASSUME IInv, NamedInv, Finish, setup.op \in InstallOps
    PROVE  Named /\ service.installed
  <1>1. setup.steps \in InstallPlans /\ setup.next \in Nat \ {0}
    BY DEF IInv, SetupForm
  <1>2. setup.next \notin DOMAIN setup.steps
    BY FinishEnds
  <1>3. PICK n \in Nat \ {0}, m \in 7 .. 11 :
           n = setup.next /\ m = Len(setup.steps) /\ n \notin 1 .. m
    BY <1>1, <1>2, InstallPlanFacts
  <1>4. n > m - 4 /\ n >= m - 1
    BY <1>3
  <1>5. Named
    BY <1>3, <1>4 DEF NamedInv, Named
  <1>6. service.installed
    BY <1>3, <1>4 DEF IInv, InstallUnderway
  <1>7. QED
    BY <1>5, <1>6

LEMMA LeavesKept ==
    ASSUME IInv, NamedInv, KeptLeaves, [Next]_vars
    PROVE  KeptLeaves'
  <1> SUFFICES ASSUME setup'.op = None, hist'.last = "kept"
               PROVE  service'.installed /\ Named'
    BY DEF KeptLeaves
  <1>1. ~(Install \/ Configure \/ Uninstall)
    BY Begins, OpsDiffer DEF IInv
  <1>2. ~Steps
    BY RunEffect DEF IInv
  <1>3. CASE Finish
    <2>1. hist' = [hist EXCEPT !.last = setup.op]
      BY <1>3 DEF Finish
    <2>2. hist'.last = setup.op
      BY <2>1, Zenon DEF IInv, History
    <2>3. setup.op \in InstallOps
      BY <2>2, OpsDiffer
    <2>4. Named /\ service.installed
      BY <1>3, <2>3, InstallEnds
    <2>5. yaml' = yaml /\ service' = service
      BY <1>3, FinishEnds
    <2>6. QED
      BY <2>4, <2>5 DEF Named
  <1>4. CASE Quiet
    <2>1. /\ setup.op = None /\ hist' = hist /\ service'.installed = service.installed
          /\ yaml'.ssl \in {yaml.ssl, "none", "half"}
      BY <1>4 DEF Quiet
    <2>2. QED
      BY <2>1 DEF KeptLeaves, Named
  <1>5. ~Stopped
    BY OpsDiffer DEF Stopped
  <1>6. QED
    BY <1>1, <1>2, <1>3, <1>4, <1>5, AnythingHappens DEF IInv

LEMMA ConfigureKept ==
    ASSUME IInv, PlanInv, RestInv, ConfigureInv, [Next]_vars, SetupForm', hist'.clean
    PROVE  ConfigureInv'
  <1> SUFFICES ASSUME setup'.op = "configured"
               PROVE  /\ service'.installed /\ Named'
                      /\ setup'.steps = ReplacePlan =>
                            /\ setup'.next = 1 \/ setup'.next > 5 => Matched'
                            /\ setup'.next > 1 => cert' # 0
                            /\ setup'.next > 2 => key'.pair = cert'
                            /\ setup'.next \in {3, 4} => key'.no = 0
                      /\ setup'.steps = RotatePlan =>
                            /\ setup'.next \notin {2, 3} => Matched'
                            /\ setup'.next \in {2, 3} => cert' # 0
                            /\ setup'.next = 3 => key'.pair = cert'
                      /\ setup'.steps \in OtherPlans => Matched'
    BY DEF ConfigureInv
  <1> USE DEF IInv
  <1>1. CASE Install \/ Configure \/ Uninstall
    <2>1. /\ setup.op = None /\ setup'.next = 1 /\ UNCHANGED <<cert, key, yaml, registry>>
          /\ service'.installed = service.installed /\ service.installed
      BY <1>1, Begins
    <2>2. Matched /\ Named
      BY <2>1 DEF RestInv
    <2>3. Matched' /\ Named'
      BY <2>1, <2>2, MatchedKept DEF Named
    <2>4. QED
      BY <2>1, <2>3
  <1>2. CASE Steps
    <2>1. PICK name : /\ AtStep(name) /\ setup.op = "configured" /\ setup'.next = setup.next + 1
                      /\ setup'.steps = setup.steps /\ setup.blob = NoSecret
      BY <1>2, RunEffect DEF PlanInv
    <2>2. /\ setup.steps \in ConfigurePlans /\ setup.next \in DOMAIN setup.steps
          /\ name = setup.steps[setup.next]
      BY <2>1 DEF SetupForm, AtStep
    <2>3. name \notin {"service", "remove_service", "config", "remove_data"}
      <3>1. \A s \in ConfigurePlans : \A i \in DOMAIN s :
               s[i] \notin {"service", "remove_service", "config", "remove_data"}
        BY SMT DEF ConfigurePlans
      <3>2. QED
        BY <2>2, <3>1
    <2>4. service'.installed
      BY <1>2, <2>1, <2>3, ServiceEffect DEF ConfigureInv
    <2>5. Named'
      BY <1>2, <2>1, <2>3, YamlEffect DEF ConfigureInv, Named
    <2>6. CASE setup.steps = ReplacePlan
      <3>1. PICK n \in 1 .. 5 : n = setup.next /\ name = ReplacePlan[n]
        BY <2>2, <2>6, ConfigurePlanFacts
      <3>2. /\ n > 1 => cert # 0
            /\ n > 2 => key.pair = cert
            /\ n \in {3, 4} => key.no = 0
        BY <2>1, <2>6, <3>1 DEF ConfigureInv
      <3>3. /\ n = 1 => name = "copy_cert"
            /\ n = 2 => name = "copy_key"
            /\ n = 3 => name = "ssl"
            /\ n = 4 => name = "encrypt"
            /\ n = 5 => name = "store_blob"
        BY <3>1, ConfigurePlanFacts
      <3>4. /\ n = 1 => cert' # 0
            /\ n > 1 => cert' = cert
        BY <1>2, <2>1, <3>1, <3>3, CertEffect
      <3>5. /\ n = 2 => key'.pair = cert /\ key'.no = 0
            /\ n = 4 => key'.pair = key.pair
            /\ n \in {3, 5} => key' = key
        BY <1>2, <2>1, <3>1, <3>3, KeyEffect
      <3>6. n = 5 => key.no \in {0, registry'.blob.no}
        BY <1>2, <2>1, <3>3, RegistryEffect
      <3>7. n = 5 => Matched'
        BY <3>2, <3>4, <3>5, <3>6 DEF Matched
      <3>8. /\ n >= 1 => cert' # 0
            /\ n >= 2 => key'.pair = cert'
            /\ n + 1 \in {3, 4} => key'.no = 0
        BY <3>1, <3>2, <3>4, <3>5
      <3>9. setup'.next = n + 1 /\ setup'.steps \notin OtherPlans /\ setup'.steps # RotatePlan
        BY <2>1, <2>6, <3>1, ConfigurePlanFacts
      <3>10. QED
        BY <2>4, <2>5, <3>1, <3>7, <3>8, <3>9
    <2>7. CASE setup.steps = RotatePlan
      <3>1. PICK n \in 1 .. 5 : n = setup.next /\ name = RotatePlan[n]
        BY <2>2, <2>7, ConfigurePlanFacts
      <3>2. /\ n > 3 => Matched
            /\ n = 3 => cert # 0 /\ key.pair = cert
        BY <2>1, <2>7, <3>1 DEF ConfigureInv
      <3>3. /\ n = 1 => name = "new_cert"
            /\ n = 2 => name = "new_key"
            /\ n = 3 => name = "write_blob"
            /\ n = 4 => name = "ssl"
            /\ n = 5 => name = "restart"
        BY <3>1, ConfigurePlanFacts
      <3>4. /\ n = 1 => cert' # 0
            /\ n > 1 => cert' = cert
        BY <1>2, <2>1, <3>1, <3>3, CertEffect
      <3>5. /\ n = 2 => key'.pair = cert
            /\ n > 2 => key' = key
        BY <1>2, <2>1, <3>1, <3>3, KeyEffect
      <3>6. /\ n = 3 => registry'.blob.no = key.no
            /\ n > 3 => registry'.blob = registry.blob
        BY <1>2, <2>1, <3>1, <3>3, RegistryEffect
      <3>7. n = 3 => Matched'
        BY <3>2, <3>4, <3>5, <3>6 DEF Matched
      <3>8. n > 3 => Matched'
        BY <3>1, <3>2, <3>4, <3>5, <3>6, MatchedKept
      <3>9. setup'.next = n + 1 /\ setup'.steps \notin OtherPlans /\ setup'.steps # ReplacePlan
        BY <2>1, <2>7, <3>1, ConfigurePlanFacts
      <3>10. n = 2 => cert # 0
        BY <2>1, <2>7, <3>1 DEF ConfigureInv
      <3>11. QED
        BY <2>4, <2>5, <3>1, <3>4, <3>5, <3>7, <3>8, <3>9, <3>10
    <2>8. CASE setup.steps \in OtherPlans
      <3>1. name \in {"api_key", "registry_port", "yaml_port", "restart"}
        BY <2>2, <2>8, ConfigurePlanFacts
      <3>2. cert' = cert /\ key' = key /\ registry'.blob = registry.blob
        BY <1>2, <2>1, <3>1, CertEffect, KeyEffect, RegistryEffect
      <3>3. Matched'
        BY <2>1, <2>8, <3>2, MatchedKept DEF ConfigureInv
      <3>4. QED
        BY <2>1, <2>4, <2>5, <2>8, <3>3, ConfigurePlanFacts
    <2>9. QED
      BY <2>2, <2>6, <2>7, <2>8, ConfigurePlanFacts
  <1>3. ~Finish
    BY FinishEnds, OpsDiffer
  <1>4. CASE Quiet
    <2>1. /\ setup' = setup /\ UNCHANGED <<cert, key, registry>>
          /\ service'.installed = service.installed /\ setup.op # None
      BY <1>4, OpsDiffer DEF Quiet
    <2>2. yaml'.ssl = yaml.ssl
      BY <1>4, <2>1 DEF Quiet
    <2>3. Named => Named'
      BY <2>2 DEF Named
    <2>4. Matched => Matched'
      BY <2>1, MatchedKept
    <2>5. QED
      BY <2>1, <2>3, <2>4 DEF ConfigureInv
  <1>5. QED
    BY <1>1, <1>2, <1>3, <1>4, WhatHappens

LEMMA UninstallKept ==
    ASSUME IInv, RestInv, UninstallInv, [Next]_vars, SetupForm', hist'.clean
    PROVE  UninstallInv'
  <1> SUFFICES ASSUME setup'.op = "uninstalled"
               PROVE  /\ setup'.next = 1 /\ service'.installed => Matched' /\ Named'
                      /\ setup'.next > 1 => ~service'.installed
                      /\ setup'.next <= 3 /\ registry'.root => Matched'
                      /\ setup'.next > 3 => ~registry'.root
    BY DEF UninstallInv
  <1> USE DEF IInv
  <1>1. CASE Install \/ Configure \/ Uninstall
    <2>1. /\ setup.op = None /\ setup'.next = 1 /\ UNCHANGED <<cert, key, yaml, registry>>
          /\ service'.installed = service.installed
      BY <1>1, Begins
    <2>2. Matched => Matched'
      BY <2>1, MatchedKept
    <2>3. /\ service.installed => Matched /\ Named
          /\ registry.root => Matched
      BY <2>1 DEF RestInv
    <2>4. QED
      BY <2>1, <2>2, <2>3 DEF Named
  <1>2. CASE Steps
    <2>1. PICK name : AtStep(name) /\ setup.op = "uninstalled" /\ setup'.next = setup.next + 1
      BY <1>2, RunEffect
    <2>2. /\ setup.steps \in UninstallPlans /\ setup.next \in DOMAIN setup.steps
          /\ name = setup.steps[setup.next]
      BY <2>1 DEF SetupForm, AtStep
    <2>3. PICK n \in 1 .. 4 : n = setup.next
      BY <2>2, UninstallPlanFacts
    <2>4. /\ n = 1 => name = "remove_service"
          /\ n = 2 => name = "remove_binaries"
          /\ n = 3 => name = "remove_registry"
          /\ n = 4 => name = "remove_data"
      BY <2>2, <2>3, UninstallPlanFacts
    <2>5. /\ n > 1 => ~service.installed
          /\ n <= 3 /\ registry.root => Matched
          /\ n > 3 => ~registry.root
      BY <2>1, <2>3 DEF UninstallInv
    <2>6. ~service'.installed
      BY <1>2, <2>1, <2>3, <2>4, <2>5, ServiceEffect
    <2>7. /\ n <= 2 => registry' = registry
          /\ n = 3 => ~registry'.root
          /\ n = 4 => registry' = registry
      BY <1>2, <2>1, <2>3, <2>4, RegistryEffect
    <2>8. n <= 2 => cert' = cert /\ key' = key
      BY <1>2, <2>1, <2>3, <2>4, CertEffect, KeyEffect
    <2>9. n <= 2 /\ registry'.root => Matched'
      BY <2>3, <2>5, <2>7, <2>8, MatchedKept
    <2>10. QED
      BY <2>1, <2>3, <2>5, <2>6, <2>7, <2>9
  <1>3. ~Finish
    BY FinishEnds, OpsDiffer
  <1>4. CASE Quiet
    <2>1. /\ setup' = setup /\ UNCHANGED <<cert, key, registry>>
          /\ service'.installed = service.installed /\ setup.op # None
      BY <1>4, OpsDiffer DEF Quiet
    <2>2. yaml'.ssl = yaml.ssl
      BY <1>4, <2>1 DEF Quiet
    <2>3. Named => Named'
      BY <2>2 DEF Named
    <2>4. Matched => Matched'
      BY <2>1, MatchedKept
    <2>5. QED
      BY <2>1, <2>3, <2>4 DEF UninstallInv
  <1>5. QED
    BY <1>1, <1>2, <1>3, <1>4, WhatHappens

\* A run that has come to its end has put the machine in order.
LEMMA RestKept ==
    ASSUME IInv, PlanInv, RestInv, NamedInv, KeptInv, ImportInv, ConfigureInv, UninstallInv,
           [Next]_vars, hist'.clean
    PROVE  RestInv'
  <1> SUFFICES ASSUME setup'.op = None
               PROVE  /\ registry'.root \/ service'.installed => Matched'
                      /\ service'.installed => Named'
    BY DEF RestInv
  <1> USE DEF IInv
  <1>1. ~(Install \/ Configure \/ Uninstall)
    BY Begins, OpsDiffer
  <1>2. ~Steps
    BY RunEffect
  <1>3. CASE Finish
    <2>1. /\ setup.op # None /\ setup.next \notin DOMAIN setup.steps
          /\ UNCHANGED <<cert, key, yaml, registry, service>>
      BY <1>3, FinishEnds
    <2>2. setup.op \in InstallOps \cup {"configured", "uninstalled"} /\ setup.next \in Nat \ {0}
      BY <2>1 DEF SetupForm, Ops
    <2>3. (Matched => Matched') /\ (Named => Named')
      BY <2>1, MatchedKept DEF Named
    <2>4. ASSUME setup.op \in InstallOps
          PROVE  Named
      BY <1>3, <2>4, InstallEnds
    <2>5. CASE setup.op = "kept"
      BY <2>3, <2>4, <2>5, OpsDiffer DEF KeptInv
    <2>6. CASE setup.op = "imported"
      <3>1. setup.steps = ImportPlan
        BY <2>6 DEF PlanInv
      <3>2. setup.next > 2 /\ setup.next > 3
        BY <2>1, <2>2, <3>1, ImportPlanFacts
      <3>3. Matched
        BY <2>6, <3>2 DEF ImportInv, Matched
      <3>4. QED
        BY <2>3, <2>4, <2>6, <3>3, OpsDiffer
    <2>7. CASE setup.op = "regenerated"
      <3>1. setup.steps = Regenerate
        BY <2>7 DEF SetupForm
      <3>2. setup.next > 2 /\ setup.next > 3 /\ setup.next > 4 /\ setup.next > 10
        BY <2>1, <2>2, <3>1, RegenerateFacts
      <3>3. /\ cert # 0 /\ key = [pair |-> cert, no |-> cert]
            /\ registry.blob = Secret(setup.account, cert)
        BY <2>7, <3>2 DEF Midway
      <3>4. Matched
        BY <3>3 DEF Matched, Secret
      <3>5. QED
        BY <2>3, <2>4, <2>7, <3>4, OpsDiffer
    <2>8. CASE setup.op = "configured"
      <3>1. setup.steps \in ConfigurePlans
        BY <2>8 DEF SetupForm
      <3>2. CASE setup.steps \in {ReplacePlan, RotatePlan}
        <4>1. setup.next > 5 /\ setup.next \notin {2, 3}
          BY <2>1, <2>2, <3>2, ConfigurePlanFacts
        <4>2. Matched /\ Named
          BY <2>8, <3>2, <4>1 DEF ConfigureInv
        <4>3. QED
          BY <2>3, <4>2
      <3>3. CASE setup.steps \in OtherPlans
        BY <2>3, <2>8, <3>3 DEF ConfigureInv
      <3>4. QED
        BY <3>1, <3>2, <3>3, ConfigurePlanFacts
    <2>9. CASE setup.op = "uninstalled"
      <3>1. setup.steps \in UninstallPlans
        BY <2>9 DEF SetupForm
      <3>2. setup.next > 2
        BY <2>1, <2>2, <3>1, UninstallPlanFacts
      <3>3. ~service.installed /\ (registry.root => Matched)
        BY <2>2, <2>9, <3>2 DEF UninstallInv
      <3>4. QED
        BY <2>1, <2>3, <3>3
    <2>10. QED
      BY <2>2, <2>5, <2>6, <2>7, <2>8, <2>9 DEF InstallOps
  <1>4. CASE Quiet
    <2>1. /\ setup.op = None /\ UNCHANGED <<cert, key, registry>>
          /\ service'.installed = service.installed
          /\ yaml'.ssl \in {yaml.ssl, "none", "half"}
      BY <1>4 DEF Quiet
    <2>2. Matched => Matched'
      BY <2>1, MatchedKept
    <2>3. Named => Named'
      BY <2>1 DEF Named
    <2>4. QED
      BY <2>1, <2>2, <2>3 DEF RestInv
  <1>5. QED
    BY <1>1, <1>2, <1>3, <1>4, WhatHappens
\* What a step encrypts, it encrypts for an account that the run has named.
LEMMA AccountNamed ==
    ASSUME SetupForm, PlanInv, NEW name, AtStep(name),
           name \in {"api_key", "write_blob", "protect", "service"}
    PROVE  setup.account # None
  <1>1. /\ setup.op \in InstallOps \cup {"configured", "uninstalled"}
        /\ setup.next \in DOMAIN setup.steps /\ setup.steps[setup.next] = name
    BY WhichStep DEF SetupForm, Ops, AtStep
  <1>2. CASE setup.op \in InstallOps
    BY <1>2, DeploymentAssumption DEF SetupForm
  <1>3. CASE setup.op = "configured"
    <2>1. ASSUME setup.account = None
          PROVE  FALSE
      <3>1. setup.steps \in {ReplacePlan, <<"registry_port", "yaml_port", "restart">>}
        BY <1>3, <2>1, ConfigurePlanFacts DEF SetupForm, PlanInv, OtherPlans
      <3>2. \A s \in {ReplacePlan, <<"registry_port", "yaml_port", "restart">>} :
               \A i \in DOMAIN s : s[i] \notin {"api_key", "write_blob", "protect", "service"}
        BY SMT DEF ReplacePlan
      <3>3. QED
        BY <1>1, <3>1, <3>2
    <2>2. QED
      BY <2>1
  <1>4. CASE setup.op = "uninstalled"
    <2>1. setup.steps \in UninstallPlans
      BY <1>4 DEF SetupForm
    <2>2. setup.next \in 1 .. 4
      BY <1>1, <2>1, UninstallPlanFacts
    <2>3. QED
      BY <1>1, <2>1, <2>2, UninstallPlanFacts
  <1>5. QED
    BY <1>1, <1>2, <1>3, <1>4

\* Which accounts a step of Setup leaves in the registry, the service and the run.
LEMMA AccountEffect ==
    ASSUME IInv, PlanInv, Steps
    PROVE  /\ \/ registry'.apikey \in {registry.apikey, NoSecret}
              \/ registry'.apikey.account = setup.account /\ setup.account # None
           /\ \/ registry'.blob \in {registry.blob, NoSecret, setup.blob}
              \/ registry'.blob.account = setup.account /\ setup.account # None
           /\ service'.installed => \/ service.installed /\ service'.account = service.account
                                    \/ service'.account = setup.account /\ setup.account # None
           /\ setup'.account = setup.account
           /\ \/ setup'.blob = setup.blob
              \/ setup'.blob.account = setup.account /\ setup.account # None
           /\ hist'.used = hist.used
  <1> USE DEF IInv
  <1>1. PICK name : /\ AtStep(name) /\ setup'.account = setup.account
                    /\ setup'.blob = IF Protect THEN Secret(setup.account, key.no) ELSE setup.blob
    BY RunEffect
  <1>2. name \in {"api_key", "write_blob", "protect", "service"} => setup.account # None
    BY <1>1, AccountNamed
  <1>3. /\ registry \in [root : BOOLEAN, apikey : Secrets, blob : Secrets, port : Ports \cup {None}]
        /\ hist \in [last : Ops \cup {None}, clean : BOOLEAN, used : SUBSET Account]
    BY DEF Registry, History
  <1>4. \A no : Secret(setup.account, no).account = setup.account
    BY DEF Secret
  <1>5. /\ \/ registry'.apikey \in {registry.apikey, NoSecret}
           \/ registry'.apikey.account = setup.account /\ setup.account # None
        /\ \/ registry'.blob \in {registry.blob, NoSecret, setup.blob}
           \/ registry'.blob.account = setup.account /\ setup.account # None
    <2>1. CASE ApiKey
      <3>1. PICK no : registry' = [registry EXCEPT !.root = TRUE, !.apikey = Secret(setup.account, no)]
        BY <2>1 DEF ApiKey
      <3>2. registry'.apikey = Secret(setup.account, no) /\ registry'.blob = registry.blob
        BY <1>3, <3>1, Zenon
      <3>3. setup.account # None
        BY <1>1, <1>2, <2>1, NamedAction DEF Steps
      <3>4. QED
        BY <1>4, <3>2, <3>3
    <2>2. CASE ConfigFile \/ RegistryStep
      <3>1. \/ registry' = [registry EXCEPT !.root = TRUE]
            \/ registry' = [registry EXCEPT !.root = TRUE, !.port = setup.port,
                                !.blob = IF setup.blob = NoSecret THEN @ ELSE setup.blob]
            \/ registry' = [registry EXCEPT !.root = TRUE, !.port = setup.port]
        BY <2>2 DEF ConfigFile, RegistryStep
      <3>2. /\ registry'.apikey = registry.apikey
            /\ registry'.blob = registry.blob \/ registry'.blob = setup.blob
        BY <1>3, <3>1, Zenon
      <3>3. QED
        BY <3>2
    <2>3. CASE StoreBlob \/ WriteBlob
      <3>1. setup.account # None \/ registry' = registry
        BY <1>1, <1>2, <2>3, NamedAction DEF Steps, StoreBlob
      <3>2. \/ registry' = registry
            \/ registry' = [registry EXCEPT !.root = TRUE, !.blob = Secret(setup.account, key.no)]
        BY <2>3 DEF StoreBlob, WriteBlob
      <3>3. /\ registry'.apikey = registry.apikey
            /\ registry' = registry \/ registry'.blob = Secret(setup.account, key.no)
        BY <1>3, <3>2, Zenon
      <3>4. QED
        BY <1>4, <3>1, <3>3
    <2>4. CASE RemoveRegistry
      <3>1. \/ registry' = registry
            \/ registry' = [root |-> FALSE, apikey |-> NoSecret, blob |-> NoSecret, port |-> None]
        BY <2>4 DEF RemoveRegistry
      <3>2. CASE registry' = registry
        BY <3>2
      <3>3. CASE registry' = [root |-> FALSE, apikey |-> NoSecret, blob |-> NoSecret, port |-> None]
        <4>1. registry'.apikey = NoSecret /\ registry'.blob = NoSecret
          BY <3>3, Zenon
        <4>2. QED
          BY <4>1
      <3>4. QED
        BY <3>1, <3>2, <3>3
    <2>5. CASE ~(ApiKey \/ ConfigFile \/ RegistryStep \/ StoreBlob \/ WriteBlob \/ RemoveRegistry)
      <3>1. registry' = registry
        BY <2>5 DEF Steps, SetupStep, MakeBinaries, CertFile, KeyFile, Protect, YamlFile,
          ServiceStep, StartStep, Encrypt, RemoveService, RemoveBinaries, RemoveData, machine
      <3>2. QED
        BY <3>1
    <2>6. QED
      BY <2>1, <2>2, <2>3, <2>4, <2>5
  <1>6. service'.installed => \/ service.installed /\ service'.account = service.account
                              \/ service'.account = setup.account /\ setup.account # None
    <2>1. CASE ServiceStep
      <3>1. service' = [installed |-> TRUE, running |-> FALSE, account |-> setup.account]
        BY <2>1 DEF ServiceStep
      <3>2. service'.account = setup.account
        BY <3>1, Zenon
      <3>3. setup.account # None
        BY <1>1, <1>2, <2>1, NamedAction DEF Steps
      <3>4. QED
        BY <3>2, <3>3
    <2>2. CASE ~ServiceStep
      <3>1. name # "service"
        BY <1>1, <2>2, NamedAction DEF Steps
      <3>2. QED
        BY <1>1, <3>1, ServiceEffect
    <2>3. QED
      BY <2>1, <2>2
  <1>7. \/ setup'.blob = setup.blob
        \/ setup'.blob.account = setup.account /\ setup.account # None
    <2>1. Protect => setup.account # None
      BY <1>1, <1>2, NamedAction DEF Steps
    <2>2. QED
      BY <1>1, <1>4, <2>1
  <1>8. hist'.used = hist.used
    <2>1. hist' = hist \/ hist' = [hist EXCEPT !.clean = FALSE]
      BY DEF Steps, SetupStep, MakeBinaries, CertFile, KeyFile, Protect, ApiKey, ConfigFile,
        YamlFile, ServiceStep, RegistryStep, StartStep, Encrypt, StoreBlob, WriteBlob,
        RemoveService, RemoveBinaries, RemoveRegistry, RemoveData, Warned
    <2>2. QED
      BY <1>3, <2>1, Zenon
  <1>9. QED
    BY <1>1, <1>5, <1>6, <1>7, <1>8

LEMMA UsedKept ==
    ASSUME IInv, PlanInv, UsedInv, [Next]_vars
    PROVE  UsedInv'
  <1> USE DEF IInv
  <1>1. /\ IsFiniteSet(hist.used)
        /\ registry.apikey # NoSecret => registry.apikey.account \in hist.used
        /\ registry.blob # NoSecret => registry.blob.account \in hist.used
        /\ service.installed => service.account \in hist.used
        /\ setup.account # None => setup.account \in hist.used
        /\ setup.blob # NoSecret => setup.blob.account \in hist.used
    BY DEF UsedInv
  <1>2. CASE Install \/ Configure \/ Uninstall
    <2>1. /\ setup'.blob = NoSecret /\ registry' = registry
          /\ service'.installed = service.installed /\ service'.account = service.account
          /\ hist'.used = hist.used \cup ({setup'.account} \ {None})
      BY <1>2, Begins
    <2>2. IsFiniteSet({setup'.account} \ {None})
      <3>1. IsFiniteSet({}) /\ IsFiniteSet({setup'.account})
        BY FS_EmptySet, FS_Singleton
      <3>2. {setup'.account} \ {None} \in {{}, {setup'.account}}
        OBVIOUS
      <3>3. QED
        BY <3>1, <3>2
    <2>3. IsFiniteSet(hist'.used)
      <3>1. PICK S, T : /\ S = hist.used /\ T = {setup'.account} \ {None}
                        /\ IsFiniteSet(S) /\ IsFiniteSet(T)
        BY <1>1, <2>2
      <3>2. IsFiniteSet(S \cup T)
        BY <3>1, FS_Union
      <3>3. QED
        BY <2>1, <3>1, <3>2
    <2>4. hist.used \subseteq hist'.used /\ (setup'.account # None => setup'.account \in hist'.used)
      BY <2>1
    <2>5. QED
      BY <1>1, <2>1, <2>3, <2>4 DEF UsedInv
  <1>3. CASE Steps
    <2>1. /\ \/ registry'.apikey \in {registry.apikey, NoSecret}
             \/ registry'.apikey.account = setup.account /\ setup.account # None
          /\ \/ registry'.blob \in {registry.blob, NoSecret, setup.blob}
             \/ registry'.blob.account = setup.account /\ setup.account # None
          /\ service'.installed => \/ service.installed /\ service'.account = service.account
                                   \/ service'.account = setup.account /\ setup.account # None
          /\ setup'.account = setup.account
          /\ \/ setup'.blob = setup.blob
             \/ setup'.blob.account = setup.account /\ setup.account # None
          /\ hist'.used = hist.used
      BY <1>3, AccountEffect
    <2>2. QED
      BY <1>1, <2>1 DEF UsedInv
  <1>4. CASE Finish \/ Interrupt \/ Reboot
    <2>1. setup' = NoSetup \/ setup' = setup
      BY <1>4 DEF Finish, Interrupt, Reboot, Stops
    <2>2. NoSetup.account = None /\ NoSetup.blob = NoSecret
      BY Zenon DEF NoSetup
    <2>3. registry' = registry
      BY <1>4 DEF Finish, Interrupt, Reboot, machine
    <2>4. service' = service \/ service' = [service EXCEPT !.running = service.installed]
      BY <1>4 DEF Finish, Interrupt, Reboot, machine
    <2>5. service'.installed = service.installed /\ service'.account = service.account
      BY <2>4, Zenon DEF Service
    <2>6. \/ hist' = hist
          \/ hist' = [hist EXCEPT !.last = setup.op]
          \/ hist' = [hist EXCEPT !.last = None, !.clean = FALSE]
      BY <1>4 DEF Finish, Interrupt, Reboot, Stops
    <2>7. hist'.used = hist.used
      BY <2>6, Zenon DEF History
    <2>8. QED
      BY <1>1, <2>1, <2>2, <2>3, <2>5, <2>7 DEF UsedInv
  <1>5. CASE Edit \/ RestartService \/ Server \/ UNCHANGED vars
    <2>1. UNCHANGED <<setup, registry, service, hist>>
      BY <1>5 DEF Edit, RestartService, Server, Launch, ReadRegistry, ReadRegistryFails,
        CreateServer, GetKeyPassword, GetKeyPasswordFails, CheckKey, LoadTls, Goto, machine, vars
    <2>2. QED
      BY <1>1, <2>1 DEF UsedInv
  <1>6. QED
    BY <1>2, <1>3, <1>4, <1>5 DEF Next, Steps
-----------------------------------------------------------------------------
LEMMA CleanInitHolds == Init => CInv
  <1> SUFFICES ASSUME Init
               PROVE  CInv
    OBVIOUS
  <1>1. setup = [op |-> None, steps |-> <<>>, next |-> 1, account |-> None, port |-> "8000",
                 blob |-> NoSecret]
    BY DEF Init, NoSetup
  <1>2. setup.op = None /\ setup.account = None /\ setup.blob = NoSecret
    BY <1>1, Zenon
  <1>3. /\ registry = [root |-> FALSE, apikey |-> NoSecret, blob |-> NoSecret, port |-> None]
        /\ service = [installed |-> FALSE, running |-> FALSE, account |-> None]
        /\ hist = [last |-> None, clean |-> TRUE, used |-> {}]
    BY DEF Init
  <1>4. /\ ~registry.root /\ registry.apikey = NoSecret /\ registry.blob = NoSecret
        /\ ~service.installed /\ hist.used = {}
    BY <1>3, Zenon
  <1>5. PlanInv
    BY <1>2 DEF PlanInv, None
  <1>6. UsedInv
    BY <1>2, <1>4, FS_EmptySet DEF UsedInv
  <1>7. NamedInv /\ CleanInv
    BY <1>2, <1>4, OpsDiffer DEF CleanInv, RestInv, NamedInv, KeptInv, ImportInv, ConfigureInv,
      UninstallInv, None
  <1>8. KeptLeaves
    <2>1. hist.last = None
      BY <1>3, Zenon
    <2>2. QED
      BY <2>1, OpsDiffer DEF KeptLeaves
  <1>9. QED
    BY <1>5, <1>6, <1>7, <1>8, InitHolds DEF CInv

LEMMA CleanInvariance == Spec => []CInv
  <1>1. CInv /\ [Next]_vars => CInv'
    <2> SUFFICES ASSUME CInv, [Next]_vars
                 PROVE  CInv'
      OBVIOUS
    <2>1. /\ IInv /\ PlanInv /\ UsedInv /\ NamedInv /\ KeptLeaves /\ CleanInv
          /\ History /\ Service /\ SetupForm
      BY DEF CInv, IInv
    <2>2. IInv' /\ SetupForm'
      BY <2>1, InvariantKept DEF IInv
    <2>3. PlanInv' /\ UsedInv' /\ NamedInv' /\ KeptLeaves'
      BY <2>1, <2>2, PlanKept, UsedKept, NamedKept, LeavesKept
    <2>4. ASSUME hist'.clean
          PROVE  RestInv' /\ KeptInv' /\ ImportInv' /\ ConfigureInv' /\ UninstallInv'
      <3>1. RestInv /\ KeptInv /\ ImportInv /\ ConfigureInv /\ UninstallInv
        BY <2>1, <2>4, CleanBefore DEF CleanInv
      <3>2. RestInv'
        BY <2>1, <2>4, <3>1, RestKept
      <3>3. KeptInv' /\ ImportInv'
        BY <2>1, <2>2, <2>4, <3>1, KeptKept, ImportKept
      <3>4. ConfigureInv' /\ UninstallInv'
        BY <2>1, <2>2, <2>4, <3>1, ConfigureKept, UninstallKept
      <3>5. QED
        BY <3>2, <3>3, <3>4
    <2>5. QED
      BY <2>2, <2>3, <2>4 DEF CInv, CleanInv
  <1>2. QED
    BY CleanInitHolds, <1>1, PTL DEF Spec

\* When all that is encrypted is for one account, and the files and the password fit, there is
\* nothing for the start of the server to refuse.
LEMMA InOrderStarts ==
    ASSUME CInv, Cardinality(hist.used) <= 1, service.installed, Loads(yaml, env), Matched, Named
    PROVE  Startable
  <1>1. ASSUME NEW a \in hist.used
        PROVE  a = service.account
    <2>1. IsFiniteSet(hist.used) /\ service.account \in hist.used
      BY DEF CInv, UsedInv
    <2>2. Cardinality(hist.used) \in Nat /\ Cardinality(hist.used) # 0
      BY <2>1, FS_CardinalityType, FS_EmptySet
    <2>3. PICK x : hist.used = {x}
      <3>1. PICK n \in Nat : n = Cardinality(hist.used) /\ n <= 1 /\ n # 0
        BY <2>2
      <3>2. n = 1
        BY <3>1
      <3>3. QED
        BY <2>1, <3>1, <3>2, FS_Singleton
    <2>4. QED
      BY <2>1, <2>3
  <1>2. registry.apikey = NoSecret \/ Decrypts(registry.apikey)
    BY <1>1 DEF CInv, UsedInv, Decrypts
  <1>3. registry.blob = NoSecret \/ Decrypts(registry.blob)
    BY <1>1 DEF CInv, UsedInv, Decrypts
  <1>4. yaml.ssl # "half"
    <2>1. DOMAIN yaml = YamlFields
      BY DEF CInv, IInv, Files
    <2>2. _apply_env_overrides(yaml, env).ssl = yaml.ssl
      BY <2>1, SMT DEF _apply_env_overrides, YamlFields
    <2>3. _apply_env_overrides(yaml, env).ssl # "half"
      BY DEF Loads, Validates
    <2>4. QED
      BY <2>2, <2>3
  <1>5. yaml.ssl # "none" => Here
    BY <1>4 DEF Named, Here
  <1>6. QED
    BY <1>2, <1>3, <1>5 DEF Matched, Startable

\* Whatever is installed, kept, imported, rotated, edited or removed, in whatever order: if no
\* run of Setup stopped early or warned and all named one account, a server that is installed
\* finds a certificate and a key of one pair, a password of that key, and nothing that was
\* encrypted for somebody else.
THEOREM CleanRunsServe == Spec => []CleanSetupServes
  <1>1. CInv => CleanSetupServes
    BY InOrderStarts DEF CleanSetupServes, CInv, CleanInv, RestInv, Idle
  <1>2. QED
    BY <1>1, CleanInvariance, PTL

\* Wherever earlier runs of Setup were stopped, an Install that keeps the credentials and gets to its
\* end leaves a server that starts, if the certificate, the key and the stored password fit and
\* all runs named one account.
THEOREM KeepingRepairs == Spec => []KeepServes
  <1>1. CInv => KeepServes
    BY InOrderStarts DEF KeepServes, CInv, KeptLeaves, Matched, Idle
  <1>2. QED
    BY <1>1, CleanInvariance, PTL
================================================================================
