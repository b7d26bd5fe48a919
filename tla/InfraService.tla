---------------------------- MODULE InfraService -----------------------------
(***************************************************************************)
(* What service() and fn() make of a service's configuration (iac/sdk.ts). *)
(* Most settings have several spellings, and the node that is built has    *)
(* one: a program of a project may say start, startCommand, run.command or *)
(* deploy.startCommand, and deploy.startCommand is what is sent.           *)
(*                                                                         *)
(* A setting that may be absent is a sequence of at most one value, so an  *)
(* object is a record of all its settings and pruneEmpty() removes nothing *)
(* that a record shows.  An object given under several spellings is        *)
(* represented by the settings that are chosen from; `rest' stands for the *)
(* settings copied as they are.  Commands, names and paths are members of  *)
(* small sets, but an empty text, which is false, is Command("").          *)
(*                                                                         *)
(* Operator_Fault is Operator with one plausible bug; no specification     *)
(* uses it.                                                                *)
(***************************************************************************)
EXTENDS Naturals, Sequences, SequencesExt

CONSTANTS
    Families,  \* sets of configurations, each of which say the same
    CodeSizes  \* lengths of a function's source file, in bytes

Absent == <<>>

Settings ==
    {"source", "root", "rootDirectory", "build", "deploy", "run", "start", "startCommand",
     "preDeploy", "preDeployCommand", "healthcheck", "healthcheckPath", "healthcheckTimeout",
     "replicas", "regions", "networking", "domains", "tcp", "tcpProxies", "variables", "env",
     "volumeMounts"}
DeploySettings ==
    {"startCommand", "preDeployCommand", "healthcheckPath", "healthcheckTimeout", "numReplicas",
     "multiRegionConfig", "rest"}

SourceSettings == {"type", "name", "branch", "rootDirectory", "rest"}

\* The types of a source; one without a type has a repo or an image.
SourceTypes == {"github", "image", "template", "empty", "repo", "image name"}

ASSUME CodeSizesAssumption == CodeSizes \subseteq Nat

VARIABLES
    family,  \* the configurations that say what `config' says
    config,  \* the argument of service() or fn()
    node,    \* what the call returned or threw
    again    \* what service() returned for the node

infraVars == <<family, config, node, again>>

Nothing == [kind |-> "nothing"]

\* a ?? b ?? ...
Coalesce(settings) ==
    LET given == {i \in DOMAIN settings : settings[i] # Absent} IN
    IF given = {} THEN Absent ELSE settings[CHOOSE i \in given : \A j \in given : i <= j]

Command(t) == [text |-> t, bytes |-> 0]
List(commands) == [list |-> commands]
Truthy(setting) == setting # Absent /\ Head(setting) # Command("")

\* A command, or a list of commands, as a list.
Commands(setting) ==
    LET given == Head(setting) IN IF "list" \in DOMAIN given THEN given.list ELSE <<given>>

-----------------------------------------------------------------------------
(* One normalisation for each part of a node.                              *)

Source(type, name, branch, rootDirectory, rest) ==
    <<[type |-> type, name |-> name, branch |-> branch, rootDirectory |-> rootDirectory, rest |-> rest]>>

\* A source without a type keeps its name and its branch only.
NormalizeSource(source, root) ==
    LET given == Head(source) IN
    CASE source # Absent /\ given.type \notin {"repo", "image name"} ->
            <<[given EXCEPT !.rootDirectory = Coalesce(<<@, root>>)]>>
      [] source # Absent /\ given.type = "repo" ->
            Source("github", given.name, Coalesce(<<given.branch, <<"main">>>>), root, Absent)
      [] source # Absent /\ given.type = "image name" ->
            Source("image", given.name, Absent, root, Absent)
      [] OTHER -> IF root # Absent THEN Source("empty", Absent, Absent, root, Absent) ELSE Absent

NormalizeBuild(c) ==
    IF c.build.text # Absent THEN [buildCommand |-> c.build.text, rest |-> Absent]
                             ELSE c.build.object

NormalizeRegions(regions) ==
    [r \in DOMAIN regions |->
        [numReplicas |-> Coalesce(<<regions[r].number, regions[r].count, regions[r].replicas>>),
         stackerAssignment |-> regions[r].stacker]]

\* A number of replicas, or replicas or regions by region.
NormalizeReplicas(c) ==
    LET regions == Coalesce(<<c.replicas.regions, c.regions>>) IN
    [numReplicas |-> c.replicas.number,
     multiRegionConfig |-> IF c.replicas.number = Absent /\ regions # Absent
                           THEN <<NormalizeRegions(Head(regions))>> ELSE Absent]

NormalizeDeploy_DropsRegions(c) ==
    LET replicaConfig == NormalizeReplicas(c)
        preDeploy == Coalesce(<<c.preDeploy, c.preDeployCommand, c.run.preDeploy>>)
    IN  [c.deploy EXCEPT
            !.startCommand = Coalesce(<<c.start, c.startCommand, c.run.command, @>>),
            !.preDeployCommand = IF Truthy(preDeploy) THEN <<Commands(preDeploy)>> ELSE @,
            !.healthcheckPath = Coalesce(<<c.healthcheck, c.healthcheckPath, c.run.healthcheck, @>>),
            !.healthcheckTimeout = Coalesce(<<c.healthcheckTimeout, c.run.healthcheckTimeout, @>>),
            !.numReplicas = Coalesce(<<replicaConfig.numReplicas, @>>),
            !.multiRegionConfig = replicaConfig.multiRegionConfig]

\* A pre-deploy command that is an empty text falls back to `deploy' only.
NormalizeDeploy(c) ==
    LET replicaConfig == NormalizeReplicas(c)
        preDeploy == Coalesce(<<c.preDeploy, c.preDeployCommand, c.run.preDeploy>>)
    IN  [c.deploy EXCEPT
            !.startCommand = Coalesce(<<c.start, c.startCommand, c.run.command, @>>),
            !.preDeployCommand = IF Truthy(preDeploy) THEN <<Commands(preDeploy)>> ELSE @,
            !.healthcheckPath = Coalesce(<<c.healthcheck, c.healthcheckPath, c.run.healthcheck, @>>),
            !.healthcheckTimeout = Coalesce(<<c.healthcheckTimeout, c.run.healthcheckTimeout, @>>),
            !.numReplicas = Coalesce(<<replicaConfig.numReplicas, @>>),
            !.multiRegionConfig = Coalesce(<<replicaConfig.multiRegionConfig, @>>)]

\* The last of the entries with a key is the one an object keeps.
FromEntries(entries) ==
    [k \in {e[1] : e \in Range(entries)} |->
        entries[CHOOSE i \in DOMAIN entries :
            /\ entries[i][1] = k
            /\ \A j \in DOMAIN entries : entries[j][1] = k => j <= i][2]]

\* Custom domains and TCP proxies given under `networking' are not read.
NormalizeNetworking(c) ==
    LET Entry(d) == <<d.domain, Head(Coalesce(<<d.port, <<8080>>>>))>>
        Ports(tcp) == IF tcp = Absent THEN Absent ELSE <<{p.port : p \in Range(Head(tcp))}>>
    IN  [rest |-> c.networking.rest,
         customDomains |-> IF c.domains = Absent THEN Absent
                           ELSE <<FromEntries([i \in DOMAIN Head(c.domains) |-> Entry(Head(c.domains)[i])])>>,
         tcpProxies |-> Coalesce(<<Ports(c.tcp), Ports(c.tcpProxies)>>)]

NormalizeVariable(v) ==
    CASE v.type = "text"   -> [type |-> "literal", value |-> v.value]
      [] v.type = "config" -> [type |-> "raw", value |-> v.value]
      [] OTHER -> v

\* `env' wins over `variables'.
NormalizeVariables(c) ==
    LET names == DOMAIN c.env \cup DOMAIN c.variables
    IN  [n \in names |-> NormalizeVariable(IF n \in DOMAIN c.env THEN c.env[n] ELSE c.variables[n])]

IsVolume(mount) == mount[2].type = "volume"

\* A volume is attached under its own name, at the last of the paths given for it.
NormalizeVolumeMounts(mounts) ==
    LET volumes == {i \in DOMAIN mounts : IsVolume(mounts[i])}
    IN  [volumeMounts |-> FromEntries([i \in DOMAIN mounts \ volumes |-> mounts[i]]),
         volumeAttachments |-> FromEntries([i \in volumes |-> <<mounts[i][2].name, mounts[i][1]>>])]

-----------------------------------------------------------------------------
(* service() and fn().                                                     *)

KindOf(source) ==
    CASE source = Absent -> "empty"
      [] source # Absent /\ Head(source).type = "image" -> "docker-image"
      [] OTHER -> Head(source).type

Service(c) ==
    LET source == NormalizeSource(c.source, Coalesce(<<c.root, c.rootDirectory>>)) IN
    [kind |-> KindOf(source), source |-> source, build |-> NormalizeBuild(c),
     deploy |-> NormalizeDeploy(c), networking |-> NormalizeNetworking(c),
     variables |-> NormalizeVariables(c), mounts |-> NormalizeVolumeMounts(c.volumeMounts)]

MAX_COMMAND_BYTES == 128 * 1024 - 1
FUNCTION_START_COMMAND_PREFIX == 9  \* the length of "./run.sh "
FUNCTION_SOURCE_MAX_BYTES == ((MAX_COMMAND_BYTES - FUNCTION_START_COMMAND_PREFIX) \div 4) * 3

\* The length of the base64 text of n bytes: four characters for three bytes, padded.
Base64Length(n) == 4 * ((n + 2) \div 3)

FunctionStartCommand(bytes) ==
    [text |-> "./run.sh", bytes |-> FUNCTION_START_COMMAND_PREFIX + Base64Length(bytes)]

CodeTooLarge_Inexact(bytes) == bytes > (MAX_COMMAND_BYTES * 3) \div 4

CodeTooLarge(bytes) == bytes > FUNCTION_SOURCE_MAX_BYTES

\* A source file sets the start command, so the configuration may not have one; an
\* empty text of a first spelling counts as none.
HasStart(c) == Truthy(Coalesce(<<c.start, c.startCommand, c.run.command, c.deploy.startCommand>>))

Fn(c, code) ==
    LET source == IF c.source = Absent
                  THEN Source("image", <<"bun">>, Absent, Absent, Absent) ELSE c.source
        given == [c EXCEPT !.source = source, !.start = <<FunctionStartCommand(code)>>]
    IN  IF HasStart(c) \/ CodeTooLarge(code) THEN [kind |-> "error", code |-> code]
        ELSE [Service(given) EXCEPT !.kind = "function"]

-----------------------------------------------------------------------------
(* What a configuration says: for each setting the values given for it, in *)
(* whatever spelling and order.                                            *)

Said(settings) == Range(settings) \ {Absent}

\* A source without a type is a repository or an image.
SourceSaid(c) ==
    LET s == Head(c.source)
        roots == Said(<<c.root, c.rootDirectory>>)
        Meant(type, name, branch, dirs, rest) ==
            [type |-> type, name |-> name, branch |-> branch, roots |-> dirs, rest |-> rest]
    IN  CASE c.source = Absent ->
                Meant(IF roots = {} THEN "none" ELSE "empty", Absent, Absent, roots, Absent)
          [] c.source # Absent /\ s.type = "repo" ->
                Meant("github", s.name, IF s.branch = Absent THEN <<"main">> ELSE s.branch,
                      roots \cup Said(<<s.rootDirectory>>), s.rest)
          [] c.source # Absent /\ s.type = "image name" ->
                Meant("image", s.name, s.branch, roots \cup Said(<<s.rootDirectory>>), s.rest)
          [] OTHER -> Meant(s.type, s.name, s.branch, roots \cup Said(<<s.rootDirectory>>), s.rest)

\* An empty text is not a command.
PreDeploySaid(c) ==
    {<<Commands(p)>> : p \in {q \in Said(<<c.preDeploy, c.preDeployCommand, c.run.preDeploy>>) : Truthy(q)}}
    \cup Said(<<c.deploy.preDeployCommand>>)

\* The regions of a program, and those of the node.
RegionsGiven(regions) ==
    [r \in DOMAIN regions |->
        [replicas |-> Said(<<regions[r].number, regions[r].count, regions[r].replicas>>),
         stacker |-> regions[r].stacker]]
RegionsBuilt(regions) ==
    [r \in DOMAIN regions |->
        [replicas |-> Said(<<regions[r].numReplicas>>), stacker |-> regions[r].stackerAssignment]]

RegionsSaid(c) ==
    {RegionsGiven(Head(r)) : r \in Said(<<c.replicas.regions, c.regions>>)}
    \cup {RegionsBuilt(Head(r)) : r \in Said(<<c.deploy.multiRegionConfig>>)}

DomainsSaid(c) ==
    IF c.domains = Absent THEN Absent
    ELSE <<[i \in DOMAIN Head(c.domains) |->
               LET d == Head(c.domains)[i] IN
               <<d.domain, IF d.port = Absent THEN 8080 ELSE Head(d.port)>>]>>

PortsSaid(c) == {{p.port : p \in Range(Head(tcp))} : tcp \in Said(<<c.tcp, c.tcpProxies>>)}

\* `variables' says what `env' does not.
VariablesSaid(c) ==
    {<<n, NormalizeVariable(c.env[n])>> : n \in DOMAIN c.env}
    \cup {<<n, NormalizeVariable(c.variables[n])>> : n \in DOMAIN c.variables \ DOMAIN c.env}

Says(c) ==
    [source       |-> SourceSaid(c),
     buildCommand |-> Said(<<c.build.text, c.build.object.buildCommand>>),
     build        |-> c.build.object.rest,
     start        |-> Said(<<c.start, c.startCommand, c.run.command, c.deploy.startCommand>>),
     preDeploy    |-> PreDeploySaid(c),
     healthcheck  |-> Said(<<c.healthcheck, c.healthcheckPath, c.run.healthcheck, c.deploy.healthcheckPath>>),
     timeout      |-> Said(<<c.healthcheckTimeout, c.run.healthcheckTimeout, c.deploy.healthcheckTimeout>>),
     replicas     |-> Said(<<c.replicas.number, c.deploy.numReplicas>>),
     regions      |-> RegionsSaid(c),
     deploy       |-> c.deploy.rest,
     networking   |-> c.networking.rest,
     domains      |-> DomainsSaid(c),
     ports        |-> PortsSaid(c),
     variables    |-> VariablesSaid(c),
     volumeMounts |-> c.volumeMounts]

Single(values) == \A x, y \in values : x = y

\* A source without a type gives none of the settings that service() drops from it,
\* though its type allows them (iac/sdk.ts:81): a directory, check suites, a commit.
UntypedSourceKept(c) ==
    LET s == Head(c.source) IN
    c.source # Absent /\ s.type \in {"repo", "image name"} =>
        /\ s.rootDirectory = Absent /\ s.rest = Absent
        /\ s.type = "image name" => s.branch = Absent

\* No setting has different values in two of its spellings, nor an empty pre-deploy
\* command and one that is not; the build is a text or an object, and the replicas
\* are a number or are given by region; and a source is not given what is dropped.
Unambiguous(c) ==
    LET says == Says(c) IN
    /\ Single(says.source.roots) /\ Single(says.buildCommand) /\ Single(says.start)
    /\ Single(says.preDeploy) /\ Single(says.healthcheck) /\ Single(says.timeout)
    /\ Single(says.replicas) /\ Single(says.regions) /\ Single(says.ports)
    /\ \A regions \in says.regions : \A r \in DOMAIN regions : Single(regions[r].replicas)
    /\ Single({Truthy(p) : p \in Said(<<c.preDeploy, c.preDeployCommand, c.run.preDeploy>>)})
    /\ UntypedSourceKept(c)
    /\ c.build.text # Absent => c.build.object.rest = Absent
    /\ c.replicas.number # Absent => Said(<<c.replicas.regions, c.regions>>) = {}

SayTheSame(c, d) == c = d \/ (Unambiguous(c) /\ Unambiguous(d) /\ Says(c) = Says(d))

\* Configurations have the shape of the node's types, and those of a family say the
\* same.
ASSUME FamiliesAssumption ==
    \A f \in Families : \A c \in f :
        /\ c = [s \in Settings |-> c[s]]
        /\ c.deploy = [s \in DeploySettings |-> c.deploy[s]]
        /\ c.source # Absent =>
              /\ Head(c.source) = [s \in SourceSettings |-> Head(c.source)[s]]
              /\ Head(c.source).type \in SourceTypes
        /\ c.build.object = [buildCommand |-> c.build.object.buildCommand, rest |-> c.build.object.rest]
        /\ c.deploy.multiRegionConfig # Absent =>
              LET regions == Head(c.deploy.multiRegionConfig) IN
              /\ c.deploy.multiRegionConfig = <<regions>>
              /\ regions = [r \in DOMAIN regions |->
                               [numReplicas |-> regions[r].numReplicas,
                                stackerAssignment |-> regions[r].stackerAssignment]]
        /\ DOMAIN c.volumeMounts = 1..Len(c.volumeMounts) /\ Len(c.volumeMounts) \in Nat
        /\ \A d \in f : SayTheSame(c, d)

-----------------------------------------------------------------------------
(* The specification: one call, and the node given back to service().      *)

\* A configuration that gives nothing.
Blank ==
    [source |-> Absent, root |-> Absent, rootDirectory |-> Absent,
     build |-> [text |-> Absent, object |-> [buildCommand |-> Absent, rest |-> Absent]],
     deploy |-> [s \in DeploySettings |-> Absent],
     run |-> [command |-> Absent, preDeploy |-> Absent, healthcheck |-> Absent,
              healthcheckTimeout |-> Absent],
     start |-> Absent, startCommand |-> Absent, preDeploy |-> Absent, preDeployCommand |-> Absent,
     healthcheck |-> Absent, healthcheckPath |-> Absent, healthcheckTimeout |-> Absent,
     replicas |-> [number |-> Absent, regions |-> Absent], regions |-> Absent,
     networking |-> [rest |-> Absent], domains |-> Absent, tcp |-> Absent, tcpProxies |-> Absent,
     variables |-> <<>>, env |-> <<>>, volumeMounts |-> <<>>]

\* The node as a configuration.
AsConfig(n) ==
    [Blank EXCEPT !.source = n.source, !.build = [text |-> Absent, object |-> n.build],
                  !.deploy = n.deploy, !.variables = n.variables,
                  !.volumeMounts = SetToSeq({<<p, n.mounts.volumeMounts[p]>> :
                                                 p \in DOMAIN n.mounts.volumeMounts})]

InfraInit ==
    /\ family \in Families
    /\ config \in family
    /\ node = Nothing
    /\ again = Nothing

CallService ==
    /\ node = Nothing
    /\ node' = Service(config)
    /\ UNCHANGED <<family, config, again>>

\* A function with a source file of `code' bytes.
CallFn(code) ==
    /\ node = Nothing
    /\ node' = Fn(config, code)
    /\ UNCHANGED <<family, config, again>>

CallAgain ==
    /\ node.kind \notin {"nothing", "error", "function"}
    /\ again = Nothing
    /\ again' = Service(AsConfig(node))
    /\ UNCHANGED <<family, config, node>>

InfraNext == CallService \/ (\E code \in CodeSizes : CallFn(code)) \/ CallAgain

InfraSpec == InfraInit /\ [][InfraNext]_infraVars

-----------------------------------------------------------------------------
(* Properties.                                                             *)

\* A node's parts given to service() again come back as they are: its kind, source,
\* build, deploy settings, variables and volume mounts (iac/sdk.ts:433-516).
NodeKept ==
    again # Nothing =>
        /\ \A part \in {"kind", "source", "build", "deploy", "variables"} : again[part] = node[part]
        /\ again.mounts.volumeMounts = node.mounts.volumeMounts

\* The settings a node is built from have the same meaning however they are spelled:
\* all the spellings of a setting give one node (docs/railway-config-dsl.md:290-351),
\* and the node's own spelling of its parts is one of them, so that giving a node's
\* parts to service() again changes none of them.
SpellingsAgree ==
    /\ node.kind \notin {"nothing", "error", "function"} =>
           \A c \in family : Service(c) = node
    /\ NodeKept

\* A function is refused for its size exactly when its start command, with the NUL
\* that ends it, is more than the 128 KiB one argument may have (sdk.ts:240-251).
FunctionFits ==
    /\ node.kind = "function" => Head(node.deploy.startCommand).bytes + 1 <= 128 * 1024
    /\ node.kind = "error" =>
           \/ HasStart(config)
           \/ FUNCTION_START_COMMAND_PREFIX + Base64Length(node.code) + 1 > 128 * 1024
=============================================================================
