---------------------------- MODULE MCInfraService ---------------------------
(***************************************************************************)
(* Configurations: for each setting, its spellings with one value; and     *)
(* several spellings given at once, with different values.                 *)
(***************************************************************************)
EXTENDS InfraService

NoReplicas == [number |-> Absent, regions |-> Absent]

a == <<Command("a")>>
empty == <<Command("")>>
Given == {Absent, a, <<Command("b")>>, empty}

Starts(w, x, y, z) == [Blank EXCEPT !.start = w, !.startCommand = x, !.run.command = y, !.deploy.startCommand = z]
PreDeploys(w, x, y, z) ==
    [Blank EXCEPT !.preDeploy = w, !.preDeployCommand = x, !.run.preDeploy = y, !.deploy.preDeployCommand = z]
list == <<List(a)>>

Region(f, v) == [[number |-> Absent, count |-> Absent, replicas |-> Absent, stacker |-> Absent] EXCEPT ![f] = <<v>>]
West(region) == <<[west |-> region]>>
SameRegions == {West(Region(f, 2)) : f \in {"number", "count", "replicas"}}
Built == <<[west |-> [numReplicas |-> <<2>>, stackerAssignment |-> Absent]]>>
Stacked == West([Region("count", 2) EXCEPT !.stacker = <<"metal">>])

Path == <<"app">>
Sourced(source, root) == [Blank EXCEPT !.source = source, !.root = root]
Repo(type, branch, root) == Source(type, <<"repo">>, branch, root, Absent)

Domains(port) == [Blank EXCEPT !.domains = <<<<[domain |-> "example.com", port |-> port]>>>>]
Port(type) == <<<<[type |-> type, port |-> 5432]>>>>

One(v) == [A |-> v]
Raw == [type |-> "config", value |-> "secret"]
Value(t) == [type |-> t, value |-> "1"]
Mount(path, type) == <<path, [type |-> type, name |-> "data"]>>

Same ==
    { {Starts(a, Absent, Absent, Absent), Starts(Absent, a, Absent, Absent),
       Starts(Absent, Absent, a, Absent), Starts(Absent, Absent, Absent, a)},
      {PreDeploys(p, Absent, Absent, Absent) : p \in {a, list}}
          \cup {PreDeploys(Absent, p, Absent, Absent) : p \in {a, list}}
          \cup {PreDeploys(Absent, Absent, p, Absent) : p \in {a, list}}
          \cup {PreDeploys(p, Absent, Absent, <<a>>) : p \in {Absent, empty}},
      {[Blank EXCEPT !.healthcheck = a], [Blank EXCEPT !.healthcheckPath = a],
       [Blank EXCEPT !.run.healthcheck = a], [Blank EXCEPT !.deploy.healthcheckPath = a]},
      {[Blank EXCEPT !.healthcheckTimeout = <<30>>], [Blank EXCEPT !.run.healthcheckTimeout = <<30>>],
       [Blank EXCEPT !.deploy.healthcheckTimeout = <<30>>]},
      {[Blank EXCEPT !.replicas.number = <<3>>], [Blank EXCEPT !.deploy.numReplicas = <<3>>]},
      {[Blank EXCEPT !.replicas.regions = r] : r \in SameRegions}
          \cup {[Blank EXCEPT !.regions = r] : r \in SameRegions}
          \cup {[Blank EXCEPT !.deploy.multiRegionConfig = Built]},
      {Sourced(Repo("github", <<"main">>, Path), Absent), Sourced(Repo("github", <<"main">>, Absent), Path),
       Sourced(Repo("repo", Absent, Absent), Path), Sourced(Repo("repo", <<"main">>, Absent), Path),
       [Blank EXCEPT !.source = Repo("repo", Absent, Absent), !.rootDirectory = Path]},
      {Sourced(Source("image", <<"i">>, Absent, Absent, Absent), Path),
       Sourced(Source("image name", <<"i">>, Absent, Absent, Absent), Path)},
      {[Blank EXCEPT !.root = Path], [Blank EXCEPT !.rootDirectory = Path],
       Sourced(Source("empty", Absent, Absent, Path, Absent), Absent)},
      {[Blank EXCEPT !.build.text = <<"make">>], [Blank EXCEPT !.build.object.buildCommand = <<"make">>]},
      {Domains(Absent), Domains(<<8080>>)},
      {[Blank EXCEPT !.tcp = Port("number")], [Blank EXCEPT !.tcp = Port("string")],
       [Blank EXCEPT !.tcpProxies = Port("string")]},
      {[Blank EXCEPT !.env = One(Value(t))] : t \in {"text", "literal"}}
          \cup {[Blank EXCEPT !.variables = One(Value(t))] : t \in {"text", "literal"}}
          \cup {[Blank EXCEPT !.env = One(Value("text")), !.variables = One(Raw)]} }

Alone ==
    {Starts(w, x, y, z) : w, x, y, z \in Given}
    \cup {PreDeploys(w, x, y, z) : w, x, y \in {Absent, empty, a, list}, z \in {Absent, <<a>>}}
    \cup {[Blank EXCEPT !.replicas = r, !.regions = s, !.deploy.numReplicas = n, !.deploy.multiRegionConfig = m] :
             r \in {NoReplicas, [number |-> <<2>>, regions |-> Absent], [number |-> Absent, regions |-> Stacked]},
             s \in {Absent} \cup SameRegions, n \in {Absent, <<1>>}, m \in {Absent, Built}}
    \cup {[Sourced(s, root) EXCEPT !.variables = v] :
             s \in {Absent} \cup {Source(t, <<"n">>, Absent, p, r) :
                                     t \in {"github", "image", "template", "repo", "image name"},
                                     p \in {Absent, <<"lib">>}, r \in {Absent, <<"checkSuites">>}},
             root \in {Absent, Path}, v \in {<<>>, One(Raw), One([type |-> "reference", value |-> "db.URL"])}}
    \cup {[Blank EXCEPT !.volumeMounts = m] :
             m \in {<<Mount("/a", t), Mount("/b", u)>> : t, u \in {"volume", "raw"}}}

MCFamilies == Same \cup {{c} : c \in Alone}
MCCodeSizes == {0, 1, 2, 3} \cup 98290..98304
=============================================================================
