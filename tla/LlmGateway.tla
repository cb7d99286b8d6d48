----------------------------- MODULE LlmGateway -----------------------------
(***************************************************************************)
(* The LiteLLM gateway at the start of the host (container_manager/        *)
(* gateway.py, gateway_litellm.py) and what is synchronised into it from   *)
(* the configuration: tool servers resolved into instances                 *)
(* (mcp/resolution.py, mcp/manager.py), their registrations, and a team    *)
(* with a key per workspace (mcp/litellm.py).                              *)
(*                                                                         *)
(* Registrations and teams outlive the host, as the cache of the keys does,*)
(* while calls fail, the host dies between two of them, and the            *)
(* configuration changes between two starts.                               *)
(*                                                                         *)
(* A server is <<name>> or, made from a template, <<template, instance>>;  *)
(* writing an instance as a registered name is one-to-one here.            *)
(***************************************************************************)
EXTENDS Naturals, Sequences, FiniteSets, SequencesExt

CONSTANTS
  SettingsChoices,   \* configurations a start may find
  ModelKeys,         \* the variable the key of each configured model refers to
  MaxStarts,         \* bound of the model: starts of the host
  MaxFailures        \* bound of the model: API calls that fail

ASSUME GatewayBounds == {MaxStarts, MaxFailures} \subseteq Nat

\* Servers that are the URL of somebody else have no port and are left out.
ServerConfig == [port : Nat, inject : BOOLEAN, transport : {"http", "sse"}]

\* A configuration is finite, its lists are lists, and its workspaces are a table
\* with the folder for a key.
ASSUME SettingsAreTables ==
  /\ SettingsChoices # {}
  /\ \A s \in SettingsChoices :
       /\ IsFiniteSet(DOMAIN s.servers) /\ \A n \in DOMAIN s.servers : s.servers[n] \in ServerConfig
       /\ \A t \in DOMAIN s.templates : s.templates[t] \in Seq(ToSet(s.templates[t]))
       /\ s.workspaces \in Seq(ToSet(s.workspaces))
       /\ \A j, k \in DOMAIN s.workspaces : s.workspaces[j].folder = s.workspaces[k].folder => j = k

VARIABLES
  stage,       \* of the start, "down", or "up"
  settings,    \* the configuration of this start
  env,         \* the variables with a key, and those with a placeholder for one
  docker,      \* the containers that run
  served,      \* the models of the filtered configuration and the forwarded keys
  registry,    \* the registrations: [name, url, copy], one or several of a name and a url
  listed,      \* those the listing returned and no instance has claimed
  todo,        \* instances, or folders, still to do
  teams,       \* the teams that exist, by number
  cache,       \* the file: a folder to the number of its team
  held,        \* the same in memory
  past         \* history and bounds

lite == <<registry, teams, cache>>
gateway_vars == <<stage, settings, env, docker, served, listed, todo, held, lite, past>>

Stages == {"down", "database", "database_up", "proxy", "healthy", "list", "endpoints",
           "stale", "teams", "stale_teams", "save", "up"}

-----------------------------------------------------------------------------
\* mcp/resolution.py

\* A template gives way to its instances, in the order of their names, each
\* with a port of its own.
MergedMcpServers(s) ==
  LET plain == {<<n>> : n \in DOMAIN s.servers \ DOMAIN s.templates}
      made == UNION {{<<t, s.templates[t][i]>> : i \in DOMAIN s.templates[t]} :
                     t \in DOMAIN s.templates \cap DOMAIN s.servers}
      Port(n) == IF Len(n) = 1 THEN s.servers[n[1]].port
                 ELSE s.servers[n[1]].port + (CHOOSE i \in DOMAIN s.templates[n[1]] : s.templates[n[1]][i] = n[2]) - 1
  IN  [n \in plain \cup made |-> [s.servers[n[1]] EXCEPT !.port = Port(n)]]

\* Entries of a workspace: everything, a group, or one server; others are
\* dropped with a warning.
ResolveWorkspaceServers(s, w) ==
  LET all == DOMAIN MergedMcpServers(s)
      Expand(e) == IF e = "all" THEN all
                   ELSE IF e \in DOMAIN s.groups THEN s.groups[e] ELSE {<<e>>} \cap all
  IN  all \cap UNION {Expand(e) : e \in w.entries}

\* Presets in order, then the workspace's own values.
KwargSources(s, w, n) ==
  LET own == IF n[1] \in DOMAIN w.kwargs THEN w.kwargs[n[1]] ELSE [presets |-> <<>>, values |-> <<>>]
  IN  Append([i \in DOMAIN own.presets |-> s.presets[own.presets[i]]], own.values)

ConfiguredKeys(s, w, n) ==
  UNION {DOMAIN KwargSources(s, w, n)[i] : i \in DOMAIN KwargSources(s, w, n)}

\* Values of one key are joined.  The folder is filled in where a server asks for
\* it and the configuration does not say another.
ResolveKwargs(s, w, n) ==
  LET sources == KwargSources(s, w, n)
      keys == ConfiguredKeys(s, w, n)
      Joined(k) == FlattenSeq([i \in DOMAIN sources |-> IF k \in DOMAIN sources[i] THEN <<sources[i][k]>> ELSE <<>>])
      injected == IF MergedMcpServers(s)[n].inject THEN {"workspace"} ELSE {}
  IN  [k \in keys \cup injected |-> IF k \in keys THEN Joined(k) ELSE <<w.folder>>]

\* An instance is named by its server and a hash of its arguments.
GetInstanceId(n, kwargs) == <<n, kwargs>>

InstancesOf(s, w) == {GetInstanceId(n, ResolveKwargs(s, w, n)) : n \in ResolveWorkspaceServers(s, w)}

AllInstances(s) == UNION {InstancesOf(s, s.workspaces[k]) : k \in DOMAIN s.workspaces}

\* The first workspace that uses an instance makes it; the next instance of the
\* same server gets the next port.
FirstUser(s, i) ==
  CHOOSE k \in DOMAIN s.workspaces : /\ i \in InstancesOf(s, s.workspaces[k])
                                     /\ \A j \in 1..(k - 1) : i \notin InstancesOf(s, s.workspaces[j])
PortOffset(s, i) == Cardinality({j \in AllInstances(s) : j[1] = i[1] /\ FirstUser(s, j) < FirstUser(s, i)})

ResolveAllInstances(s) ==
  [i \in AllInstances(s) |-> [port |-> MergedMcpServers(s)[i[1]].port + PortOffset(s, i),
                              transport |-> MergedMcpServers(s)[i[1]].transport]]

WorkspaceInstances(s) ==
  LET used == {w \in ToSet(s.workspaces) : InstancesOf(s, w) # {}}
  IN  [f \in {w.folder : w \in used} |-> InstancesOf(s, CHOOSE w \in used : w.folder = f)]

\* The address inside the network depends on the transport, not on the port.
EndpointUrl(i) == IF MergedMcpServers(settings)[i[1]].transport = "http" THEN "mcp" ELSE "base"

Instances == DOMAIN ResolveAllInstances(settings)
ServedFolders == DOMAIN WorkspaceInstances(settings)

\* Only the instances of its workspace are given to an agent.
GetDirectServerConfigs(f) == IF f \in ServedFolders THEN WorkspaceInstances(settings)[f] ELSE {}

-----------------------------------------------------------------------------
\* gateway_litellm.py: entries whose key is missing, or is a placeholder, are
\* removed, and only keys the filtered file refers to are forwarded.

PrepareConfig == {m \in DOMAIN ModelKeys : ModelKeys[m] \in env.set \/ ModelKeys[m] = "literal"}
CollectYamlEnvRefs(kept) == {ModelKeys[m] : m \in kept} \cap env.set

GatewayPast == [starts : 0..MaxStarts, failures : 0..MaxFailures, failed : BOOLEAN, team : Nat \ {0}]

GatewayTypeOK ==
  /\ stage \in Stages /\ settings \in SettingsChoices /\ docker \subseteq {"postgres", "litellm"}
  /\ served.kept \subseteq DOMAIN ModelKeys
  /\ env.set \cap env.placeholder = {}
  /\ IsFiniteSet(registry) /\ listed \subseteq registry
  /\ \A e \in registry : e = [name |-> e.name, url |-> e.url, copy |-> e.copy] /\ e.copy \in Nat
  /\ past \in GatewayPast
  /\ teams \subseteq 1..(past.team - 1)
  /\ \A f \in DOMAIN held : held[f] \in 1..(past.team - 1)

GatewayInit ==
  /\ stage = "down" /\ settings = CHOOSE s \in SettingsChoices : TRUE
  /\ env = [set |-> {}, placeholder |-> {}] /\ docker = {} /\ served = [kept |-> {}, keys |-> {}]
  /\ registry = {} /\ listed = {} /\ todo = {} /\ teams = {} /\ cache = <<>> /\ held = <<>>
  /\ past = [starts |-> 0, failures |-> 0, failed |-> FALSE, team |-> 1]

-----------------------------------------------------------------------------
\* The start.

\* A start that fails leaves the containers it has started.
Fails == stage' = "down" /\ UNCHANGED docker

StartGateway ==
  /\ stage = "down" /\ past.starts < MaxStarts
  /\ stage' = "database" /\ settings' \in SettingsChoices
  /\ \E set \in SUBSET {ModelKeys[m] : m \in DOMAIN ModelKeys}, placeholder \in {{}, {"k"}} :
       env' = [set |-> set \ (placeholder \cup {"literal"}), placeholder |-> placeholder]
  /\ past' = [past EXCEPT !.starts = @ + 1, !.failed = FALSE]
  /\ UNCHANGED <<docker, served, listed, todo, held, lite>>

Booting == UNCHANGED <<settings, env, listed, todo, held, lite, past>>

\* The image is pulled, the old container is removed by name, the new one is run.
\* What fails before the removal leaves the old container.
StartPostgres ==
  /\ stage = "database" /\ Booting /\ UNCHANGED served
  /\ \/ stage' = "database_up" /\ docker' = docker \cup {"postgres"}
     \/ stage' = "down" /\ docker' \in {docker, docker \ {"postgres"}}

WaitPostgresHealthy ==
  /\ stage = "database_up" /\ Booting /\ UNCHANGED served
  /\ \/ stage' = "proxy" /\ UNCHANGED docker
     \/ Fails

LiteLLMStart ==
  /\ stage = "proxy" /\ Booting
  /\ \/ /\ stage' = "healthy" /\ docker' = docker \cup {"litellm"}
        /\ served' = [kept |-> PrepareConfig, keys |-> CollectYamlEnvRefs(PrepareConfig)]
     \/ stage' = "down" /\ docker' \in {docker, docker \ {"litellm"}} /\ UNCHANGED served

\* Then the servers: with none in use nothing is synchronised.
WaitHealthy ==
  /\ stage = "healthy" /\ UNCHANGED <<settings, env, served, listed, todo, lite, past>>
  /\ \/ Fails /\ UNCHANGED held
     \/ /\ stage' = IF Instances = {} THEN "up" ELSE "list"
        /\ held' = IF Instances = {} THEN held ELSE cache       \* load_teams_cache
        /\ UNCHANGED docker

-----------------------------------------------------------------------------
\* mcp/litellm.py.  A call that fails is at most logged.

ApiFailures(n) ==
  /\ past.failures + n <= MaxFailures
  /\ past' = [past EXCEPT !.failures = @ + n, !.failed = @ \/ n > 0]

Syncing == UNCHANGED <<settings, env, docker, served>>

\* A listing that fails is taken for an empty one.
ListEndpoints ==
  /\ stage = "list" /\ stage' = "endpoints" /\ todo' = Instances /\ Syncing
  /\ \/ ApiFailures(0) /\ listed' = registry
     \/ ApiFailures(1) /\ listed' = {}
  /\ UNCHANGED <<held, lite>>

Named(i) == {e \in listed : e.name = i}
Matching(i) == {e \in Named(i) : e.url = EndpointUrl(i)}

\* The id of a new entry is its own; here it is the first that tells it from others
\* of the same name and url.
NewEntry(i, present) ==
  LET entry == [copy \in 0..Cardinality(present) |-> [name |-> i, url |-> EndpointUrl(i), copy |-> copy]]
  IN  entry[CHOOSE copy \in DOMAIN entry : entry[copy] \notin present]

\* A slip checked against GatewaySound: extra entries of a name are kept.
KeepsExtras(i) ==
  /\ stage = "endpoints" /\ i \in todo /\ Syncing /\ ApiFailures(0)
  /\ registry' = IF Matching(i) # {} THEN registry ELSE registry \cup {NewEntry(i, registry)}
  /\ todo' = todo \ {i} /\ stage' = IF todo' = {} THEN "stale" ELSE stage
  /\ listed' = listed \ Named(i) /\ UNCHANGED <<teams, cache, held>>

\* One matching entry stays, the others go, and if there is none one is made.
\* Nobody else writes the registry, and a death in the middle is as good as
\* calls that fail before one, so that an instance is one step.
SyncEndpoint(i) ==
  /\ stage = "endpoints" /\ i \in todo /\ Syncing
  /\ \/ \E keep \in Matching(i) : \E gone \in SUBSET (Named(i) \ {keep}) :
          registry' = registry \ gone /\ ApiFailures(Cardinality((Named(i) \ {keep}) \ gone))
     \/ /\ Matching(i) = {}
        /\ \E gone \in SUBSET Named(i), made \in BOOLEAN :
             /\ registry' = IF made THEN (registry \ gone) \cup {NewEntry(i, registry \ gone)} ELSE registry \ gone
             /\ ApiFailures(Cardinality(Named(i) \ gone) + IF made THEN 0 ELSE 1)
  /\ todo' = todo \ {i} /\ stage' = IF todo' = {} THEN "stale" ELSE stage
  /\ listed' = listed \ Named(i)
  /\ UNCHANGED <<teams, cache, held>>

DeleteStaleEndpoints ==
  /\ stage = "stale" /\ stage' = "teams" /\ todo' = ServedFolders /\ Syncing
  /\ \E gone \in SUBSET listed : registry' = registry \ gone /\ ApiFailures(Cardinality(listed \ gone))
  /\ listed' = {} /\ UNCHANGED <<teams, cache, held>>

NextFolder(f) ==
  /\ todo' = todo \ {f} /\ stage' = IF todo' = {} THEN "stale_teams" ELSE stage
  /\ Syncing /\ UNCHANGED <<listed, registry, cache>>

\* A folder the cache does not know gets a team and then a key; without the key
\* the team is left to nobody.
CreateTeam(f) ==
  /\ stage = "teams" /\ f \in todo \ DOMAIN held /\ NextFolder(f)
  /\ \/ ApiFailures(1) /\ UNCHANGED <<teams, held>>
     \/ /\ teams' = teams \cup {past.team}
        /\ \/ held' = [g \in DOMAIN held \cup {f} |-> IF g = f THEN past.team ELSE held[g]]
              /\ past' = [past EXCEPT !.team = @ + 1]
           \/ UNCHANGED held /\ past.failures < MaxFailures
              /\ past' = [past EXCEPT !.team = @ + 1, !.failures = @ + 1, !.failed = TRUE]

\* The team of a folder that has one is updated; that it is gone is not noticed.
UpdateTeam(f) ==
  /\ stage = "teams" /\ f \in todo \cap DOMAIN held /\ NextFolder(f)
  /\ \/ held[f] \in teams /\ ApiFailures(0)
     \/ held[f] \notin teams /\ past' = [past EXCEPT !.failed = TRUE]
     \/ ApiFailures(1)
  /\ UNCHANGED <<teams, held>>

\* Teams of folders that use no server any more, forgotten even if the
\* deletion fails.
DeleteStaleTeams ==
  /\ stage = "stale_teams" /\ stage' = "save" /\ Syncing
  /\ LET stale == {held[f] : f \in DOMAIN held \ ServedFolders}
     IN  \E gone \in SUBSET (stale \cap teams) :
           teams' = teams \ gone /\ ApiFailures(Cardinality((stale \cap teams) \ gone))
  /\ held' = [f \in DOMAIN held \cap ServedFolders |-> held[f]]
  /\ UNCHANGED <<listed, todo, registry, cache>>

SaveTeamsCache ==
  /\ stage = "save" /\ stage' = "up" /\ cache' = held /\ Syncing
  /\ UNCHANGED <<listed, todo, held, registry, teams, past>>

-----------------------------------------------------------------------------
StopGateway ==
  /\ stage = "up" /\ stage' = "down" /\ docker' = {} /\ held' = <<>>
  /\ UNCHANGED <<settings, env, served, listed, todo, lite, past>>

\* While the cache is being written, a death leaves a file that is not JSON,
\* which the next start reads as no teams.
HostDies ==
  /\ stage # "down" /\ stage' = "down" /\ listed' = {} /\ todo' = {} /\ held' = <<>>
  /\ \/ UNCHANGED cache
     \/ stage = "save" /\ cache' = <<>>
  /\ UNCHANGED <<settings, env, docker, served, registry, teams, past>>

StartStep ==
  \/ StartPostgres \/ WaitPostgresHealthy \/ LiteLLMStart \/ WaitHealthy
  \/ ListEndpoints \/ DeleteStaleEndpoints \/ DeleteStaleTeams \/ SaveTeamsCache
  \/ \E i \in todo : SyncEndpoint(i) \/ CreateTeam(i) \/ UpdateTeam(i)

GatewayNext == StartGateway \/ StartStep \/ StopGateway \/ HostDies

\* Every call and every wait of the start has a deadline.
GatewayFairness == WF_gateway_vars(StartStep)

GatewaySpec == GatewayInit /\ [][GatewayNext]_gateway_vars /\ GatewayFairness

-----------------------------------------------------------------------------
\* "Each desired instance ends up with exactly one entry": after a start none
\* of whose calls failed, whatever failed or died before, the registry holds
\* each instance in use once and nothing else.
RegisteredOnce(i) == \E e \in registry : e.url = EndpointUrl(i) /\ {x \in registry : x.name = i} = {e}
RegistryExact == (\A i \in Instances : RegisteredOnce(i)) /\ \A e \in registry : e.name \in Instances

\* And every workspace that uses servers has a team that exists.
TeamsExist == ServedFolders \subseteq DOMAIN held /\ \A f \in ServedFolders : held[f] \in teams

\* No two instances listen on one port of the host if they are of one server.
PortsApart ==
  \A i, j \in Instances : i # j /\ i[1] = j[1]
    => ResolveAllInstances(settings)[i].port # ResolveAllInstances(settings)[j].port

\* A server that is told the folder of its workspace serves no other, unless the
\* configuration of one of them names a workspace itself.
FoldersApart ==
  \A v, w \in ToSet(settings.workspaces) : v.folder # w.folder =>
    \A i \in GetDirectServerConfigs(v.folder) \cap GetDirectServerConfigs(w.folder) :
      MergedMcpServers(settings)[i[1]].inject
        => "workspace" \in ConfiguredKeys(settings, v, i[1]) \cup ConfiguredKeys(settings, w, i[1])

\* No model is offered whose key the proxy lacks or holds a placeholder for.
NoZombieModels == \A m \in served.kept : ModelKeys[m] = "literal" \/ ModelKeys[m] \in served.keys

GatewaySound ==
  /\ stage = "up" /\ ~past.failed /\ Instances # {} => RegistryExact /\ TeamsExist
  /\ stage = "list" => PortsApart /\ FoldersApart
  /\ stage = "healthy" => NoZombieModels
=============================================================================
