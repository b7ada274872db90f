-------------------------- MODULE CapabilityInstall --------------------------
(***************************************************************************)
(* Deployed capabilities in the agent, next to the console that deploys    *)
(* them: src/hosted-agent/codex_adapter/skills.py and the preparation of   *)
(* the engine in config.py, driven by client.py.                           *)
(*                                                                         *)
(* At every turn the agent fingerprints its configuration; when it differs *)
(* from the running engine's, it stops the engine and prepares a new one:  *)
(* the skills root is rebuilt, config.toml names the MCP servers, the      *)
(* tools a profile may use are linked, packs are unpacked and a launcher   *)
(* is published for each pack tool.  Every step reads the registry through *)
(* a cache that may expire between two steps, and a read may fail.         *)
(***************************************************************************)
EXTENDS CapabilityRegistry

CONSTANTS
  Profiles,       (* profile names                                         *)
  SkillsOf,       (* each profile's skills, or All                         *)
  ToolsOf,        (* each profile's tools, or All                          *)
  ServersOf,      (* each profile's MCP servers, or All                    *)
  All,            (* the selection that was never made                     *)
  PackagedSkills, (* skills of the image                                   *)
  PackagedTools,  (* tools of the image                                    *)
  MaxFailures,    (* bound: failed reads of the store                      *)
  Scopes          (* bound: who takes part in a behaviour, [admins,        *)
                  (* profiles]                                             *)

ASSUME InstallAssumption ==
  /\ \A s \in {SkillsOf, ToolsOf, ServersOf} : DOMAIN s = Profiles
  /\ MaxFailures \in Nat
  /\ \A s \in Scopes : s.admins \subseteq Admins /\ s.profiles \subseteq Profiles
  /\ "packaged" \notin Bytes
  /\ \A tools \in SUBSET (Names \union PackagedTools) : tools # All
  /\ None \notin [profile : Profiles, registry : Registries]

VARIABLES
  scope,        (* who takes part                                          *)
  view,         (* the registry as the cache answers it                    *)
  failures,
  phase,        (* the next step of the preparation; "idle" between turns  *)
  job,          (* the profile and registry that are being prepared        *)
  active,       (* _active_fingerprint: those the engine was started for   *)
  skills,       (* CODEX_HOME/skills                                       *)
  servers,      (* the pack servers config.toml names                      *)
  packs,        (* CODEX_HOME/packs                                        *)
  payload,      (* the payload's tools directory                           *)
  views,        (* each profile's own tools directory, or a link: All      *)
  reads,        (* history: the registries read for the running engine     *)
  whole,        (* history: no bundle was missed while preparing it        *)
  offered       (* history: <<name, bytes>> the registry ever made active  *)

agentVars == <<view, failures, phase, job, active, skills, servers, packs, payload, views, reads, whole>>
vars == <<scope, consoleVars, agentVars, offered>>

-----------------------------------------------------------------------------
(* Values                                                                  *)

Fingerprint == [profile : Profiles, registry : Registries]
Phases == {"idle", "skills", "config", "servers", "tools", "start"}

TypeOK ==
  /\ scope \in Scopes
  /\ ConsoleTypeOK
  /\ view \in Registries
  /\ failures \in 0..MaxFailures
  /\ phase \in Phases
  /\ job \in Fingerprint \union {None}
  /\ active \in Fingerprint \union {None}
  /\ phase = "idle" <=> job = None
  /\ phase # "idle" => active = None
  /\ skills \in [Names \union PackagedSkills -> Bytes \union {"packaged", None}]
  /\ servers \subseteq Names
  /\ packs \in [Names -> Bytes \union {None}]
  /\ payload \subseteq Names \union PackagedTools
  /\ views \in [Profiles -> (SUBSET (Names \union PackagedTools)) \union {All}]
  /\ reads \subseteq Registries
  /\ whole \in BOOLEAN
  /\ offered \subseteq Bundles

Init ==
  /\ scope \in Scopes
  /\ ConsoleInit
  /\ view = Empty
  /\ failures = 0
  /\ phase = "idle"
  /\ job = None
  /\ active = None
  /\ skills = [n \in Names \union PackagedSkills |-> None]
  /\ servers = {}
  /\ packs = [n \in Names |-> None]
  /\ payload = PackagedTools
  /\ views = [p \in Profiles |-> {}]
  /\ reads = {}
  /\ whole = TRUE
  /\ offered = {}

-----------------------------------------------------------------------------
(* Reading the store                                                       *)

(* load_registry: the cached answer, the stored registry, or nothing when  *)
(* the read fails, which the cache then keeps answering.                   *)
Reads(v) ==
  /\ \/ v \in {view, registry} /\ UNCHANGED failures
     \/ v = Empty /\ failures < MaxFailures /\ failures' = failures + 1
  /\ view' = v

Allows(selection, p, n) == selection[p] = All \/ n \in selection[p]

UsableUnapproved(v, kind, selection, p) ==
  {n \in Names : v[n] # None /\ KindOf[v[n].sha256] = kind /\ Allows(selection, p, n)}

(* The active capabilities of one kind that the profile may use.           *)
Usable(v, kind, selection, p) ==
  {n \in Names : Active(v[n]) /\ KindOf[v[n].sha256] = kind /\ Allows(selection, p, n)}

(* Fetching a bundle may fail; that capability is skipped.                 *)
Missing(v, wanted) == {n \in wanted : <<n, v[n].sha256>> \notin bundles}

Fetches(v, wanted, got) ==
  \/ got = wanted \ Missing(v, wanted)
  \/ \E n \in wanted : got = wanted \ (Missing(v, wanted) \union {n})

UnpackedAfresh(v, got) == [n \in Names |-> IF n \in got THEN v[n].sha256 ELSE None]

(* extract_bundle verifies, stages and swaps: an old pack stays until a    *)
(* whole new one replaces it, and no pack is ever removed.                 *)
Unpacked(v, got) == [n \in Names |-> IF n \in got THEN v[n].sha256 ELSE packs[n]]

-----------------------------------------------------------------------------
(* A turn                                                                  *)

EngineLeftRunning == UNCHANGED active

(* _restart: the engine is stopped and its fingerprint forgotten.          *)
EngineStopped == active' = None

(* The engine is kept when its fingerprint is the turn's.                  *)
TurnKeepsEngine(p) ==
  /\ phase = "idle"
  /\ \E v \in {view, registry, Empty} : Reads(v) /\ active = [profile |-> p, registry |-> v]
  /\ UNCHANGED <<consoleVars, phase, job, active, skills, servers, packs, payload, views, reads, whole>>

TurnPrepares(p) ==
  /\ phase = "idle"
  /\ \E v \in {view, registry, Empty} :
       /\ Reads(v)
       /\ active # [profile |-> p, registry |-> v]
       /\ job' = [profile |-> p, registry |-> v]
       /\ reads' = {v}
  /\ EngineStopped
  /\ whole' = TRUE
  /\ phase' = "skills"
  /\ UNCHANGED <<consoleVars, skills, servers, packs, payload, views>>

(* One step of prepare_codex_environment reads the registry.               *)
Prepares(from, to, v) ==
  /\ phase = from
  /\ Reads(v)
  /\ reads' = reads \union {v}
  /\ phase' = to
  /\ UNCHANGED <<consoleVars, job, active>>

SkillsRootUncleared(p, v, got) ==
  [n \in Names \union PackagedSkills |->
     IF n \in PackagedSkills
     THEN IF Allows(SkillsOf, p, n) THEN "packaged" ELSE None
     ELSE IF n \in got THEN v[n].sha256 ELSE skills[n]]

(* install_global_skills: the root is emptied, then filled from the image  *)
(* and from the registry; a packaged name is never taken over.             *)
SkillsRoot(p, v, got) ==
  [n \in Names \union PackagedSkills |->
     IF n \in PackagedSkills
     THEN IF Allows(SkillsOf, p, n) THEN "packaged" ELSE None
     ELSE IF n \in got THEN v[n].sha256 ELSE None]

InstallSkills ==
  \E v \in {view, registry, Empty} :
    LET p == job.profile
        wanted == Usable(v, "skill", SkillsOf, p) \ PackagedSkills
    IN /\ Prepares("skills", "config", v)
       /\ \E got \in SUBSET wanted :
            /\ Fetches(v, wanted, got)
            /\ skills' = SkillsRoot(p, v, got)
            /\ whole' = (whole /\ got = wanted)
       /\ UNCHANGED <<servers, packs, payload, views>>

Restricted(p) == SkillsOf[p] # All \/ ToolsOf[p] # All

(* _link_selection: a directory of links to the tools the profile selects, *)
(* or one link to the whole directory.                                     *)
LinkedTools(p) == IF ToolsOf[p] = All THEN All ELSE payload \intersect ToolsOf[p]

(* config.toml, then the view of the tools.                                *)
WriteConfig ==
  \E v \in {view, registry, Empty} :
    LET p == job.profile
    IN /\ Prepares("config", "servers", v)
       /\ servers' = Usable(v, "mcp_server", ServersOf, p)
       /\ views' = IF Restricted(p) THEN [views EXCEPT ![p] = LinkedTools(p)] ELSE views
       /\ UNCHANGED <<skills, packs, payload, whole>>

InstallServers ==
  \E v \in {view, registry, Empty} :
    LET wanted == Usable(v, "mcp_server", ServersOf, job.profile)
    IN /\ Prepares("servers", "tools", v)
       /\ \E got \in SUBSET wanted :
            /\ Fetches(v, wanted, got)
            /\ packs' = Unpacked(v, got)
            /\ whole' = (whole /\ got = wanted)
       /\ UNCHANGED <<skills, servers, payload, views>>

(* install_pack_tools: a launcher for every unpacked tool, beside the      *)
(* tools already in the root.  A root that is a link is replaced when      *)
(* there is a tool to publish; the link is removed before its entries are  *)
(* read, so that only launchers end up in the new directory.               *)
InstallTools ==
  \E v \in {view, registry, Empty} :
    LET p == job.profile
        wanted == Usable(v, "tool", ToolsOf, p)
    IN /\ Prepares("tools", "start", v)
       /\ \E got \in SUBSET wanted :
            /\ Fetches(v, wanted, got)
            /\ packs' = Unpacked(v, got)
            /\ whole' = (whole /\ got = wanted)
            /\ payload' = IF Restricted(p) THEN payload ELSE payload \union got
            /\ views' = IF ~Restricted(p) THEN views
                        ELSE IF views[p] # All THEN [views EXCEPT ![p] = @ \union got]
                        ELSE IF wanted = {} THEN views
                        ELSE [views EXCEPT ![p] = got]
       /\ UNCHANGED <<skills, servers>>

EngineStarts ==
  /\ phase = "start"
  /\ active' = job
  /\ job' = None
  /\ phase' = "idle"
  /\ UNCHANGED <<consoleVars, view, failures, skills, servers, packs, payload, views, reads, whole>>

(* A step of the preparation, the start or the handshake raises.           *)
PreparationFails ==
  /\ phase # "idle"
  /\ job' = None
  /\ phase' = "idle"
  /\ UNCHANGED <<consoleVars, view, failures, active, skills, servers, packs, payload, views, reads, whole>>

(* The engine exits by itself: the next turn prepares another.             *)
EngineExits ==
  /\ active # None
  /\ active' = None
  /\ UNCHANGED <<consoleVars, view, failures, phase, job, skills, servers, packs, payload, views, reads, whole>>

Agent ==
  \/ \E p \in scope.profiles : TurnKeepsEngine(p) \/ TurnPrepares(p)
  \/ InstallSkills
  \/ WriteConfig
  \/ InstallServers
  \/ InstallTools
  \/ EngineStarts
  \/ PreparationFails
  \/ EngineExits

Next ==
  \/ /\ \E a \in scope.admins : Console(a)
     /\ offered' = offered \union {<<n, registry'[n].sha256>> : n \in {n \in Names : Active(registry'[n])}}
     /\ UNCHANGED <<scope, agentVars>>
  \/ Agent /\ UNCHANGED <<scope, offered>>

Spec == Init /\ [][Next]_vars

-----------------------------------------------------------------------------
(* Properties                                                              *)

(* The tools on the engine's module path.                                  *)
Reachable(p) == IF Restricted(p) /\ views[p] # All THEN views[p] ELSE payload

(* The engine was prepared from one registry and no bundle was missed.     *)
PreparedWhole == active # None /\ whole /\ reads = {active.registry}

(* prepare_codex_environment, config.py:1164: an engine prepared from one  *)
(* registry has exactly the skills and servers that registry makes active  *)
(* for its profile, in the bytes it names, and reaches the active tools.   *)
(* Nothing of an earlier profile or registry is left in them.              *)
InstalledAsRead ==
  PreparedWhole =>
    LET p == active.profile
        r == active.registry
        usableSkills == Usable(r, "skill", SkillsOf, p)
        usableTools == Usable(r, "tool", ToolsOf, p)
    IN /\ \A n \in Names \union PackagedSkills :
            skills[n] = IF n \in PackagedSkills
                        THEN IF Allows(SkillsOf, p, n) THEN "packaged" ELSE None
                        ELSE IF n \in usableSkills THEN r[n].sha256 ELSE None
       /\ servers = Usable(r, "mcp_server", ServersOf, p)
       /\ usableTools \subseteq Reachable(p)
       /\ \A n \in servers \union usableTools : packs[n] = r[n].sha256

(* skills.py:350: bytes that were never active in the registry -- enabled  *)
(* and approved -- are never unpacked, whatever the cache answers.         *)
UnpackedWasActive ==
  \A n \in Names : packs[n] # None => <<n, packs[n]>> \in offered

(* README.md:210: turning a skill off means that no agent profile reaches  *)
(* it; an engine offers an uploaded skill only if a registry read for this *)
(* very engine has it active, even when the reads differ or fail.          *)
NothingWithdrawnStays ==
  active # None =>
    \A n \in Names : skills[n] \in Bytes =>
      \E r \in reads : /\ Active(r[n]) /\ r[n].sha256 = skills[n]
                      /\ Allows(SkillsOf, active.profile, n)

(* Preparing the engine, config.py:1164: however deployments, profiles,    *)
(* cached reads, missed bundles and failures alternate in one home         *)
(* directory, an engine offers what its registry has active and nothing of *)
(* an earlier one.                                                         *)
InstalledIsCurrent == TypeOK /\ InstalledAsRead /\ NothingWithdrawnStays

=============================================================================
