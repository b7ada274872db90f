------------------------ MODULE MCCapabilityInstall ------------------------
(* Finite instances of CapabilityInstall for TLC.                          *)
EXTENDS CapabilityInstall, TLC

CONSTANTS ann, bob, note, pack, brand, base, prose, toolOne, server,
          open, narrow, prosaic

TwoAdmins == {ann, bob}
SomeNames == {note, pack, brand}
SomeBytes == {prose, toolOne, server}
Kinds == prose :> "skill" @@ toolOne :> "tool" @@ server :> "mcp_server"

(* A repository of two skills, one of which shadows a packaged skill, and  *)
(* a pack in two versions of different kinds.                             *)
SomeArchives == {note :> prose @@ brand :> prose, pack :> toolOne, pack :> server}

(* One profile restricts nothing, one its tools, one its skills only.      *)
SomeProfiles == {open, narrow, prosaic}
SomeSkills == open :> All @@ narrow :> All @@ prosaic :> {note}
SomeTools == open :> All @@ narrow :> {pack} @@ prosaic :> All
SomeServers == open :> All @@ narrow :> {pack} @@ prosaic :> {}

(* Two administrators without the agent, one with it.                      *)
SomeScopes == {[admins |-> TwoAdmins, profiles |-> {}], [admins |-> {ann}, profiles |-> SomeProfiles]}

=============================================================================
