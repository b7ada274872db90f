------------------------- MODULE CapabilityRegistry -------------------------
(***************************************************************************)
(* Deployed capabilities in the console:                                   *)
(* src/webui/src/app/api/admin/skills/route.ts with lib/skill-import.ts    *)
(* and the blob store of lib/admin-config.ts.                              *)
(*                                                                         *)
(* Every administrator's request reads the registry skills.json with its   *)
(* revision, computes the registry it wants, uploads the bundles a         *)
(* deployment needs one by one, and saves under the condition that the     *)
(* stored registry is still the one it read.  Requests of different        *)
(* administrators interleave at every call of the store.                   *)
(*                                                                         *)
(* Bytes stand for bundles, named by their digest; the kind of a           *)
(* capability is in its bytes.  Version labels, descriptions, authors and  *)
(* times are left out.                                                     *)
(***************************************************************************)
EXTENDS Naturals, FiniteSets

CONSTANTS
  Names,       (* capability names                                         *)
  Bytes,       (* bundle digests                                           *)
  KindOf,      (* "skill", "tool" or "mcp_server": what each bundle holds  *)
  Archives,    (* uploadable archives: functions from names to bytes       *)
  Admins,      (* administrators, one console and one request each         *)
  None,        (* absent                                                   *)
  MaxWrites    (* bound: accepted saves of the registry                    *)

ASSUME RegistryAssumption ==
  /\ None \notin Bytes
  /\ KindOf \in [Bytes -> {"skill", "tool", "mcp_server"}]
  /\ \A archive \in Archives : DOMAIN archive \subseteq Names /\ \A n \in DOMAIN archive : archive[n] \in Bytes
  /\ MaxWrites \in Nat

VARIABLES
  registry,    (* skills.json                                              *)
  revision,    (* its etag: the number of accepted saves                   *)
  bundles,     (* the stored bundles, <<name, bytes>>                      *)
  listing,     (* the bytes of each capability on each administrator's page *)
  request,     (* each administrator's request in progress                 *)
  reviewed     (* history: <<name, bytes>> an administrator who had them on *)
               (* the page approved since they were last deployed          *)

consoleVars == <<registry, revision, bundles, listing, request, reviewed>>

-----------------------------------------------------------------------------
(* Values                                                                  *)

(* Only executable bytes are approved, and only the bytes that are stored. *)
Entry == {e \in [sha256 : Bytes, enabled : BOOLEAN, approved : Bytes \union {None}] :
            e.approved # None => e.approved = e.sha256 /\ KindOf[e.sha256] # "skill"}
Registries == [Names -> Entry \union {None}]
Bundles == Names \X Bytes

Request == [op : {"deploy", "patch", "withdraw"}, names : SUBSET Names,
            revision : 0..MaxWrites, next : Registries, todo : SUBSET Bundles]

Empty == [n \in Names |-> None]
Listed(r) == [n \in Names |-> IF r[n] = None THEN None ELSE r[n].sha256]

ConsoleTypeOK ==
  /\ registry \in Registries
  /\ revision \in 0..MaxWrites
  /\ bundles \subseteq Bundles
  /\ listing \in [Admins -> [Names -> Bytes \union {None}]]
  /\ request \in [Admins -> Request \union {None}]
  /\ reviewed \subseteq Bundles

ConsoleInit ==
  /\ registry = Empty
  /\ revision = 0
  /\ bundles = {}
  /\ listing = [a \in Admins |-> Listed(Empty)]
  /\ request = [a \in Admins |-> None]
  /\ reviewed = {}

-----------------------------------------------------------------------------
(* Registry entries                                                        *)

Executable(e) == KindOf[e.sha256] \in {"tool", "mcp_server"}

(* DeployedSkill.active: what the runtime acts on.                         *)
Active(e) ==
  /\ e # None
  /\ e.enabled
  /\ Executable(e) => e.approved = e.sha256

RedeployedApproved(old, bytes) ==
  [sha256 |-> bytes,
   enabled |-> KindOf[bytes] = "skill" /\ (old = None \/ old.enabled),
   approved |-> IF old # None /\ old.approved = bytes THEN bytes ELSE None]

(* Executable bytes deploy inactive and unapproved whatever they replace.  *)
Redeployed(old, bytes) ==
  [sha256 |-> bytes,
   enabled |-> KindOf[bytes] = "skill" /\ (old = None \/ old.enabled),
   approved |-> None]

-----------------------------------------------------------------------------
(* Requests                                                                *)

(* GET: the page shows the registry.                                       *)
Load(a) ==
  /\ request[a] = None
  /\ listing' = [listing EXCEPT ![a] = Listed(registry)]
  /\ UNCHANGED <<registry, revision, bundles, request, reviewed>>

(* The request has read the registry and knows what it wants to save.      *)
Begin(a, op, names, next, todo) ==
  /\ request[a] = None
  /\ revision < MaxWrites
  /\ request' = [request EXCEPT ![a] =
       [op |-> op, names |-> names, revision |-> revision, next |-> next, todo |-> todo]]
  /\ UNCHANGED <<registry, revision, bundles, listing>>

BeginDeploy(a, archive) ==
  /\ Begin(a, "deploy", DOMAIN archive,
           [n \in Names |-> IF n \in DOMAIN archive THEN Redeployed(registry[n], archive[n])
                                                    ELSE registry[n]],
           {<<n, archive[n]>> : n \in DOMAIN archive})
  /\ UNCHANGED reviewed

(* The page offers what it lists; the route refuses what is not deployed.  *)
Patchable(a, n) == listing[a][n] # None /\ registry[n] # None

BeginSwitch(a, n, on) ==
  /\ Patchable(a, n)
  /\ Begin(a, "patch", {n}, [registry EXCEPT ![n].enabled = on], {})
  /\ UNCHANGED reviewed

ApprovableByName(a, n) == Patchable(a, n) /\ Executable(registry[n])

ApprovableOfAnyKind(a, n) == Patchable(a, n) /\ listing[a][n] = registry[n].sha256

(* An approval names the bytes on the page and is refused for any others.  *)
Approvable(a, n) == Patchable(a, n) /\ Executable(registry[n]) /\ listing[a][n] = registry[n].sha256

BeginApprove(a, n) ==
  /\ Approvable(a, n)
  /\ Begin(a, "patch", {n}, [registry EXCEPT ![n].approved = registry[n].sha256], {})
  /\ reviewed' = reviewed \union {<<n, listing[a][n]>>}

BeginRevoke(a, n) ==
  /\ Patchable(a, n) /\ Executable(registry[n])
  /\ Begin(a, "patch", {n}, [registry EXCEPT ![n].approved = None], {})
  /\ UNCHANGED reviewed

BeginWithdraw(a, n) ==
  /\ Patchable(a, n)
  /\ Begin(a, "withdraw", {n}, [registry EXCEPT ![n] = None], {})
  /\ UNCHANGED reviewed

(* Bundles are written before the registry names them.                     *)
PutBundle(a) ==
  /\ request[a] # None
  /\ \E b \in request[a].todo :
       /\ bundles' = bundles \union {b}
       /\ request' = [request EXCEPT ![a].todo = @ \ {b}]
  /\ UNCHANGED <<registry, revision, listing, reviewed>>

ReadyBeforeBundles(a) == request[a] # None

ReadyToSave(a) == request[a] # None /\ request[a].todo = {}

MatchesAnything(a) == revision >= request[a].revision

(* The blob's etag makes the save a compare-and-swap.                      *)
Matches(a) == request[a].revision = revision

Saved(a) ==
  /\ ReadyToSave(a) /\ Matches(a)
  /\ revision < MaxWrites
  /\ registry' = request[a].next
  /\ revision' = revision + 1
  /\ reviewed' = IF request[a].op = "deploy"
                 THEN {b \in reviewed : b[1] \notin request[a].names} ELSE reviewed
  /\ request' = [request EXCEPT ![a] = None]
  /\ UNCHANGED bundles

(* The response carries the saved registry to the page.                    *)
Save(a) ==
  /\ Saved(a)
  /\ listing' = [listing EXCEPT ![a] = Listed(request[a].next)]

(* The save was applied but its answer was lost: the page shows an error.  *)
AnswerLost(a) == Saved(a) /\ UNCHANGED listing

(* The stored registry has moved: 409, and the page keeps what it showed.  *)
Conflict(a) ==
  /\ ReadyToSave(a) /\ ~Matches(a)
  /\ request' = [request EXCEPT ![a] = None]
  /\ UNCHANGED <<registry, revision, bundles, listing, reviewed>>

(* The store cannot be reached, before or between two of the calls.        *)
Unavailable(a) ==
  /\ request[a] # None
  /\ request' = [request EXCEPT ![a] = None]
  /\ UNCHANGED <<registry, revision, bundles, listing, reviewed>>

Console(a) ==
  \/ Load(a)
  \/ \E archive \in Archives : BeginDeploy(a, archive)
  \/ \E n \in Names : \/ \E on \in BOOLEAN : BeginSwitch(a, n, on)
                      \/ BeginApprove(a, n)
                      \/ BeginRevoke(a, n)
                      \/ BeginWithdraw(a, n)
  \/ PutBundle(a)
  \/ Save(a)
  \/ AnswerLost(a)
  \/ Conflict(a)
  \/ Unavailable(a)

ConsoleSpec == ConsoleInit /\ [][\E a \in Admins : Console(a)]_consoleVars

-----------------------------------------------------------------------------
(* Properties                                                              *)

(* skill-import.ts:319: the registry never names a bundle the runtime      *)
(* cannot fetch, however uploads, failures and saves interleave.           *)
NamedBundlesStored ==
  \A n \in Names : registry[n] # None => <<n, registry[n].sha256>> \in bundles

(* skills/route.ts:66: an approval in the registry was given by an         *)
(* administrator who had exactly these bytes on the page, after the last   *)
(* deployment under this name.                                             *)
ApprovalIsInformed ==
  \A n \in Names :
    registry[n] # None /\ registry[n].approved # None => <<n, registry[n].approved>> \in reviewed

(* architecture.md:85: a save changes only the entries under the names its *)
(* request is about; what others saved under other names in the meantime   *)
(* is never undone.                                                        *)
NoLostUpdate ==
  [][\A n \in Names : registry'[n] # registry[n] =>
       \E a \in Admins : request[a] # None /\ request'[a] = None /\ n \in request[a].names]_consoleVars

=============================================================================
