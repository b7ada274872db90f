----------------------------- MODULE ConfigCache -----------------------------
(***************************************************************************)
(* How a turn learns which capabilities its agent has: the overlay of      *)
(* configuration documents that administrators edit                        *)
(* (src/hosted-agent/codex_adapter/config_store.py, CachingConfigStore     *)
(* over HttpConfigStore), followed for the one document that restricts     *)
(* agents, profiles.json, and the resolution of the requested profile      *)
(* against it (config.py load_profiles, profiles.py).                      *)
(*                                                                         *)
(* The console container edits the document while the runtime reads it     *)
(* over HTTPS with retries; the runtime keeps the answer for a while and   *)
(* keeps the last document it could read for as long as it lives.  Reads   *)
(* are synchronous and made under the turn lock, so one is under way at a  *)
(* time; edits, failures and the passing of time interleave with its steps.*)
(*                                                                         *)
(* Time is kept as ages that stop growing at TTL, which is all the code    *)
(* tells apart; no bound on edits, failures or time is needed.             *)
(***************************************************************************)
EXTENDS Naturals

CONSTANTS
  ProfileNames, (* profile names                                           *)
  Default,   (* the name a blank request stands for                        *)
  Blank,     (* a request that names no profile                            *)
  Documents, (* contents profiles.json can have                            *)
  Newer,     (* those with a schema this build does not know               *)
  Corrupt,   (* those that are not a JSON object                           *)
  Entries,   (* what each says of each name                                *)
  Packaged,  (* the document in the image, or Absent                       *)
  Absent,    (* absent                                                     *)
  Failed,    (* the outcome of a read that got no answer                   *)
  TTL,       (* ticks an answer is kept                                    *)
  Attempts   (* HTTP_CONFIG_ATTEMPTS                                       *)

ASSUME ConfigAssumption ==
  /\ Default \in ProfileNames /\ Blank \notin ProfileNames
  /\ Newer \subseteq Documents /\ Corrupt \subseteq Documents \ Newer
  /\ Entries \in [Documents -> [ProfileNames -> {"missing", "malformed", "narrow", "open"}]]
  /\ Packaged \in (Documents \ Corrupt) \union {Absent}
  /\ Absent \notin Documents \union {Failed} /\ Failed \notin Documents
  /\ TTL \in Nat /\ Attempts \in Nat \ {0}

Requests == ProfileNames \union {Blank}
Contents == Documents \union {Absent}

VARIABLES
  document,  (* profiles.json in the store                                 *)
  cache,     (* _cache: the answer kept and its age, or Absent             *)
  lastGood,  (* _last_good                                                 *)
  read,      (* the read under way, or Absent                              *)
  turn,      (* the turn the last step resolved, or Absent                 *)
  gone,      (* history: the age of each content's last moment in force    *)
  narrowed,  (* history: names seen restricted and never opened since      *)
  doubtful   (* history: a read failed since a document was last read      *)

memory == <<cache, lastGood, read>>
history == <<gone, narrowed, doubtful>>
cacheVars == <<document, memory, turn, history>>

CacheEntry == [answer : Contents, age : 0..TTL]
Reading == [name : Requests, age : 0..TTL, attempt : 1..Attempts,
            got : Contents \union {Failed}, done : BOOLEAN]
Resolution == [name : ProfileNames, document : Contents, grant : {"narrow", "open", "refused"},
               from : {"cache", "store", "nowhere"}]

CacheTypeOK ==
  /\ document \in Contents
  /\ cache \in CacheEntry \union {Absent}
  /\ lastGood \in (Documents \ (Newer \union Corrupt)) \union {Absent}
  /\ read \in Reading \union {Absent}
  /\ turn \in Resolution \union {Absent}
  /\ gone \in [Contents -> 0..TTL]
  /\ narrowed \subseteq ProfileNames
  /\ doubtful \in BOOLEAN

-----------------------------------------------------------------------------
(* Profiles                                                                *)

Named(request) == IF request = Blank THEN Default ELSE request

(* parse_profiles: an entry with a selection it cannot read is dropped.    *)
Offered(doc) == {n \in ProfileNames : Entries[doc][n] \in {"narrow", "open"}}

\* mutant: a familiar name resolves to the built-in default whatever is configured
ResolveDefaultAlways(doc, name) ==
  IF doc # Absent /\ name \in Offered(doc) THEN Entries[doc][name]
  ELSE IF name = Default THEN "open" ELSE "refused"

(* resolve_profile: the built-in default, which may use everything, exists *)
(* only while nothing is configured.                                       *)
Resolve(doc, name) ==
  IF doc = Absent
  THEN IF name = Default THEN "open" ELSE "refused"
  ELSE IF name \in Offered(doc) THEN Entries[doc][name] ELSE "refused"

(* load_profiles: without a document the packaged one applies.             *)
Loaded(answer) == IF answer = Absent THEN Packaged ELSE answer

Grant(answer, name) == Resolve(Loaded(answer), name)

(* Content that gives a name every capability, read as its author meant.   *)
Opens(content, name) ==
  /\ content \notin Newer \union Corrupt
  /\ IF Loaded(content) = Absent THEN name = Default ELSE Entries[Loaded(content)][name] = "open"

Answered(request, answer, source) ==
  LET name == Named(request) IN
  /\ turn' = [name |-> name, document |-> answer, grant |-> Grant(answer, name),
              from |-> source]
  /\ narrowed' = narrowed \union
       (IF Grant(answer, name) # "open" /\ ~Opens(document, name) THEN {name} ELSE {})

-----------------------------------------------------------------------------
(* The store, as the administrators' console serves it                     *)

(* An administrator saves or deletes the document.                         *)
Edit(content) ==
  /\ content # document
  /\ document' = content
  /\ gone' = [gone EXCEPT ![content] = 0]
  /\ narrowed' = {n \in narrowed : ~Opens(content, n)}
  /\ turn' = Absent
  /\ UNCHANGED <<memory, doubtful>>

Older(age) == IF age < TTL THEN age + 1 ELSE age

Tick ==
  /\ cache' = IF cache = Absent THEN Absent ELSE [cache EXCEPT !.age = Older(@)]
  /\ read' = IF read = Absent THEN Absent ELSE [read EXCEPT !.age = Older(@)]
  /\ gone' = [c \in Contents |-> IF c = document THEN 0 ELSE Older(gone[c])]
  /\ turn' = Absent
  /\ UNCHANGED <<document, lastGood, narrowed, doubtful>>

(* The console takes the request and answers with the document, or 404.    *)
StoreAnswers ==
  /\ read # Absent /\ ~read.done
  /\ read' = [read EXCEPT !.got = document, !.done = TRUE]
  /\ turn' = Absent
  /\ UNCHANGED <<document, cache, lastGood, history>>

(* It refuses with a status that is not retried.                           *)
StoreRefuses ==
  /\ read # Absent /\ ~read.done
  /\ read' = [read EXCEPT !.got = Failed, !.done = TRUE]
  /\ turn' = Absent
  /\ UNCHANGED <<document, cache, lastGood, history>>

-----------------------------------------------------------------------------
(* CachingConfigStore                                                      *)

\* mutant: the boundary is taken for fresh, so a kept answer never expires
FreshForEver == cache # Absent /\ cache.age <= TTL

Unexpired == cache # Absent /\ cache.age < TTL

Serve(request) ==
  /\ read = Absent /\ Unexpired
  /\ Answered(request, cache.answer, "cache")
  /\ UNCHANGED <<document, memory, gone, doubtful>>

AskStore(request) ==
  /\ read = Absent /\ ~Unexpired
  /\ read' = [name |-> request, age |-> 0, attempt |-> 1, got |-> Absent, done |-> FALSE]
  /\ turn' = Absent
  /\ UNCHANGED <<document, cache, lastGood, history>>

(* HttpConfigStore._open: no answer within the timeout, or no connection.  *)
AttemptFails ==
  /\ read # Absent /\ ~read.done
  /\ read' = IF read.attempt = Attempts
             THEN [read EXCEPT !.got = Failed, !.done = TRUE]
             ELSE [read EXCEPT !.attempt = @ + 1]
  /\ turn' = Absent
  /\ UNCHANGED <<document, cache, lastGood, history>>

(* What read_raw makes of the outcome.                                     *)
Raw(got) == IF got \in Corrupt \union {Failed} THEN Absent ELSE got

\* mutant: a document in an unsupported schema is taken as it is
SettledAnySchema(got) == Raw(got)

\* mutant: a document in an unsupported schema reads as absent
SettledUnsupportedAbsent(got) == IF Raw(got) \in Newer THEN Absent ELSE Raw(got)

(* The document a read settles on, given the last one that was readable.   *)
Settled(got) == IF Raw(got) \in Newer THEN lastGood ELSE Raw(got)

\* mutant: the clock is read when the answer arrives
StampedOnArrival(asked) == 0

(* The age an entry starts with: the clock was read before the store was.  *)
StampedAge(asked) == asked

Kept(got) == [answer |-> Settled(got), age |-> StampedAge(read.age)]

(* A document of an unsupported schema leaves the last readable one alone; *)
(* no document at all discards it.                                         *)
Receive ==
  /\ read # Absent /\ read.done
  /\ lastGood' = Settled(read.got)
  /\ cache' = Kept(read.got)
  /\ Answered(read.name, Settled(read.got),
              IF read.got \in Corrupt \union {Failed} THEN "nowhere" ELSE "store")
  /\ doubtful' = (read.got \in Corrupt \union {Failed} \/ (read.got \in Newer /\ doubtful))
  /\ read' = Absent
  /\ UNCHANGED <<document, gone>>

(* The container is replaced: everything the runtime knew is forgotten.    *)
Restart ==
  /\ cache' = Absent /\ lastGood' = Absent /\ read' = Absent /\ turn' = Absent
  /\ narrowed' = {} /\ doubtful' = FALSE
  /\ UNCHANGED <<document, gone>>

-----------------------------------------------------------------------------
(* Specification                                                           *)

CacheInit ==
  /\ document \in Contents
  /\ cache = Absent /\ lastGood = Absent /\ read = Absent /\ turn = Absent
  /\ gone = [c \in Contents |-> IF c = document THEN 0 ELSE TTL]
  /\ narrowed = {} /\ doubtful = FALSE

TurnRead == \E request \in Requests : Serve(request) \/ AskStore(request)

CacheNext ==
  \/ \E content \in Contents : Edit(content)
  \/ Tick \/ StoreAnswers \/ StoreRefuses \/ AttemptFails \/ Receive \/ Restart
  \/ TurnRead

CacheSpec == CacheInit /\ [][CacheNext]_cacheVars

(* Turns keep coming, time passes, and a console that is asked again and   *)
(* again does not fail every time.                                         *)
Fairness ==
  WF_cacheVars(TurnRead) /\ WF_cacheVars(Receive) /\ WF_cacheVars(Tick) /\ SF_cacheVars(StoreAnswers)

FairSpec == CacheSpec /\ Fairness

-----------------------------------------------------------------------------
(* Properties                                                              *)

(* An administrator's edit reaches the agents within the cache's lifetime: *)
(* what the cache answers was in force less than TTL ago, or stands in for *)
(* a document of an unsupported schema that was, or for one that could not *)
(* be read (CachingConfigStore.read, 596-621).                             *)
AnswersAreFresh ==
  (turn # Absent /\ turn.from = "cache") =>
    \/ gone[turn.document] < TTL
    \/ \E c \in Newer : gone[c] < TTL
    \/ turn.document = Absent /\ doubtful

(* config_store.py:596: nothing unreadable is ever kept as readable, and   *)
(* no answer outlives its lifetime.                                        *)
CacheIsHonest == CacheTypeOK /\ AnswersAreFresh

(* The reason the cache keeps the last readable document and resolution    *)
(* fails closed (583-588, profiles.py 166-194): once a turn has seen an    *)
(* agent restricted, no turn of that runtime runs it with every capability *)
(* until the stored document really allows it; the exception is a read     *)
(* that failed, after which the packaged profiles apply.                   *)
RestrictionHolds ==
  (turn # Absent /\ turn.grant = "open" /\ turn.name \in narrowed) => doubtful

(* An edit that stays takes effect: while turns keep coming, the console   *)
(* does not fail every time and the container is left running, turns are   *)
(* answered with the document that is in the store (596-621).              *)
EditTakesEffect ==
  \A c \in Documents \ (Newer \union Corrupt) :
    (<>[](document = c) /\ <>[][~Restart]_cacheVars)
      => []<>(turn # Absent /\ turn.document = c)
=============================================================================
