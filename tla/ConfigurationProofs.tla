------------------------ MODULE ConfigurationProofs ------------------------
(***************************************************************************)
(* Theorems about what administrators configure and agents obey, of any    *)
(* size: ConfigCache (profiles, documents, a lifetime of the cache, edits, *)
(* failures and restarts) and CapabilityRegistry with CapabilityInstall    *)
(* (administrators, capabilities, archives, saves and profiles).           *)
(***************************************************************************)
EXTENDS ConfigCache, CapabilityInstall, TLAPS

-----------------------------------------------------------------------------
(* ConfigCache: types, the freshness of what the cache answers and the     *)
(* protection of a restricted agent                                        *)


(* The inductive invariant.  What protects a restricted agent is spread    *)
(* over four places: the store's document, the answer of a read that has   *)
(* not been used yet, the last readable document and the cached answer.    *)

CacheAgrees == cache # Absent => cache.answer = lastGood

StoreRestricts == \A n \in narrowed : ~Opens(document, n)

ReadRestricts ==
  (read # Absent /\ read.done /\ read.got # Failed)
    => \A n \in narrowed : ~Opens(read.got, n)

MemoryRestricts == ~doubtful => \A n \in narrowed : Grant(lastGood, n) # "open"

InForce == gone[document] = 0

ReadFresh == (read # Absent /\ read.done /\ read.got # Failed) => gone[read.got] <= read.age

CacheFresh ==
  cache # Absent =>
    \/ gone[cache.answer] <= cache.age
    \/ \E c \in Newer : gone[c] <= cache.age
    \/ cache.answer = Absent /\ doubtful

Protection == CacheAgrees /\ StoreRestricts /\ ReadRestricts /\ MemoryRestricts
Freshness == InForce /\ ReadFresh /\ CacheFresh

CacheInv == CacheTypeOK /\ Protection /\ Freshness /\ RestrictionHolds /\ AnswersAreFresh

USE ConfigAssumption

-----------------------------------------------------------------------------
(* Facts about the operators                                               *)

(* The packaged document stands in for an absent one.                      *)
LEMMA LoadedType ==
  ASSUME NEW c \in Contents
  PROVE  Loaded(c) \in Contents
BY DEF Loaded, Contents

(* Resolving a name is one of three outcomes.                              *)
LEMMA GrantType ==
  ASSUME NEW c \in Contents, NEW n \in ProfileNames
  PROVE  Grant(c, n) \in {"narrow", "open", "refused"}
<1>1. Loaded(c) \in Contents
  BY LoadedType
<1>2. CASE Loaded(c) = Absent
  BY <1>2 DEF Grant, Resolve
<1>3. CASE Loaded(c) # Absent
  <2>1. Loaded(c) \in Documents
    BY <1>1, <1>3 DEF Contents
  <2>2. Entries[Loaded(c)][n] \in {"missing", "malformed", "narrow", "open"}
    BY <2>1
  <2> QED
    BY <2>2, <1>3 DEF Grant, Resolve, Offered
<1> QED
  BY <1>2, <1>3

(* Readable content grants every capability exactly when its author meant  *)
(* it to: a spoilt or missing entry never does.                            *)
LEMMA GrantOpens ==
  ASSUME NEW c \in Contents, NEW n \in ProfileNames, c \notin Newer \union Corrupt
  PROVE  Grant(c, n) = "open" <=> Opens(c, n)
<1>1. CASE Loaded(c) = Absent
  BY <1>1 DEF Grant, Resolve, Opens
<1>2. CASE Loaded(c) # Absent
  BY <1>2 DEF Grant, Resolve, Opens, Offered
<1> QED
  BY <1>1, <1>2

(* A blank req names the default profile.                                  *)
LEMMA NamedType ==
  ASSUME NEW req \in Requests
  PROVE  Named(req) \in ProfileNames
BY DEF Named, Requests

(* Ages only grow, and stop at TTL.                                        *)
LEMMA OlderBounds ==
  ASSUME NEW a \in 0..TTL
  PROVE  Older(a) \in 0..TTL /\ a <= Older(a) /\ Older(a) <= a + 1
BY DEF Older

(* Growing older preserves the order of ages.                              *)
LEMMA OlderMonotone ==
  ASSUME NEW a \in 0..TTL, NEW b \in 0..TTL, a <= b
  PROVE  Older(a) <= Older(b)
BY DEF Older

(* A read settles on a readable document or on none.                       *)
LEMMA SettledType ==
  ASSUME CacheTypeOK, NEW got \in Contents \union {Failed}
  PROVE  Settled(got) \in (Documents \ (Newer \union Corrupt)) \union {Absent}
BY DEF CacheTypeOK, Settled, Raw, Contents

-----------------------------------------------------------------------------
(* Types                                                                   *)

(* What resolving a turn leaves in turn and narrowed has its type.         *)
LEMMA AnsweredType ==
  ASSUME CacheTypeOK, NEW req \in Requests, NEW answer \in Contents,
         NEW source \in {"cache", "store", "nowhere"},
         Answered(req, answer, source)
  PROVE  turn' \in Resolution /\ narrowed' \subseteq ProfileNames
<1>1. Named(req) \in ProfileNames
  BY NamedType
<1>2. Grant(answer, Named(req)) \in {"narrow", "open", "refused"}
  BY <1>1, GrantType
<1> QED
  BY <1>1, <1>2 DEF Answered, Resolution, CacheTypeOK

(* The initial state has the types.                                        *)
LEMMA TypeInit == CacheInit => CacheTypeOK
<1> SUFFICES ASSUME CacheInit
             PROVE  CacheTypeOK
  OBVIOUS
<1>1. gone \in [Contents -> 0..TTL]
  <2>1. 0 \in 0..TTL /\ TTL \in 0..TTL
    OBVIOUS
  <2> QED
    BY <2>1 DEF CacheInit
<1> QED
  BY <1>1 DEF CacheInit, CacheTypeOK

(* Every step keeps the types.                                             *)
LEMMA TypeStep == CacheTypeOK /\ [CacheNext]_cacheVars => CacheTypeOK'
<1> SUFFICES ASSUME CacheTypeOK, [CacheNext]_cacheVars
             PROVE  CacheTypeOK'
  OBVIOUS
<1>1. ASSUME NEW content \in Contents, Edit(content)
      PROVE  CacheTypeOK'
  BY <1>1 DEF Edit, CacheTypeOK, memory
<1>2. CASE Tick
  <2>1. cache' \in CacheEntry \union {Absent}
    <3>1. CASE cache = Absent
      BY <1>2, <3>1 DEF Tick
    <3>2. CASE cache # Absent
      <4>1. cache \in CacheEntry
        BY <3>2 DEF CacheTypeOK
      <4>2. Older(cache.age) \in 0..TTL
        BY <4>1, OlderBounds DEF CacheEntry
      <4> QED
        BY <1>2, <3>2, <4>1, <4>2 DEF Tick, CacheEntry
    <3> QED
      BY <3>1, <3>2
  <2>2. read' \in Reading \union {Absent}
    <3>1. CASE read = Absent
      BY <1>2, <3>1 DEF Tick
    <3>2. CASE read # Absent
      <4>1. read \in Reading
        BY <3>2 DEF CacheTypeOK
      <4>2. Older(read.age) \in 0..TTL
        BY <4>1, OlderBounds DEF Reading
      <4> QED
        BY <1>2, <3>2, <4>1, <4>2 DEF Tick, Reading
    <3> QED
      BY <3>1, <3>2
  <2>3. gone' \in [Contents -> 0..TTL]
    BY <1>2, OlderBounds DEF Tick, CacheTypeOK
  <2> QED
    BY <1>2, <2>1, <2>2, <2>3 DEF Tick, CacheTypeOK
<1>3. CASE StoreAnswers
  BY <1>3 DEF StoreAnswers, CacheTypeOK, Reading, history
<1>4. CASE StoreRefuses
  BY <1>4 DEF StoreRefuses, CacheTypeOK, Reading, history
<1>5. CASE AttemptFails
  <2>1. read \in Reading
    BY <1>5 DEF AttemptFails, CacheTypeOK
  <2>2. CASE read.attempt = Attempts
    <3>1. read' = [read EXCEPT !.got = Failed, !.done = TRUE]
      BY <1>5, <2>2 DEF AttemptFails
    <3>2. read' \in Reading
      BY <2>1, <3>1 DEF Reading
    <3> QED
      BY <1>5, <3>2 DEF AttemptFails, CacheTypeOK, history
  <2>3. CASE read.attempt # Attempts
    <3>1. read.attempt + 1 \in 1..Attempts
      BY <2>1, <2>3 DEF Reading
    <3>2. read' \in Reading
      BY <1>5, <2>1, <2>3, <3>1 DEF AttemptFails, Reading
    <3> QED
      BY <1>5, <3>2 DEF AttemptFails, CacheTypeOK, history
  <2> QED
    BY <2>2, <2>3
<1>6. CASE Receive
  <2>1. read \in Reading /\ read.name \in Requests /\ read.got \in Contents \union {Failed}
        /\ read.age \in 0..TTL
    BY <1>6 DEF Receive, CacheTypeOK, Reading
  <2>2. Settled(read.got) \in (Documents \ (Newer \union Corrupt)) \union {Absent}
    BY <2>1, SettledType
  <2>3. turn' \in Resolution /\ narrowed' \subseteq ProfileNames
    <3> DEFINE source == IF read.got \in Corrupt \union {Failed} THEN "nowhere" ELSE "store"
    <3>1. Settled(read.got) \in Contents
      BY <2>2 DEF Contents
    <3>2. Answered(read.name, Settled(read.got), source)
      BY <1>6 DEF Receive
    <3>3. source \in {"cache", "store", "nowhere"}
      OBVIOUS
    <3> HIDE DEF source
    <3> QED
      BY <2>1, <3>1, <3>2, <3>3, AnsweredType
  <2>4. cache' \in CacheEntry
    BY <1>6, <2>1, <2>2 DEF Receive, Kept, StampedAge, CacheEntry, Contents
  <2> QED
    BY <1>6, <2>2, <2>3, <2>4 DEF Receive, CacheTypeOK
<1>7. CASE Restart
  BY <1>7 DEF Restart, CacheTypeOK
<1>8. ASSUME NEW req \in Requests, Serve(req)
      PROVE  CacheTypeOK'
  <2>1. cache.answer \in Contents
    BY <1>8 DEF Serve, Unexpired, CacheTypeOK, CacheEntry
  <2>2. turn' \in Resolution /\ narrowed' \subseteq ProfileNames
    BY <1>8, <2>1, AnsweredType DEF Serve
  <2> QED
    BY <1>8, <2>2 DEF Serve, CacheTypeOK, memory
<1>9. ASSUME NEW req \in Requests, AskStore(req)
      PROVE  CacheTypeOK'
  BY <1>9 DEF AskStore, CacheTypeOK, Reading, history, Contents
<1>10. CASE UNCHANGED cacheVars
  BY <1>10 DEF cacheVars, memory, history, CacheTypeOK
<1> QED
  BY <1>1, <1>2, <1>3, <1>4, <1>5, <1>6, <1>7, <1>8, <1>9, <1>10 DEF CacheNext, TurnRead

-----------------------------------------------------------------------------
(* The protection of a restricted agent                                    *)

(* Resolving a turn against an answer keeps every name seen restricted     *)
(* closed by the stored document, and adds only the turn's own name, and   *)
(* only when the turn was not given every capability.                      *)
LEMMA AnsweredNarrows ==
  ASSUME CacheTypeOK, NEW req \in Requests, NEW answer \in Contents, NEW source,
         Answered(req, answer, source)
  PROVE  /\ narrowed' \subseteq narrowed \union {Named(req)}
         /\ Grant(answer, Named(req)) = "open" => narrowed' = narrowed
         /\ StoreRestricts => \A n \in narrowed' : ~Opens(document, n)
         /\ turn' # Absent => turn'.grant = Grant(answer, Named(req)) /\ turn'.name = Named(req)
BY DEF Answered, StoreRestricts

(* Every step keeps the four places in agreement, and no turn widens an    *)
(* agent seen restricted unless a read failed.                             *)
LEMMA ProtectionStep ==
  CacheTypeOK /\ Protection /\ RestrictionHolds /\ [CacheNext]_cacheVars => Protection' /\ RestrictionHolds'
<1> SUFFICES ASSUME CacheTypeOK, Protection, RestrictionHolds, [CacheNext]_cacheVars
             PROVE  Protection' /\ RestrictionHolds'
  OBVIOUS
<1> USE DEF Protection
<1>1. ASSUME NEW content \in Contents, Edit(content)
      PROVE  Protection' /\ RestrictionHolds'
  BY <1>1 DEF Edit, memory, CacheAgrees, StoreRestricts, ReadRestricts, MemoryRestricts,
              RestrictionHolds
<1>2. CASE Tick
  <2>1. CacheAgrees'
    BY <1>2 DEF Tick, CacheAgrees, CacheTypeOK, CacheEntry
  <2>2. ReadRestricts'
    <3> SUFFICES ASSUME read' # Absent, read'.done, read'.got # Failed
                 PROVE  \A n \in narrowed : ~Opens(read'.got, n)
      BY <1>2 DEF Tick, ReadRestricts
    <3>1. read # Absent /\ read \in Reading
      BY <1>2 DEF Tick, CacheTypeOK
    <3>2. read'.got = read.got /\ read'.done = read.done
      BY <1>2, <3>1 DEF Tick, Reading
    <3> QED
      BY <3>1, <3>2 DEF ReadRestricts
  <2> QED
    BY <1>2, <2>1, <2>2 DEF Tick, StoreRestricts, MemoryRestricts, RestrictionHolds
<1>3. CASE StoreAnswers
  <2>1. read \in Reading
    BY <1>3 DEF StoreAnswers, CacheTypeOK
  <2>2. read'.got = document
    BY <1>3, <2>1 DEF StoreAnswers, Reading
  <2> QED
    BY <1>3, <2>2 DEF StoreAnswers, history, CacheAgrees, StoreRestricts, ReadRestricts,
                      MemoryRestricts, RestrictionHolds
<1>4. CASE StoreRefuses
  <2>1. read \in Reading
    BY <1>4 DEF StoreRefuses, CacheTypeOK
  <2>2. read'.got = Failed
    BY <1>4, <2>1 DEF StoreRefuses, Reading
  <2> QED
    BY <1>4, <2>2 DEF StoreRefuses, history, CacheAgrees, StoreRestricts, ReadRestricts,
                      MemoryRestricts, RestrictionHolds
<1>5. CASE AttemptFails
  <2>1. read \in Reading /\ ~read.done
    BY <1>5 DEF AttemptFails, CacheTypeOK
  <2>2. read'.got = Failed \/ ~read'.done
    BY <1>5, <2>1 DEF AttemptFails, Reading
  <2> QED
    BY <1>5, <2>2 DEF AttemptFails, history, CacheAgrees, StoreRestricts, ReadRestricts,
                      MemoryRestricts, RestrictionHolds
<1>6. CASE Receive
  <2> DEFINE source == IF read.got \in Corrupt \union {Failed} THEN "nowhere" ELSE "store"
  <2>1. read \in Reading /\ read # Absent /\ read.done /\ read.name \in Requests
        /\ read.got \in Contents \union {Failed}
    BY <1>6 DEF Receive, CacheTypeOK, Reading
  <2>2. Settled(read.got) \in (Documents \ (Newer \union Corrupt)) \union {Absent}
    BY <2>1, SettledType
  <2>3. Settled(read.got) \in Contents /\ Settled(read.got) \notin Newer \union Corrupt
    BY <2>2 DEF Contents
  <2>4. Answered(read.name, Settled(read.got), source)
    BY <1>6 DEF Receive
  <2>5. /\ narrowed' \subseteq narrowed \union {Named(read.name)}
        /\ Grant(Settled(read.got), Named(read.name)) = "open" => narrowed' = narrowed
        /\ \A n \in narrowed' : ~Opens(document, n)
        /\ turn' # Absent => turn'.grant = Grant(Settled(read.got), Named(read.name))
                           /\ turn'.name = Named(read.name)
    BY <2>1, <2>3, <2>4, AnsweredNarrows
  <2>6. ~doubtful' => \A n \in narrowed : Grant(Settled(read.got), n) # "open"
    <3> SUFFICES ASSUME ~doubtful', NEW n \in narrowed
                 PROVE  Grant(Settled(read.got), n) # "open"
      OBVIOUS
    <3>1. read.got \notin Corrupt \union {Failed} /\ (read.got \in Newer => ~doubtful)
      BY <1>6 DEF Receive
    <3>2. n \in ProfileNames
      BY DEF CacheTypeOK
    <3>3. CASE read.got \in Newer
      BY <3>1, <3>3 DEF Settled, Raw, MemoryRestricts
    <3>4. CASE read.got \notin Newer
      <4>1. Settled(read.got) = read.got
        BY <3>1, <3>4 DEF Settled, Raw
      <4>2. ~Opens(read.got, n)
        BY <2>1, <3>1 DEF ReadRestricts
      <4> QED
        BY <2>3, <3>2, <4>1, <4>2, GrantOpens
    <3> QED
      BY <3>3, <3>4
  <2>7. ~doubtful' => \A n \in narrowed' : Grant(Settled(read.got), n) # "open"
    BY <2>5, <2>6
  <2>8. lastGood' = Settled(read.got) /\ cache'.answer = Settled(read.got) /\ read' = Absent
        /\ document' = document
    BY <1>6 DEF Receive, Kept
  <2>9. MemoryRestricts'
    BY <2>7, <2>8 DEF MemoryRestricts, Grant, Loaded, Resolve, Offered
  <2>10. StoreRestricts'
    BY <2>5, <2>8 DEF StoreRestricts, Opens, Loaded
  <2>11. RestrictionHolds'
    BY <2>5, <2>7 DEF RestrictionHolds
  <2> QED
    BY <2>8, <2>9, <2>10, <2>11 DEF CacheAgrees, ReadRestricts
<1>7. CASE Restart
  BY <1>7 DEF Restart, CacheAgrees, StoreRestricts, ReadRestricts, MemoryRestricts, RestrictionHolds
<1>8. ASSUME NEW req \in Requests, Serve(req)
      PROVE  Protection' /\ RestrictionHolds'
  <2>1. cache.answer = lastGood /\ lastGood \in Contents /\ read = Absent
    BY <1>8 DEF Serve, Unexpired, CacheAgrees, CacheTypeOK, Contents
  <2>2. Answered(req, lastGood, "cache")
    BY <1>8, <2>1 DEF Serve
  <2>3. /\ narrowed' \subseteq narrowed \union {Named(req)}
        /\ Grant(lastGood, Named(req)) = "open" => narrowed' = narrowed
        /\ \A n \in narrowed' : ~Opens(document, n)
        /\ turn' # Absent => turn'.grant = Grant(lastGood, Named(req))
                           /\ turn'.name = Named(req)
    BY <2>1, <2>2, AnsweredNarrows
  <2>4. UNCHANGED <<document, cache, lastGood, read, doubtful>>
    BY <1>8 DEF Serve, memory
  <2>5. ~doubtful => \A n \in narrowed' : Grant(lastGood, n) # "open"
    BY <2>3 DEF MemoryRestricts
  <2>6. RestrictionHolds'
    BY <2>3, <2>4, <2>5 DEF RestrictionHolds
  <2> QED
    BY <2>1, <2>3, <2>4, <2>5, <2>6 DEF CacheAgrees, StoreRestricts, ReadRestricts, MemoryRestricts
<1>9. ASSUME NEW req \in Requests, AskStore(req)
      PROVE  Protection' /\ RestrictionHolds'
  BY <1>9 DEF AskStore, history, CacheAgrees, StoreRestricts, ReadRestricts, MemoryRestricts,
              RestrictionHolds
<1>10. CASE UNCHANGED cacheVars
  BY <1>10 DEF cacheVars, memory, history, CacheAgrees, StoreRestricts, ReadRestricts,
               MemoryRestricts, RestrictionHolds
<1> QED
  BY <1>1, <1>2, <1>3, <1>4, <1>5, <1>6, <1>7, <1>8, <1>9, <1>10 DEF CacheNext, TurnRead

-----------------------------------------------------------------------------
(* Freshness                                                               *)

(* Resolving a turn leaves the answers and their ages alone and records    *)
(* where its answer came from.                                             *)
LEMMA AnsweredFrom ==
  ASSUME NEW req, NEW answer, NEW source, Answered(req, answer, source)
  PROVE  turn'.from = source /\ turn'.document = answer
BY DEF Answered

(* What a tick does to the age of any content: it grows by one at most.    *)
LEMMA TickAges ==
  ASSUME CacheTypeOK, Tick, NEW c \in Contents
  PROVE  gone[c] \in 0..TTL /\ gone'[c] <= Older(gone[c])
<1>1. gone[c] \in 0..TTL /\ 0 <= Older(gone[c])
  BY OlderBounds DEF CacheTypeOK
<1> QED
  BY <1>1, OlderBounds DEF Tick

(* Every step keeps the cached answer as fresh as its age says.            *)
LEMMA FreshnessStep ==
  CacheTypeOK /\ Freshness /\ AnswersAreFresh /\ [CacheNext]_cacheVars => Freshness' /\ AnswersAreFresh'
<1> SUFFICES ASSUME CacheTypeOK, Freshness, AnswersAreFresh, [CacheNext]_cacheVars
             PROVE  Freshness' /\ AnswersAreFresh'
  OBVIOUS
<1> USE DEF Freshness
<1>0. Newer \subseteq Contents /\ Absent \in Contents
  BY DEF Contents
<1>1. ASSUME NEW content \in Contents, Edit(content)
      PROVE  Freshness' /\ AnswersAreFresh'
  <2>1. gone' = [gone EXCEPT ![content] = 0] /\ document' = content /\ turn' = Absent
        /\ UNCHANGED <<cache, lastGood, read, doubtful>>
    BY <1>1 DEF Edit, memory
  <2>2. \A c \in Contents : gone[c] \in Nat /\ gone'[c] <= gone[c]
    BY <2>1 DEF CacheTypeOK
  <2>3. InForce'
    BY <2>1 DEF InForce, CacheTypeOK
  <2>4. ReadFresh'
    <3> SUFFICES ASSUME read # Absent, read.done, read.got # Failed
                 PROVE  gone'[read.got] <= read.age
      BY <2>1 DEF ReadFresh
    <3>1. read.got \in Contents /\ read.age \in Nat
      BY DEF CacheTypeOK, Reading
    <3>2. gone[read.got] <= read.age /\ gone'[read.got] \in Nat
      BY <2>1, <3>1 DEF ReadFresh, CacheTypeOK
    <3> QED
      BY <2>2, <3>1, <3>2
  <2>5. CacheFresh'
    <3> SUFFICES ASSUME cache # Absent
                 PROVE  \/ gone'[cache.answer] <= cache.age
                        \/ \E c \in Newer : gone'[c] <= cache.age
                        \/ cache.answer = Absent /\ doubtful
      BY <2>1 DEF CacheFresh
    <3>1. cache.answer \in Contents /\ cache.age \in Nat
      BY DEF CacheTypeOK, CacheEntry
    <3>2. \A c \in Contents : gone'[c] \in Nat
      BY <2>1 DEF CacheTypeOK
    <3>3. \A c \in Contents : gone[c] <= cache.age => gone'[c] <= cache.age
      BY <2>2, <3>1, <3>2
    <3> QED
      BY <1>0, <3>1, <3>3 DEF CacheFresh
  <2> QED
    BY <2>1, <2>3, <2>4, <2>5 DEF AnswersAreFresh
<1>2. CASE Tick
  <2>1. InForce'
    BY <1>2 DEF Tick, InForce, CacheTypeOK
  <2>2. ReadFresh'
    <3> SUFFICES ASSUME read' # Absent, read'.done, read'.got # Failed
                 PROVE  gone'[read'.got] <= read'.age
      BY DEF ReadFresh
    <3>1. read # Absent /\ read \in Reading
      BY <1>2 DEF Tick, CacheTypeOK
    <3>2. read'.got = read.got /\ read'.done = read.done /\ read'.age = Older(read.age)
          /\ read.age \in 0..TTL
      BY <1>2, <3>1 DEF Tick, Reading
    <3>3. read.got \in Contents /\ gone[read.got] <= read.age
      BY <3>1, <3>2 DEF ReadFresh, Reading
    <3>4. Older(gone[read.got]) <= Older(read.age) /\ gone'[read.got] <= Older(gone[read.got])
      BY <1>2, <3>2, <3>3, TickAges, OlderMonotone
    <3>5. gone'[read.got] \in Nat /\ Older(gone[read.got]) \in Nat /\ Older(read.age) \in Nat
      BY <1>2, <3>2, <3>3, OlderBounds DEF Tick, CacheTypeOK
    <3> QED
      BY <3>2, <3>4, <3>5
  <2>3. CacheFresh'
    <3> SUFFICES ASSUME cache' # Absent
                 PROVE  \/ gone'[cache'.answer] <= cache'.age
                        \/ \E c \in Newer : gone'[c] <= cache'.age
                        \/ cache'.answer = Absent /\ doubtful'
      BY DEF CacheFresh
    <3>1. cache # Absent /\ cache \in CacheEntry
      BY <1>2 DEF Tick, CacheTypeOK
    <3>2. cache'.answer = cache.answer /\ cache'.age = Older(cache.age)
          /\ cache.age \in 0..TTL /\ cache.answer \in Contents
      BY <1>2, <3>1 DEF Tick, CacheEntry
    <3>3. ASSUME NEW c \in Contents, gone[c] <= cache.age
          PROVE  gone'[c] <= Older(cache.age)
      <4>1. gone[c] \in 0..TTL /\ gone'[c] <= Older(gone[c]) /\ Older(gone[c]) <= Older(cache.age)
        BY <1>2, <3>2, <3>3, TickAges, OlderMonotone
      <4>2. gone'[c] \in Nat /\ Older(gone[c]) \in Nat /\ Older(cache.age) \in Nat
        BY <1>2, <3>2, <4>1, OlderBounds DEF Tick, CacheTypeOK
      <4> QED
        BY <4>1, <4>2
    <3>4. doubtful' = doubtful
      BY <1>2 DEF Tick
    <3> QED
      BY <1>0, <3>1, <3>2, <3>3, <3>4 DEF CacheFresh
  <2> QED
    BY <1>2, <2>1, <2>2, <2>3 DEF Tick, AnswersAreFresh
<1>3. CASE StoreAnswers
  <2>1. read \in Reading /\ read.age \in Nat
    BY <1>3 DEF StoreAnswers, CacheTypeOK, Reading
  <2>2. read'.got = document /\ read'.age = read.age
    BY <1>3, <2>1 DEF StoreAnswers, Reading
  <2> QED
    BY <1>3, <2>1, <2>2 DEF StoreAnswers, history, InForce, ReadFresh, CacheFresh, AnswersAreFresh
<1>4. CASE StoreRefuses
  <2>1. read \in Reading
    BY <1>4 DEF StoreRefuses, CacheTypeOK
  <2>2. read'.got = Failed
    BY <1>4, <2>1 DEF StoreRefuses, Reading
  <2> QED
    BY <1>4, <2>2 DEF StoreRefuses, history, InForce, ReadFresh, CacheFresh, AnswersAreFresh
<1>5. CASE AttemptFails
  <2>1. read \in Reading /\ ~read.done
    BY <1>5 DEF AttemptFails, CacheTypeOK
  <2>2. read'.got = Failed \/ ~read'.done
    BY <1>5, <2>1 DEF AttemptFails, Reading
  <2> QED
    BY <1>5, <2>2 DEF AttemptFails, history, InForce, ReadFresh, CacheFresh, AnswersAreFresh
<1>6. CASE Receive
  <2> DEFINE source == IF read.got \in Corrupt \union {Failed} THEN "nowhere" ELSE "store"
  <2>1. read # Absent /\ read.done /\ read.got \in Contents \union {Failed}
    BY <1>6 DEF Receive, CacheTypeOK, Reading
  <2>2. cache'.answer = Settled(read.got) /\ cache'.age = read.age /\ read' = Absent
        /\ UNCHANGED <<gone, document>>
    BY <1>6 DEF Receive, Kept, StampedAge
  <2>3. CacheFresh'
    <3>1. CASE read.got \in Corrupt \union {Failed}
      <4>1. doubtful' /\ Settled(read.got) = Absent
        BY <1>6, <3>1 DEF Receive, Settled, Raw
      <4> QED
        BY <2>2, <4>1 DEF CacheFresh
    <3>2. CASE read.got \in Newer
      BY <2>1, <2>2, <3>2 DEF CacheFresh, ReadFresh
    <3>3. CASE read.got \notin Newer \union Corrupt \union {Failed}
      <4>1. Settled(read.got) = read.got
        BY <3>3 DEF Settled, Raw
      <4> QED
        BY <2>1, <2>2, <3>3, <4>1 DEF CacheFresh, ReadFresh
    <3> QED
      BY <3>1, <3>2, <3>3
  <2>4. turn'.from # "cache"
    <3>1. Answered(read.name, Settled(read.got), source) /\ source # "cache"
      BY <1>6 DEF Receive
    <3> HIDE DEF source
    <3> QED
      BY <3>1, AnsweredFrom
  <2> QED
    BY <2>2, <2>3, <2>4 DEF InForce, ReadFresh, AnswersAreFresh
<1>7. CASE Restart
  BY <1>7 DEF Restart, InForce, ReadFresh, CacheFresh, AnswersAreFresh
<1>8. ASSUME NEW req \in Requests, Serve(req)
      PROVE  Freshness' /\ AnswersAreFresh'
  <2>1. UNCHANGED <<document, cache, lastGood, read, gone, doubtful>>
    BY <1>8 DEF Serve, memory
  <2>2. turn'.document = cache.answer
    BY <1>8, AnsweredFrom DEF Serve
  <2>3. cache # Absent /\ cache.age < TTL /\ cache.age \in Nat /\ cache.answer \in Contents
    BY <1>8 DEF Serve, Unexpired, CacheTypeOK, CacheEntry
  <2>4. \A c \in Contents : gone[c] <= cache.age => gone[c] < TTL
    BY <2>3 DEF CacheTypeOK
  <2> QED
    BY <1>0, <2>1, <2>2, <2>3, <2>4 DEF InForce, ReadFresh, CacheFresh, AnswersAreFresh
<1>9. ASSUME NEW req \in Requests, AskStore(req)
      PROVE  Freshness' /\ AnswersAreFresh'
  BY <1>9 DEF AskStore, history, InForce, ReadFresh, CacheFresh, AnswersAreFresh
<1>10. CASE UNCHANGED cacheVars
  BY <1>10 DEF cacheVars, memory, history, InForce, ReadFresh, CacheFresh, AnswersAreFresh
<1> QED
  BY <1>1, <1>2, <1>3, <1>4, <1>5, <1>6, <1>7, <1>8, <1>9, <1>10 DEF CacheNext, TurnRead

-----------------------------------------------------------------------------
(* Theorems                                                                *)

(* The invariant holds of every behaviour.                                 *)
THEOREM CacheInvHolds == CacheSpec => []CacheInv
<1>1. CacheInit => CacheInv
  <2> SUFFICES ASSUME CacheInit
               PROVE  CacheInv
    OBVIOUS
  <2>1. CacheTypeOK
    BY TypeInit
  <2>2. Protection /\ RestrictionHolds
    BY DEF CacheInit, Protection, CacheAgrees, StoreRestricts, ReadRestricts, MemoryRestricts,
           RestrictionHolds
  <2>3. Freshness /\ AnswersAreFresh
    BY DEF CacheInit, Freshness, InForce, ReadFresh, CacheFresh, AnswersAreFresh
  <2> QED
    BY <2>1, <2>2, <2>3 DEF CacheInv
<1>2. CacheInv /\ [CacheNext]_cacheVars => CacheInv'
  BY TypeStep, ProtectionStep, FreshnessStep DEF CacheInv
<1> QED
  BY <1>1, <1>2, PTL DEF CacheSpec

(* What the cache answers was in force within its lifetime, or stands in   *)
(* for a document this build cannot read, or for one that failed to read   *)
(* (CachingConfigStore.read).                                              *)
THEOREM CacheIsFresh == CacheSpec => []CacheIsHonest
<1>1. CacheInv => CacheIsHonest
  BY DEF CacheInv, CacheIsHonest
<1> QED
  BY <1>1, CacheInvHolds, PTL

(* A turn never gives every capability to an agent that this runtime has   *)
(* seen restricted and that the stored document has not opened since,      *)
(* unless a read failed (CachingConfigStore, resolve_profile).             *)
THEOREM RestrictionSurvives == CacheSpec => []RestrictionHolds
<1>1. CacheInv => RestrictionHolds
  BY DEF CacheInv
<1> QED
  BY <1>1, CacheInvHolds, PTL

-----------------------------------------------------------------------------
(* CapabilityRegistry and CapabilityInstall: the registry never names a    *)
(* bundle that is not stored, an approval always covers bytes that were    *)
(* reviewed, no accepted save undoes another, and an engine offers what    *)
(* the registry it was prepared from makes active                          *)


-----------------------------------------------------------------------------
(* The inductive invariant                                                 *)

(* What a request would save names only bundles that are stored or still   *)
(* to be uploaded; while the revision it read is the stored one, it leaves *)
(* alone what it is not about and every approval in it was reviewed.       *)
UpToDate(r) ==
  /\ \A n \in Names \ r.names : r.next[n] = registry[n]
  /\ \A n \in Names : r.next[n] # None /\ r.next[n].approved # None =>
       /\ <<n, r.next[n].approved>> \in reviewed
       /\ r.op = "deploy" => n \notin r.names

Sound(r) ==
  /\ r.revision <= revision
  /\ \A n \in Names : r.next[n] # None => <<n, r.next[n].sha256>> \in bundles \union r.todo
  /\ r.revision = revision => UpToDate(r)

Inv ==
  /\ ConsoleTypeOK
  /\ NamedBundlesStored
  /\ ApprovalIsInformed
  /\ \A a \in Admins : request[a] # None => Sound(request[a])

-----------------------------------------------------------------------------
(* Initial states and stuttering                                           *)

(* Nothing is deployed, requested or reviewed at first.                    *)
LEMMA InitEstablishesInv == ConsoleInit => Inv
  BY RegistryAssumption
     DEF ConsoleInit, Inv, ConsoleTypeOK, NamedBundlesStored, ApprovalIsInformed, Empty,
         Listed, Registries, Bundles

(* The invariant depends on nothing but the variables.                     *)
LEMMA StutterKeepsInv == Inv /\ UNCHANGED consoleVars => Inv'
  BY DEF consoleVars, Inv, ConsoleTypeOK, NamedBundlesStored, ApprovalIsInformed, Sound, UpToDate

-----------------------------------------------------------------------------
(* Starting a request                                                      *)

(* A request whose wanted registry is well typed and sound can start.      *)
LEMMA BeginKeepsInv ==
  ASSUME Inv, NEW a \in Admins, NEW op \in {"deploy", "patch", "withdraw"},
         NEW names \in SUBSET Names, NEW next \in Registries, NEW todo \in SUBSET Bundles,
         Begin(a, op, names, next, todo),
         reviewed \subseteq reviewed', reviewed' \subseteq Bundles,
         \A n \in Names : next[n] # None => <<n, next[n].sha256>> \in bundles \union todo,
         \A n \in Names \ names : next[n] = registry[n],
         \A n \in Names : next[n] # None /\ next[n].approved # None =>
           <<n, next[n].approved>> \in reviewed' /\ (op = "deploy" => n \notin names)
  PROVE  Inv'
<1> DEFINE r == [op |-> op, names |-> names, revision |-> revision, next |-> next, todo |-> todo]
<1>1. /\ request' = [request EXCEPT ![a] = r]
      /\ UNCHANGED <<registry, revision, bundles, listing>>
  BY DEF Begin
<1>2. r \in Request
  BY DEF Request, Inv, ConsoleTypeOK
<1>3. ConsoleTypeOK'
  BY <1>1, <1>2 DEF Inv, ConsoleTypeOK
<1>4. NamedBundlesStored' /\ ApprovalIsInformed'
  BY <1>1 DEF Inv, NamedBundlesStored, ApprovalIsInformed
<1>5. ASSUME NEW b \in Admins, request'[b] # None PROVE Sound(request[b])'
  <2>1. CASE b = a
    <3>1. request'[b] = r
      BY <1>1, <2>1 DEF Inv, ConsoleTypeOK
    <3>2. revision \in Nat
      BY RegistryAssumption DEF Inv, ConsoleTypeOK
    <3>3. /\ r.revision <= revision' /\ r.op = op /\ r.names = names
          /\ r.next = next /\ r.todo = todo
      BY <1>1, <3>2
    <3>4. QED
      BY <3>1, <3>3, <1>1 DEF Sound, UpToDate
  <2>2. CASE b # a
    <3>1. request'[b] = request[b] /\ Sound(request[b])
      BY <1>1, <1>5, <2>2 DEF Inv, ConsoleTypeOK
    <3>2. QED
      BY <3>1, <1>1 DEF Sound, UpToDate
  <2>3. QED
    BY <2>1, <2>2
<1>6. QED
  BY <1>3, <1>4, <1>5 DEF Inv

(* A deployment: its own names are unapproved and wait for their bundles.  *)
LEMMA BeginDeployKeepsInv ==
  ASSUME Inv, NEW a \in Admins, NEW archive \in Archives, BeginDeploy(a, archive)
  PROVE  Inv'
<1> DEFINE names == DOMAIN archive
           next == [n \in Names |-> IF n \in names THEN Redeployed(registry[n], archive[n])
                                                   ELSE registry[n]]
           todo == {<<n, archive[n]>> : n \in names}
<1>1. names \in SUBSET Names /\ \A n \in names : archive[n] \in Bytes
  BY RegistryAssumption
<1>2. ASSUME NEW n \in names
      PROVE  /\ next[n] \in Entry
             /\ next[n].sha256 = archive[n]
             /\ next[n].approved = None
  <2>1. registry[n] \in Entry \union {None}
    BY <1>1 DEF Inv, ConsoleTypeOK, Registries
  <2>2. next[n] = Redeployed(registry[n], archive[n])
    BY <1>1
  <2>3. registry[n] # None => registry[n].enabled \in BOOLEAN
    BY <2>1 DEF Entry
  <2>4. (KindOf[archive[n]] = "skill" /\ (registry[n] = None \/ registry[n].enabled)) \in BOOLEAN
    BY <2>3
  <2>5. QED
    BY <2>2, <2>4, <1>1 DEF Redeployed, Entry
<1>3. \A n \in Names \ names : next[n] = registry[n]
  OBVIOUS
<1>4. next \in Registries
  <2>1. \A n \in Names : next[n] \in Entry \union {None}
    BY <1>2, <1>3 DEF Inv, ConsoleTypeOK, Registries
  <2>2. QED
    BY <2>1 DEF Registries
<1>5. todo \in SUBSET Bundles
  BY <1>1 DEF Bundles
<1>6. \A n \in Names : next[n] # None => <<n, next[n].sha256>> \in bundles \union todo
  BY <1>2, <1>3 DEF Inv, NamedBundlesStored
<1>7. \A n \in Names : next[n] # None /\ next[n].approved # None =>
        <<n, next[n].approved>> \in reviewed /\ n \notin names
  BY <1>2, <1>3 DEF Inv, ApprovalIsInformed
<1>8. Begin(a, "deploy", names, next, todo) /\ reviewed' = reviewed
  BY DEF BeginDeploy
<1>9. reviewed' \subseteq Bundles
  BY <1>8 DEF Inv, ConsoleTypeOK
<1> HIDE DEF names, next, todo
<1>10. QED
  BY <1>1, <1>3, <1>4, <1>5, <1>6, <1>7, <1>8, <1>9, BeginKeepsInv

(* A change of one entry that keeps its bytes is sound when the approval   *)
(* it would save was reviewed.                                             *)
LEMMA BeginPatchKeepsInv ==
  ASSUME Inv, NEW a \in Admins, NEW n \in Names, NEW e \in Entry \union {None},
         NEW op \in {"patch", "withdraw"},
         Begin(a, op, {n}, [registry EXCEPT ![n] = e], {}),
         reviewed \subseteq reviewed', reviewed' \subseteq Bundles,
         e # None => registry[n] # None /\ e.sha256 = registry[n].sha256,
         e # None /\ e.approved # None => <<n, e.approved>> \in reviewed'
  PROVE  Inv'
<1> DEFINE next == [registry EXCEPT ![n] = e]
<1>1. registry \in Registries
  BY DEF Inv, ConsoleTypeOK
<1>2. next \in Registries /\ next[n] = e /\ \A m \in Names \ {n} : next[m] = registry[m]
  BY <1>1 DEF Registries
<1>3. \A m \in Names : next[m] # None => <<m, next[m].sha256>> \in bundles \union {}
  BY <1>2 DEF Inv, NamedBundlesStored
<1>4. \A m \in Names : next[m] # None /\ next[m].approved # None =>
        <<m, next[m].approved>> \in reviewed' /\ (op = "deploy" => m \notin {n})
  BY <1>2 DEF Inv, ApprovalIsInformed
<1>5. {n} \in SUBSET Names /\ {} \in SUBSET Bundles /\ op \in {"deploy", "patch", "withdraw"}
  OBVIOUS
<1>6. Begin(a, op, {n}, next, {})
  OBVIOUS
<1> HIDE DEF next
<1>7. QED
  BY <1>2, <1>3, <1>4, <1>5, <1>6, BeginKeepsInv

(* Each patch of the route is such a change.                               *)
LEMMA PatchKeepsInv ==
  ASSUME Inv, NEW a \in Admins, NEW n \in Names,
         \/ \E on \in BOOLEAN : BeginSwitch(a, n, on)
         \/ BeginApprove(a, n)
         \/ BeginRevoke(a, n)
         \/ BeginWithdraw(a, n)
  PROVE  Inv'
<1> DEFINE old == registry[n]
<1>1. /\ old \in Entry
      /\ old.approved # None => <<n, old.approved>> \in reviewed
      /\ reviewed \subseteq Bundles
  BY DEF Inv, ConsoleTypeOK, Registries, ApprovalIsInformed, BeginSwitch, BeginApprove,
         BeginRevoke, BeginWithdraw, Approvable, Patchable
<1>2. ASSUME NEW on \in BOOLEAN, BeginSwitch(a, n, on) PROVE Inv'
  <2> DEFINE e == [old EXCEPT !.enabled = on]
  <2>1. e \in Entry /\ e.sha256 = old.sha256 /\ e.approved = old.approved
    BY <1>1 DEF Entry
  <2>2. [registry EXCEPT ![n].enabled = on] = [registry EXCEPT ![n] = e]
    BY DEF Inv, ConsoleTypeOK, Registries
  <2>3. old # None /\ Begin(a, "patch", {n}, [registry EXCEPT ![n] = e], {}) /\ reviewed' = reviewed
    BY <1>2, <2>2 DEF BeginSwitch, Patchable
  <2> HIDE DEF e
  <2>4. QED
    BY <1>1, <2>1, <2>3, BeginPatchKeepsInv
<1>3. ASSUME BeginApprove(a, n) PROVE Inv'
  <2> DEFINE e == [old EXCEPT !.approved = old.sha256]
  <2>1. KindOf[old.sha256] # "skill"
    BY <1>3 DEF BeginApprove, Approvable, Executable
  <2>2. e \in Entry /\ e.sha256 = old.sha256 /\ e.approved = old.sha256
    BY <1>1, <2>1 DEF Entry
  <2>3. [registry EXCEPT ![n].approved = registry[n].sha256] = [registry EXCEPT ![n] = e]
    BY DEF Inv, ConsoleTypeOK, Registries
  <2>4. /\ old # None
        /\ Begin(a, "patch", {n}, [registry EXCEPT ![n] = e], {})
        /\ reviewed' = reviewed \union {<<n, old.sha256>>}
    BY <1>3, <2>3 DEF BeginApprove, Approvable, Patchable
  <2>5. old.sha256 \in Bytes
    BY <1>1 DEF Entry
  <2>6. reviewed' \subseteq Bundles
    BY <1>1, <2>4, <2>5 DEF Bundles
  <2> HIDE DEF e
  <2>7. QED
    BY <2>2, <2>4, <2>6, BeginPatchKeepsInv
<1>4. ASSUME BeginRevoke(a, n) PROVE Inv'
  <2> DEFINE e == [old EXCEPT !.approved = None]
  <2>1. e \in Entry /\ e.sha256 = old.sha256 /\ e.approved = None
    BY <1>1 DEF Entry
  <2>2. [registry EXCEPT ![n].approved = None] = [registry EXCEPT ![n] = e]
    BY DEF Inv, ConsoleTypeOK, Registries
  <2>3. old # None /\ Begin(a, "patch", {n}, [registry EXCEPT ![n] = e], {}) /\ reviewed' = reviewed
    BY <1>4, <2>2 DEF BeginRevoke, Patchable
  <2> HIDE DEF e
  <2>4. QED
    BY <1>1, <2>1, <2>3, BeginPatchKeepsInv
<1>5. ASSUME BeginWithdraw(a, n) PROVE Inv'
  <2>1. Begin(a, "withdraw", {n}, [registry EXCEPT ![n] = None], {}) /\ reviewed' = reviewed
    BY <1>5 DEF BeginWithdraw
  <2>2. QED
    BY <1>1, <2>1, BeginPatchKeepsInv
<1>6. QED
  BY <1>2, <1>3, <1>4, <1>5

-----------------------------------------------------------------------------
(* Ending a request                                                        *)

(* An upload moves a bundle from what is missing to what is stored.        *)
LEMMA PutBundleKeepsInv ==
  ASSUME Inv, NEW a \in Admins, PutBundle(a)
  PROVE  Inv'
<1>1. PICK x \in request[a].todo :
        /\ bundles' = bundles \union {x}
        /\ request' = [request EXCEPT ![a].todo = @ \ {x}]
        /\ UNCHANGED <<registry, revision, listing, reviewed>>
  BY DEF PutBundle
<1>2. request[a] \in Request /\ Sound(request[a])
  BY DEF Inv, ConsoleTypeOK, PutBundle
<1> DEFINE r == [request[a] EXCEPT !.todo = @ \ {x}]
<1>3. /\ r \in Request /\ r.todo = request[a].todo \ {x} /\ r.next = request[a].next
      /\ r.revision = request[a].revision /\ r.names = request[a].names /\ r.op = request[a].op
      /\ x \in Bundles
  BY <1>1, <1>2 DEF Request
<1>4. request' = [request EXCEPT ![a] = r]
  BY <1>1 DEF Inv, ConsoleTypeOK
<1> HIDE DEF r
<1>5. ConsoleTypeOK'
  BY <1>1, <1>3, <1>4 DEF Inv, ConsoleTypeOK
<1>6. NamedBundlesStored' /\ ApprovalIsInformed'
  BY <1>1 DEF Inv, NamedBundlesStored, ApprovalIsInformed
<1>7. ASSUME NEW b \in Admins, request'[b] # None PROVE Sound(request[b])'
  <2>1. CASE b = a
    <3>1. request'[b] = r
      BY <1>4, <2>1 DEF Inv, ConsoleTypeOK
    <3>2. QED
      BY <3>1, <1>1, <1>2, <1>3 DEF Sound, UpToDate
  <2>2. CASE b # a
    <3>1. request'[b] = request[b] /\ Sound(request[b])
      BY <1>4, <1>7, <2>2 DEF Inv, ConsoleTypeOK
    <3>2. QED
      BY <3>1, <1>1 DEF Sound, UpToDate
  <2>3. QED
    BY <2>1, <2>2
<1>8. QED
  BY <1>5, <1>6, <1>7 DEF Inv

(* An accepted save moves the registry to what a sound request wanted, and *)
(* makes every other request in progress stale.                            *)
LEMMA SavedKeepsInv ==
  ASSUME Inv, NEW a \in Admins, Saved(a),
         listing' \in [Admins -> [Names -> Bytes \union {None}]]
  PROVE  Inv'
<1> DEFINE r == request[a]
<1>1. /\ r \in Request /\ Sound(r) /\ r.todo = {} /\ r.revision = revision
      /\ registry' = r.next
      /\ revision' = revision + 1
      /\ reviewed' = IF r.op = "deploy" THEN {b \in reviewed : b[1] \notin r.names} ELSE reviewed
      /\ request' = [request EXCEPT ![a] = None]
      /\ bundles' = bundles
      /\ revision \in Nat /\ revision' \in 0..MaxWrites
  BY RegistryAssumption DEF Inv, ConsoleTypeOK, Saved, ReadyToSave, Matches
<1>2. UpToDate(r)
  BY <1>1 DEF Sound
<1>3. ConsoleTypeOK'
  BY <1>1 DEF Inv, ConsoleTypeOK, Request
<1>4. NamedBundlesStored'
  BY <1>1 DEF NamedBundlesStored, Sound
<1>5. ApprovalIsInformed'
  BY <1>1, <1>2 DEF ApprovalIsInformed, UpToDate
<1>6. ASSUME NEW b \in Admins, request'[b] # None PROVE Sound(request[b])'
  <2>1. request'[b] = request[b] /\ Sound(request[b]) /\ request[b] \in Request
    BY <1>1, <1>6 DEF Inv, ConsoleTypeOK
  <2>2. request[b].revision \in Nat /\ request[b].revision <= revision
    BY <2>1, RegistryAssumption DEF Sound, Request
  <2>3. request[b].revision <= revision' /\ request[b].revision # revision'
    BY <2>2, <1>1
  <2>4. QED
    BY <2>1, <2>3, <1>1 DEF Sound
<1>7. QED
  BY <1>3, <1>4, <1>5, <1>6 DEF Inv

(* A page shows the bytes of well typed entries.                           *)
LEMMA ListedType ==
  ASSUME NEW r \in Registries
  PROVE  Listed(r) \in [Names -> Bytes \union {None}]
  BY DEF Listed, Registries, Entry

(* A request that ends without a save, or a page that reloads, changes     *)
(* nothing the invariant speaks of.                                        *)
LEMMA AbandonKeepsInv ==
  ASSUME Inv, NEW a \in Admins, Load(a) \/ Conflict(a) \/ Unavailable(a)
  PROVE  Inv'
<1>1. /\ UNCHANGED <<registry, revision, bundles, reviewed>>
      /\ request' = request \/ request' = [request EXCEPT ![a] = None]
      /\ listing' \in [Admins -> [Names -> Bytes \union {None}]]
  <2>1. Listed(registry) \in [Names -> Bytes \union {None}]
    BY ListedType DEF Inv, ConsoleTypeOK
  <2>2. QED
    BY <2>1 DEF Load, Conflict, Unavailable, Inv, ConsoleTypeOK
<1>2. ConsoleTypeOK'
  BY <1>1 DEF Inv, ConsoleTypeOK
<1>3. NamedBundlesStored' /\ ApprovalIsInformed'
  BY <1>1 DEF Inv, NamedBundlesStored, ApprovalIsInformed
<1>4. ASSUME NEW b \in Admins, request'[b] # None PROVE Sound(request[b])'
  <2>1. request'[b] = request[b] /\ Sound(request[b])
    BY <1>1, <1>4 DEF Inv, ConsoleTypeOK
  <2>2. QED
    BY <2>1, <1>1 DEF Sound, UpToDate
<1>5. QED
  BY <1>2, <1>3, <1>4 DEF Inv

-----------------------------------------------------------------------------
(* Theorems                                                                *)

(* Every action keeps the invariant, for any number of administrators,     *)
(* capabilities, archives and saves.                                       *)
THEOREM InvHolds == ConsoleSpec => []Inv
<1>1. Inv /\ [\E a \in Admins : Console(a)]_consoleVars => Inv'
  <2> SUFFICES ASSUME Inv, [\E a \in Admins : Console(a)]_consoleVars PROVE Inv'
    OBVIOUS
  <2>1. CASE UNCHANGED consoleVars
    BY <2>1, StutterKeepsInv
  <2>2. ASSUME NEW a \in Admins, Console(a) PROVE Inv'
    <3>1. ASSUME NEW archive \in Archives, BeginDeploy(a, archive) PROVE Inv'
      BY <3>1, BeginDeployKeepsInv
    <3>2. ASSUME NEW n \in Names, \/ \E on \in BOOLEAN : BeginSwitch(a, n, on)
                                  \/ BeginApprove(a, n)
                                  \/ BeginRevoke(a, n)
                                  \/ BeginWithdraw(a, n)
          PROVE  Inv'
      BY <3>2, PatchKeepsInv
    <3>3. CASE PutBundle(a)
      BY <3>3, PutBundleKeepsInv
    <3>4. CASE Save(a)
      <4>1. Listed(request[a].next) \in [Names -> Bytes \union {None}]
        <5>1. request[a] \in Request
          BY <3>4 DEF Inv, ConsoleTypeOK, Save, Saved, ReadyToSave
        <5>2. QED
          BY <5>1, ListedType DEF Request
      <4>2. listing' \in [Admins -> [Names -> Bytes \union {None}]]
        BY <3>4, <4>1 DEF Save, Inv, ConsoleTypeOK
      <4>3. QED
        BY <3>4, <4>2, SavedKeepsInv DEF Save
    <3>5. CASE AnswerLost(a)
      <4>1. listing' \in [Admins -> [Names -> Bytes \union {None}]]
        BY <3>5 DEF AnswerLost, Inv, ConsoleTypeOK
      <4>2. QED
        BY <3>5, <4>1, SavedKeepsInv DEF AnswerLost
    <3>6. CASE Load(a) \/ Conflict(a) \/ Unavailable(a)
      BY <3>6, AbandonKeepsInv
    <3>7. QED
      BY <2>2, <3>1, <3>2, <3>3, <3>4, <3>5, <3>6 DEF Console
  <2>3. QED
    BY <2>1, <2>2
<1>2. QED
  BY InitEstablishesInv, <1>1, PTL DEF ConsoleSpec

(* The console and its requests are well typed.                            *)
THEOREM TypeCorrect == ConsoleSpec => []ConsoleTypeOK
<1>1. Inv => ConsoleTypeOK
  BY DEF Inv
<1>2. QED
  BY InvHolds, <1>1, PTL

(* The registry never names a bundle that is not stored.                   *)
THEOREM BundlesAlwaysStored == ConsoleSpec => []NamedBundlesStored
<1>1. Inv => NamedBundlesStored
  BY DEF Inv
<1>2. QED
  BY InvHolds, <1>1, PTL

(* An approval in the registry covers bytes that were reviewed since they  *)
(* were last deployed.                                                     *)
THEOREM ApprovalsAreInformed == ConsoleSpec => []ApprovalIsInformed
<1>1. Inv => ApprovalIsInformed
  BY DEF Inv
<1>2. QED
  BY InvHolds, <1>1, PTL

(* A save changes only what its request is about.                          *)
THEOREM SavesAreNotLost == ConsoleSpec => NoLostUpdate
<1> DEFINE Targeted == \A n \in Names : registry'[n] # registry[n] =>
                         \E a \in Admins : request[a] # None /\ request'[a] = None /\ n \in request[a].names
<1>1. Inv /\ [\E a \in Admins : Console(a)]_consoleVars => [Targeted]_consoleVars
  <2> SUFFICES ASSUME Inv, NEW a \in Admins, Console(a), NEW n \in Names, registry'[n] # registry[n]
               PROVE  request[a] # None /\ request'[a] = None /\ n \in request[a].names
    OBVIOUS
  <2>1. Saved(a)
    BY DEF Console, Load, BeginDeploy, BeginSwitch, BeginApprove, BeginRevoke, BeginWithdraw,
           Begin, PutBundle, Save, AnswerLost, Conflict, Unavailable
  <2>2. /\ request[a] # None /\ request[a].revision = revision
        /\ registry' = request[a].next
        /\ request' = [request EXCEPT ![a] = None]
    BY <2>1 DEF Saved, ReadyToSave, Matches
  <2>3. UpToDate(request[a])
    BY <2>2 DEF Inv, Sound
  <2>4. QED
    BY <2>2, <2>3 DEF UpToDate, Inv, ConsoleTypeOK
<1>2. QED
  BY InvHolds, <1>1, PTL DEF ConsoleSpec, NoLostUpdate

-----------------------------------------------------------------------------
(* The agent beside the console: its inductive invariant                   *)

(* What the registry or its cached answer makes active was made active     *)
(* once.                                                                   *)
Known(v) ==
  v \in Registries /\ \A n \in Names : Active(v[n]) => <<n, v[n].sha256>> \in offered

(* The uploaded skills of an engine for profile p are active in a registry *)
(* that was read for it.                                                   *)
SkillsWereRead(p) ==
  \A n \in Names : skills[n] \in Bytes =>
    \E r \in reads : Active(r[n]) /\ r[n].sha256 = skills[n] /\ Allows(SkillsOf, p, n)

(* The parts of an engine for profile p as one registry names them.        *)
SkillsFit(p, r) ==
  \A n \in Names \union PackagedSkills :
    skills[n] = IF n \in PackagedSkills
                THEN IF Allows(SkillsOf, p, n) THEN "packaged" ELSE None
                ELSE IF n \in Usable(r, "skill", SkillsOf, p) THEN r[n].sha256 ELSE None

ServersFit(p, r) == servers = Usable(r, "mcp_server", ServersOf, p)

PacksFit(r, names) == \A n \in names : packs[n] = r[n].sha256

ToolsFit(p, r) ==
  /\ Usable(r, "tool", ToolsOf, p) \subseteq Reachable(p)
  /\ PacksFit(r, Usable(r, "tool", ToolsOf, p))

(* As long as every read answered the registry of the fingerprint and no   *)
(* bundle was missed, the steps behind the preparation have left what that *)
(* registry names.                                                         *)
Fits(j, done) ==
  whole /\ reads = {j.registry} =>
    /\ "skills" \in done => SkillsFit(j.profile, j.registry)
    /\ "config" \in done => ServersFit(j.profile, j.registry)
    /\ "servers" \in done => PacksFit(j.registry, servers)
    /\ "tools" \in done => ToolsFit(j.profile, j.registry)

(* The steps of the preparation that are behind each phase.                *)
Done == [idle |-> {}, skills |-> {}, config |-> {"skills"}, servers |-> {"skills", "config"},
         tools |-> {"skills", "config", "servers"},
         start |-> {"skills", "config", "servers", "tools"}]

JobInv ==
  phase # "idle" =>
    /\ job.registry \in reads
    /\ Fits(job, Done[phase])
    /\ "skills" \in Done[phase] => SkillsWereRead(job.profile)

EngineInv == active # None => Fits(active, Done.start) /\ SkillsWereRead(active.profile)

PacksInv == UnpackedWasActive

AgentInv == TypeOK /\ Known(view) /\ Known(registry) /\ PacksInv /\ JobInv /\ EngineInv

-----------------------------------------------------------------------------
(* The agent's steps                                                       *)

(* The agent's part of the types.                                          *)
AgentTypeOK ==
  /\ scope \in Scopes
  /\ view \in Registries /\ failures \in 0..MaxFailures
  /\ phase \in Phases /\ job \in Fingerprint \union {None} /\ active \in Fingerprint \union {None}
  /\ phase = "idle" <=> job = None
  /\ phase # "idle" => active = None
  /\ skills \in [Names \union PackagedSkills -> Bytes \union {"packaged", None}]
  /\ servers \subseteq Names
  /\ packs \in [Names -> Bytes \union {None}]
  /\ payload \subseteq Names \union PackagedTools
  /\ views \in [Profiles -> (SUBSET (Names \union PackagedTools)) \union {All}]
  /\ reads \subseteq Registries /\ whole \in BOOLEAN /\ offered \subseteq Bundles

LEMMA TypeParts == TypeOK <=> ConsoleTypeOK /\ AgentTypeOK
BY DEF TypeOK, AgentTypeOK

(* Nothing is active in an empty registry.                                 *)
LEMMA EmptyKnown == Empty \in Registries /\ Known(Empty)
<1>1. Empty \in Registries /\ \A n \in Names : Empty[n] = None
  BY DEF Empty, Registries
<1>2. QED
  BY <1>1 DEF Known, Active

(* A read answers a registry whose active entries were made active once,   *)
(* and so does the cache afterwards.                                       *)
LEMMA ReadKnown ==
  ASSUME AgentInv, NEW v \in {view, registry, Empty}, Reads(v)
  PROVE  /\ Known(v) /\ view' = v /\ view' \in Registries /\ failures' \in 0..MaxFailures
<1>1. Known(v) /\ view' = v
  BY EmptyKnown DEF AgentInv, Reads
<1>2. failures \in 0..MaxFailures /\ MaxFailures \in Nat
  BY InstallAssumption DEF AgentInv, TypeOK
<1>3. failures' = failures \/ (failures < MaxFailures /\ failures' = failures + 1)
  BY DEF Reads
<1>4. failures' \in 0..MaxFailures
  BY <1>2, <1>3
<1>5. QED
  BY <1>1, <1>4 DEF Known

(* What a profile may use is a capability of the registry.                 *)
LEMMA UsableEntries ==
  ASSUME NEW v \in Registries, NEW kind, NEW selection, NEW p
  PROVE  /\ Usable(v, kind, selection, p) \subseteq Names
         /\ \A n \in Usable(v, kind, selection, p) :
              Active(v[n]) /\ v[n].sha256 \in Bytes /\ Allows(selection, p, n)
BY DEF Usable, Active, Registries, Entry

(* What is fetched was wanted.                                             *)
LEMMA FetchedWanted ==
  ASSUME NEW v, NEW wanted, NEW got, Fetches(v, wanted, got)
  PROVE  got \subseteq wanted
BY DEF Fetches

(* A registry that is read beside others is the only one read exactly if   *)
(* the others were it.                                                     *)
LEMMA OnlyRead ==
  ASSUME NEW v, NEW r, reads' = reads \union {v}, r \in reads, reads' = {r}
  PROVE  v = r /\ reads = {r}
OBVIOUS

(* What a step of the preparation leaves and reads.                        *)
LEMMA PreparesGives ==
  ASSUME AgentInv, NEW v \in {view, registry, Empty}, NEW from \in Phases \ {"idle"},
         NEW to \in Phases \ {"idle"}, Prepares(from, to, v)
  PROVE  /\ phase = from /\ phase' = to /\ Known(v) /\ v \in Registries
         /\ reads' = reads \union {v} /\ reads' \subseteq Registries
         /\ job \in Fingerprint /\ job' = job /\ job # None /\ job.profile \in Profiles
         /\ job.registry \in reads
         /\ active = None /\ active' = None
         /\ view' \in Registries /\ Known(view') /\ failures' \in 0..MaxFailures
         /\ UNCHANGED consoleVars
<1>1. /\ phase = from /\ phase' = to /\ Reads(v) /\ reads' = reads \union {v}
      /\ UNCHANGED <<consoleVars, job, active>>
  BY DEF Prepares
<1>2. /\ Known(v) /\ view' = v /\ view' \in Registries /\ failures' \in 0..MaxFailures
  BY <1>1, ReadKnown
<1>3. phase # "idle" /\ active = None /\ job \in Fingerprint /\ job # None
  BY <1>1 DEF AgentInv, TypeOK
<1>4. job.profile \in Profiles
  BY <1>3 DEF Fingerprint
<1>5. job.registry \in reads /\ reads \subseteq Registries
  BY <1>3 DEF AgentInv, JobInv, TypeOK
<1>6. QED
  BY <1>1, <1>2, <1>3, <1>4, <1>5 DEF Known

(* A step of the preparation that keeps the types and whose job's parts    *)
(* fit afterwards keeps the agent's invariant.                             *)
LEMMA PreparesKeeps ==
  ASSUME AgentInv, NEW v \in {view, registry, Empty}, NEW from \in Phases \ {"idle"},
         NEW to \in Phases \ {"idle"}, Prepares(from, to, v), UNCHANGED <<scope, offered>>,
         skills' \in [Names \union PackagedSkills -> Bytes \union {"packaged", None}],
         servers' \subseteq Names,
         packs' \in [Names -> Bytes \union {None}],
         payload' \subseteq Names \union PackagedTools,
         views' \in [Profiles -> (SUBSET (Names \union PackagedTools)) \union {All}],
         whole' \in BOOLEAN,
         PacksInv', Fits(job, Done[to])', SkillsWereRead(job.profile)'
  PROVE  AgentInv'
<1>1. /\ phase = from /\ phase' = to /\ reads' = reads \union {v} /\ reads' \subseteq Registries
      /\ job \in Fingerprint /\ job' = job /\ job # None /\ job.registry \in reads
      /\ active' = None
      /\ view' \in Registries /\ Known(view') /\ failures' \in 0..MaxFailures
      /\ UNCHANGED consoleVars
  BY PreparesGives
<1>2. TypeOK /\ Known(registry)
  BY DEF AgentInv
<1>3. ConsoleTypeOK'
  BY <1>1, <1>2 DEF TypeOK, ConsoleTypeOK, consoleVars
<1>4. AgentTypeOK'
  BY <1>1, <1>2 DEF TypeOK, AgentTypeOK
<1>5. registry' = registry /\ offered' = offered
  BY <1>1 DEF consoleVars
<1>6. Known(view)' /\ Known(registry)'
  BY <1>1, <1>2, <1>5 DEF Known
<1>7. JobInv'
  BY <1>1 DEF JobInv
<1>8. EngineInv'
  BY <1>1 DEF EngineInv
<1>9. TypeOK'
  BY <1>3, <1>4, TypeParts, PTL
<1>10. QED
  BY <1>6, <1>7, <1>8, <1>9 DEF AgentInv

(* The steps that are behind each phase.                                   *)
LEMMA DoneSteps ==
  /\ Done["idle"] = {} /\ Done["skills"] = {} /\ Done["config"] = {"skills"}
  /\ Done["servers"] = {"skills", "config"} /\ Done["tools"] = {"skills", "config", "servers"}
  /\ Done["start"] = {"skills", "config", "servers", "tools"}
BY DEF Done

(* The skills root is rebuilt.                                             *)
LEMMA InstallSkillsKeeps ==
  ASSUME AgentInv, InstallSkills, UNCHANGED <<scope, offered>>
  PROVE  AgentInv'
<1> DEFINE p == job.profile
           wanted(v) == Usable(v, "skill", SkillsOf, p) \ PackagedSkills
<1>0. PICK v \in {view, registry, Empty} :
        \E got \in SUBSET wanted(v) :
          /\ Prepares("skills", "config", v)
          /\ Fetches(v, wanted(v), got)
          /\ skills' = SkillsRoot(p, v, got)
          /\ whole' = (whole /\ got = wanted(v))
          /\ UNCHANGED <<servers, packs, payload, views>>
  BY DEF InstallSkills
<1>1. PICK got \in SUBSET wanted(v) :
        /\ Prepares("skills", "config", v)
        /\ Fetches(v, wanted(v), got)
        /\ skills' = SkillsRoot(p, v, got)
        /\ whole' = (whole /\ got = wanted(v))
        /\ UNCHANGED <<servers, packs, payload, views>>
  BY <1>0
<1>2. "skills" \in Phases \ {"idle"} /\ "config" \in Phases \ {"idle"}
  BY DEF Phases
<1>3. /\ Known(v) /\ v \in Registries /\ reads' = reads \union {v} /\ job' = job
      /\ job.registry \in reads
  BY <1>1, <1>2, PreparesGives
<1>4. /\ wanted(v) \subseteq Names
      /\ \A n \in wanted(v) :
           Active(v[n]) /\ v[n].sha256 \in Bytes /\ Allows(SkillsOf, p, n) /\ n \notin PackagedSkills
  BY <1>3, UsableEntries
<1>5. \A n \in Names \union PackagedSkills :
        skills'[n] = IF n \in PackagedSkills
                     THEN IF Allows(SkillsOf, p, n) THEN "packaged" ELSE None
                     ELSE IF n \in got THEN v[n].sha256 ELSE None
  BY <1>1 DEF SkillsRoot
<1>6. skills' \in [Names \union PackagedSkills -> Bytes \union {"packaged", None}]
  BY <1>1, <1>4 DEF SkillsRoot
<1>7. TypeOK /\ PacksInv
  BY DEF AgentInv
<1>8. /\ servers' \subseteq Names /\ packs' \in [Names -> Bytes \union {None}]
      /\ payload' \subseteq Names \union PackagedTools
      /\ views' \in [Profiles -> (SUBSET (Names \union PackagedTools)) \union {All}]
  BY <1>1, <1>7 DEF TypeOK
<1>9. whole' \in BOOLEAN
  BY <1>1, <1>7 DEF TypeOK
<1>10. PacksInv'
  BY <1>1, <1>7 DEF PacksInv, UnpackedWasActive
<1>11. SkillsWereRead(p)'
  <2>1. SUFFICES ASSUME NEW n \in Names, skills'[n] \in Bytes
                 PROVE  Active(v[n]) /\ v[n].sha256 = skills'[n] /\ Allows(SkillsOf, p, n)
    BY <1>3 DEF SkillsWereRead
  <2>2. "packaged" \notin Bytes /\ None \notin Bytes
    BY InstallAssumption, RegistryAssumption
  <2>3. n \in got /\ skills'[n] = v[n].sha256
    BY <1>5, <2>1, <2>2
  <2>4. QED
    BY <1>4, <2>3
<1>12. Fits(job, Done["config"])'
  <2>1. SUFFICES ASSUME whole', reads' = {job.registry} PROVE SkillsFit(p, job.registry)'
    BY <1>3, DoneSteps DEF Fits
  <2>2. v = job.registry /\ got = wanted(v)
    BY <1>1, <1>3, <2>1
  <2>3. QED
    BY <1>3, <1>5, <2>2 DEF SkillsFit
<1> HIDE DEF p, wanted
<1>13. QED
  BY <1>1, <1>2, <1>6, <1>8, <1>9, <1>10, <1>11, <1>12, PreparesKeeps DEF p

(* config.toml and the view of the tools.                                  *)
LEMMA WriteConfigKeeps ==
  ASSUME AgentInv, WriteConfig, UNCHANGED <<scope, offered>>
  PROVE  AgentInv'
<1> DEFINE p == job.profile
<1>1. PICK v \in {view, registry, Empty} :
        /\ Prepares("config", "servers", v)
        /\ servers' = Usable(v, "mcp_server", ServersOf, p)
        /\ views' = IF Restricted(p) THEN [views EXCEPT ![p] = LinkedTools(p)] ELSE views
        /\ UNCHANGED <<skills, packs, payload, whole>>
  BY DEF WriteConfig
<1>2. "config" \in Phases \ {"idle"} /\ "servers" \in Phases \ {"idle"}
  BY DEF Phases
<1>3. /\ Known(v) /\ v \in Registries /\ reads' = reads \union {v} /\ job' = job
      /\ job.registry \in reads /\ phase = "config" /\ p \in Profiles
  BY <1>1, <1>2, PreparesGives
<1>4. TypeOK /\ PacksInv /\ JobInv
  BY DEF AgentInv
<1>5. servers' \subseteq Names
  BY <1>1, <1>3, UsableEntries
<1>6. LinkedTools(p) \in (SUBSET (Names \union PackagedTools)) \union {All}
  BY <1>4 DEF LinkedTools, TypeOK
<1>7. views' \in [Profiles -> (SUBSET (Names \union PackagedTools)) \union {All}]
  BY <1>1, <1>4, <1>6 DEF TypeOK
<1>8. /\ skills' \in [Names \union PackagedSkills -> Bytes \union {"packaged", None}]
      /\ packs' \in [Names -> Bytes \union {None}]
      /\ payload' \subseteq Names \union PackagedTools /\ whole' \in BOOLEAN
  BY <1>1, <1>4 DEF TypeOK
<1>9. PacksInv'
  BY <1>1, <1>4 DEF PacksInv, UnpackedWasActive
<1>10. Fits(job, Done["config"]) /\ SkillsWereRead(p)
  BY <1>3, <1>4, DoneSteps DEF JobInv
<1>11. SkillsWereRead(p)'
  BY <1>1, <1>3, <1>10 DEF SkillsWereRead
<1>12. Fits(job, Done["servers"])'
  <2>1. SUFFICES ASSUME whole', reads' = {job.registry}
                 PROVE  SkillsFit(p, job.registry)' /\ ServersFit(p, job.registry)'
    BY <1>3, DoneSteps DEF Fits
  <2>2. v = job.registry /\ reads = {job.registry} /\ whole
    BY <1>1, <1>3, <2>1
  <2>3. SkillsFit(p, job.registry)
    BY <1>10, <2>2, DoneSteps DEF Fits
  <2>4. QED
    BY <1>1, <1>3, <2>2, <2>3 DEF SkillsFit, ServersFit
<1> HIDE DEF p
<1>13. QED
  BY <1>1, <1>2, <1>5, <1>7, <1>8, <1>9, <1>11, <1>12, PreparesKeeps DEF p

(* Unpacking keeps the types and unpacks what was made active.             *)
LEMMA UnpackedKeeps ==
  ASSUME AgentInv, NEW v \in Registries, Known(v), NEW got,
         got \subseteq Names, \A n \in got : Active(v[n]) /\ v[n].sha256 \in Bytes,
         packs' = Unpacked(v, got), offered' = offered
  PROVE  packs' \in [Names -> Bytes \union {None}] /\ PacksInv'
<1>1. packs \in [Names -> Bytes \union {None}] /\ UnpackedWasActive
  BY DEF AgentInv, TypeOK, PacksInv
<1>2. packs' \in [Names -> Bytes \union {None}]
  BY <1>1 DEF Unpacked
<1>3. \A n \in Names : packs'[n] = IF n \in got THEN v[n].sha256 ELSE packs[n]
  BY DEF Unpacked
<1>4. PacksInv'
  BY <1>1, <1>3 DEF PacksInv, UnpackedWasActive, Known
<1>5. QED
  BY <1>2, <1>4

(* Servers are unpacked.                                                   *)
LEMMA InstallServersKeeps ==
  ASSUME AgentInv, InstallServers, UNCHANGED <<scope, offered>>
  PROVE  AgentInv'
<1> DEFINE p == job.profile
           wanted(v) == Usable(v, "mcp_server", ServersOf, p)
<1>0. PICK v \in {view, registry, Empty} :
        \E got \in SUBSET wanted(v) :
          /\ Prepares("servers", "tools", v)
          /\ Fetches(v, wanted(v), got)
          /\ packs' = Unpacked(v, got)
          /\ whole' = (whole /\ got = wanted(v))
          /\ UNCHANGED <<skills, servers, payload, views>>
  BY DEF InstallServers
<1>1. PICK got \in SUBSET wanted(v) :
        /\ Prepares("servers", "tools", v)
        /\ Fetches(v, wanted(v), got)
        /\ packs' = Unpacked(v, got)
        /\ whole' = (whole /\ got = wanted(v))
        /\ UNCHANGED <<skills, servers, payload, views>>
  BY <1>0
<1>2. "servers" \in Phases \ {"idle"} /\ "tools" \in Phases \ {"idle"}
  BY DEF Phases
<1>3. /\ Known(v) /\ v \in Registries /\ reads' = reads \union {v} /\ job' = job
      /\ job.registry \in reads /\ phase = "servers" /\ p \in Profiles
  BY <1>1, <1>2, PreparesGives
<1>4. TypeOK /\ PacksInv /\ JobInv
  BY DEF AgentInv
<1>5. got \subseteq Names /\ \A n \in got : Active(v[n]) /\ v[n].sha256 \in Bytes
  BY <1>3, UsableEntries
<1>6. packs' \in [Names -> Bytes \union {None}] /\ PacksInv'
  BY <1>1, <1>3, <1>5, UnpackedKeeps
<1>7. /\ skills' \in [Names \union PackagedSkills -> Bytes \union {"packaged", None}]
      /\ servers' \subseteq Names /\ payload' \subseteq Names \union PackagedTools
      /\ views' \in [Profiles -> (SUBSET (Names \union PackagedTools)) \union {All}]
  BY <1>1, <1>4 DEF TypeOK
<1>8. whole' \in BOOLEAN
  BY <1>1, <1>4 DEF TypeOK
<1>9. Fits(job, Done["servers"]) /\ SkillsWereRead(p)
  BY <1>3, <1>4, DoneSteps DEF JobInv
<1>10. SkillsWereRead(p)'
  BY <1>1, <1>3, <1>9 DEF SkillsWereRead
<1>11. Fits(job, Done["tools"])'
  <2>1. SUFFICES ASSUME whole', reads' = {job.registry}
                 PROVE  /\ SkillsFit(p, job.registry)' /\ ServersFit(p, job.registry)'
                        /\ PacksFit(job.registry, servers)'
    BY <1>3, DoneSteps DEF Fits
  <2>2. v = job.registry /\ reads = {job.registry} /\ whole /\ got = wanted(v)
    BY <1>1, <1>3, <2>1
  <2>3. SkillsFit(p, job.registry) /\ ServersFit(p, job.registry)
    BY <1>9, <2>2, DoneSteps DEF Fits
  <2>4. SkillsFit(p, job.registry)' /\ ServersFit(p, job.registry)'
    BY <1>1, <1>3, <2>3 DEF SkillsFit, ServersFit
  <2>5. servers' = got /\ \A n \in got : packs'[n] = v[n].sha256
    BY <1>1, <1>5, <2>2, <2>3 DEF ServersFit, Unpacked
  <2>6. QED
    BY <1>3, <2>2, <2>4, <2>5 DEF PacksFit
<1> HIDE DEF p, wanted
<1>12. QED
  BY <1>1, <1>2, <1>6, <1>7, <1>8, <1>10, <1>11, PreparesKeeps DEF p

(* Tools are unpacked and a launcher is published for each.                *)
LEMMA InstallToolsKeeps ==
  ASSUME AgentInv, InstallTools, UNCHANGED <<scope, offered>>
  PROVE  AgentInv'
<1> DEFINE p == job.profile
           wanted(v) == Usable(v, "tool", ToolsOf, p)
<1>0. PICK v \in {view, registry, Empty} :
        \E got \in SUBSET wanted(v) :
          /\ Prepares("tools", "start", v)
          /\ Fetches(v, wanted(v), got)
          /\ packs' = Unpacked(v, got)
          /\ whole' = (whole /\ got = wanted(v))
          /\ payload' = IF Restricted(p) THEN payload ELSE payload \union got
          /\ views' = IF ~Restricted(p) THEN views
                      ELSE IF views[p] # All THEN [views EXCEPT ![p] = @ \union got]
                      ELSE IF wanted(v) = {} THEN views
                      ELSE [views EXCEPT ![p] = got]
          /\ UNCHANGED <<skills, servers>>
  BY DEF InstallTools
<1>1. PICK got \in SUBSET wanted(v) :
        /\ Prepares("tools", "start", v)
        /\ Fetches(v, wanted(v), got)
        /\ packs' = Unpacked(v, got)
        /\ whole' = (whole /\ got = wanted(v))
        /\ payload' = IF Restricted(p) THEN payload ELSE payload \union got
        /\ views' = IF ~Restricted(p) THEN views
                    ELSE IF views[p] # All THEN [views EXCEPT ![p] = @ \union got]
                    ELSE IF wanted(v) = {} THEN views
                    ELSE [views EXCEPT ![p] = got]
        /\ UNCHANGED <<skills, servers>>
  BY <1>0
<1>2. "tools" \in Phases \ {"idle"} /\ "start" \in Phases \ {"idle"}
  BY DEF Phases
<1>3. /\ Known(v) /\ v \in Registries /\ reads' = reads \union {v} /\ job' = job
      /\ job.registry \in reads /\ phase = "tools" /\ p \in Profiles
  BY <1>1, <1>2, PreparesGives
<1>4. TypeOK /\ PacksInv /\ JobInv
  BY DEF AgentInv
<1>5. got \subseteq Names /\ \A n \in got : Active(v[n]) /\ v[n].sha256 \in Bytes
  BY <1>3, UsableEntries
<1>6. packs' \in [Names -> Bytes \union {None}] /\ PacksInv'
  BY <1>1, <1>3, <1>5, UnpackedKeeps
<1>7. /\ skills' \in [Names \union PackagedSkills -> Bytes \union {"packaged", None}]
      /\ servers' \subseteq Names /\ payload' \subseteq Names \union PackagedTools
  BY <1>1, <1>4, <1>5 DEF TypeOK
<1>8. views \in [Profiles -> (SUBSET (Names \union PackagedTools)) \union {All}]
  BY <1>4 DEF TypeOK
<1>9. \A tools \in SUBSET (Names \union PackagedTools) : tools # All
  BY InstallAssumption
<1>10. views' \in [Profiles -> (SUBSET (Names \union PackagedTools)) \union {All}]
  <2>1. views[p] # All => views[p] \union got \in SUBSET (Names \union PackagedTools)
    BY <1>3, <1>5, <1>8
  <2>2. got \in SUBSET (Names \union PackagedTools)
    BY <1>5
  <2>3. QED
    BY <1>1, <1>3, <1>8, <2>1, <2>2
<1>11. whole' \in BOOLEAN
  BY <1>1, <1>4 DEF TypeOK
<1>12. Fits(job, Done["tools"]) /\ SkillsWereRead(p)
  BY <1>3, <1>4, DoneSteps DEF JobInv
<1>13. SkillsWereRead(p)'
  BY <1>1, <1>3, <1>12 DEF SkillsWereRead
<1>14. Fits(job, Done["start"])'
  <2>1. SUFFICES ASSUME whole', reads' = {job.registry}
                 PROVE  /\ SkillsFit(p, job.registry)' /\ ServersFit(p, job.registry)'
                        /\ PacksFit(job.registry, servers)' /\ ToolsFit(p, job.registry)'
    BY <1>3, DoneSteps DEF Fits
  <2>2. v = job.registry /\ reads = {job.registry} /\ whole /\ got = wanted(v)
    BY <1>1, <1>3, <2>1
  <2>3. SkillsFit(p, job.registry) /\ ServersFit(p, job.registry) /\ PacksFit(v, servers)
    BY <1>12, <2>2, DoneSteps DEF Fits
  <2>4. SkillsFit(p, job.registry)' /\ ServersFit(p, job.registry)'
    BY <1>1, <1>3, <2>3 DEF SkillsFit, ServersFit
  <2>5. \A n \in Names : packs'[n] = IF n \in got THEN v[n].sha256 ELSE packs[n]
    BY <1>1 DEF Unpacked
  <2>6. PacksFit(v, servers)' /\ PacksFit(v, got)'
    <3>1. servers' = servers /\ servers \subseteq Names
      BY <1>1, <1>4 DEF TypeOK
    <3>2. \A n \in servers' : packs'[n] = v[n].sha256
      BY <2>3, <2>5, <3>1 DEF PacksFit
    <3>3. \A n \in got : packs'[n] = v[n].sha256
      BY <1>5, <2>5
    <3>4. QED
      BY <3>2, <3>3 DEF PacksFit
  <2>7. got \subseteq Reachable(p)'
    <3>1. CASE ~Restricted(p)
      BY <1>1, <1>3, <3>1 DEF Reachable, Restricted
    <3>2. CASE Restricted(p) /\ views[p] # All
      <4>1. views'[p] = views[p] \union got /\ views[p] \union got \in SUBSET (Names \union PackagedTools)
        BY <1>1, <1>3, <1>5, <1>8, <3>2
      <4>2. QED
        BY <1>3, <1>9, <3>2, <4>1 DEF Reachable, Restricted
    <3>3. CASE Restricted(p) /\ views[p] = All /\ got # {}
      <4>1. views'[p] = got /\ got \in SUBSET (Names \union PackagedTools)
        BY <1>1, <1>3, <1>5, <1>8, <2>2, <3>3
      <4>2. QED
        BY <1>3, <1>9, <3>3, <4>1 DEF Reachable, Restricted
    <3>4. CASE got = {}
      BY <3>4
    <3>5. QED
      BY <3>1, <3>2, <3>3, <3>4
  <2>8. QED
    BY <1>3, <2>2, <2>4, <2>6, <2>7 DEF ToolsFit, PacksFit
<1> HIDE DEF p, wanted
<1>15. QED
  BY <1>1, <1>2, <1>6, <1>7, <1>10, <1>11, <1>13, <1>14, PreparesKeeps DEF p

-----------------------------------------------------------------------------
(* Turns, the start of the engine and its end                              *)

(* A step that leaves the home directory and what was read alone.          *)
LEMMA TurnsKeep ==
  ASSUME AgentInv, UNCHANGED <<scope, offered, registry, skills, servers, packs, payload, views>>,
         ConsoleTypeOK', view' \in {view, registry, Empty}, failures' \in 0..MaxFailures,
         phase' \in {"idle", "skills"}, active' \in Fingerprint \union {None},
         \/ /\ phase' = "idle" /\ job' = None /\ reads' = reads /\ whole' = whole
            /\ active' # None => Fits(active', Done["start"]) /\ SkillsWereRead(active'.profile)
         \/ /\ phase' = "skills" /\ job' \in Fingerprint /\ reads' = {job'.registry}
            /\ whole' = TRUE /\ active' = None
  PROVE  AgentInv'
<1>1. TypeOK /\ Known(view) /\ Known(registry) /\ Known(Empty) /\ PacksInv
  BY EmptyKnown DEF AgentInv
<1>2. None \notin Fingerprint
  BY InstallAssumption DEF Fingerprint
<1>3. job' \in Fingerprint => job'.registry \in Registries
  BY DEF Fingerprint
<1>4. AgentTypeOK'
  BY <1>1, <1>2, <1>3 DEF TypeOK, AgentTypeOK, Known, Phases
<1>5. Known(view)' /\ Known(registry)' /\ PacksInv'
  BY <1>1 DEF Known, PacksInv, UnpackedWasActive
<1>6. JobInv'
  BY DoneSteps DEF JobInv, Fits
<1>7. EngineInv'
  <2>1. CASE active' = None
    BY <2>1 DEF EngineInv
  <2>2. CASE active' # None
    <3>1. Fits(active', Done["start"]) /\ SkillsWereRead(active'.profile)
      BY <2>2
    <3>2. reads' = reads /\ whole' = whole
      BY <2>2
    <3>3. SkillsWereRead(active.profile)'
      BY <3>1, <3>2 DEF SkillsWereRead
    <3>4. Fits(active, Done["start"])'
      BY <3>1, <3>2 DEF Fits, SkillsFit, ServersFit, PacksFit, ToolsFit, Reachable
    <3>5. QED
      BY <3>3, <3>4 DEF EngineInv
  <2>3. QED
    BY <2>1, <2>2
<1>8. TypeOK'
  BY <1>4, TypeParts, PTL
<1>9. QED
  BY <1>5, <1>6, <1>7, <1>8 DEF AgentInv

(* Every step of the agent keeps its invariant.                            *)
LEMMA AgentKeeps ==
  ASSUME AgentInv, Agent, UNCHANGED <<scope, offered>>
  PROVE  AgentInv'
<1>1. TypeOK /\ EngineInv
  BY DEF AgentInv
<1>2. ASSUME UNCHANGED consoleVars PROVE ConsoleTypeOK' /\ registry' = registry
  BY <1>1, <1>2 DEF TypeOK, ConsoleTypeOK, consoleVars
<1>3. scope.profiles \subseteq Profiles
  BY <1>1, InstallAssumption DEF TypeOK
<1>4. CASE \E p \in scope.profiles : TurnKeepsEngine(p)
  <2>1. PICK v \in {view, registry, Empty} :
          /\ phase = "idle" /\ Reads(v)
          /\ UNCHANGED <<consoleVars, phase, job, active, skills, servers, packs, payload, views,
                         reads, whole>>
    BY <1>4 DEF TurnKeepsEngine
  <2>2. view' = v /\ failures' \in 0..MaxFailures
    BY <2>1, ReadKnown
  <2>3. job = None /\ active \in Fingerprint \union {None}
    BY <1>1, <2>1 DEF TypeOK
  <2>4. QED
    BY <1>1, <1>2, <2>1, <2>2, <2>3, TurnsKeep DEF EngineInv, Done
<1>5. CASE \E p \in scope.profiles : TurnPrepares(p)
  <2>1. PICK p \in scope.profiles : TurnPrepares(p)
    BY <1>5
  <2>2. PICK v \in {view, registry, Empty} :
          Reads(v) /\ job' = [profile |-> p, registry |-> v] /\ reads' = {v}
    BY <2>1 DEF TurnPrepares
  <2>3. /\ active' = None /\ whole' = TRUE /\ phase' = "skills"
        /\ UNCHANGED <<consoleVars, skills, servers, packs, payload, views>>
    BY <2>1 DEF TurnPrepares, EngineStopped
  <2>4. view' = v /\ failures' \in 0..MaxFailures /\ Known(v)
    BY <2>2, ReadKnown
  <2>5. job' \in Fingerprint /\ job'.registry = v
    BY <1>3, <2>2, <2>4 DEF Fingerprint, Known
  <2>6. QED
    BY <1>2, <2>2, <2>3, <2>4, <2>5, TurnsKeep
<1>6. CASE EngineStarts
  <2>1. /\ phase = "start" /\ active' = job /\ job' = None /\ phase' = "idle"
        /\ UNCHANGED <<consoleVars, view, failures, skills, servers, packs, payload, views, reads,
                       whole>>
    BY <1>6 DEF EngineStarts
  <2>2. job \in Fingerprint /\ Fits(job, Done["start"]) /\ SkillsWereRead(job.profile)
    BY <1>1, <2>1, DoneSteps DEF AgentInv, TypeOK, JobInv
  <2>3. failures \in 0..MaxFailures
    BY <1>1 DEF TypeOK
  <2>4. QED
    BY <1>2, <2>1, <2>2, <2>3, TurnsKeep
<1>7. CASE PreparationFails
  <2>1. /\ phase # "idle" /\ active' = active /\ job' = None /\ phase' = "idle"
        /\ UNCHANGED <<consoleVars, view, failures, skills, servers, packs, payload, views, reads,
                       whole>>
    BY <1>7 DEF PreparationFails
  <2>2. active = None /\ failures \in 0..MaxFailures
    BY <1>1, <2>1 DEF TypeOK
  <2>3. QED
    BY <1>2, <2>1, <2>2, TurnsKeep
<1>8. CASE EngineExits
  <2>1. /\ active # None /\ active' = None
        /\ UNCHANGED <<consoleVars, view, failures, phase, job, skills, servers, packs, payload,
                       views, reads, whole>>
    BY <1>8 DEF EngineExits
  <2>2. phase = "idle" /\ job = None /\ failures \in 0..MaxFailures
    BY <1>1, <2>1 DEF TypeOK
  <2>3. QED
    BY <1>2, <2>1, <2>2, TurnsKeep
<1>9. QED
  BY <1>4, <1>5, <1>6, <1>7, <1>8, InstallSkillsKeeps, WriteConfigKeeps, InstallServersKeeps,
     InstallToolsKeeps DEF Agent

-----------------------------------------------------------------------------
(* Console and agent together                                              *)

(* What a step of the console makes active is noted.                       *)
LEMMA ConsoleKeepsAgent ==
  ASSUME AgentInv, ConsoleTypeOK', UNCHANGED <<scope, agentVars>>,
         offered' = offered \union
           {<<n, registry'[n].sha256>> : n \in {n \in Names : Active(registry'[n])}}
  PROVE  AgentInv'
<1>1. TypeOK /\ Known(view) /\ PacksInv /\ JobInv /\ EngineInv
  BY DEF AgentInv
<1>2. registry' \in Registries
  BY DEF ConsoleTypeOK
<1>3. \A n \in Names : Active(registry'[n]) => registry'[n].sha256 \in Bytes
  BY <1>2 DEF Registries, Active, Entry
<1>4. offered \subseteq offered' /\ offered' \subseteq Bundles
  BY <1>1, <1>3 DEF TypeOK, Bundles
<1>5. AgentTypeOK'
  BY <1>1, <1>4 DEF TypeOK, AgentTypeOK, agentVars
<1>6. Known(view)' /\ Known(registry)' /\ PacksInv'
  BY <1>1, <1>2, <1>4 DEF Known, PacksInv, UnpackedWasActive, agentVars
<1>7. JobInv' /\ EngineInv'
  BY <1>1
  DEF JobInv, EngineInv, agentVars, Fits, SkillsWereRead, SkillsFit, ServersFit, PacksFit, ToolsFit,
      Reachable
<1>8. TypeOK'
  BY <1>5, TypeParts, PTL
<1>9. QED
  BY <1>6, <1>7, <1>8 DEF AgentInv

(* Who takes part does not change.                                         *)
LEMMA ScopeStays == Spec => [](scope \in Scopes)
<1>1. Init => scope \in Scopes
  BY DEF Init
<1>2. scope \in Scopes /\ [Next]_vars => (scope \in Scopes)'
  BY DEF Next, vars
<1>3. QED
  BY <1>1, <1>2, PTL DEF Spec

(* The agent takes no part in the console: next to it, the console does    *)
(* what it does alone, so that whatever holds of it holds here.            *)
THEOREM AgentLeavesConsole == Spec => ConsoleSpec
<1>1. Init => ConsoleInit
  BY DEF Init
<1>2. scope \in Scopes /\ [Next]_vars => [\E a \in Admins : Console(a)]_consoleVars
  <2> SUFFICES ASSUME scope \in Scopes, [Next]_vars
               PROVE  [\E a \in Admins : Console(a)]_consoleVars
    OBVIOUS
  <2>1. CASE \E a \in scope.admins : Console(a)
    BY <2>1, InstallAssumption
  <2>2. CASE Agent
    <3>1. (\E p \in scope.profiles : TurnKeepsEngine(p) \/ TurnPrepares(p)) => UNCHANGED consoleVars
      BY DEF TurnKeepsEngine, TurnPrepares
    <3>2. InstallSkills \/ WriteConfig \/ InstallServers \/ InstallTools => UNCHANGED consoleVars
      BY DEF InstallSkills, WriteConfig, InstallServers, InstallTools, Prepares
    <3>3. EngineStarts \/ PreparationFails \/ EngineExits => UNCHANGED consoleVars
      BY DEF EngineStarts, PreparationFails, EngineExits
    <3>4. QED
      BY <2>2, <3>1, <3>2, <3>3 DEF Agent
  <2>3. CASE UNCHANGED vars
    BY <2>3 DEF vars
  <2>4. QED
    BY <2>1, <2>2, <2>3 DEF Next
<1>3. QED
  BY <1>1, <1>2, ScopeStays, PTL DEF Spec, ConsoleSpec

(* Nothing is installed at first.                                          *)
LEMMA AgentInit == Init => AgentInv
<1> SUFFICES ASSUME Init PROVE AgentInv
  OBVIOUS
<1>1. ConsoleTypeOK /\ registry = Empty /\ view = Empty
  BY InitEstablishesInv DEF Init, ConsoleInit, Inv
<1>2. Known(view) /\ Known(registry) /\ view \in Registries
  BY <1>1, EmptyKnown
<1>3. /\ phase = "idle" /\ job = None /\ active = None
      /\ skills = [n \in Names \union PackagedSkills |-> None] /\ packs = [n \in Names |-> None]
      /\ views = [p \in Profiles |-> {}]
  BY DEF Init
<1>4. AgentTypeOK
  BY <1>2, <1>3, InstallAssumption DEF Init, AgentTypeOK, Phases
<1>5. PacksInv
  BY <1>3 DEF PacksInv, UnpackedWasActive
<1>6. JobInv /\ EngineInv
  BY <1>3 DEF JobInv, EngineInv
<1>7. QED
  BY <1>1, <1>2, <1>4, <1>5, <1>6, TypeParts DEF AgentInv

(* The agent's invariant holds of every state.                             *)
LEMMA AgentInvHolds == Spec => []AgentInv
<1>1. AgentInv /\ Inv' /\ [Next]_vars => AgentInv'
  <2> SUFFICES ASSUME AgentInv, Inv', [Next]_vars PROVE AgentInv'
    OBVIOUS
  <2>1. ConsoleTypeOK'
    BY DEF Inv
  <2>2. CASE Agent /\ UNCHANGED <<scope, offered>>
    BY <2>2, AgentKeeps
  <2>3. CASE UNCHANGED vars
    <3>1. /\ UNCHANGED <<scope, agentVars, offered, registry>>
      BY <2>3 DEF vars, consoleVars
    <3>2. TypeOK'
      BY <3>1, <2>1 DEF AgentInv, TypeOK, agentVars
    <3>3. QED
      BY <3>1, <3>2
      DEF AgentInv, Known, PacksInv, UnpackedWasActive, JobInv, EngineInv, agentVars, Fits,
          SkillsWereRead, SkillsFit, ServersFit, PacksFit, ToolsFit, Reachable
  <2>4. CASE /\ UNCHANGED <<scope, agentVars>>
             /\ offered' = offered \union
                  {<<n, registry'[n].sha256>> : n \in {n \in Names : Active(registry'[n])}}
    BY <2>1, <2>4, ConsoleKeepsAgent
  <2>5. QED
    BY <2>2, <2>3, <2>4 DEF Next
<1>2. Spec => []Inv
  BY AgentLeavesConsole, InvHolds, PTL
<1>3. QED
  BY <1>1, <1>2, AgentInit, PTL DEF Spec

(* An engine that was prepared from one registry offers exactly what that  *)
(* registry makes active for its profile, and no engine offers a skill     *)
(* that no registry read for it makes active.                              *)
THEOREM InstalledIsCurrentHolds == Spec => []InstalledIsCurrent
<1>1. AgentInv => InstalledIsCurrent
  <2> SUFFICES ASSUME AgentInv PROVE InstalledIsCurrent
    OBVIOUS
  <2>1. TypeOK /\ EngineInv
    BY DEF AgentInv
  <2>2. InstalledAsRead
    <3>1. SUFFICES ASSUME PreparedWhole
                   PROVE  /\ SkillsFit(active.profile, active.registry)
                          /\ ServersFit(active.profile, active.registry)
                          /\ PacksFit(active.registry, servers)
                          /\ ToolsFit(active.profile, active.registry)
      BY DEF InstalledAsRead, SkillsFit, ServersFit, PacksFit, ToolsFit
    <3>2. QED
      BY <2>1, <3>1 DEF PreparedWhole, EngineInv, Fits, Done
  <2>3. NothingWithdrawnStays
    BY <2>1 DEF NothingWithdrawnStays, EngineInv, SkillsWereRead
  <2>4. QED
    BY <2>1, <2>2, <2>3 DEF InstalledIsCurrent
<1>2. QED
  BY <1>1, AgentInvHolds, PTL

(* Bytes that were never enabled and approved in the registry are never    *)
(* unpacked, whatever the cache answers and whichever reads fail.          *)
THEOREM UnpackedWasActiveHolds == Spec => []UnpackedWasActive
<1>1. AgentInv => UnpackedWasActive
  BY DEF AgentInv, PacksInv
<1>2. QED
  BY <1>1, AgentInvHolds, PTL

=============================================================================
