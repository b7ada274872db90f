-------------------------- MODULE AdminStoreProofs --------------------------
(***************************************************************************)
(* Theorems about AdminStore for every number of administrators, rows,     *)
(* edits and writes: the types, that nobody overwrites what they have not  *)
(* seen, and that a save that is answered as done has stored what was sent.*)
(***************************************************************************)
EXTENDS AdminStore, TLAPS

-----------------------------------------------------------------------------
(* The inductive invariant                                                 *)

(* What was read of the document: a state it had, and while the number of  *)
(* writes is the same, the one it has.                                     *)
IsSeen(s) ==
  \/ s = Unread
  \/ s.count <= stored.count /\ (s.count = stored.count => s.rows = stored.rows)

(* A page shows what it loaded, but for drafts that a refresh kept; the    *)
(* policy it shows is what its author has seen.                            *)
PageInv(a) ==
  /\ IsSeen(page[a].loaded)
  /\ document \in {"models", "commands"} =>
       \A r \in Rows \ page[a].kept : page[a].base[r] = page[a].loaded.rows[r]
  /\ document = "policy" =>
       page[a].shown = page[a].base /\ \A r \in Rows : page[a].base[r] \in {0, 1}

Asking == {"sent"} \cup Writing

(* A request carries the revision of its page, or of what its route read,  *)
(* and read the document no earlier than that.                             *)
CallInv(a) ==
  /\ IsSeen(call[a].read) /\ IsSeen(call[a].expected)
  /\ Step(a) \in Asking /\ document # "credentials" => call[a].expected = page[a].loaded
  /\ Step(a) \in Writing /\ document = "credentials" => call[a].expected = call[a].read
  /\ Step(a) \in Writing => call[a].expected.count <= call[a].read.count
  /\ document = "policy" =>
       /\ call[a].value \in {0, 1} /\ \A r \in Rows : call[a].read.rows[r] \in {0, 1}
       /\ Step(a) \in Asking => call[a].value = 1 - page[a].base[call[a].row]

(* As long as no other save got between, the document is as it was read    *)
(* and compared, and the temporary file is this save's.                    *)
AloneInv(a) ==
  /\ Step(a) \in {"checked", "temporary"} => store = "file"
  /\ Uncrossed(a) /\ Step(a) \in Writing => call[a].read = stored
  /\ Uncrossed(a) /\ Step(a) \in {"checked", "temporary"} => Passes(a)
  /\ Uncrossed(a) /\ Step(a) = "temporary" => temp # Unread /\ temp.rows = Body(a)

StoreInv ==
  /\ document \in Documents /\ store \in Stores /\ stored.count > 0
  /\ document = "policy" => \A r \in Rows : stored.rows[r] \in {0, 1} /\ temp.rows[r] \in {0, 1}

Inv == TypeOK /\ StoreInv /\ \A a \in Admins : PageInv(a) /\ CallInv(a) /\ AloneInv(a)

-----------------------------------------------------------------------------
(* Pages and requests as records                                           *)

(* The parts of the types that the steps below use.                        *)
LEMMA Typed ==
  ASSUME TypeOK
  PROVE  /\ stored \in Snapshot /\ temp \in Snapshot /\ edits \in 0..Edits
         /\ page \in [Admins -> Page] /\ call \in [Admins -> Call]
BY DEF TypeOK

(* The rows of what is stored, shown and sent are functions.               *)
LEMMA EmptyTyped ==
  /\ Empty \in [Rows -> Values] /\ Unread \in Snapshot /\ Missing \in Snapshot
  /\ Secret \in Rows /\ Edits \in Nat /\ 0 \in Values
  /\ EmptyPage \in Page /\ NoCall \in Call
<1>1. Secret \in Rows /\ Edits \in Nat /\ 0 \in Values
  BY AdminConstants DEF Values
<1>2. Empty \in [Rows -> Values]
  BY <1>1 DEF Empty
<1>3. Unread \in Snapshot /\ Missing \in Snapshot
  BY <1>2 DEF Unread, Missing, Snapshot
<1>4. EmptyPage \in Page
  BY <1>2, <1>3 DEF EmptyPage, Page
<1>5. NoCall \in Call
  BY <1>1, <1>2, <1>3 DEF NoCall, Call
<1>6. QED
  BY <1>1, <1>2, <1>3, <1>4, <1>5

(* The fields of a page.                                                   *)
LEMMA PageFields ==
  ASSUME NEW p \in Page
  PROVE  /\ p.shown \in [Rows -> Values] /\ p.dirty \subseteq Rows
         /\ p.loaded \in Snapshot /\ p.loaded.rows \in [Rows -> Values] /\ p.loaded.count \in Nat
         /\ p.base \in [Rows -> Values] /\ p.kept \subseteq Rows
BY DEF Page, Snapshot

(* The fields of a request.                                                *)
LEMMA CallFields ==
  ASSUME NEW m \in Call
  PROVE  /\ m.row \in Rows /\ m.value \in Values /\ m.whole \in [Rows -> Values]
         /\ m.dirty \subseteq Rows /\ m.crossed \in BOOLEAN
         /\ m.expected \in Snapshot /\ m.expected.count \in Nat
         /\ m.expected.rows \in [Rows -> Values]
         /\ m.read \in Snapshot /\ m.read.count \in Nat /\ m.read.rows \in [Rows -> Values]
BY DEF Call, Snapshot

Steps == {"idle", "sent", "read", "checked", "temporary", "written", "fetch", "merge",
          "load", "show"}

(* A request that takes a step.                                            *)
LEMMA AtFields ==
  ASSUME call \in [Admins -> Call], NEW a \in Admins, NEW s \in Steps, At(a, s)
  PROVE  /\ call' \in [Admins -> Call]
         /\ \A b \in Admins \ {a} : call'[b] = call[b]
         /\ call'[a].step = s
         /\ call'[a].row = call[a].row /\ call'[a].value = call[a].value
         /\ call'[a].whole = call[a].whole /\ call'[a].dirty = call[a].dirty
         /\ call'[a].expected = call[a].expected /\ call'[a].read = call[a].read
         /\ call'[a].crossed = call[a].crossed
<1>1. call[a] \in Call
  OBVIOUS
<1>2. call' = [call EXCEPT ![a] = [call[a] EXCEPT !.step = s]]
  BY DEF At
<1>3. [call[a] EXCEPT !.step = s] \in Call
  BY <1>1 DEF Call, Steps
<1>4. /\ call' \in [Admins -> Call]
      /\ \A b \in Admins \ {a} : call'[b] = call[b]
      /\ call'[a] = [call[a] EXCEPT !.step = s]
  BY <1>2, <1>3
<1>5. QED
  BY <1>1, <1>4 DEF Call

(* A save that gets through takes a step, and the others that have read    *)
(* the document know that it was crossed.                                  *)
LEMMA CrossesFields ==
  ASSUME call \in [Admins -> Call], NEW a \in Admins, NEW s \in Steps, Crosses(a, s)
  PROVE  /\ call' \in [Admins -> Call]
         /\ call'[a].step = s
         /\ call'[a].crossed = call[a].crossed
         /\ \A b \in Admins :
              /\ b # a => call'[b].step = call[b].step
              /\ b # a => (call'[b].crossed <=> call[b].crossed \/ Step(b) \in Writing)
              /\ call'[b].row = call[b].row /\ call'[b].value = call[b].value
              /\ call'[b].whole = call[b].whole /\ call'[b].dirty = call[b].dirty
              /\ call'[b].expected = call[b].expected /\ call'[b].read = call[b].read
<1>1. \A b \in Admins : call[b] \in Call
  OBVIOUS
<1>2. /\ call'[a] = [call[a] EXCEPT !.step = s]
      /\ \A b \in Admins \ {a} :
           call'[b] = [call[b] EXCEPT !.crossed = @ \/ Step(b) \in Writing]
  BY DEF Crosses
<1>3. /\ call'[a] \in Call
      /\ call'[a].step = s
      /\ call'[a].row = call[a].row /\ call'[a].value = call[a].value
      /\ call'[a].whole = call[a].whole /\ call'[a].dirty = call[a].dirty
      /\ call'[a].expected = call[a].expected /\ call'[a].read = call[a].read
      /\ call'[a].crossed = call[a].crossed
  BY <1>1, <1>2 DEF Call, Steps
<1>4. ASSUME NEW b \in Admins \ {a}
      PROVE  /\ call'[b] \in Call
             /\ call'[b].step = call[b].step
             /\ call'[b].crossed <=> call[b].crossed \/ Step(b) \in Writing
             /\ call'[b].row = call[b].row /\ call'[b].value = call[b].value
             /\ call'[b].whole = call[b].whole /\ call'[b].dirty = call[b].dirty
             /\ call'[b].expected = call[b].expected /\ call'[b].read = call[b].read
  <2> DEFINE x == call[b].crossed \/ Step(b) \in Writing
  <2>1. x \in BOOLEAN /\ call[b] \in Call
    BY <1>1
  <2>2. call'[b] = [call[b] EXCEPT !.crossed = x]
    BY <1>2
  <2>3. x <=> call[b].crossed \/ Step(b) \in Writing
    OBVIOUS
  <2> HIDE DEF x
  <2>4. /\ call'[b] \in Call
        /\ call'[b].step = call[b].step /\ call'[b].crossed = x
        /\ call'[b].row = call[b].row /\ call'[b].value = call[b].value
        /\ call'[b].whole = call[b].whole /\ call'[b].dirty = call[b].dirty
        /\ call'[b].expected = call[b].expected /\ call'[b].read = call[b].read
    BY <2>1, <2>2 DEF Call
  <2>5. QED
    BY <2>3, <2>4
<1>5. call' \in [Admins -> Call]
  <2>1. call' = [b \in Admins |-> call'[b]]
    BY DEF Crosses
  <2>2. QED
    BY <2>1, <1>3, <1>4
<1>6. QED
  BY <1>3, <1>4, <1>5

(* The request of a save.                                                  *)
SentRequest(r, v, w, d, e) ==
  [NoCall EXCEPT !.step = "sent", !.row = r, !.value = v, !.whole = w,
                 !.dirty = d, !.expected = e]

SentTyped(g, r, v, e) ==
  /\ g \in Call /\ g.step = "sent" /\ g.row = r /\ g.value = v
  /\ g.expected = e /\ g.read = Unread /\ g.crossed = FALSE

(* It has the fields that the save sets.                                   *)
LEMMA SentFields ==
  ASSUME NEW r \in Rows, NEW v \in Values, NEW w \in [Rows -> Values],
         NEW d, d \subseteq Rows, NEW e \in Snapshot
  PROVE  SentTyped(SentRequest(r, v, w, d, e), r, v, e)
<1> DEFINE m == NoCall
<1>1. m \in Call /\ m.read = Unread /\ m.crossed = FALSE
  BY EmptyTyped DEF NoCall
<1> DEFINE g == [m EXCEPT !.step = "sent", !.row = r, !.value = v, !.whole = w,
                          !.dirty = d, !.expected = e]
<1>2. SentRequest(r, v, w, d, e) = g
  BY DEF SentRequest
<1> HIDE DEF m
<1>3. g \in Call
  BY <1>1 DEF Call
<1>4. g.step = "sent" /\ g.row = r /\ g.value = v /\ g.expected = e
  BY <1>1 DEF Call
<1>5. g.read = m.read /\ g.crossed = m.crossed
  BY <1>1 DEF Call
<1> HIDE DEF g
<1>6. QED
  BY <1>1, <1>2, <1>3, <1>4, <1>5 DEF SentTyped

(* A request that is sent.                                                 *)
LEMMA SendsFields ==
  ASSUME TypeOK, NEW a \in Admins, NEW r \in Rows, NEW v \in Values, NEW d, d \subseteq Rows,
         NEW e \in Snapshot, Sends(a, r, v, d, e)
  PROVE  /\ call' \in [Admins -> Call]
         /\ \A b \in Admins \ {a} : call'[b] = call[b]
         /\ call'[a].step = "sent" /\ call'[a].row = r /\ call'[a].value = v
         /\ call'[a].expected = e /\ call'[a].read = Unread /\ call'[a].crossed = FALSE
         /\ UNCHANGED <<document, store, stored, temp, page>>
<1>1. call \in [Admins -> Call] /\ page[a].shown \in [Rows -> Values]
  BY Typed, PageFields
<1> DEFINE w == page[a].shown
           g == SentRequest(r, v, w, d, e)
<1>w. w \in [Rows -> Values]
  BY <1>1
<1> HIDE DEF w
<1>2. /\ g \in Call /\ g.step = "sent" /\ g.row = r /\ g.value = v
      /\ g.expected = e /\ g.read = Unread /\ g.crossed = FALSE
  <2> HIDE DEF g
  <2>1. SentTyped(g, r, v, e)
    BY <1>w, SentFields DEF g
  <2>2. QED
    BY <2>1 DEF SentTyped
<1>3. call' = [call EXCEPT ![a] = g] /\ UNCHANGED <<document, store, stored, temp, page>>
  BY Zenon DEF Sends, SentRequest, w
<1> HIDE DEF g
<1>4. QED
  BY <1>1, <1>2, <1>3

(* What a save writes is a document.                                       *)
LEMMA BodyTyped ==
  ASSUME TypeOK, NEW a \in Admins
  PROVE  Body(a) \in [Rows -> Values]
<1>1. call[a] \in Call
  BY Typed
<1>2. /\ call[a].read.rows \in [Rows -> Values] /\ call[a].whole \in [Rows -> Values]
      /\ call[a].value \in Values
  BY <1>1, CallFields
<1>3. QED
  BY <1>2 DEF Body

(* The body of a save does not change while it is on its way.              *)
LEMMA BodySame ==
  ASSUME NEW a \in Admins, document' = document,
         call'[a].read = call[a].read, call'[a].row = call[a].row,
         call'[a].value = call[a].value, call'[a].whole = call[a].whole,
         call'[a].dirty = call[a].dirty
  PROVE  Body(a)' = Body(a)
BY DEF Body

-----------------------------------------------------------------------------
(* What a step leaves of those it does not concern                         *)

(* The document is left alone or written once more.                        *)
Counts == stored' = stored \/ stored'.count = stored.count + 1

(* What was seen before a step was seen after it.                          *)
LEMMA SeenKept ==
  ASSUME NEW s \in Snapshot, IsSeen(s), Counts, stored \in Snapshot
  PROVE  IsSeen(s)'
<1>1. s.count \in Nat /\ stored.count \in Nat
  BY DEF Snapshot
<1>2. QED
  BY <1>1 DEF IsSeen, Counts

(* What a route reads, it has seen.                                        *)
LEMMA StoredSeen == stored \in Snapshot => IsSeen(stored)
BY DEF Snapshot, IsSeen

(* Administrator b, whose page and request a step leaves alone, but for    *)
(* the note that another save got through.                                 *)
Aside(b) ==
  /\ page'[b] = page[b] /\ document' = document /\ store' = store
  /\ call'[b].step = call[b].step
  /\ call'[b].row = call[b].row /\ call'[b].value = call[b].value
  /\ call'[b].whole = call[b].whole /\ call'[b].dirty = call[b].dirty
  /\ call'[b].expected = call[b].expected /\ call'[b].read = call[b].read
  /\ \/ stored' = stored /\ temp' = temp /\ (call'[b].crossed <=> call[b].crossed)
     \/ call'[b].crossed <=> call[b].crossed \/ Step(b) \in Writing

(* What holds of such an administrator goes on to hold.                    *)
LEMMA AsideKept ==
  ASSUME TypeOK, NEW b \in Admins, Aside(b), Counts,
         PageInv(b), CallInv(b), AloneInv(b)
  PROVE  PageInv(b)' /\ CallInv(b)' /\ AloneInv(b)'
<1>1. page[b] \in Page /\ call[b] \in Call /\ stored \in Snapshot
  BY Typed
<1>2. page[b].loaded \in Snapshot /\ call[b].read \in Snapshot /\ call[b].expected \in Snapshot
  BY <1>1, PageFields, CallFields
<1>3. IsSeen(page[b].loaded)' /\ IsSeen(call[b].read)' /\ IsSeen(call[b].expected)'
  <2>1. ASSUME NEW s \in Snapshot, IsSeen(s) PROVE IsSeen(s)'
    BY <2>1, <1>1, SeenKept
  <2>2. /\ page'[b].loaded = page[b].loaded /\ call'[b].read = call[b].read
        /\ call'[b].expected = call[b].expected
    BY DEF Aside
  <2>3. /\ \E s \in Snapshot : s = page[b].loaded /\ IsSeen(s)
        /\ \E s \in Snapshot : s = call[b].read /\ IsSeen(s)
        /\ \E s \in Snapshot : s = call[b].expected /\ IsSeen(s)
    BY <1>2 DEF PageInv, CallInv
  <2>4. /\ \E s \in Snapshot : s = page[b].loaded /\ IsSeen(s)'
        /\ \E s \in Snapshot : s = call[b].read /\ IsSeen(s)'
        /\ \E s \in Snapshot : s = call[b].expected /\ IsSeen(s)'
    BY <2>1, <2>3
  <2>5. QED
    BY <2>2, <2>4 DEF IsSeen
<1>4. PageInv(b)'
  BY <1>3 DEF PageInv, Aside
<1>5. CallInv(b)'
  BY <1>3 DEF CallInv, Aside, Step, Asking, Writing
<1>6. AloneInv(b)'
  <2>1. Step(b)' = Step(b) /\ store' = store
    BY DEF Step, Aside
  <2>2. CASE ~Uncrossed(b)'
    BY <2>1, <2>2 DEF AloneInv
  <2>3. CASE Uncrossed(b)' /\ Step(b) \notin Writing
    BY <2>1, <2>3 DEF AloneInv, Writing
  <2>4. CASE Uncrossed(b)' /\ Step(b) \in Writing
    <3>1. stored' = stored /\ temp' = temp /\ Uncrossed(b)
      BY <2>4 DEF Aside, Uncrossed
    <3>2. Body(b)' = Body(b)
      BY BodySame DEF Aside
    <3>3. Passes(b)' <=> Passes(b)
      BY <3>1 DEF Passes, SameRevision, Aside
    <3>4. QED
      BY <2>1, <3>1, <3>2, <3>3 DEF AloneInv, Aside
  <2>5. QED
    BY <2>2, <2>3, <2>4
<1>7. QED
  BY <1>4, <1>5, <1>6

-----------------------------------------------------------------------------
(* Steps that leave the document alone                                     *)

(* What holds of an administrator.                                         *)
Own(a) == PageInv(a) /\ CallInv(a) /\ AloneInv(a)

(* A step of one administrator's page and request.                         *)
Quiet(a) ==
  /\ UNCHANGED <<document, store, stored, temp>> /\ edits' \in 0..Edits
  /\ page' \in [Admins -> Page] /\ call' \in [Admins -> Call]
  /\ \A b \in Admins \ {a} : page'[b] = page[b] /\ call'[b] = call[b]

(* It concerns nobody else.                                                *)
LEMMA QuietKept ==
  ASSUME Inv, NEW a \in Admins, Quiet(a), Own(a)'
  PROVE  Inv'
<1>1. TypeOK
  BY DEF Inv
<1>2. TypeOK'
  BY <1>1 DEF TypeOK, Quiet
<1>3. StoreInv'
  BY DEF Inv, StoreInv, Quiet
<1>4. ASSUME NEW b \in Admins \ {a} PROVE Own(b)'
  <2>1. page'[b] = page[b] /\ call'[b] = call[b]
    BY DEF Quiet
  <2>2. Aside(b) /\ Counts
    BY <2>1 DEF Aside, Counts, Quiet
  <2>3. PageInv(b) /\ CallInv(b) /\ AloneInv(b)
    BY DEF Inv
  <2>4. QED
    BY <1>1, <2>2, <2>3, AsideKept DEF Own
<1>5. QED
  BY <1>2, <1>3, <1>4 DEF Inv, Own

(* What is seen of a document that is left alone.                          *)
LEMMA SeenSame ==
  ASSUME stored' = stored
  PROVE  \A s : IsSeen(s) => IsSeen(s)'
BY DEF IsSeen

(* A request at a step at which nothing is asked of the document.          *)
LEMMA RestKept ==
  ASSUME Inv, NEW a \in Admins, NEW s \in Steps \ Asking, At(a, s), edits' \in 0..Edits,
         UNCHANGED <<document, store, stored, temp>>,
         page' \in [Admins -> Page], \A b \in Admins \ {a} : page'[b] = page[b],
         PageInv(a)'
  PROVE  Inv'
<1>1. TypeOK /\ CallInv(a)
  BY DEF Inv
<1>2. call \in [Admins -> Call]
  BY <1>1, Typed
<1>3. /\ call' \in [Admins -> Call] /\ \A b \in Admins \ {a} : call'[b] = call[b]
      /\ call'[a].step = s /\ call'[a].value = call[a].value
      /\ call'[a].expected = call[a].expected /\ call'[a].read = call[a].read
  BY <1>2, AtFields
<1>4. Quiet(a)
  BY <1>3 DEF Quiet
<1>5. Step(a)' \notin Asking
  BY <1>3 DEF Step
<1>6. IsSeen(call[a].read)' /\ IsSeen(call[a].expected)'
  BY <1>1, <1>3, SeenSame DEF CallInv, IsSeen
<1>7. CallInv(a)'
  BY <1>1, <1>3, <1>5, <1>6 DEF CallInv, Asking
<1>8. AloneInv(a)'
  BY <1>5 DEF AloneInv, Asking, Writing
<1>9. QED
  BY <1>4, <1>7, <1>8, QuietKept DEF Own

(* A page that is left alone.                                              *)
LEMMA PageSame ==
  ASSUME Inv, NEW a \in Admins, page'[a] = page[a], document' = document, Counts
  PROVE  PageInv(a)'
<1>1. PageInv(a) /\ page[a] \in Page /\ stored \in Snapshot
  BY Typed DEF Inv
<1>2. IsSeen(page[a].loaded)'
  <2>1. page[a].loaded \in Snapshot /\ page'[a].loaded = page[a].loaded
    BY <1>1, PageFields
  <2>2. \E s \in Snapshot : s = page[a].loaded /\ IsSeen(s)
    BY <1>1, <2>1 DEF PageInv
  <2>3. \E s \in Snapshot : s = page[a].loaded /\ IsSeen(s)'
    BY <1>1, <2>2, SeenKept
  <2>4. QED
    BY <2>1, <2>3 DEF IsSeen
<1>3. QED
  BY <1>1, <1>2 DEF PageInv

(* A request that fails.                                                   *)
LEMMA FailKept ==
  ASSUME Inv, NEW a \in Admins, At(a, "idle"),
         UNCHANGED <<document, store, stored, temp, page, edits>>
  PROVE  Inv'
<1>1. TypeOK
  BY DEF Inv
<1>2. page \in [Admins -> Page] /\ edits \in 0..Edits
  BY <1>1, Typed
<1>3. PageInv(a)'
  BY PageSame DEF Counts
<1>4. "idle" \in Steps \ Asking
  BY DEF Steps, Asking, Writing
<1>5. QED
  BY <1>2, <1>3, <1>4, RestKept

(* A page that is opened anew.                                             *)
LEMMA ReloadKept ==
  ASSUME Inv, NEW a \in Admins, Reload(a)
  PROVE  Inv'
<1>1. TypeOK
  BY DEF Inv
<1>2. page \in [Admins -> Page] /\ edits \in 0..Edits /\ EmptyPage \in Page
  BY <1>1, Typed, EmptyTyped
<1>3. /\ page' = [page EXCEPT ![a] = EmptyPage] /\ At(a, "load")
      /\ UNCHANGED <<document, store, stored, temp, edits>>
  BY DEF Reload
<1>4. /\ page' \in [Admins -> Page] /\ page'[a] = EmptyPage
      /\ \A b \in Admins \ {a} : page'[b] = page[b]
  BY <1>2, <1>3
<1>5. /\ EmptyPage.loaded = Unread /\ EmptyPage.shown = Empty /\ EmptyPage.base = Empty
      /\ Unread.rows = Empty /\ \A r \in Rows : Empty[r] = 0
  BY DEF EmptyPage, Unread, Empty
<1>6. PageInv(a)'
  BY <1>4, <1>5 DEF PageInv, IsSeen
<1>7. "load" \in Steps \ Asking
  BY DEF Steps, Asking, Writing
<1>8. QED
  BY <1>2, <1>3, <1>4, <1>6, <1>7, RestKept

(* A row that is typed.                                                    *)
LEMMA TypeKept ==
  ASSUME Inv, NEW a \in Admins, NEW r \in Rows, Type(a, r)
  PROVE  Inv'
<1>1. TypeOK
  BY DEF Inv
<1>2. /\ page \in [Admins -> Page] /\ call \in [Admins -> Call]
      /\ edits \in 0..Edits /\ Edits \in Nat
  BY <1>1, Typed, EmptyTyped
<1>3. /\ edits + 1 \in 0..Edits /\ edits + 1 \in Values /\ edits' = edits + 1
      /\ document # "policy" /\ UNCHANGED <<document, store, stored, temp, call>>
  BY <1>2 DEF Type, Values
<1> DEFINE p == page[a]
           v == edits + 1
           sh == [p.shown EXCEPT ![r] = v]
           di == p.dirty \cup {r}
<1>4. p \in Page /\ v \in Values /\ sh \in [Rows -> Values] /\ di \subseteq Rows
  BY <1>2, <1>3, PageFields
<1>5. page' = [page EXCEPT ![a].shown = sh, ![a].dirty = di]
  BY Zenon DEF Type
<1> HIDE DEF v, sh, di
<1>6. page' = [page EXCEPT ![a] = [p EXCEPT !.shown = sh, !.dirty = di]]
  BY <1>5, <1>2
<1> HIDE DEF p
<1> DEFINE q == [p EXCEPT !.shown = sh, !.dirty = di]
<1>7. q \in Page /\ q.loaded = p.loaded /\ q.base = p.base /\ q.kept = p.kept
  BY <1>4 DEF Page
<1> HIDE DEF q
<1>8. /\ page' \in [Admins -> Page] /\ \A b \in Admins \ {a} : page'[b] = page[b]
      /\ page'[a] = q
  BY <1>2, <1>6, <1>7 DEF q
<1>9. Quiet(a)
  BY <1>2, <1>3, <1>8 DEF Quiet
<1>10. /\ page'[a].loaded = page[a].loaded /\ page'[a].base = page[a].base
       /\ page'[a].kept = page[a].kept
  BY <1>7, <1>8 DEF p
<1>11. PageInv(a) /\ CallInv(a) /\ AloneInv(a)
  BY DEF Inv
<1>12. PageInv(a)'
  BY <1>3, <1>10, <1>11 DEF PageInv, IsSeen
<1>13. CallInv(a)' /\ AloneInv(a)'
  BY <1>3, <1>10, <1>11
  DEF CallInv, AloneInv, IsSeen, Step, Uncrossed, Passes, SameRevision, Body
<1>14. QED
  BY <1>9, <1>12, <1>13, QuietKept DEF Own

(* A request that is sent with the revision of its page.                   *)
LEMMA SendsKept ==
  ASSUME Inv, NEW a \in Admins, NEW r \in Rows, NEW v \in Values,
         NEW d, d \subseteq Rows, NEW e, Sends(a, r, v, d, e), edits' \in 0..Edits,
         e = IF document = "credentials" THEN Unread ELSE page[a].loaded,
         document = "policy" => v = 1 - page[a].base[r]
  PROVE  Inv'
<1>1. TypeOK /\ PageInv(a)
  BY DEF Inv
<1>2. page \in [Admins -> Page] /\ Unread \in Snapshot
  BY <1>1, Typed, EmptyTyped
<1>3. page[a].loaded \in Snapshot
  BY <1>2, PageFields
<1>4. e \in Snapshot
  BY <1>2, <1>3
<1>5. /\ call' \in [Admins -> Call]
      /\ \A b \in Admins \ {a} : call'[b] = call[b]
      /\ call'[a].step = "sent" /\ call'[a].row = r /\ call'[a].value = v
      /\ call'[a].expected = e /\ call'[a].read = Unread /\ call'[a].crossed = FALSE
      /\ UNCHANGED <<document, store, stored, temp, page>>
  BY <1>1, <1>4, SendsFields
<1>6. Quiet(a)
  BY <1>2, <1>5 DEF Quiet
<1>7. PageInv(a)'
  BY <1>5, PageSame DEF Counts
<1>8. Step(a)' = "sent" /\ Step(a)' \notin Writing
  BY <1>5 DEF Step, Writing
<1>9. AloneInv(a)'
  BY <1>8 DEF AloneInv, Writing
<1>10. CallInv(a)'
  <2>1. IsSeen(call[a].read)'
    BY <1>5 DEF IsSeen
  <2>2. IsSeen(call[a].expected)'
    BY <1>1, <1>5 DEF IsSeen, PageInv
  <2>3. document = "policy" => v \in {0, 1}
    BY <1>1 DEF PageInv
  <2>4. \A x \in Rows : Unread.rows[x] = 0
    BY DEF Unread, Empty
  <2>5. QED
    BY <1>5, <1>8, <2>1, <2>2, <2>3, <2>4 DEF CallInv
<1>11. QED
  BY <1>6, <1>7, <1>9, <1>10, QuietKept DEF Own

(* Each of the saves sends such a request.                                 *)
LEMMA SavesKept ==
  ASSUME Inv, NEW a \in Admins,
         \/ SaveWhole(a)
         \/ \E r \in Rows : SaveCommand(a, r) \/ DeleteCommand(a, r) \/ TogglePackagedSkill(a, r)
         \/ \E r \in Rows : \E action \in {"rotate", "clear"} : ChangeCredential(a, r, action)
  PROVE  Inv'
<1>1. TypeOK /\ PageInv(a)
  BY DEF Inv
<1>2. page \in [Admins -> Page] /\ edits \in 0..Edits
  BY <1>1, Typed
<1>3. /\ page[a].shown \in [Rows -> Values] /\ page[a].dirty \subseteq Rows
      /\ 0 \in Values /\ Secret \in Rows /\ Edits \in Nat
  BY <1>2, PageFields, EmptyTyped
<1>4. CASE SaveWhole(a)
  <2>1. Sends(a, Secret, 0, page[a].dirty, page[a].loaded) /\ document = "models" /\ edits' = edits
    BY <1>4 DEF SaveWhole
  <2>2. QED
    BY <1>2, <1>3, <2>1, SendsKept
<1>5. ASSUME NEW r \in Rows, SaveCommand(a, r) PROVE Inv'
  <2> DEFINE v == page[a].shown[r]
             d == page[a].dirty \ {r}
  <2>1. v \in Values /\ d \subseteq Rows
    BY <1>3
  <2>2. Sends(a, r, v, d, page[a].loaded) /\ document = "commands" /\ edits' = edits
    BY <1>5 DEF SaveCommand
  <2> HIDE DEF v, d
  <2>3. QED
    BY <1>2, <2>1, <2>2, SendsKept
<1>6. ASSUME NEW r \in Rows, DeleteCommand(a, r) PROVE Inv'
  <2> DEFINE d == page[a].dirty \ {r}
  <2>1. d \subseteq Rows
    BY <1>3
  <2>2. Sends(a, r, 0, d, page[a].loaded) /\ document = "commands" /\ edits' = edits
    BY <1>6 DEF DeleteCommand
  <2> HIDE DEF d
  <2>3. QED
    BY <1>2, <1>3, <2>1, <2>2, SendsKept
<1>7. ASSUME NEW r \in Rows, TogglePackagedSkill(a, r) PROVE Inv'
  <2> DEFINE v == 1 - page[a].shown[r]
  <2>1. document = "policy" /\ edits < Edits /\ edits' = edits + 1
    BY <1>7 DEF TogglePackagedSkill
  <2>2. page[a].shown[r] = page[a].base[r] /\ page[a].shown[r] \in {0, 1}
    BY <1>1, <2>1 DEF PageInv
  <2>3. v \in Values /\ v = 1 - page[a].base[r] /\ edits' \in 0..Edits
    BY <1>2, <1>3, <2>1, <2>2 DEF Values
  <2>4. Sends(a, r, v, {}, page[a].loaded)
    BY <1>7 DEF TogglePackagedSkill
  <2> HIDE DEF v
  <2>5. QED
    BY <2>1, <2>3, <2>4, SendsKept
<1>8. ASSUME NEW r \in Rows, NEW action \in {"rotate", "clear"}, ChangeCredential(a, r, action)
      PROVE  Inv'
  <2> DEFINE v == IF action = "rotate" THEN edits + 1 ELSE 0
  <2>1. document = "credentials" /\ edits < Edits /\ edits' = edits + 1
    BY <1>8 DEF ChangeCredential
  <2>2. v \in Values /\ edits' \in 0..Edits
    BY <1>2, <1>3, <2>1 DEF Values
  <2>3. Sends(a, r, v, {}, Unread)
    BY <1>8 DEF ChangeCredential
  <2> HIDE DEF v
  <2>4. QED
    BY <2>1, <2>2, <2>3, SendsKept
<1>9. QED
  BY <1>4, <1>5, <1>6, <1>7, <1>8

(* A route that reads the document, or refuses a delete of nothing.        *)
LEMMA ReadKept ==
  ASSUME Inv, NEW a \in Admins, Read(a)
  PROVE  Inv'
<1>1. TypeOK /\ PageInv(a) /\ CallInv(a) /\ StoreInv
  BY DEF Inv
<1>2. /\ page \in [Admins -> Page] /\ edits \in 0..Edits /\ stored \in Snapshot
      /\ call[a] \in Call /\ call \in [Admins -> Call]
  BY <1>1, Typed
<1>3. Step(a) = "sent" /\ UNCHANGED <<document, store, stored, temp, page, edits>>
  BY DEF Read
<1>4. CASE At(a, "idle")
  BY <1>3, <1>4, FailKept
<1>5. CASE ~At(a, "idle")
  <2> DEFINE e == IF document = "credentials" THEN stored ELSE call[a].expected
             m == call[a]
  <2>1. call' = [call EXCEPT ![a].step = "read", ![a].read = stored, ![a].expected = e]
    BY <1>5, Zenon DEF Read
  <2>2. e \in Snapshot /\ m \in Call
    BY <1>2, CallFields
  <2> HIDE DEF e
  <2>3. call' = [call EXCEPT ![a] = [m EXCEPT !.step = "read", !.read = stored, !.expected = e]]
    BY <1>2, <2>1
  <2> HIDE DEF m
  <2> DEFINE g == [m EXCEPT !.step = "read", !.read = stored, !.expected = e]
  <2>4. /\ g \in Call /\ g.step = "read" /\ g.read = stored /\ g.expected = e
        /\ g.value = m.value /\ g.row = m.row /\ g.crossed = m.crossed
    BY <1>2, <2>2 DEF Call
  <2> HIDE DEF g
  <2>5. /\ call' \in [Admins -> Call] /\ call'[a] = g
        /\ \A b \in Admins \ {a} : call'[b] = call[b]
    BY <1>2, <2>3, <2>4 DEF g
  <2>6. Quiet(a)
    BY <1>2, <1>3, <2>5 DEF Quiet
  <2>7. PageInv(a)'
    BY <1>3, PageSame DEF Counts
  <2>8. IsSeen(stored) /\ IsSeen(call[a].expected)
    BY <1>1, <1>2, StoredSeen DEF CallInv
  <2>9. IsSeen(e)
    BY <2>8 DEF e
  <2>10. IsSeen(call[a].read)' /\ IsSeen(call[a].expected)'
    BY <1>3, <2>4, <2>5, <2>8, <2>9 DEF IsSeen
  <2>11. e.count <= stored.count
    BY <1>2, <2>9 DEF IsSeen, Unread, Snapshot
  <2>12. Step(a)' = "read" /\ "read" \in Writing /\ "read" \in Asking /\ "sent" \in Asking
    BY <2>4, <2>5 DEF Step, Writing, Asking
  <2>13. document # "credentials" => e = page[a].loaded
    BY <1>1, <1>3, <2>12 DEF CallInv, e
  <2>14. document = "credentials" => e = stored
    BY DEF e
  <2>15. CallInv(a)'
    <3>1. document = "policy" =>
            /\ call[a].value \in {0, 1} /\ call[a].value = 1 - page[a].base[call[a].row]
            /\ \A r \in Rows : stored.rows[r] \in {0, 1}
      BY <1>1, <1>3, <2>12 DEF CallInv, StoreInv
    <3>2. call'[a].value = call[a].value /\ call'[a].row = call[a].row
      BY <2>4, <2>5 DEF m
    <3>3. QED
      BY <1>3, <2>4, <2>5, <2>10, <2>11, <2>13, <2>14, <3>1, <3>2 DEF CallInv
  <2>16. AloneInv(a)'
    BY <1>3, <2>4, <2>5, <2>12 DEF AloneInv
  <2>17. QED
    BY <2>6, <2>7, <2>15, <2>16, QuietKept DEF Own
<1>6. QED
  BY <1>4, <1>5

(* A file is compared.                                                     *)
LEMMA CompareKept ==
  ASSUME Inv, NEW a \in Admins, CompareFile(a)
  PROVE  Inv'
<1>1. TypeOK /\ PageInv(a) /\ CallInv(a) /\ AloneInv(a)
  BY DEF Inv
<1>2. /\ page \in [Admins -> Page] /\ edits \in 0..Edits /\ call \in [Admins -> Call]
  BY <1>1, Typed
<1>3. /\ store = "file" /\ Step(a) = "read"
      /\ UNCHANGED <<document, store, stored, temp, page, edits>>
  BY DEF CompareFile
<1>4. CASE ~Passes(a)
  <2>1. At(a, "idle")
    BY <1>4 DEF CompareFile
  <2>2. QED
    BY <1>3, <2>1, FailKept
<1>5. CASE Passes(a)
  <2>1. At(a, "checked") /\ "checked" \in Steps
    BY <1>5 DEF CompareFile, Steps
  <2>2. /\ call' \in [Admins -> Call] /\ \A b \in Admins \ {a} : call'[b] = call[b]
        /\ call'[a].step = "checked"
        /\ call'[a].row = call[a].row /\ call'[a].value = call[a].value
        /\ call'[a].expected = call[a].expected /\ call'[a].read = call[a].read
        /\ call'[a].crossed = call[a].crossed
    BY <1>2, <2>1, AtFields
  <2>3. Quiet(a)
    BY <1>2, <1>3, <2>2 DEF Quiet
  <2>4. PageInv(a)'
    BY <1>3, PageSame DEF Counts
  <2>5. /\ Step(a) \in Writing /\ Step(a) \in Asking
        /\ Step(a)' = "checked"
    BY <1>3, <2>2 DEF Step, Writing, Asking
  <2>6. IsSeen(call[a].read)' /\ IsSeen(call[a].expected)'
    BY <1>1, <1>3, <2>2 DEF CallInv, IsSeen
  <2>7. CallInv(a)'
    BY <1>1, <1>3, <2>2, <2>5, <2>6 DEF CallInv
  <2>8. Passes(a)'
    BY <1>3, <1>5, <2>2 DEF Passes, SameRevision
  <2>9. AloneInv(a)'
    BY <1>1, <1>3, <2>2, <2>5, <2>8 DEF AloneInv, Uncrossed
  <2>10. QED
    BY <2>3, <2>4, <2>7, <2>9, QuietKept DEF Own
<1>6. QED
  BY <1>4, <1>5

-----------------------------------------------------------------------------
(* Steps of a save that gets through                                       *)

(* The body of a save of the policy is a policy.                           *)
LEMMA BodyPolicy ==
  ASSUME Inv, NEW a \in Admins, document = "policy"
  PROVE  \A r \in Rows : Body(a)[r] \in {0, 1}
<1>1. TypeOK /\ CallInv(a)
  BY DEF Inv
<1>2. call[a] \in Call
  BY <1>1, Typed
<1>3. call[a].read.rows \in [Rows -> Values]
  BY <1>2, CallFields
<1>4. call[a].value \in {0, 1} /\ \A r \in Rows : call[a].read.rows[r] \in {0, 1}
  BY <1>1 DEF CallInv
<1>5. Body(a) = [call[a].read.rows EXCEPT ![call[a].row] = call[a].value]
  BY DEF Body
<1>6. QED
  BY <1>3, <1>4, <1>5

(* The others see that they were crossed, and hold what they held.         *)
LEMMA CrossKept ==
  ASSUME Inv, NEW a \in Admins, NEW s \in Steps \ {"sent"}, Crosses(a, s), Counts,
         UNCHANGED <<document, store, page, edits>>,
         stored' \in Snapshot, temp' \in Snapshot, StoreInv', AloneInv(a)',
         s \in Writing => Step(a) \in Writing
  PROVE  Inv'
<1>1. TypeOK /\ CallInv(a)
  BY DEF Inv
<1>2. /\ page \in [Admins -> Page] /\ edits \in 0..Edits /\ call \in [Admins -> Call]
      /\ stored \in Snapshot /\ call[a] \in Call
  BY <1>1, Typed
<1>3. /\ call' \in [Admins -> Call] /\ call'[a].step = s
      /\ \A b \in Admins :
           /\ b # a => call'[b].step = call[b].step
           /\ b # a => (call'[b].crossed <=> call[b].crossed \/ Step(b) \in Writing)
           /\ call'[b].row = call[b].row /\ call'[b].value = call[b].value
           /\ call'[b].whole = call[b].whole /\ call'[b].dirty = call[b].dirty
           /\ call'[b].expected = call[b].expected /\ call'[b].read = call[b].read
  BY <1>2, CrossesFields
<1>4. TypeOK'
  BY <1>2, <1>3 DEF TypeOK, StoreInv
<1>5. ASSUME NEW b \in Admins \ {a} PROVE Own(b)'
  <2>1. Aside(b)
    BY <1>3 DEF Aside
  <2>2. PageInv(b) /\ CallInv(b) /\ AloneInv(b)
    BY DEF Inv
  <2>3. QED
    BY <1>1, <2>1, <2>2, AsideKept DEF Own
<1>6. PageInv(a)'
  BY PageSame
<1>7. IsSeen(call[a].read)' /\ IsSeen(call[a].expected)'
  <2>1. call[a].read \in Snapshot /\ call[a].expected \in Snapshot
    BY <1>2, CallFields
  <2>2. /\ \E x \in Snapshot : x = call[a].read /\ IsSeen(x)
        /\ \E x \in Snapshot : x = call[a].expected /\ IsSeen(x)
    BY <1>1, <2>1 DEF CallInv
  <2>3. /\ \E x \in Snapshot : x = call[a].read /\ IsSeen(x)'
        /\ \E x \in Snapshot : x = call[a].expected /\ IsSeen(x)'
    BY <1>2, <2>2, SeenKept
  <2>4. QED
    BY <1>3, <2>3 DEF IsSeen
<1>8. CallInv(a)'
  <2>1. Step(a)' = s
    BY <1>3 DEF Step
  <2>2. s \in Asking => Step(a) \in Writing /\ Step(a) \in Asking
    BY DEF Asking
  <2>3. s \in Writing => Step(a) \in Writing
    OBVIOUS
  <2>4. QED
    BY <1>1, <1>3, <1>7, <2>1, <2>2, <2>3 DEF CallInv
<1>9. QED
  BY <1>4, <1>5, <1>6, <1>8 DEF Inv, Own

(* A blob is compared and replaced.                                        *)
LEMMA WriteBlobKept ==
  ASSUME Inv, NEW a \in Admins, WriteBlob(a)
  PROVE  Inv'
<1>1. TypeOK /\ StoreInv
  BY DEF Inv
<1>2. stored \in Snapshot /\ temp \in Snapshot /\ Body(a) \in [Rows -> Values]
  BY <1>1, Typed, BodyTyped
<1>3. UNCHANGED <<document, store, temp, page, edits>>
  BY DEF WriteBlob
<1>4. CASE ~Passes(a)
  <2>1. At(a, "idle") /\ UNCHANGED stored
    BY <1>4 DEF WriteBlob
  <2>2. QED
    BY <1>3, <2>1, FailKept
<1>5. CASE Passes(a)
  <2>1. stored' = [rows |-> Body(a), count |-> stored.count + 1] /\ Crosses(a, "written")
    BY <1>5 DEF WriteBlob
  <2>2. stored.count \in Nat
    BY <1>2 DEF Snapshot
  <2>3. stored' \in Snapshot /\ stored'.rows = Body(a) /\ stored'.count = stored.count + 1
    BY <1>2, <2>1, <2>2 DEF Snapshot
  <2>4. StoreInv'
    BY <1>1, <1>3, <2>2, <2>3, BodyPolicy DEF StoreInv
  <2>5. call \in [Admins -> Call] /\ "written" \in Steps \ {"sent"} /\ "written" \notin Writing
    BY <1>1, Typed DEF Steps, Writing
  <2>6. call'[a].step = "written"
    BY <2>1, <2>5, CrossesFields
  <2>7. AloneInv(a)'
    BY <2>6 DEF AloneInv, Step, Writing
  <2>8. QED
    BY <1>2, <1>3, <2>1, <2>3, <2>4, <2>5, <2>7, CrossKept DEF Counts
<1>6. QED
  BY <1>4, <1>5

(* A temporary file is written.                                            *)
LEMMA WriteTemporaryKept ==
  ASSUME Inv, NEW a \in Admins, WriteTemporary(a)
  PROVE  Inv'
<1>1. TypeOK /\ StoreInv /\ AloneInv(a)
  BY DEF Inv
<1>2. /\ stored \in Snapshot /\ temp \in Snapshot /\ Body(a) \in [Rows -> Values]
      /\ call \in [Admins -> Call]
  BY <1>1, Typed, BodyTyped
<1>3. /\ Step(a) = "checked" /\ UNCHANGED <<document, store, stored, page, edits>>
      /\ temp' = [rows |-> Body(a), count |-> stored.count + 1]
      /\ Crosses(a, "temporary")
  BY DEF WriteTemporary
<1>4. stored.count \in Nat
  BY <1>2 DEF Snapshot
<1>5. temp' \in Snapshot /\ temp'.rows = Body(a) /\ temp'.count = stored.count + 1
  BY <1>2, <1>3, <1>4 DEF Snapshot
<1>6. StoreInv'
  BY <1>1, <1>3, <1>5, BodyPolicy DEF StoreInv
<1>7. /\ "temporary" \in Steps \ {"sent"} /\ Step(a) \in Writing
  BY <1>3 DEF Steps, Writing
<1>8. /\ call'[a].step = "temporary" /\ call'[a].crossed = call[a].crossed
      /\ call'[a].row = call[a].row /\ call'[a].value = call[a].value
      /\ call'[a].whole = call[a].whole /\ call'[a].dirty = call[a].dirty
      /\ call'[a].expected = call[a].expected /\ call'[a].read = call[a].read
  BY <1>2, <1>3, <1>7, CrossesFields
<1>9. AloneInv(a)'
  <2>1. Body(a)' = Body(a)
    BY <1>3, <1>8, BodySame
  <2>2. Passes(a)' <=> Passes(a)
    BY <1>3, <1>8 DEF Passes, SameRevision
  <2>3. temp' # Unread
    BY <1>4, <1>5 DEF Unread
  <2>4. Step(a)' = "temporary" /\ (Uncrossed(a)' <=> Uncrossed(a))
    BY <1>8 DEF Step, Uncrossed
  <2>5. QED
    BY <1>1, <1>3, <1>5, <1>7, <1>8, <2>1, <2>2, <2>3, <2>4 DEF AloneInv
<1>10. QED
  BY <1>2, <1>3, <1>5, <1>6, <1>7, <1>9, CrossKept DEF Counts

(* The temporary file takes the document's place.                          *)
LEMMA RenameKept ==
  ASSUME Inv, NEW a \in Admins, RenameTemporary(a)
  PROVE  Inv'
<1>1. TypeOK /\ StoreInv
  BY DEF Inv
<1>2. stored \in Snapshot /\ temp \in Snapshot /\ call \in [Admins -> Call]
  BY <1>1, Typed
<1>3. UNCHANGED <<document, store, page, edits>>
  BY DEF RenameTemporary
<1>4. CASE temp = Unread
  <2>1. At(a, "idle") /\ UNCHANGED <<stored, temp>>
    BY <1>4 DEF RenameTemporary
  <2>2. QED
    BY <1>3, <2>1, FailKept
<1>5. CASE temp # Unread
  <2>1. /\ stored' = [temp EXCEPT !.count = stored.count + 1] /\ temp' = Unread
        /\ Crosses(a, "written")
    BY <1>5 DEF RenameTemporary
  <2>2. stored.count \in Nat
    BY <1>2 DEF Snapshot
  <2>3. stored' \in Snapshot /\ stored'.rows = temp.rows /\ stored'.count = stored.count + 1
    BY <1>2, <2>1, <2>2 DEF Snapshot
  <2>4. temp' \in Snapshot /\ \A r \in Rows : temp'.rows[r] = 0
    BY <2>1, EmptyTyped DEF Unread, Empty
  <2>5. StoreInv'
    BY <1>1, <1>3, <2>2, <2>3, <2>4 DEF StoreInv
  <2>6. "written" \in Steps \ {"sent"} /\ "written" \notin Writing
    BY DEF Steps, Writing
  <2>7. call'[a].step = "written"
    BY <1>2, <2>1, <2>6, CrossesFields
  <2>8. AloneInv(a)'
    BY <2>7 DEF AloneInv, Step, Writing
  <2>9. QED
    BY <1>2, <1>3, <2>1, <2>3, <2>4, <2>5, <2>6, <2>8, CrossKept DEF Counts
<1>6. QED
  BY <1>4, <1>5

-----------------------------------------------------------------------------
(* What the page does with the answer                                      *)

(* A page that changes together with a request that comes to rest.         *)
LEMMA PageKept ==
  ASSUME Inv, NEW a \in Admins, NEW s \in Steps \ Asking, At(a, s),
         NEW q \in Page, page' = [page EXCEPT ![a] = q],
         UNCHANGED <<document, store, stored, temp, edits>>,
         IsSeen(q.loaded),
         document \in {"models", "commands"} =>
           \A r \in Rows \ q.kept : q.base[r] = q.loaded.rows[r],
         document = "policy" => q.shown = q.base /\ \A r \in Rows : q.base[r] \in {0, 1}
  PROVE  Inv'
<1>1. TypeOK
  BY DEF Inv
<1>2. page \in [Admins -> Page] /\ edits \in 0..Edits
  BY <1>1, Typed
<1>3. /\ page' \in [Admins -> Page] /\ page'[a] = q
      /\ \A b \in Admins \ {a} : page'[b] = page[b]
  BY <1>2
<1>4. PageInv(a)'
  BY <1>3 DEF PageInv, IsSeen
<1>5. QED
  BY <1>2, <1>3, <1>4, RestKept

(* A save that is answered.                                                *)
LEMMA AnsweredKept ==
  ASSUME Inv, NEW a \in Admins, Answered(a)
  PROVE  Inv'
<1>1. TypeOK /\ PageInv(a)
  BY DEF Inv
<1>2. /\ page \in [Admins -> Page] /\ page[a] \in Page /\ call[a] \in Call
      /\ stored \in Snapshot /\ edits \in 0..Edits
  BY <1>1, Typed
<1>3. UNCHANGED <<document, store, stored, temp, edits>>
  BY DEF Answered
<1>4. {"idle", "load", "fetch"} \subseteq Steps \ Asking
  BY DEF Steps, Asking, Writing
<1> DEFINE p == page[a]
           body == Body(a)
           d == call[a].dirty
<1>5. p \in Page /\ body \in [Rows -> Values] /\ d \subseteq Rows
  BY <1>1, <1>2, BodyTyped, CallFields
<1>6. CASE document = "commands"
  <2>1. page' = [page EXCEPT ![a].dirty = d] /\ At(a, "fetch")
    BY <1>6 DEF Answered
  <2> HIDE DEF d
  <2>2. page' = [page EXCEPT ![a] = [p EXCEPT !.dirty = d]]
    BY <1>2, <2>1
  <2>3. PageInv(a) <=> /\ IsSeen(p.loaded)
                       /\ \A r \in Rows \ p.kept : p.base[r] = p.loaded.rows[r]
    BY <1>6 DEF PageInv
  <2> HIDE DEF p
  <2> DEFINE q == [p EXCEPT !.dirty = d]
  <2>4. q \in Page /\ q.loaded = p.loaded /\ q.base = p.base /\ q.kept = p.kept
    BY <1>5 DEF Page
  <2> HIDE DEF q
  <2>5. /\ IsSeen(q.loaded) /\ \A r \in Rows \ q.kept : q.base[r] = q.loaded.rows[r]
        /\ page' = [page EXCEPT ![a] = q] /\ q \in Page
    BY <1>1, <2>2, <2>3, <2>4 DEF q
  <2>6. QED
    BY <1>3, <1>4, <1>6, <2>1, <2>5, PageKept
<1>7. CASE document = "policy"
  <2>1. /\ page' = [page EXCEPT ![a].shown = body, ![a].base = body, ![a].loaded = stored]
        /\ At(a, "load")
    BY <1>7 DEF Answered
  <2>2. IsSeen(stored) /\ \A r \in Rows : body[r] \in {0, 1}
    BY <1>2, <1>7, StoredSeen, BodyPolicy
  <2> HIDE DEF body
  <2>3. page' = [page EXCEPT ![a] = [p EXCEPT !.shown = body, !.base = body, !.loaded = stored]]
    BY <1>2, <2>1
  <2> HIDE DEF p
  <2> DEFINE q == [p EXCEPT !.shown = body, !.base = body, !.loaded = stored]
  <2>4. q \in Page /\ q.shown = body /\ q.base = body /\ q.loaded = stored
    BY <1>2, <1>5 DEF Page
  <2> HIDE DEF q
  <2>5. /\ IsSeen(q.loaded) /\ q.shown = q.base /\ \A r \in Rows : q.base[r] \in {0, 1}
        /\ page' = [page EXCEPT ![a] = q] /\ q \in Page
    BY <2>2, <2>3, <2>4 DEF q
  <2>6. QED
    BY <1>3, <1>4, <1>7, <2>1, <2>5, PageKept
<1>8. CASE document = "models"
  <2>1. UNCHANGED page /\ At(a, "load")
    BY <1>8 DEF Answered
  <2>2. PageInv(a)'
    BY <1>3, <2>1, PageSame DEF Counts
  <2>3. QED
    BY <1>2, <1>3, <1>4, <2>1, <2>2, RestKept
<1>9. CASE document = "credentials"
  <2>1. page' = [page EXCEPT ![a].shown = body] /\ At(a, "idle")
    BY <1>9 DEF Answered
  <2>2. IsSeen(p.loaded)
    BY <1>1 DEF PageInv
  <2> HIDE DEF body
  <2>3. page' = [page EXCEPT ![a] = [p EXCEPT !.shown = body]]
    BY <1>2, <2>1
  <2> HIDE DEF p
  <2> DEFINE q == [p EXCEPT !.shown = body]
  <2>4. q \in Page /\ q.loaded = p.loaded
    BY <1>5 DEF Page
  <2> HIDE DEF q
  <2>5. IsSeen(q.loaded) /\ page' = [page EXCEPT ![a] = q] /\ q \in Page
    BY <2>2, <2>3, <2>4 DEF q
  <2>6. QED
    BY <1>3, <1>4, <1>9, <2>1, <2>5, PageKept
<1>10. document \in {"commands", "policy", "models", "credentials"}
  BY AdminConstants DEF Inv, StoreInv
<1>11. QED
  BY <1>6, <1>7, <1>8, <1>9, <1>10

(* A list that is fetched.                                                 *)
LEMMA FetchedKept ==
  ASSUME Inv, NEW a \in Admins, Fetched(a)
  PROVE  Inv'
<1>1. TypeOK /\ CallInv(a) /\ StoreInv
  BY DEF Inv
<1>2. /\ page \in [Admins -> Page] /\ edits \in 0..Edits /\ stored \in Snapshot
      /\ call[a] \in Call /\ call \in [Admins -> Call]
  BY <1>1, Typed
<1>3. UNCHANGED <<document, store, stored, temp, page, edits>>
  BY DEF Fetched
<1> DEFINE m == call[a]
           s == IF m.step = "fetch" THEN "merge" ELSE "show"
           g == [m EXCEPT !.step = s, !.read = stored]
<1>4. call' = [call EXCEPT ![a].step = s, ![a].read = stored]
  BY Zenon DEF Fetched
<1>5. s \in Steps /\ s \notin Asking
  BY DEF Steps, Asking, Writing
<1> HIDE DEF s
<1>6. call' = [call EXCEPT ![a] = [m EXCEPT !.step = s, !.read = stored]]
  BY <1>2, <1>4
<1>7. m \in Call
  BY <1>2
<1> HIDE DEF m
<1>8. /\ g \in Call /\ g.step = s /\ g.read = stored /\ g.expected = m.expected
      /\ g.value = m.value
  BY <1>2, <1>5, <1>7 DEF Call, Steps
<1> HIDE DEF g
<1>9. /\ call' \in [Admins -> Call] /\ call'[a] = g
      /\ \A b \in Admins \ {a} : call'[b] = call[b]
  BY <1>2, <1>6, <1>8 DEF g
<1>10. Quiet(a)
  BY <1>2, <1>3, <1>9 DEF Quiet
<1>11. PageInv(a)'
  BY <1>3, PageSame DEF Counts
<1>12. Step(a)' \notin Asking
  BY <1>5, <1>8, <1>9 DEF Step
<1>13. AloneInv(a)'
  BY <1>12 DEF AloneInv, Asking, Writing
<1>14. CallInv(a)'
  <2>1. IsSeen(stored)
    BY <1>2, StoredSeen
  <2>2. IsSeen(m.expected) /\ (document = "policy" => m.value \in {0, 1})
    BY <1>1 DEF CallInv, m
  <2>3. IsSeen(call[a].read)' /\ IsSeen(call[a].expected)'
    BY <1>3, <1>8, <1>9, <2>1, <2>2 DEF IsSeen
  <2>4. QED
    BY <1>1, <1>3, <1>8, <1>9, <1>12, <2>2, <2>3 DEF CallInv, StoreInv, Asking
<1>15. QED
  BY <1>10, <1>11, <1>13, <1>14, QuietKept DEF Own

(* A fetched list is merged with the drafts.                               *)
LEMMA MergeKept ==
  ASSUME Inv, NEW a \in Admins, Merge(a)
  PROVE  Inv'
<1>1. TypeOK /\ PageInv(a) /\ CallInv(a)
  BY DEF Inv
<1>2. page \in [Admins -> Page] /\ page[a] \in Page /\ call[a] \in Call
  BY <1>1, Typed
<1> DEFINE p == page[a]
           lo == call[a].read
           server == lo.rows
           drafts == call[a].dirty
           sh == [r \in Rows |-> IF r \in drafts THEN p.shown[r] ELSE server[r]]
           ba == [r \in Rows |-> IF r \in drafts THEN p.base[r] ELSE server[r]]
           ke == {r \in drafts : server[r] # p.base[r]}
<1>3. /\ page' = [page EXCEPT ![a].shown = sh, ![a].base = ba, ![a].kept = ke, ![a].loaded = lo]
      /\ At(a, "idle") /\ UNCHANGED <<document, store, stored, temp, edits>>
  BY Zenon DEF Merge
<1>4. lo \in Snapshot /\ server \in [Rows -> Values] /\ drafts \subseteq Rows
  BY <1>2, CallFields
<1>5. p \in Page /\ p.shown \in [Rows -> Values] /\ p.base \in [Rows -> Values]
  BY <1>2, PageFields
<1>6. sh \in [Rows -> Values] /\ ba \in [Rows -> Values] /\ ke \subseteq Rows
  BY <1>4, <1>5
<1>7. IsSeen(lo) /\ \A r \in Rows \ ke : ba[r] = lo.rows[r]
  BY <1>1 DEF CallInv
<1>8. document = "policy" => sh = ba /\ \A r \in Rows : ba[r] \in {0, 1}
  BY <1>1 DEF CallInv, PageInv
<1> HIDE DEF lo, sh, ba, ke
<1>9. page' = [page EXCEPT ![a] = [p EXCEPT !.shown = sh, !.base = ba, !.kept = ke, !.loaded = lo]]
  BY <1>2, <1>3
<1> HIDE DEF p
<1> DEFINE q == [p EXCEPT !.shown = sh, !.base = ba, !.kept = ke, !.loaded = lo]
<1>10. q \in Page
  BY <1>4, <1>5, <1>6 DEF Page
<1>11. q.shown = sh /\ q.base = ba /\ q.kept = ke /\ q.loaded = lo
  BY <1>5 DEF Page
<1> HIDE DEF q
<1>12. page' = [page EXCEPT ![a] = q]
  BY <1>9 DEF q
<1>13. /\ IsSeen(q.loaded)
       /\ \A r \in Rows \ q.kept : q.base[r] = q.loaded.rows[r]
       /\ document = "policy" => q.shown = q.base /\ \A r \in Rows : q.base[r] \in {0, 1}
  BY <1>7, <1>8, <1>11
<1>14. "idle" \in Steps \ Asking
  BY DEF Steps, Asking, Writing
<1>15. QED
  BY <1>3, <1>10, <1>12, <1>13, <1>14, PageKept

(* A fetched list is shown.                                                *)
LEMMA ShowKept ==
  ASSUME Inv, NEW a \in Admins, Show(a)
  PROVE  Inv'
<1>1. TypeOK /\ CallInv(a)
  BY DEF Inv
<1>2. call[a] \in Call
  BY <1>1, Typed
<1> DEFINE s == call[a].read
           sh == IF document = "models" THEN [s.rows EXCEPT ![Secret] = 0] ELSE s.rows
           q == [EmptyPage EXCEPT !.shown = sh, !.base = s.rows, !.loaded = s]
<1>3. /\ page' = [page EXCEPT ![a] = q] /\ At(a, "idle")
      /\ UNCHANGED <<document, store, stored, temp, edits>>
  BY Zenon DEF Show
<1>4. s \in Snapshot /\ s.rows \in [Rows -> Values]
  BY <1>2, CallFields
<1>5. sh \in [Rows -> Values] /\ (document # "models" => sh = s.rows)
  BY <1>4, EmptyTyped
<1>6. IsSeen(s) /\ (document = "policy" => \A r \in Rows : s.rows[r] \in {0, 1})
  BY <1>1 DEF CallInv
<1> HIDE DEF s, sh
<1>7. EmptyPage \in Page
  BY EmptyTyped
<1>8. q \in Page /\ q.shown = sh /\ q.base = s.rows /\ q.loaded = s
  BY <1>4, <1>5, <1>7 DEF Page
<1> HIDE DEF q
<1>9. /\ IsSeen(q.loaded)
      /\ \A r \in Rows \ q.kept : q.base[r] = q.loaded.rows[r]
      /\ document = "policy" => q.shown = q.base /\ \A r \in Rows : q.base[r] \in {0, 1}
  BY <1>5, <1>6, <1>8
<1>10. "idle" \in Steps \ Asking
  BY DEF Steps, Asking, Writing
<1>11. QED
  BY <1>3, <1>8, <1>9, <1>10, PageKept

-----------------------------------------------------------------------------
(* The invariant                                                           *)

(* A step of one administrator.                                            *)
Doing(a) ==
  \/ \E r \in Rows :
       \/ Type(a, r) \/ SaveCommand(a, r) \/ DeleteCommand(a, r) \/ TogglePackagedSkill(a, r)
       \/ \E action \in {"rotate", "clear"} : ChangeCredential(a, r, action)
  \/ SaveWhole(a) \/ Reload(a) \/ Handle(a) \/ Fail(a)

(* It holds at the start.                                                  *)
LEMMA InvInit == Init => Inv
<1> SUFFICES ASSUME Init PROVE Inv
  OBVIOUS
<1>1. /\ document \in Documents /\ store \in Stores
      /\ stored = Missing /\ temp = Unread /\ edits = 0
      /\ page = [a \in Admins |-> EmptyPage]
  BY DEF Init
<1>2. /\ Missing \in Snapshot /\ Unread \in Snapshot /\ EmptyPage \in Page /\ NoCall \in Call
      /\ Edits \in Nat
  BY EmptyTyped
<1>3. /\ Missing.count = 1 /\ Unread.rows = Empty
      /\ \A r \in Rows : Missing.rows[r] = 0 /\ Unread.rows[r] = 0 /\ Empty[r] = 0
      /\ EmptyPage.loaded = Unread /\ EmptyPage.shown = Empty /\ EmptyPage.base = Empty
  BY DEF Missing, Unread, Empty, EmptyPage
<1> DEFINE n == NoCall
           g == [n EXCEPT !.step = "load"]
<1>4. call = [a \in Admins |-> g]
  BY DEF Init
<1>5. n \in Call /\ n.expected = Unread /\ n.read = Unread /\ n.value = 0
  BY <1>2 DEF NoCall
<1> HIDE DEF n
<1>6. /\ g \in Call /\ g.step = "load" /\ g.expected = Unread /\ g.read = Unread /\ g.value = 0
  <2>1. g \in Call
    BY <1>5 DEF Call
  <2>2. g.step = "load" /\ g.expected = n.expected /\ g.read = n.read /\ g.value = n.value
    BY <1>5 DEF Call
  <2>3. QED
    BY <1>5, <2>1, <2>2
<1> HIDE DEF g
<1>7. TypeOK
  BY <1>1, <1>2, <1>3, <1>4, <1>6 DEF TypeOK
<1>8. StoreInv
  BY <1>1, <1>3 DEF StoreInv
<1>9. ASSUME NEW a \in Admins PROVE PageInv(a) /\ CallInv(a) /\ AloneInv(a)
  <2>1. page[a] = EmptyPage /\ call[a] = g
    BY <1>1, <1>4
  <2>2. PageInv(a)
    BY <1>3, <2>1 DEF PageInv, IsSeen
  <2>3. Step(a) = "load" /\ Step(a) \notin Asking
    BY <1>6, <2>1 DEF Step, Asking, Writing
  <2>4. CallInv(a)
    BY <1>3, <1>6, <2>1, <2>3 DEF CallInv, IsSeen, Asking
  <2>5. AloneInv(a)
    BY <2>3 DEF AloneInv, Asking, Writing
  <2>6. QED
    BY <2>2, <2>4, <2>5
<1>10. QED
  BY <1>7, <1>8, <1>9 DEF Inv

(* Every step keeps it.                                                    *)
LEMMA InvNext == Inv /\ [Next]_vars => Inv'
<1> SUFFICES ASSUME Inv, [Next]_vars PROVE Inv'
  OBVIOUS
<1>1. CASE UNCHANGED vars
  BY <1>1
  DEF vars, Inv, TypeOK, StoreInv, PageInv, CallInv, AloneInv, IsSeen, Step, Uncrossed, Passes,
      SameRevision, Body
<1>2. ASSUME NEW a \in Admins, Doing(a) PROVE Inv'
  <2>1. CASE \E r \in Rows : Type(a, r)
    BY <2>1, TypeKept
  <2>2. CASE \/ SaveWhole(a)
             \/ \E r \in Rows :
                  SaveCommand(a, r) \/ DeleteCommand(a, r) \/ TogglePackagedSkill(a, r)
             \/ \E r \in Rows : \E action \in {"rotate", "clear"} : ChangeCredential(a, r, action)
    BY <2>2, SavesKept
  <2>3. CASE Reload(a)
    BY <2>3, ReloadKept
  <2>4. CASE Read(a) \/ WriteBlob(a) \/ CompareFile(a)
    BY <2>4, ReadKept, WriteBlobKept, CompareKept
  <2>5. CASE WriteTemporary(a) \/ RenameTemporary(a)
    BY <2>5, WriteTemporaryKept, RenameKept
  <2>6. CASE Answered(a) \/ Fetched(a) \/ Merge(a) \/ Show(a)
    BY <2>6, AnsweredKept, FetchedKept, MergeKept, ShowKept
  <2>7. CASE Fail(a)
    BY <2>7, FailKept DEF Fail
  <2>8. QED
    BY <1>2, <2>1, <2>2, <2>3, <2>4, <2>5, <2>6, <2>7 DEF Doing, Handle
<1>3. Next => \E a \in Admins : Doing(a)
  BY DEF Next, Doing
<1>4. QED
  BY <1>1, <1>2, <1>3

(* It holds of every state.                                                *)
LEMMA InvHolds == Spec => []Inv
BY InvInit, InvNext, PTL DEF Spec

(* Documents, pages and requests have their types; what is stored of the   *)
(* policy says of every skill whether it is disabled (admin-config.ts).    *)
THEOREM Typing == Spec => []TypeOK
<1>1. Inv => TypeOK
  BY DEF Inv
<1>2. QED
  BY <1>1, InvHolds, PTL

-----------------------------------------------------------------------------
(* What a save replaces                                                    *)

(* A step of one administrator leaves the steps of the others.             *)
LEMMA OthersStay ==
  ASSUME Inv, NEW b \in Admins, Doing(b), NEW a \in Admins \ {b}
  PROVE  call'[a].step = call[a].step
<1>1. call \in [Admins -> Call]
  BY Typed DEF Inv
<1>2. ASSUME NEW s \in Steps, At(b, s) \/ Crosses(b, s) PROVE call'[a].step = call[a].step
  BY <1>1, <1>2, AtFields, CrossesFields
<1>3. {"idle", "load", "fetch", "checked", "temporary", "written"} \subseteq Steps
  BY DEF Steps
<1>4. CASE \E r \in Rows : Type(b, r)
  BY <1>4 DEF Type
<1>5. ASSUME NEW r, NEW v, NEW d, NEW e, Sends(b, r, v, d, e)
      PROVE  call'[a].step = call[a].step
  <2> DEFINE g == SentRequest(r, v, page[b].shown, d, e)
  <2>1. call' = [call EXCEPT ![b] = g]
    BY <1>5, Zenon DEF Sends, SentRequest
  <2> HIDE DEF g
  <2>2. QED
    BY <1>1, <2>1
<1>6. CASE SaveWhole(b)
  BY <1>5, <1>6 DEF SaveWhole
<1>7. CASE \E r \in Rows : SaveCommand(b, r)
  BY <1>5, <1>7 DEF SaveCommand
<1>8. CASE \E r \in Rows : DeleteCommand(b, r)
  BY <1>5, <1>8 DEF DeleteCommand
<1>9. CASE \E r \in Rows : TogglePackagedSkill(b, r)
  BY <1>5, <1>9 DEF TogglePackagedSkill
<1>10. CASE \E r \in Rows : \E action \in {"rotate", "clear"} : ChangeCredential(b, r, action)
  <2>1. PICK r \in Rows, action \in {"rotate", "clear"} : ChangeCredential(b, r, action)
    BY <1>10
  <2> DEFINE v == IF action = "rotate" THEN edits + 1 ELSE 0
  <2>2. Sends(b, r, v, {}, Unread)
    BY <2>1 DEF ChangeCredential
  <2> HIDE DEF v
  <2>3. QED
    BY <1>5, <2>2
<1>11. CASE Reload(b)
  BY <1>2, <1>3, <1>11 DEF Reload
<1>12. CASE Read(b)
  <2>1. CASE At(b, "idle")
    BY <1>2, <1>3, <2>1
  <2>2. CASE ~At(b, "idle")
    <3> DEFINE e == IF document = "credentials" THEN stored ELSE call[b].expected
    <3>1. call' = [call EXCEPT ![b].step = "read", ![b].read = stored, ![b].expected = e]
      BY <1>12, <2>2, Zenon DEF Read
    <3> HIDE DEF e
    <3>2. QED
      BY <1>1, <3>1
  <2>3. QED
    BY <2>1, <2>2
<1>13. CASE WriteBlob(b)
  BY <1>2, <1>3, <1>13 DEF WriteBlob
<1>14. CASE CompareFile(b)
  BY <1>2, <1>3, <1>14 DEF CompareFile
<1>15. CASE WriteTemporary(b)
  BY <1>2, <1>3, <1>15 DEF WriteTemporary
<1>16. CASE RenameTemporary(b)
  BY <1>2, <1>3, <1>16 DEF RenameTemporary
<1>17. CASE Answered(b)
  <2>1. document \in {"commands", "policy", "models", "credentials"}
    BY AdminConstants DEF Inv, StoreInv
  <2>2. At(b, "fetch") \/ At(b, "load") \/ At(b, "idle")
    BY <1>17, <2>1 DEF Answered
  <2>3. QED
    BY <1>2, <1>3, <2>2
<1>18. CASE Fetched(b)
  <2> DEFINE s == IF call[b].step = "fetch" THEN "merge" ELSE "show"
  <2>1. call' = [call EXCEPT ![b].step = s, ![b].read = stored]
    BY <1>18, Zenon DEF Fetched
  <2> HIDE DEF s
  <2>2. QED
    BY <1>1, <2>1
<1>19. CASE Merge(b) \/ Show(b) \/ Fail(b)
  <2>1. At(b, "idle")
    BY <1>19 DEF Merge, Show, Fail
  <2>2. QED
    BY <1>2, <1>3, <2>1
<1>20. QED
  BY <1>4, <1>6, <1>7, <1>8, <1>9, <1>10, <1>11, <1>12, <1>13, <1>14, <1>15, <1>16, <1>17,
     <1>18, <1>19 DEF Doing, Handle

(* A save that gets through replaces a blob or renames a temporary file.   *)
LEMMA CommitIs ==
  ASSUME Inv, [Next]_vars, NEW a \in Admins, Commits(a)
  PROVE  \/ store = "blob" /\ Passes(a) /\ stored'.rows = Body(a)
         \/ Step(a) = "temporary" /\ temp # Unread /\ stored'.rows = temp.rows
<1>1. /\ call \in [Admins -> Call] /\ call[a] \in Call
      /\ stored \in Snapshot /\ temp \in Snapshot
  BY Typed DEF Inv
<1>2. Step(a) \in Writing /\ call'[a].step = "written" /\ Step(a) # "written"
  BY DEF Commits, Writing
<1>3. ~UNCHANGED vars
  BY <1>2 DEF vars, Step
<1>4. PICK b \in Admins : Doing(b)
  BY <1>3 DEF Next, Doing
<1>5. b = a
  BY <1>2, <1>4, OthersStay DEF Step
<1>6. Doing(a)
  BY <1>4, <1>5
<1>7. ASSUME NEW s \in Steps \ {"written"}, At(a, s) \/ Crosses(a, s) PROVE FALSE
  BY <1>1, <1>2, <1>7, AtFields, CrossesFields
<1>8. {"idle", "load", "fetch", "checked", "temporary"} \subseteq Steps \ {"written"}
  BY DEF Steps
<1>9. WriteBlob(a) \/ RenameTemporary(a)
  <2>1. ~\E r, v, d, e : Sends(a, r, v, d, e)
    BY <1>2 DEF Sends, Idle, Writing
  <2>2. ~\E r \in Rows : \/ Type(a, r) \/ SaveCommand(a, r) \/ DeleteCommand(a, r)
                         \/ TogglePackagedSkill(a, r)
    BY <1>2, <2>1 DEF Type, Step, SaveCommand, DeleteCommand, TogglePackagedSkill
  <2>3. ~\E r \in Rows : \E action \in {"rotate", "clear"} : ChangeCredential(a, r, action)
    BY <2>1, Zenon DEF ChangeCredential
  <2>4. ~SaveWhole(a)
    BY <2>1 DEF SaveWhole
  <2>5. ~Reload(a) /\ ~Fail(a)
    BY <1>7, <1>8 DEF Reload, Fail
  <2>6. ~Read(a) /\ ~Answered(a) /\ ~Fetched(a) /\ ~Merge(a) /\ ~Show(a)
    BY <1>2 DEF Read, Answered, Fetched, Merge, Show, Writing
  <2>7. ~CompareFile(a) /\ ~WriteTemporary(a)
    BY <1>7, <1>8 DEF CompareFile, WriteTemporary
  <2>8. QED
    BY <1>6, <2>2, <2>3, <2>4, <2>5, <2>6, <2>7 DEF Doing, Handle
<1>10. CASE WriteBlob(a)
  <2>1. ~At(a, "idle")
    BY <1>7, <1>8
  <2>2. /\ store = "blob" /\ Passes(a)
        /\ stored' = [rows |-> Body(a), count |-> stored.count + 1]
    BY <1>10, <2>1 DEF WriteBlob
  <2>3. QED
    BY <2>2
<1>11. CASE RenameTemporary(a)
  <2>1. ~At(a, "idle")
    BY <1>7, <1>8
  <2>2. /\ Step(a) = "temporary" /\ temp # Unread
        /\ stored' = [temp EXCEPT !.count = stored.count + 1]
    BY <1>11, <2>1 DEF RenameTemporary
  <2>3. stored'.rows = temp.rows
    BY <1>1, <2>2 DEF Snapshot
  <2>4. QED
    BY <2>2, <2>3
<1>12. QED
  BY <1>9, <1>10, <1>11

(* A save that nothing crossed in files, or that the storage compared, is  *)
(* stored as it was meant, and no other save came after what it read.      *)
LEMMA CommitStores ==
  ASSUME Inv, [Next]_vars, NEW a \in Admins, Commits(a), Guarded(a) \/ Uncrossed(a)
  PROVE  stored'.rows = Body(a) /\ call[a].read.rows = stored.rows
<1>1. TypeOK /\ AloneInv(a) /\ CallInv(a) /\ StoreInv
  BY DEF Inv
<1>2. call[a] \in Call /\ stored \in Snapshot
  BY <1>1, Typed
<1>3. /\ call[a].read.count \in Nat /\ call[a].expected.count \in Nat /\ stored.count \in Nat
      /\ Step(a) \in Writing
  BY <1>2, CallFields DEF Snapshot, Commits
<1>4. CASE Uncrossed(a)
  <2>1. call[a].read = stored
    BY <1>1, <1>3, <1>4 DEF AloneInv
  <2>2. Step(a) = "temporary" => temp.rows = Body(a)
    BY <1>1, <1>4 DEF AloneInv
  <2>3. QED
    BY <2>1, <2>2, CommitIs
<1>5. CASE ~Uncrossed(a)
  <2>1. store = "blob" /\ call[a].expected # Unread
    BY <1>5 DEF Guarded
  <2>2. store # "file"
    BY <2>1
  <2>3. Passes(a) /\ stored'.rows = Body(a)
    BY <1>1, <2>2, CommitIs DEF AloneInv
  <2>4. call[a].expected.count = stored.count
    BY <2>1, <2>3 DEF Passes, SameRevision
  <2>5. call[a].expected.count <= call[a].read.count /\ IsSeen(call[a].read) /\ stored.count > 0
    BY <1>1, <1>3 DEF CallInv, StoreInv
  <2>6. call[a].read.count > 0 /\ Unread.count = 0
    BY <1>3, <2>4, <2>5 DEF Unread
  <2>7. call[a].read # Unread
    BY <2>6
  <2>8. QED
    BY <1>3, <2>3, <2>4, <2>5, <2>7 DEF IsSeen
<1>6. QED
  BY <1>4, <1>5

(* A save with a revision has that of the document it replaces.            *)
LEMMA CommitCompares ==
  ASSUME Inv, [Next]_vars, NEW a \in Admins, Commits(a), Guarded(a)
  PROVE  call[a].expected.rows = stored.rows
<1>1. TypeOK /\ AloneInv(a) /\ CallInv(a) /\ StoreInv
  BY DEF Inv
<1>2. call[a] \in Call /\ stored \in Snapshot
  BY <1>1, Typed
<1>3. call[a].expected.count \in Nat /\ stored.count \in Nat
  BY <1>2, CallFields DEF Snapshot
<1>4. call[a].expected # Unread /\ IsSeen(call[a].expected)
  BY <1>1 DEF Guarded, CallInv
<1>5. Passes(a)
  BY <1>1, CommitIs DEF AloneInv, Guarded
<1>6. CASE store = "blob"
  BY <1>3, <1>4, <1>5, <1>6 DEF Passes, SameRevision, IsSeen
<1>7. CASE store # "blob"
  BY <1>4, <1>5, <1>7 DEF Passes, SameRevision
<1>8. QED
  BY <1>6, <1>7

(* Whoever saves with a revision replaces only values they have seen.      *)
SeenOnly ==
  \A a \in Admins : Commits(a) /\ Guarded(a) =>
    \A r \in Replaced \ page[a].kept : stored.rows[r] = Seen(a)[r]

LEMMA SeenOnlyHolds == Inv /\ [Next]_vars => SeenOnly
<1> SUFFICES ASSUME Inv, [Next]_vars, NEW a \in Admins, Commits(a), Guarded(a),
                    NEW r \in Replaced \ page[a].kept
             PROVE  stored.rows[r] = Seen(a)[r]
  BY DEF SeenOnly
<1>1. TypeOK /\ CallInv(a) /\ PageInv(a) /\ StoreInv
  BY DEF Inv
<1>2. call[a] \in Call
  BY <1>1, Typed
<1>3. r \in Rows /\ r \notin page[a].kept /\ stored'.rows[r] # stored.rows[r]
  BY DEF Replaced
<1>4. /\ stored'.rows = Body(a) /\ call[a].read.rows = stored.rows
      /\ call[a].expected.rows = stored.rows
  BY CommitStores, CommitCompares
<1>5. CASE document = "credentials"
  BY <1>4, <1>5 DEF Seen
<1>6. CASE document # "credentials"
  <2>1. Step(a) \in Asking /\ Seen(a) = page[a].base
    BY <1>6 DEF Commits, Asking, Seen
  <2>2. call[a].expected = page[a].loaded
    BY <1>1, <1>6, <2>1 DEF CallInv
  <2>3. CASE document \in {"models", "commands"}
    BY <1>1, <1>3, <1>4, <2>1, <2>2, <2>3 DEF PageInv
  <2>4. CASE document = "policy"
    <3>1. call[a].read.rows \in [Rows -> Values]
      BY <1>2, CallFields
    <3>2. Body(a) = [call[a].read.rows EXCEPT ![call[a].row] = call[a].value]
      BY <2>4 DEF Body
    <3>3. r = call[a].row /\ call[a].value # stored.rows[r]
      BY <1>3, <1>4, <3>1, <3>2
    <3>4. call[a].value = 1 - page[a].base[r] /\ page[a].base[r] \in {0, 1}
      BY <1>1, <1>3, <2>1, <2>4, <3>3 DEF CallInv, PageInv
    <3>5. stored.rows[r] \in {0, 1}
      BY <1>1, <1>3, <2>4 DEF StoreInv
    <3>6. QED
      BY <2>1, <3>3, <3>4, <3>5
  <2>5. document \in {"commands", "policy", "models", "credentials"}
    BY <1>1, AdminConstants DEF StoreInv
  <2>6. QED
    BY <1>6, <2>3, <2>4, <2>5
<1>7. QED
  BY <1>5, <1>6

(* Edits of others meet a conflict: whoever saves with the revision of a   *)
(* document replaces only rows whose values they have seen, also when the  *)
(* row is patched into a list that was read later (commands/route.ts,      *)
(* skill-policy, credentials.ts, write of admin-config.ts).                *)
THEOREM OverwritesSeenHolds == Spec => OverwritesSeen
<1>1. Inv /\ [Next]_vars =>
        \A a \in Admins : Commits(a) /\ Guarded(a) =>
          \A r \in Replaced \ page[a].kept : stored.rows[r] = Seen(a)[r]
  BY SeenOnlyHolds DEF SeenOnly
<1>2. QED
  BY <1>1, InvHolds, PTL DEF Spec, OverwritesSeen

(* A save of the models that types no secret leaves the stored one alone.  *)
LEMMA SecretStays ==
  Inv /\ [Next]_vars =>
    \A a \in Admins : Commits(a) /\ (Guarded(a) \/ Uncrossed(a)) =>
      (document = "models" /\ Secret \notin call[a].dirty => Secret \notin Replaced)
<1> SUFFICES ASSUME Inv, [Next]_vars, NEW a \in Admins, Commits(a), Guarded(a) \/ Uncrossed(a),
                    document = "models", Secret \notin call[a].dirty
             PROVE  Secret \notin Replaced
  OBVIOUS
<1>1. stored'.rows = Body(a) /\ call[a].read.rows = stored.rows
  BY CommitStores
<1>2. Body(a)[Secret] = call[a].read.rows[Secret]
  BY AdminConstants DEF Body
<1>3. QED
  BY <1>1, <1>2 DEF Replaced

(* A save that is answered as done has stored what was sent.               *)
LEMMA AnswerHolds ==
  Inv /\ [Next]_vars =>
    \A a \in Admins : Commits(a) /\ (store = "blob" \/ Uncrossed(a)) => stored'.rows = Body(a)
<1> SUFFICES ASSUME Inv, [Next]_vars, NEW a \in Admins, Commits(a), store = "blob" \/ Uncrossed(a)
             PROVE  stored'.rows = Body(a)
  OBVIOUS
<1>1. CASE Uncrossed(a)
  BY <1>1, CommitStores
<1>2. CASE store = "blob"
  <2>1. store # "file"
    BY <1>2
  <2>2. QED
    BY <2>1, CommitIs DEF Inv, AloneInv
<1>3. QED
  BY <1>1, <1>2

(* What a save was asked to do is what was stored, under the secret that   *)
(* was there when it is stored and not when it was read (preserveSecret in *)
(* api/admin/config/route.ts), and an answer of success says so truly.     *)
THEOREM SavesWhatWasSentHolds == Spec => SavesWhatWasSent
<1>1. Spec => SecretKept
  BY SecretStays, InvHolds, PTL DEF Spec, SecretKept
<1>2. Spec => AnswerIsTrue
  BY AnswerHolds, InvHolds, PTL DEF Spec, AnswerIsTrue
<1>3. QED
  BY <1>1, <1>2 DEF SavesWhatWasSent

=============================================================================
