-------------------------- MODULE MaturityInterview --------------------------
(***************************************************************************)
(* The interview of the maturity assessment as functions of its answers    *)
(* document: which question comes next, what an answer or a judgement      *)
(* writes, and the score with its evidence gate                            *)
(* (_lib/agent_maturity/interview.py, scoring.py, validation.py).          *)
(*                                                                         *)
(* A document keeps the framing keys recorded, whether "other" is among    *)
(* the roles, the tier, the questions asked, and per dimension the level   *)
(* chosen, whether an artifact is named, the answer to the disconfirming   *)
(* probe with its judgement, and whether the triangulating probe was       *)
(* answered.  Quotes, stances, language and the tag "inferred" are left    *)
(* out.  Levels 1..5 stand for 100..500.                                   *)
(***************************************************************************)
EXTENDS Naturals, SequencesExt, FiniteSetsExt

CONSTANTS Pillars,     \* the pillars of the question bank, in order
          DimsOf,      \* the dimensions of each pillar, in order
          Opening,     \* the plain framing questions that precede the roles
          Levels,      \* the levels a customer may claim
          Words        \* what a customer may say to a probe in own words

Nothing == "nothing"   \* a probe without a recorded answer
Offered == "offered"   \* an answer picked among the options of the card

AllDims == FlattenSeq([i \in DOMAIN Pillars |-> DimsOf[Pillars[i]]])
Dims == UNION {ToSet(DimsOf[p]) : p \in ToSet(Pillars)}

ASSUME InterviewConstants ==
  /\ Pillars \in Seq(STRING) /\ DimsOf \in [ToSet(Pillars) -> Seq(STRING)]
  /\ Opening \in Seq(STRING)
  /\ "framing" \notin ToSet(Pillars) \cup Dims
  /\ ToSet(Opening) \cap {"roles", "roles_other", "tier", "qa", "qb", "qc", "probe2", "qb_batched"} = {}
  /\ Levels \subseteq 1..5
  /\ Words \cap {Nothing, Offered} = {}

Before == [d \in Dims |-> {AllDims[i] : i \in {i \in DOMAIN AllDims :
                             \E j \in DOMAIN AllDims : i < j /\ AllDims[j] = d}}]

-----------------------------------------------------------------------------
(* The bank's tiers, and the anchors at which the probe fires.             *)

Tiers == {"pulse", "standard", "deep"}
NoTier == "unset"
Batched(tier) == tier = "pulse"
Probed(tier) == tier \in {"standard", "deep"}
Triangulated(tier) == tier = "deep"
FiresProbe(level) == level >= 4

-----------------------------------------------------------------------------
(* Questions are pairs of a subject and a field, in the bank's order.      *)

Framing == Opening \o <<"roles", "roles_other", "focus", "tier">>

QuestionsOf(pillar) ==
  FlattenSeq([i \in DOMAIN DimsOf[pillar] |->
                [k \in 1..4 |-> <<DimsOf[pillar][i], <<"qa", "qb", "qc", "probe2">>[k]>>]])
    \o << <<pillar, "qb_batched">> >>

Questions ==
  [i \in DOMAIN Framing |-> <<"framing", Framing[i]>>]
    \o FlattenSeq([i \in DOMAIN Pillars |-> QuestionsOf(Pillars[i])])

AllQuestions == ToSet(Questions)
NoQuestion == <<"none", "none">>

Entry == [anchor: Levels \cup {0}, evidence: BOOLEAN,
          qc: Words \cup {Nothing, Offered}, passed: {"unset", "pass", "fail"},
          judged: Words \cup {Nothing, Offered}, probe2: BOOLEAN]
Document == [keys: SUBSET ToSet(Framing), other: BOOLEAN, tier: Tiers \cup {NoTier},
             asked: SUBSET AllQuestions, answers: [Dims -> Entry],
             status: {"in_progress", "complete"}]

NoEntry == [anchor |-> 0, evidence |-> FALSE, qc |-> Nothing, passed |-> "unset",
            judged |-> Nothing, probe2 |-> FALSE]
NewDocument == [keys |-> {}, other |-> FALSE, tier |-> NoTier, asked |-> {},
                answers |-> [d \in Dims |-> NoEntry], status |-> "in_progress"]

-----------------------------------------------------------------------------
(* Which question comes next.                                              *)

Anchored(doc, d) == doc.answers[d].anchor # 0
Reached(doc, d) == \A e \in Before[d] : Anchored(doc, e)

\* Mutant: The probe is put at every tier.
DueAtAnyTier(doc, q) ==
  LET d == q[1] IN
  IF d = "framing" THEN q[2] = "roles_other" => doc.other
  ELSE /\ doc.tier # NoTier
       /\ CASE q[2] = "qb_batched" ->
                 Batched(doc.tier) /\ \A e \in ToSet(DimsOf[d]) : Reached(doc, e) /\ Anchored(doc, e)
            [] q[2] = "qa" -> Reached(doc, d)
            [] q[2] = "qb" -> Reached(doc, d) /\ ~Batched(doc.tier)
            [] q[2] = "qc" -> Reached(doc, d) /\ FiresProbe(doc.answers[d].anchor)
            [] q[2] = "probe2" -> Reached(doc, d) /\ Anchored(doc, d) /\ Triangulated(doc.tier)

\* The question is in the sequence the document allows so far.
Due(doc, q) ==
  LET d == q[1] IN
  IF d = "framing" THEN q[2] = "roles_other" => doc.other
  ELSE /\ doc.tier # NoTier
       /\ CASE q[2] = "qb_batched" ->
                 Batched(doc.tier) /\ \A e \in ToSet(DimsOf[d]) : Reached(doc, e) /\ Anchored(doc, e)
            [] q[2] = "qa" -> Reached(doc, d)
            [] q[2] = "qb" -> Reached(doc, d) /\ ~Batched(doc.tier)
            [] q[2] = "qc" ->
                 Reached(doc, d) /\ Probed(doc.tier) /\ FiresProbe(doc.answers[d].anchor)
            [] q[2] = "probe2" -> Reached(doc, d) /\ Anchored(doc, d) /\ Triangulated(doc.tier)

ContentResolved(doc, q) ==
  LET d == q[1] IN
  CASE q[1] = "framing" -> q[2] \in doc.keys
    [] q[2] = "qa" -> Anchored(doc, d)
    [] q[2] = "qb" -> doc.answers[d].evidence
    [] q[2] = "qc" -> doc.answers[d].qc # Nothing
    [] q[2] = "probe2" -> doc.answers[d].probe2
    [] q[2] = "qb_batched" -> \E e \in ToSet(DimsOf[d]) : doc.answers[e].evidence

IsResolved(doc, q) == q \in doc.asked \/ ContentResolved(doc, q)

NextQuestion(doc) ==
  LET open == {i \in DOMAIN Questions :
                 Due(doc, Questions[i]) /\ ~IsResolved(doc, Questions[i])}
  IN IF open = {} THEN NoQuestion ELSE Questions[Min(open)]

IsComplete(doc) == NextQuestion(doc) = NoQuestion /\ \A d \in Dims : Anchored(doc, d)

\* An answer is taken for the question at hand or for one already asked; once
\* nothing is left to ask, for any question.
Accepts(doc, q) == NextQuestion(doc) \in {NoQuestion, q} \/ q \in doc.asked

-----------------------------------------------------------------------------
(* What an answer writes.                                                  *)

AnswersTo(q) ==
  CASE q[2] = "roles" -> [other: BOOLEAN, typed: BOOLEAN]
    [] q[2] = "tier" -> Tiers
    [] q[2] = "qa" -> Levels
    [] q[2] = "qc" -> Words \cup {Nothing, Offered}
    [] q[2] = "qb_batched" -> SUBSET ToSet(DimsOf[q[1]])
    [] q[2] \in {"roles_other", "qb", "probe2"} -> BOOLEAN
    [] OTHER -> {"given"}

\* Roles typed on the card retire the question about other roles.
RecordRoles(doc, a) ==
  LET other == <<"framing", "roles_other">> IN
  [doc EXCEPT !.other = a.other,
              !.keys = ((@ \cup {"roles"}) \ {"roles_other"})
                         \cup (IF a.typed THEN {"roles_other"} ELSE {}),
              !.asked = (@ \ {other}) \cup (IF a.typed THEN {other} ELSE {})]

RecordFraming(doc, field, a) ==
  CASE field = "roles" -> RecordRoles(doc, a)
    [] field = "roles_other" ->
         [doc EXCEPT !.keys = IF a THEN @ \cup {field} ELSE @ \ {field}]
    [] field = "tier" -> [doc EXCEPT !.keys = @ \cup {field}, !.tier = a]
    [] OTHER -> [doc EXCEPT !.keys = @ \cup {field}]

\* One answer replaces the evidence of the whole pillar.
RecordBatch(doc, pillar, named) ==
  [doc EXCEPT !.answers = [d \in Dims |->
     IF d \in ToSet(DimsOf[pillar]) THEN [doc.answers[d] EXCEPT !.evidence = d \in named]
                                    ELSE doc.answers[d]]]

ClearProbe(entry) == [entry EXCEPT !.qc = Nothing, !.passed = "unset", !.judged = Nothing]

\* A revised anchor invalidates the probe that the old anchor fired.
RecordAnchor(entry, level) ==
  LET e == [entry EXCEPT !.anchor = level]
  IN IF FiresProbe(level) THEN e ELSE ClearProbe(e)

\* Mutant: An option that was clicked awaits a judgement.
RecordProbeUnfailed(entry, words) ==
  IF words = Nothing THEN ClearProbe(entry) ELSE [ClearProbe(entry) EXCEPT !.qc = words]

\* Clicking an option fails the probe; own words await a judgement.
RecordProbe(entry, words) ==
  CASE words = Nothing -> ClearProbe(entry)
    [] words = Offered ->
         [entry EXCEPT !.qc = words, !.passed = "fail", !.judged = words]
    [] OTHER -> [ClearProbe(entry) EXCEPT !.qc = words]

RecordEntry(entry, field, a) ==
  CASE field = "qa" -> RecordAnchor(entry, a)
    [] field = "qb" -> [entry EXCEPT !.evidence = a]
    [] field = "qc" -> RecordProbe(entry, a)
    [] field = "probe2" -> [entry EXCEPT !.probe2 = a]

Written(doc, q, a) ==
  CASE q[1] = "framing" -> RecordFraming(doc, q[2], a)
    [] q[2] = "qb_batched" -> RecordBatch(doc, q[1], a)
    [] OTHER -> [doc EXCEPT !.answers[q[1]] = RecordEntry(@, q[2], a)]

\* Mutant: A question answered with nothing is not remembered as asked.
RecordUnmarked(doc, q, a) == Written(doc, q, a)

Record(doc, q, a) == [Written(doc, q, a) EXCEPT !.asked = @ \cup {q}]

\* A verdict is taken once per answer, while the anchor fires the probe; a
\* pass needs an answer to pass.
Judgeable(doc, d, verdict) ==
  /\ FiresProbe(doc.answers[d].anchor)
  /\ verdict = "pass" => doc.answers[d].qc # Nothing
  /\ doc.answers[d].passed = "unset"

Judge(doc, d, verdict) ==
  [doc EXCEPT !.answers[d].passed = verdict, !.answers[d].judged = doc.answers[d].qc]

-----------------------------------------------------------------------------
(* The score and the validator, which recomputes it from the assessment.   *)

\* A document without a tier is scored as "standard".
ScoreTier(doc) == IF doc.tier = NoTier THEN "standard" ELSE doc.tier

HasProbeState(entry) == entry.qc # Nothing \/ entry.passed # "unset"

Scorable(doc) ==
  \A d \in Dims : LET e == doc.answers[d] IN
    /\ Anchored(doc, d)
    /\ HasProbeState(e) => Probed(ScoreTier(doc)) /\ FiresProbe(e.anchor)
    /\ e.passed # "unset" => e.qc # Nothing

\* Mutant: The pulse ceiling is left to the report.
GateWithoutCeiling(claimed, evidenced, passed, tier) ==
  LET unnamed == claimed >= 3 /\ ~evidenced
      unproven == claimed >= 4 /\ tier # "pulse" /\ passed # "pass"
  IN [codes |-> (IF unnamed THEN {"no_artifact"} ELSE {})
                  \cup (IF unproven THEN {"probe_failed"} ELSE {}),
      level |-> Min({claimed} \cup (IF unnamed THEN {2} ELSE {})
                              \cup (IF unproven THEN {3} ELSE {}))]

Gate(claimed, evidenced, passed, tier) ==
  LET unnamed == claimed >= 3 /\ ~evidenced
      screened == claimed >= 4 /\ tier = "pulse"
      unproven == claimed >= 4 /\ tier # "pulse" /\ passed # "pass"
  IN [codes |-> (IF unnamed THEN {"no_artifact"} ELSE {})
                  \cup (IF screened THEN {"pulse_ceiling"} ELSE {})
                  \cup (IF unproven THEN {"probe_failed"} ELSE {}),
      level |-> Min({claimed} \cup (IF unnamed THEN {2} ELSE {})
                              \cup (IF screened \/ unproven THEN {3} ELSE {}))]

Scored(doc, d) ==
  LET e == doc.answers[d]
      g == Gate(e.anchor, e.evidence, e.passed, ScoreTier(doc))
  IN [claimed |-> e.anchor, level |-> g.level, codes |-> g.codes, capped |-> g.level # e.anchor,
      evidence |-> e.evidence, qc |-> e.qc, passed |-> e.passed, judged |-> e.judged]

Floor(scores, ds) == Min({scores[d].level : d \in ds})

Assessment(doc) ==
  LET scores == [d \in Dims |-> Scored(doc, d)]
  IN [tier |-> doc.tier, scores |-> scores,
      staged |-> [p \in ToSet(Pillars) |-> Floor(scores, ToSet(DimsOf[p]))],
      overall |-> Floor(scores, Dims)]

\* validate() in the order it recomputes things: caps from the claim, the
\* artifact, the tier and the verdict; then the floors.
Valid(a) ==
  /\ a.tier \in Tiers
  /\ \A d \in Dims : LET s == a.scores[d] IN
       /\ s.level <= s.claimed /\ s.capped = (s.level # s.claimed) /\ s.capped = (s.codes # {})
       /\ s.passed # "unset" => s.qc # Nothing
       /\ (s.claimed < 4 \/ a.tier = "pulse") => s.qc = Nothing /\ s.passed = "unset"
       /\ "no_artifact" \in s.codes <=> s.claimed >= 3 /\ ~s.evidence
       /\ "pulse_ceiling" \in s.codes <=> s.claimed >= 4 /\ a.tier = "pulse"
       /\ "probe_failed" \in s.codes <=> s.claimed >= 4 /\ a.tier # "pulse" /\ s.passed # "pass"
       /\ s.level = IF "no_artifact" \in s.codes THEN Min({s.claimed, 2})
                    ELSE IF s.codes # {} THEN Min({s.claimed, 3}) ELSE s.claimed
  /\ \A p \in ToSet(Pillars) : a.staged[p] = Floor(a.scores, ToSet(DimsOf[p]))
  /\ a.overall = Floor(a.scores, Dims)

=============================================================================
