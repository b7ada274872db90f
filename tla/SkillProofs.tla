---------------------------- MODULE SkillProofs ----------------------------
(***************************************************************************)
(* Theorems about the two skills of the agent whose scripts keep a state:  *)
(* about MaturityServer for any bank of questions, any answers, any depth  *)
(* of nested interviews and any number of departures, and about            *)
(* TaskCommands for any contracts, any edits of the files and any number   *)
(* of commands and deaths.  The two share nothing but the lemmas about     *)
(* numbers.                                                                *)
(***************************************************************************)
EXTENDS MaturityServer, TaskCommands, SequenceTheorems, WellFoundedInduction, TLAPS

-----------------------------------------------------------------------------
(* Induction, in terms of sets of numbers                                  *)

LEMMA LeastOf ==
  ASSUME NEW S \in SUBSET Nat, S # {}
  PROVE  \E n \in S : \A m \in S : n <= m
<1>1. \E x \in S : \A y \in S : <<y, x>> \notin OpToRel(<, Nat)
  BY NatLessThanWellFounded, WFMin
<1>2. PICK x \in S : \A y \in S : <<y, x>> \notin OpToRel(<, Nat)
  BY <1>1
<1>3. \A y \in S : ~(y < x)
  BY <1>2 DEF OpToRel
<1>4. QED
  BY <1>3

LEMMA Induction ==
  ASSUME NEW S, 0 \in S, \A n \in Nat : n \in S => n + 1 \in S
  PROVE  Nat \subseteq S
<1>1. SUFFICES ASSUME Nat \ S # {} PROVE FALSE
  OBVIOUS
<1>2. PICK n \in Nat \ S : \A m \in Nat \ S : n <= m
  BY <1>1, LeastOf
<1>3. n # 0 /\ n - 1 \in Nat /\ n - 1 \in S
  BY <1>2
<1>4. QED
  BY <1>2, <1>3

LEMMA FunctionIsSeq ==
  ASSUME NEW S, NEW n \in Nat, NEW f \in [1..n -> S]
  PROVE  f \in Seq(S) /\ Len(f) = n
OBVIOUS

LEMMA OneIsSeq ==
  ASSUME NEW S, NEW x \in S
  PROVE  <<x>> \in Seq(S) /\ Len(<<x>>) = 1
OBVIOUS

LEMMA FourIsSeq ==
  ASSUME NEW S, NEW a \in S, NEW b \in S, NEW c \in S, NEW d \in S
  PROVE  <<a, b, c, d>> \in Seq(S) /\ Len(<<a, b, c, d>>) = 4
OBVIOUS

LEMMA ConcatIsSeq ==
  ASSUME NEW S, NEW s \in Seq(S), NEW t \in Seq(S)
  PROVE  s \o t \in Seq(S) /\ Len(s \o t) = Len(s) + Len(t)
OBVIOUS

\* The least element of a set of numbers.
LEMMA MinIs ==
  ASSUME NEW S \in SUBSET Nat, NEW m \in S, \A x \in S : m <= x
  PROVE  Min(S) = m
<1>1. \A x \in S : (\A y \in S : x <= y) => x = m
  OBVIOUS
<1>2. QED
  BY <1>1 DEF Min

LEMMA MinIn ==
  ASSUME NEW S \in SUBSET Nat, S # {}
  PROVE  Min(S) \in S /\ \A x \in S : Min(S) <= x
<1>1. PICK n \in S : \A m \in S : n <= m
  BY LeastOf
<1>2. Min(S) = n
  BY <1>1, MinIs
<1>3. QED
  BY <1>1, <1>2

\* Functions that are defined step by step exist, and there is only one.
Unfolds(f, x, n, G) ==
  f[0] = x /\ \A i \in 1..n : f[i] = G[<<f[i - 1], i>>]

LEMMA StepwiseExists ==
  ASSUME NEW X, NEW x \in X, NEW N \in Nat, NEW G \in [X \X (1..N) -> X]
  PROVE  \E f \in [0..N -> X] : Unfolds(f, x, N, G)
<1> DEFINE S == {n \in Nat : n <= N => \E f \in [0..n -> X] : Unfolds(f, x, n, G)}
<1>1. 0 \in S
  <2>1. [i \in 0..0 |-> x] \in [0..0 -> X] /\ Unfolds([i \in 0..0 |-> x], x, 0, G)
    BY DEF Unfolds
  <2>2. QED
    BY <2>1
<1>2. ASSUME NEW n \in Nat, n \in S PROVE n + 1 \in S
  <2>1. SUFFICES ASSUME n + 1 <= N PROVE \E f \in [0..(n + 1) -> X] : Unfolds(f, x, n + 1, G)
    BY DEF S
  <2>2. PICK f \in [0..n -> X] : Unfolds(f, x, n, G)
    BY <1>2, <2>1
  <2> DEFINE h == [i \in 0..(n + 1) |-> IF i = n + 1 THEN G[<<f[n], n + 1>>] ELSE f[i]]
  <2>3. G[<<f[n], n + 1>>] \in X
    BY <2>1
  <2>4. h \in [0..(n + 1) -> X]
    BY <2>3
  <2>5. h[0] = x
    BY <2>2 DEF Unfolds
  <2>6. ASSUME NEW i \in 1..(n + 1) PROVE h[i] = G[<<h[i - 1], i>>]
    <3>1. CASE i = n + 1
      <4>1. h[i - 1] = f[n] /\ h[i] = G[<<f[n], n + 1>>]
        BY <3>1
      <4>2. QED
        BY <3>1, <4>1
    <3>2. CASE i # n + 1
      <4>1. i \in 1..n /\ h[i - 1] = f[i - 1] /\ h[i] = f[i]
        BY <3>2
      <4>2. QED
        BY <2>2, <4>1 DEF Unfolds
    <3>3. QED
      BY <3>1, <3>2
  <2>7. Unfolds(h, x, n + 1, G)
    BY <2>5, <2>6 DEF Unfolds
  <2>8. QED
    BY <2>4, <2>7
<1>3. Nat \subseteq S
  <2> HIDE DEF S
  <2> QED
    BY <1>1, <1>2, Induction
<1>4. N \in S
  BY <1>3
<1>5. QED
  BY <1>4

\* Sequences of elements of T flatten to one.
LEMMA FlattenTyped ==
  ASSUME NEW T, NEW ss \in Seq(Seq(T))
  PROVE  FlattenSeq(ss) \in Seq(T)
<1> DEFINE N == Len(ss)
           F(g) == [i \in 1..N |-> IF i = 1 THEN ss[i] ELSE g[i-1] \o ss[i]]
           flat == CHOOSE g : g = F(g)
           G == [p \in Seq(T) \X (1..N) |-> p[1] \o ss[p[2]]]
<1>1. CASE N = 0
  BY <1>1 DEF FlattenSeq
<1>2. CASE N # 0
  <2>1. FlattenSeq(ss) = flat[N]
    BY <1>2 DEF FlattenSeq
  <2>2. G \in [Seq(T) \X (1..N) -> Seq(T)] /\ N \in Nat /\ <<>> \in Seq(T)
    OBVIOUS
  <2>3. PICK f \in [0..N -> Seq(T)] : Unfolds(f, <<>>, N, G)
    <3> HIDE DEF G, N
    <3> QED
      BY <2>2, StepwiseExists
  <2>4. ASSUME NEW i \in 1..N
        PROVE  f[i - 1] \in Seq(T) /\ ss[i] \in Seq(T) /\ f[i] = f[i - 1] \o ss[i]
    <3>1. i - 1 \in 0..N /\ ss[i] \in Seq(T)
      BY <2>2
    <3>2. f[i - 1] \in Seq(T)
      BY <3>1, <2>3
    <3>3. f[i] = G[<<f[i - 1], i>>]
      BY <2>3 DEF Unfolds
    <3>4. G[<<f[i - 1], i>>] = f[i - 1] \o ss[i]
      BY <3>2
    <3>5. QED
      BY <3>1, <3>2, <3>3, <3>4
  <2>5. f[0] = <<>>
    BY <2>3 DEF Unfolds
  <2> DEFINE g == [i \in 1..N |-> f[i]]
  <2>6. g = F(g)
    <3>1. ASSUME NEW i \in 1..N PROVE g[i] = F(g)[i]
      <4>1. CASE i = 1
        <5>1. f[i - 1] = <<>>
          BY <4>1, <2>5
        <5>2. f[i] = <<>> \o ss[i] /\ ss[i] \in Seq(T)
          BY <5>1, <2>4
        <5>4. f[i] = ss[i]
          BY <5>2
        <5>3. QED
          BY <4>1, <5>4
      <4>2. CASE i # 1
        <5>1. i - 1 \in 1..N
          BY <4>2
        <5>2. g[i - 1] = f[i - 1]
          BY <5>1
        <5>3. QED
          BY <4>2, <5>2, <2>4
      <4>3. QED
        BY <4>1, <4>2
    <3>2. QED
      BY <3>1
  <2>7. flat = F(flat)
    <3> HIDE DEF F, g
    <3> QED
      BY <2>6
  <2>8. \A i \in 1..N : flat[i] = IF i = 1 THEN ss[i] ELSE flat[i-1] \o ss[i]
    <3> HIDE DEF flat
    <3> QED
      BY <2>7
  <2> HIDE DEF flat, G, g, F
  <2> DEFINE S == {n \in Nat : n \in 1..N => flat[n] \in Seq(T)}
  <2>9. 0 \in S
    OBVIOUS
  <2>10. ASSUME NEW n \in Nat, n \in S PROVE n + 1 \in S
    <3>1. SUFFICES ASSUME n + 1 \in 1..N PROVE flat[n + 1] \in Seq(T)
      OBVIOUS
    <3>2. ss[n + 1] \in Seq(T)
      BY <3>1
    <3>3. CASE n = 0
      BY <3>1, <3>2, <3>3, <2>8
    <3>4. CASE n # 0
      <4>1. n \in 1..N /\ flat[n] \in Seq(T)
        BY <3>1, <3>4, <2>10
      <4>2. flat[n + 1] = flat[n] \o ss[n + 1]
        <5>1. n + 1 # 1 /\ (n + 1) - 1 = n
          BY <3>4
        <5>2. QED
          BY <3>1, <5>1, <2>8
      <4>3. QED
        BY <4>1, <4>2, <3>2
    <3>5. QED
      BY <3>3, <3>4
  <2>11. Nat \subseteq S
    <3> HIDE DEF S
    <3> QED
      BY <2>9, <2>10, Induction
  <2>12. N \in Nat /\ N \in 1..N /\ N \in S
    BY <1>2, <2>2, <2>11
  <2>13. flat[N] \in Seq(T)
    BY <2>12
  <2>14. QED
    BY <2>1, <2>13
<1>3. QED
  BY <1>1, <1>2
-----------------------------------------------------------------------------
(* The questions of the bank                                               *)

Fields == {"qa", "qb", "qc", "probe2"}
Forms == {<<"framing", f>> : f \in ToSet(Framing)} \cup {<<d, x>> : d \in Dims, x \in Fields}
           \cup {<<p, "qb_batched">> : p \in ToSet(Pillars)}

LEMMA FramingKeys ==
  /\ Framing \in Seq(ToSet(Framing))
  /\ {"roles", "roles_other", "tier"} \subseteq ToSet(Framing)
  /\ \E i \in DOMAIN Framing : Framing[i] = "roles_other"
  /\ ToSet(Framing) \cap (Fields \cup {"qb_batched"}) = {}
<1> DEFINE n == Len(Opening)
           last == {"roles", "roles_other", "focus", "tier"}
           rest == <<"roles", "roles_other", "focus", "tier">>
           K == STRING \cup last
<1>1. Opening \in Seq(K) /\ n \in Nat
  <2>1. Opening \in Seq(STRING) /\ STRING \subseteq K
    BY InterviewConstants
  <2>2. Len(Opening) \in Nat
    BY <2>1
  <2> HIDE DEF K
  <2>3. Opening \in Seq(K)
    BY <2>1, SeqMonotonic
  <2>4. QED
    BY <2>2, <2>3
<1>2. rest \in Seq(K) /\ Len(rest) = 4
  <2>1. "roles" \in K /\ "roles_other" \in K /\ "focus" \in K /\ "tier" \in K
    OBVIOUS
  <2> HIDE DEF K
  <2>2. QED
    BY <2>1, FourIsSeq
<1>3. Framing = Opening \o rest
  BY DEF Framing
<1>4. rest[1] = "roles" /\ rest[2] = "roles_other" /\ rest[4] = "tier"
  OBVIOUS
<1> HIDE DEF rest, K
<1>5. Framing \in Seq(K) /\ Len(Framing) = n + 4
  BY <1>1, <1>2, <1>3, ConcatIsSeq
<1>6. DOMAIN Framing = 1..(n + 4)
  BY <1>1, <1>5
<1>7. \A k \in 1..4 : n + k \in DOMAIN Framing /\ Framing[n + k] = rest[k]
  BY <1>1, <1>2, <1>3, <1>6
<1>8. \A k \in 1..4 : rest[k] \in ToSet(Framing)
  BY <1>7 DEF ToSet
<1>9. Framing \in Seq(ToSet(Framing))
  <2>1. Framing \in [1..(n + 4) -> ToSet(Framing)]
    BY <1>5, <1>6 DEF ToSet
  <2>2. QED
    BY <1>1, <2>1, FunctionIsSeq
<1>10. ASSUME NEW i \in DOMAIN Framing PROVE Framing[i] \notin Fields \cup {"qb_batched"}
  <2>1. CASE i <= n
    <3>1. Framing[i] = Opening[i] /\ i \in DOMAIN Opening
      BY <1>1, <1>2, <1>3, <1>6, <2>1
    <3>2. Framing[i] \in ToSet(Opening)
      BY <3>1 DEF ToSet
    <3>3. QED
      BY <3>2, InterviewConstants DEF Fields
  <2>2. CASE ~(i <= n)
    <3>1. i - n \in 1..4 /\ n + (i - n) = i
      BY <1>1, <1>6, <2>2
    <3>2. Framing[i] = rest[i - n]
      BY <1>7, <3>1
    <3>3. i - n = 1 \/ i - n = 2 \/ i - n = 3 \/ i - n = 4
      BY <3>1
    <3>4. \A k \in {1, 2, 3, 4} : rest[k] \notin Fields \cup {"qb_batched"}
      BY DEF rest, Fields
    <3>5. QED
      BY <3>2, <3>3, <3>4
  <2>3. QED
    BY <2>1, <2>2
<1>11. ToSet(Framing) \cap (Fields \cup {"qb_batched"}) = {}
  BY <1>10 DEF ToSet
<1>12. QED
  BY <1>4, <1>7, <1>8, <1>9, <1>11

LEMMA PillarForms ==
  ASSUME NEW p \in ToSet(Pillars)
  PROVE  QuestionsOf(p) \in Seq(Forms)
<1> DEFINE D == DimsOf[p]
           ss == [i \in DOMAIN D |-> [k \in 1..4 |-> <<D[i], <<"qa", "qb", "qc", "probe2">>[k]>>]]
<1>1. D \in Seq(STRING)
  BY InterviewConstants
<1>2. ASSUME NEW i \in DOMAIN D, NEW k \in 1..4
      PROVE  <<D[i], <<"qa", "qb", "qc", "probe2">>[k]>> \in Forms
  <2>1. D[i] \in Dims
    BY DEF Dims, ToSet
  <2>2. <<"qa", "qb", "qc", "probe2">>[k] \in Fields
    <3>1. k = 1 \/ k = 2 \/ k = 3 \/ k = 4
      OBVIOUS
    <3>2. QED
      BY <3>1 DEF Fields
  <2>3. QED
    BY <2>1, <2>2 DEF Forms
<1>3. ss \in Seq(Seq(Forms))
  <2>1. ASSUME NEW i \in DOMAIN D
        PROVE  [k \in 1..4 |-> <<D[i], <<"qa", "qb", "qc", "probe2">>[k]>>] \in Seq(Forms)
    <3> DEFINE four == [k \in 1..4 |-> <<D[i], <<"qa", "qb", "qc", "probe2">>[k]>>]
    <3>1. four \in [1..4 -> Forms]
      BY <1>2
    <3> HIDE DEF four
    <3>2. four \in Seq(Forms)
      BY <3>1, FunctionIsSeq
    <3>3. QED
      BY <3>2 DEF four
  <2> HIDE DEF Forms
  <2>2. DOMAIN D = 1..Len(D) /\ Len(D) \in Nat
    BY <1>1
  <2>3. ss \in [1..Len(D) -> Seq(Forms)]
    BY <2>1, <2>2
  <2>4. QED
    BY <2>2, <2>3, FunctionIsSeq
<1>4. FlattenSeq(ss) \in Seq(Forms)
  <2> HIDE DEF ss
  <2> QED
    BY <1>3, FlattenTyped
<1>5. << <<p, "qb_batched">> >> \in Seq(Forms)
  <2>1. <<p, "qb_batched">> \in Forms
    BY DEF Forms
  <2>2. QED
    BY <2>1, OneIsSeq
<1>6. QuestionsOf(p) = FlattenSeq(ss) \o << <<p, "qb_batched">> >>
  BY DEF QuestionsOf
<1>7. QED
  BY <1>4, <1>5, <1>6, ConcatIsSeq

LEMMA QuestionForms ==
  /\ Questions \in Seq(Forms)
  /\ <<"framing", "roles_other">> \in AllQuestions
<1> DEFINE fs == [i \in DOMAIN Framing |-> <<"framing", Framing[i]>>]
           ss == [i \in DOMAIN Pillars |-> QuestionsOf(Pillars[i])]
<1>1. fs \in Seq(Forms) /\ Len(fs) = Len(Framing)
  BY FramingKeys DEF Forms, ToSet
<1>2. ss \in Seq(Seq(Forms))
  <2>1. Pillars \in Seq(STRING)
    BY InterviewConstants
  <2>2. \A i \in DOMAIN Pillars : QuestionsOf(Pillars[i]) \in Seq(Forms)
    BY PillarForms DEF ToSet
  <2>3. QED
    BY <2>1, <2>2
<1>3. FlattenSeq(ss) \in Seq(Forms)
  <2> HIDE DEF ss
  <2> QED
    BY <1>2, FlattenTyped
<1>4. Questions = fs \o FlattenSeq(ss)
  BY DEF Questions
<1>5. PICK i \in DOMAIN Framing : Framing[i] = "roles_other"
  BY FramingKeys
<1> HIDE DEF ss
<1>6. i \in DOMAIN Questions /\ Questions[i] = <<"framing", "roles_other">>
  <2>1. i \in 1..Len(Framing) /\ Len(Framing) \in Nat /\ fs[i] = <<"framing", "roles_other">>
    BY <1>5, FramingKeys
  <2> HIDE DEF fs, Forms
  <2>2. i \in 1..Len(fs) /\ Len(fs) \in Nat
    BY <1>1, <2>1
  <2>3. (fs \o FlattenSeq(ss))[i] = fs[i] /\ i \in DOMAIN (fs \o FlattenSeq(ss))
    BY <1>1, <1>3, <2>2
  <2>4. QED
    BY <1>4, <2>1, <2>3
<1>7. Questions \in Seq(Forms)
  BY <1>1, <1>3, <1>4, ConcatIsSeq
<1>8. Questions[i] \in AllQuestions
  BY <1>6 DEF AllQuestions, ToSet
<1>9. QED
  BY <1>6, <1>7, <1>8

\* What a question asks about.
LEMMA QuestionIs ==
  ASSUME NEW q \in AllQuestions
  PROVE  \/ \E f \in ToSet(Framing) : q = <<"framing", f>>
         \/ \E d \in Dims, x \in Fields : q = <<d, x>> /\ d # "framing"
         \/ \E p \in ToSet(Pillars) : q = <<p, "qb_batched">> /\ p # "framing"
<1>1. q \in Forms
  BY QuestionForms DEF AllQuestions, ToSet
<1>2. QED
  BY <1>1, InterviewConstants DEF Forms

\* The next question is due and has no answer yet.
LEMMA NextIs ==
  ASSUME NEW doc, NextQuestion(doc) # NoQuestion
  PROVE  /\ NextQuestion(doc) \in AllQuestions
         /\ Due(doc, NextQuestion(doc)) /\ ~IsResolved(doc, NextQuestion(doc))
<1> DEFINE open == {i \in DOMAIN Questions : Due(doc, Questions[i]) /\ ~IsResolved(doc, Questions[i])}
<1>1. open \subseteq Nat
  BY QuestionForms
<1>2. open # {} /\ NextQuestion(doc) = Questions[Min(open)]
  BY DEF NextQuestion
<1>3. Min(open) \in open
  <2> HIDE DEF open
  <2> QED
    BY <1>1, <1>2, MinIn
<1>4. QED
  BY <1>2, <1>3 DEF AllQuestions, ToSet

LEMMA NextTyped ==
  ASSUME NEW doc
  PROVE  NextQuestion(doc) \in AllQuestions \cup {NoQuestion}
BY NextIs

-----------------------------------------------------------------------------
(* What an answer does to a document                                       *)

\* A verdict belongs to the answer it stands beside.
Earned(e) == Proven(e) /\ (e.qc = Offered => e.passed = "fail")
Sound(doc) == \A d \in Dims : Earned(doc.answers[d])

Fits(x, a) ==
  /\ x = "qa" => a \in Levels
  /\ x \in {"qb", "probe2"} => a \in BOOLEAN
  /\ x = "qc" => a \in Words \cup {Nothing, Offered}

LEMMA WordsAreWords == Nothing \notin Words /\ Offered \notin Words /\ Nothing # Offered
BY InterviewConstants DEF Nothing, Offered

\* An answer keeps an entry well formed and its verdict earned.
LEMMA EntryRecorded ==
  ASSUME NEW e \in Entry, NEW x \in Fields, NEW a, Fits(x, a)
  PROVE  /\ RecordEntry(e, x, a) \in Entry
         /\ RecordEntry(e, x, a).anchor = IF x = "qa" THEN a ELSE e.anchor
         /\ Earned(e) => Earned(RecordEntry(e, x, a))
<1> DEFINE r == RecordEntry(e, x, a)
<1>1. CASE x = "qa"
  <2>1. r = RecordAnchor(e, a) /\ a \in Levels
    BY <1>1 DEF RecordEntry, Fits
  <2>2. CASE FiresProbe(a)
    <3>1. r = [e EXCEPT !.anchor = a]
      BY <2>1, <2>2 DEF RecordAnchor
    <3>2. QED
      BY <1>1, <2>1, <2>2, <3>1 DEF Entry, Earned, Proven
  <2>3. CASE ~FiresProbe(a)
    <3>1. r = [e EXCEPT !.anchor = a, !.qc = Nothing, !.passed = "unset", !.judged = Nothing]
      BY <2>1, <2>3 DEF RecordAnchor, ClearProbe, Entry
    <3>2. QED
      BY <1>1, <2>1, <3>1, WordsAreWords DEF Entry, Earned, Proven
  <2>4. QED
    BY <2>2, <2>3
<1>2. CASE x = "qb"
  <2>1. r = [e EXCEPT !.evidence = a] /\ a \in BOOLEAN
    BY <1>2 DEF RecordEntry, Fits
  <2>2. QED
    BY <1>2, <2>1 DEF Entry, Earned, Proven
<1>3. CASE x = "qc"
  <2>1. r = RecordProbe(e, a) /\ a \in Words \cup {Nothing, Offered}
    BY <1>3 DEF RecordEntry, Fits
  <2>2. CASE a = Nothing
    <3>1. r = [e EXCEPT !.qc = Nothing, !.passed = "unset", !.judged = Nothing]
      BY <2>1, <2>2, WordsAreWords DEF RecordProbe, ClearProbe
    <3>2. QED
      BY <1>3, <3>1, WordsAreWords DEF Entry, Earned, Proven
  <2>3. CASE a = Offered
    <3>1. r = [e EXCEPT !.qc = a, !.passed = "fail", !.judged = a]
      BY <2>1, <2>3, WordsAreWords DEF RecordProbe
    <3>2. QED
      BY <1>3, <2>1, <3>1 DEF Entry, Earned, Proven
  <2>4. CASE a # Nothing /\ a # Offered
    <3>1. r = [e EXCEPT !.qc = a, !.passed = "unset", !.judged = Nothing]
      BY <2>1, <2>4 DEF RecordProbe, ClearProbe, Entry
    <3>2. QED
      BY <1>3, <2>1, <2>4, <3>1 DEF Entry, Earned, Proven
  <2>5. QED
    BY <2>2, <2>3, <2>4
<1>4. CASE x = "probe2"
  <2>1. r = [e EXCEPT !.probe2 = a] /\ a \in BOOLEAN
    BY <1>4 DEF RecordEntry, Fits
  <2>2. QED
    BY <1>4, <2>1 DEF Entry, Earned, Proven
<1>5. QED
  BY <1>1, <1>2, <1>3, <1>4 DEF Fields

\* What else is in the document stays.
Keeps(doc, w) == w.keys = doc.keys /\ w.other = doc.other /\ w.tier = doc.tier
                   /\ w.asked = doc.asked /\ w.status = doc.status

LEMMA FieldWritten ==
  ASSUME NEW doc \in Document, NEW d \in Dims, d # "framing", NEW x \in Fields,
         NEW a \in AnswersTo(<<d, x>>)
  PROVE  LET w == Written(doc, <<d, x>>, a) IN
         /\ w \in Document /\ Keeps(doc, w) /\ Fits(x, a)
         /\ w.answers = [doc.answers EXCEPT ![d] = RecordEntry(@, x, a)]
<1> DEFINE r == RecordEntry(doc.answers[d], x, a)
<1>1. Fits(x, a)
  BY DEF Fits, AnswersTo, Fields
<1>2. doc.answers \in [Dims -> Entry]
  BY DEF Document
<1>3. r \in Entry
  BY <1>1, <1>2, EntryRecorded
<1>4. Written(doc, <<d, x>>, a) = [doc EXCEPT !.answers[d] = r]
  BY <1>2 DEF Written, Fields
<1> HIDE DEF r
<1>5. [doc.answers EXCEPT ![d] = r] \in [Dims -> Entry]
  BY <1>2, <1>3
<1>6. Written(doc, <<d, x>>, a) = [doc EXCEPT !.answers = [doc.answers EXCEPT ![d] = r]]
  BY <1>4 DEF Document
<1>7. Written(doc, <<d, x>>, a) \in Document
  BY <1>5, <1>6 DEF Document
<1>8. Keeps(doc, Written(doc, <<d, x>>, a))
  BY <1>6 DEF Document, Keeps
<1>9. Written(doc, <<d, x>>, a).answers = [doc.answers EXCEPT ![d] = r]
  BY <1>6 DEF Document
<1>10. QED
  BY <1>1, <1>7, <1>8, <1>9, <1>2 DEF r

LEMMA BatchWritten ==
  ASSUME NEW doc \in Document, NEW p \in ToSet(Pillars), p # "framing",
         NEW a \in AnswersTo(<<p, "qb_batched">>)
  PROVE  LET w == Written(doc, <<p, "qb_batched">>, a) IN
         /\ w \in Document /\ Keeps(doc, w)
         /\ \A d \in Dims : \E b \in BOOLEAN : w.answers[d] = [doc.answers[d] EXCEPT !.evidence = b]
<1> DEFINE new == [d \in Dims |-> IF d \in ToSet(DimsOf[p])
                                    THEN [doc.answers[d] EXCEPT !.evidence = d \in a]
                                    ELSE doc.answers[d]]
<1>1. Written(doc, <<p, "qb_batched">>, a) = [doc EXCEPT !.answers = new]
  BY DEF Written, RecordBatch
<1>2. ASSUME NEW d \in Dims
      PROVE  new[d] \in Entry /\ \E b \in BOOLEAN : new[d] = [doc.answers[d] EXCEPT !.evidence = b]
  <2>1. doc.answers[d] \in Entry
    BY DEF Document
  <2>2. CASE d \in ToSet(DimsOf[p])
    <3>1. new[d] = [doc.answers[d] EXCEPT !.evidence = d \in a] /\ (d \in a) \in BOOLEAN
      BY <2>2
    <3>2. QED
      BY <2>1, <3>1 DEF Entry
  <2>3. CASE d \notin ToSet(DimsOf[p])
    <3>1. new[d] = doc.answers[d]
      BY <2>3
    <3>2. new[d] = [doc.answers[d] EXCEPT !.evidence = doc.answers[d].evidence]
      BY <2>1, <3>1 DEF Entry
    <3>3. doc.answers[d].evidence \in BOOLEAN
      BY <2>1 DEF Entry
    <3>4. QED
      BY <2>1, <3>1, <3>2, <3>3
  <2>4. QED
    BY <2>2, <2>3
<1>3. new \in [Dims -> Entry]
  BY <1>2
<1> HIDE DEF new
<1>4. Written(doc, <<p, "qb_batched">>, a) \in Document
  BY <1>1, <1>3 DEF Document
<1>5. Keeps(doc, Written(doc, <<p, "qb_batched">>, a))
  BY <1>1 DEF Document, Keeps
<1>6. Written(doc, <<p, "qb_batched">>, a).answers = new
  BY <1>1 DEF Document
<1>7. QED
  BY <1>2, <1>4, <1>5, <1>6

\* The framing answers say nothing about a dimension.
LEMMA FramingWritten ==
  ASSUME NEW doc \in Document, NEW f \in ToSet(Framing),
         NEW a \in AnswersTo(<<"framing", f>>)
  PROVE  LET w == Written(doc, <<"framing", f>>, a) IN
         /\ w \in Document /\ w.answers = doc.answers /\ w.status = doc.status
         /\ w.tier = IF f = "tier" THEN a ELSE doc.tier
         /\ f = "tier" => "tier" \in w.keys
         /\ "tier" \in doc.keys => "tier" \in w.keys
<1> DEFINE w == Written(doc, <<"framing", f>>, a)
<1>1. w = RecordFraming(doc, f, a)
  <2>1. f # "qb_batched"
    BY FramingKeys
  <2>2. QED
    BY <2>1 DEF Written
<1>2. doc.keys \subseteq ToSet(Framing) /\ doc.asked \subseteq AllQuestions
  BY DEF Document
<1>3. CASE f = "roles"
  <2>1. a \in [other: BOOLEAN, typed: BOOLEAN]
    BY <1>3 DEF AnswersTo
  <2> DEFINE o == <<"framing", "roles_other">>
             ks == ((doc.keys \cup {"roles"}) \ {"roles_other"})
                     \cup (IF a.typed THEN {"roles_other"} ELSE {})
             as == (doc.asked \ {o}) \cup (IF a.typed THEN {o} ELSE {})
  <2>2. w = [doc EXCEPT !.other = a.other, !.keys = ks, !.asked = as]
    BY <1>1, <1>3 DEF RecordFraming, RecordRoles, Document
  <2>3. ks \subseteq ToSet(Framing) /\ as \subseteq AllQuestions
    BY <1>2, FramingKeys, QuestionForms
  <2>4. "tier" \in doc.keys => "tier" \in ks
    OBVIOUS
  <2>5. a.other \in BOOLEAN
    BY <2>1
  <2> HIDE DEF ks, as
  <2>6. QED
    BY <1>3, <2>2, <2>3, <2>4, <2>5 DEF Document
<1>4. CASE f = "roles_other"
  <2>1. w = [doc EXCEPT !.keys = IF a THEN @ \cup {f} ELSE @ \ {f}]
    BY <1>1, <1>4 DEF RecordFraming
  <2>2. PICK ks : ks = IF a THEN doc.keys \cup {f} ELSE doc.keys \ {f}
    OBVIOUS
  <2>3. w = [doc EXCEPT !.keys = ks]
    BY <2>1, <2>2 DEF Document
  <2>4. ks \subseteq ToSet(Framing) /\ ("tier" \in doc.keys => "tier" \in ks)
    BY <1>2, <1>4, <2>2
  <2>5. QED
    BY <1>4, <2>3, <2>4 DEF Document
<1>5. CASE f = "tier"
  <2>1. a \in Tiers
    BY <1>5 DEF AnswersTo
  <2>2. w = [doc EXCEPT !.keys = doc.keys \cup {"tier"}, !.tier = a]
    BY <1>1, <1>5 DEF RecordFraming, Document
  <2>3. doc.keys \cup {"tier"} \subseteq ToSet(Framing)
    BY <1>2, <1>5
  <2>4. QED
    BY <1>5, <2>1, <2>2, <2>3 DEF Document
<1>6. CASE f \notin {"roles", "roles_other", "tier"}
  <2>1. w = [doc EXCEPT !.keys = doc.keys \cup {f}]
    BY <1>1, <1>6 DEF RecordFraming, Document
  <2>2. doc.keys \cup {f} \subseteq ToSet(Framing)
    BY <1>2
  <2>3. QED
    BY <1>6, <2>1, <2>2 DEF Document
<1>7. QED
  BY <1>3, <1>4, <1>5, <1>6

\* An answer keeps a document well formed and its verdicts earned; it changes
\* an anchor only where a level is given; and an interview that goes straight
\* on stays straight.
LEMMA Recorded ==
  ASSUME NEW doc \in Document, NEW q \in AllQuestions, NEW a \in AnswersTo(q)
  PROVE  LET w == Record(doc, q, a) IN
         /\ w \in Document /\ w.status = doc.status
         /\ q[2] = "qa" => q[1] \in Dims /\ a \in Levels
         /\ \A d \in Dims :
              w.answers[d].anchor = IF q[2] = "qa" /\ d = q[1] THEN a ELSE doc.answers[d].anchor
         /\ Sound(doc) => Sound(w)
         /\ Straight(doc) /\ q = NextQuestion(doc) => Straight(w)
         /\ q[1] = "framing" => w.answers = doc.answers
<1> DEFINE w == Record(doc, q, a)
           v == Written(doc, q, a)
<1>1. SUFFICES
        /\ v \in Document /\ v.status = doc.status
        /\ q[2] = "qa" => q[1] \in Dims /\ a \in Levels
        /\ \A d \in Dims :
             v.answers[d].anchor = IF q[2] = "qa" /\ d = q[1] THEN a ELSE doc.answers[d].anchor
        /\ Sound(doc) => Sound(v)
        /\ Straight(doc) /\ q = NextQuestion(doc) => Straight(v)
        /\ q[1] = "framing" => v.answers = doc.answers
  <2> HIDE DEF v
  <2>1. ASSUME v \in Document
        PROVE  /\ w \in Document /\ w.status = v.status /\ w.answers = v.answers
               /\ w.tier = v.tier /\ w.keys = v.keys
    <3>1. w = [v EXCEPT !.asked = @ \cup {q}]
      BY DEF v, Record
    <3> HIDE DEF w
    <3>2. v.asked \cup {q} \subseteq AllQuestions
      BY <2>1 DEF Document
    <3>3. w = [v EXCEPT !.asked = v.asked \cup {q}]
      BY <2>1, <3>1 DEF Document
    <3>4. QED
      BY <2>1, <3>2, <3>3 DEF Document
  <2> HIDE DEF w
  <2>2. QED
    BY <2>1 DEF w, Sound, Straight
<1>2. CASE \E f \in ToSet(Framing) : q = <<"framing", f>>
  <2>1. PICK f \in ToSet(Framing) : q = <<"framing", f>>
    BY <1>2
  <2>2. f # "qa" /\ q[2] = f /\ q[1] = "framing"
    BY <2>1, FramingKeys DEF Fields
  <2>3. /\ v \in Document /\ v.answers = doc.answers /\ v.status = doc.status
        /\ v.tier = IF f = "tier" THEN a ELSE doc.tier
        /\ f = "tier" => "tier" \in v.keys
        /\ "tier" \in doc.keys => "tier" \in v.keys
    BY <2>1, FramingWritten
  <2> HIDE DEF v
  <2>4. ASSUME Straight(doc), q = NextQuestion(doc) PROVE Straight(v)
    <3>1. CASE f # "tier"
      BY <3>1, <2>3, <2>4 DEF Straight
    <3>2. CASE f = "tier"
      <4>1. ~IsResolved(doc, q)
        BY <2>4, <2>2, NextIs DEF NoQuestion
      <4>2. "tier" \notin doc.keys
        BY <4>1, <2>2, <3>2 DEF IsResolved, ContentResolved
      <4>3. doc.tier = NoTier /\ ~Probed(doc.tier)
        BY <2>4, <4>2 DEF Straight, NoTier, Probed
      <4>4. QED
        BY <2>3, <2>4, <3>2, <4>3 DEF Straight
    <3>3. QED
      BY <3>1, <3>2
  <2>5. QED
    BY <2>2, <2>3, <2>4 DEF Sound
<1>3. CASE \E d \in Dims, x \in Fields : q = <<d, x>> /\ d # "framing"
  <2>1. PICK d \in Dims, x \in Fields : q = <<d, x>> /\ d # "framing"
    BY <1>3
  <2>2. /\ v \in Document /\ Keeps(doc, v) /\ Fits(x, a)
        /\ v.answers = [doc.answers EXCEPT ![d] = RecordEntry(@, x, a)]
    BY <2>1, FieldWritten
  <2> HIDE DEF v
  <2>3. doc.answers \in [Dims -> Entry]
    BY DEF Document
  <2>4. /\ v.answers[d] = RecordEntry(doc.answers[d], x, a)
        /\ \A e \in Dims : e # d => v.answers[e] = doc.answers[e]
    BY <2>2, <2>3
  <2>5. /\ RecordEntry(doc.answers[d], x, a).anchor = IF x = "qa" THEN a ELSE doc.answers[d].anchor
        /\ Earned(doc.answers[d]) => Earned(RecordEntry(doc.answers[d], x, a))
    BY <2>2, <2>3, EntryRecorded
  <2>6. ASSUME Straight(doc), q = NextQuestion(doc) PROVE Straight(v)
    <3> DEFINE e == doc.answers[d]
               r == RecordEntry(e, x, a)
    <3>1. Due(doc, q) /\ ~IsResolved(doc, q)
      BY <2>1, <2>6, NextIs DEF NoQuestion, Fields
    <3>2. /\ Earned(e) /\ e \in Entry
          /\ e.qc # Nothing => Probed(doc.tier) /\ FiresProbe(e.anchor)
          /\ e.passed # "unset" => FiresProbe(e.anchor)
      BY <2>3, <2>6 DEF Straight, Earned
    <3>3. /\ r.qc # Nothing => Probed(doc.tier) /\ FiresProbe(r.anchor)
          /\ r.passed # "unset" => FiresProbe(r.anchor)
      <4>1. CASE x = "qa"
        <5>1. e.anchor = 0
          BY <2>1, <3>1, <4>1 DEF IsResolved, ContentResolved, Anchored
        <5>2. e.qc = Nothing /\ e.passed = "unset"
          BY <3>2, <5>1 DEF FiresProbe
        <5>3. r.qc = Nothing /\ r.passed = "unset"
          BY <3>2, <4>1, <5>2 DEF RecordEntry, RecordAnchor, ClearProbe, Entry
        <5>4. QED
          BY <5>3
      <4>2. CASE x = "qb"
        <5>1. r = [e EXCEPT !.evidence = a]
          BY <4>2 DEF RecordEntry
        <5>2. QED
          BY <3>2, <5>1 DEF Entry
      <4>3. CASE x = "qc"
        <5>1. Probed(doc.tier) /\ FiresProbe(e.anchor)
          BY <2>1, <3>1, <4>3 DEF Due
        <5>2. r.anchor = e.anchor
          BY <2>5, <4>3
        <5>3. QED
          BY <5>1, <5>2
      <4>4. CASE x = "probe2"
        <5>1. r = [e EXCEPT !.probe2 = a]
          BY <4>4 DEF RecordEntry
        <5>2. QED
          BY <3>2, <5>1 DEF Entry
      <4>5. QED
        BY <4>1, <4>2, <4>3, <4>4 DEF Fields
    <3> HIDE DEF r
    <3>4. Earned(r)
      BY <2>5, <3>2 DEF r
    <3>5. v.answers[d] = r
      BY <2>4 DEF r
    <3>6. v.tier = doc.tier /\ v.keys = doc.keys
      BY <2>2 DEF Keeps
    <3>7. QED
      BY <2>4, <2>6, <3>3, <3>4, <3>5, <3>6 DEF Straight, Earned
  <2>7. v.status = doc.status /\ (x = "qa" => a \in Levels)
    BY <2>2 DEF Keeps, Fits
  <2>8. Sound(doc) => Sound(v)
    BY <2>4, <2>5 DEF Sound
  <2>9. \A e \in Dims :
          v.answers[e].anchor = IF x = "qa" /\ e = d THEN a ELSE doc.answers[e].anchor
    BY <2>4, <2>5
  <2>10. q[1] = d /\ q[2] = x /\ d # "framing"
    BY <2>1
  <2>11. QED
    BY <2>2, <2>6, <2>7, <2>8, <2>9, <2>10
<1>4. CASE \E p \in ToSet(Pillars) : q = <<p, "qb_batched">> /\ p # "framing"
  <2>1. PICK p \in ToSet(Pillars) : q = <<p, "qb_batched">> /\ p # "framing"
    BY <1>4
  <2>2. /\ v \in Document /\ Keeps(doc, v)
        /\ \A d \in Dims : \E b \in BOOLEAN : v.answers[d] = [doc.answers[d] EXCEPT !.evidence = b]
    BY <2>1, BatchWritten
  <2> HIDE DEF v
  <2>3. ASSUME NEW d \in Dims
        PROVE  /\ v.answers[d].anchor = doc.answers[d].anchor /\ v.answers[d].qc = doc.answers[d].qc
               /\ v.answers[d].passed = doc.answers[d].passed
               /\ v.answers[d].judged = doc.answers[d].judged
    <3>1. doc.answers[d] \in Entry
      BY DEF Document
    <3>2. QED
      BY <2>2, <3>1 DEF Entry
  <2>4. v.tier = doc.tier /\ v.keys = doc.keys /\ v.status = doc.status
    BY <2>2 DEF Keeps
  <2>5. q[1] # "framing" /\ q[2] = "qb_batched"
    BY <2>1
  <2>6. Sound(doc) => Sound(v)
    BY <2>3 DEF Sound, Earned, Proven
  <2>7. Straight(doc) => Straight(v)
    BY <2>3, <2>4 DEF Straight, Proven
  <2>8. QED
    BY <2>2, <2>3, <2>4, <2>5, <2>6, <2>7
<1>5. QED
  BY <1>2, <1>3, <1>4, QuestionIs

-----------------------------------------------------------------------------
(* What the other calls do to a document                                   *)

\* Advancing a document touches its status only.
LEMMA AdvancedKeeps ==
  ASSUME NEW doc \in Document
  PROVE  /\ Advanced(doc) \in Document /\ Advanced(doc).answers = doc.answers
         /\ Sound(doc) => Sound(Advanced(doc))
         /\ Straight(doc) => Straight(Advanced(doc))
<1> DEFINE st == IF IsComplete(doc) THEN "complete" ELSE "in_progress"
<1>1. Advanced(doc) = [doc EXCEPT !.status = st] /\ st \in {"in_progress", "complete"}
  BY DEF Advanced
<1> HIDE DEF st
<1>2. /\ Advanced(doc) \in Document /\ Advanced(doc).answers = doc.answers
      /\ Advanced(doc).tier = doc.tier /\ Advanced(doc).keys = doc.keys
  BY <1>1 DEF Document
<1>3. QED
  BY <1>2 DEF Sound, Straight

\* A verdict keeps what was earned, and is given only where the probe fires.
LEMMA Judged ==
  ASSUME NEW doc \in Document, NEW d \in Dims, NEW v \in {"pass", "fail"},
         Judgeable(doc, d, v)
  PROVE  LET w == Judge(doc, d, v) IN
         /\ w \in Document
         /\ \A e \in Dims : w.answers[e].anchor = doc.answers[e].anchor
         /\ Sound(doc) => Sound(w)
         /\ Straight(doc) => Straight(w)
<1> DEFINE w == Judge(doc, d, v)
           e == doc.answers[d]
           r == [e EXCEPT !.passed = v, !.judged = e.qc]
           as == [doc.answers EXCEPT ![d] = r]
<1>1. doc.answers \in [Dims -> Entry] /\ e \in Entry
  BY DEF Document
<1>2. /\ FiresProbe(e.anchor) /\ e.passed = "unset"
      /\ v = "pass" => e.qc # Nothing
  BY DEF Judgeable
<1>3. /\ r \in Entry /\ r.anchor = e.anchor /\ r.qc = e.qc /\ r.passed = v /\ r.judged = e.qc
  BY <1>1 DEF Entry
<1>4. Judge(doc, d, v) = [doc EXCEPT !.answers = as]
  BY <1>1 DEF Judge, Document, Entry
<1>5. Earned(e) => Earned(r)
  BY <1>1, <1>2, <1>3 DEF Earned, Proven, Entry
<1> HIDE DEF r
<1>6. as \in [Dims -> Entry] /\ as[d] = r /\ \A x \in Dims : x # d => as[x] = doc.answers[x]
  BY <1>1, <1>3
<1> HIDE DEF as, e
<1>7. /\ Judge(doc, d, v) \in Document /\ Judge(doc, d, v).answers = as
      /\ Judge(doc, d, v).tier = doc.tier /\ Judge(doc, d, v).keys = doc.keys
  BY <1>4, <1>6 DEF Document
<1> HIDE DEF w
<1>8. w \in Document /\ w.answers = as /\ w.tier = doc.tier /\ w.keys = doc.keys
  BY <1>7 DEF w
<1>9. Sound(doc) => Sound(w)
  BY <1>5, <1>6, <1>8 DEF Sound, e
<1>10. Straight(doc) => Straight(w)
  <2> SUFFICES ASSUME Straight(doc) PROVE Straight(w)
    OBVIOUS
  <2>1. Earned(e) /\ (e.qc # Nothing => Probed(doc.tier))
    BY DEF Straight, Earned, e
  <2>2. /\ Earned(r) /\ (r.qc # Nothing => Probed(w.tier) /\ FiresProbe(r.anchor))
        /\ r.passed # "unset" => FiresProbe(r.anchor)
    BY <1>2, <1>3, <1>5, <1>8, <2>1
  <2>3. QED
    BY <1>6, <1>8, <2>2 DEF Straight, Earned
<1>11. QED
  BY <1>3, <1>6, <1>8, <1>9, <1>10 DEF w, e

\* What a supplied answer can leave behind: nothing about a dimension.
Fresh == {doc \in Document : Straight(doc) /\ doc.answers = [d \in Dims |-> NoEntry]}

LEMMA NewIsFresh == NewDocument \in Fresh
<1>1. NoEntry \in Entry
  BY DEF NoEntry, Entry
<1>2. NewDocument \in Document /\ NewDocument.answers = [d \in Dims |-> NoEntry]
      /\ NewDocument.tier = NoTier
  BY <1>1 DEF NewDocument, Document
<1>3. NoEntry.qc = Nothing /\ NoEntry.passed = "unset"
  BY DEF NoEntry
<1>4. Straight(NewDocument)
  BY <1>2, <1>3, WordsAreWords DEF Straight, Proven
<1>5. QED
  BY <1>2, <1>4 DEF Fresh

LEMMA FreshIsSound ==
  ASSUME NEW doc \in Fresh
  PROVE  doc \in Document /\ Straight(doc) /\ Sound(doc) /\ \A d \in Dims : doc.answers[d].anchor = 0
BY DEF Fresh, Sound, Earned, Straight, NoEntry

LEMMA PrefillKeeps ==
  ASSUME NEW doc \in Fresh, NEW s, s.q[1] = "framing", s.a \in AnswersTo(s.q)
  PROVE  Prefill(doc, s) \in Fresh
<1>1. CASE NextQuestion(doc) # s.q
  BY <1>1 DEF Prefill
<1>2. CASE NextQuestion(doc) = s.q
  <2>1. NoQuestion[1] # "framing"
    BY DEF NoQuestion
  <2>2. s.q \in AllQuestions
    BY <1>2, <2>1, NextTyped
  <2>3. doc \in Document /\ Straight(doc)
    BY DEF Fresh
  <2>4. Prefill(doc, s) = Record(doc, s.q, s.a)
    BY <1>2 DEF Prefill
  <2>5. LET w == Record(doc, s.q, s.a) IN w \in Document /\ Straight(w) /\ w.answers = doc.answers
    BY <1>2, <2>2, <2>3, Recorded
  <2>6. QED
    BY <2>4, <2>5 DEF Fresh
<1>3. QED
  BY <1>1, <1>2

LEMMA PrefilledIsFresh ==
  ASSUME NEW s \in Supplied
  PROVE  Prefilled(s) \in Fresh
<1> DEFINE N == Len(s)
           F(g) == [i \in 0..N |-> IF i = 0 THEN NewDocument ELSE Prefill(g[i - 1], s[i])]
           doc == CHOOSE g : g = F(g)
           G == [p \in Fresh \X (1..N) |-> Prefill(p[1], s[p[2]])]
<1>1. Prefilled(s) = doc[N]
  BY DEF Prefilled
<1>2. s \in Seq(ToSet(s)) /\ N \in Nat
  BY ServerConstants
<1>3. \A i \in 1..N : s[i].q[1] = "framing" /\ s[i].a \in AnswersTo(s[i].q)
  BY <1>2, ServerConstants
<1>4. G \in [Fresh \X (1..N) -> Fresh]
  <2> HIDE DEF Fresh
  <2>1. \A p \in Fresh \X (1..N) : Prefill(p[1], s[p[2]]) \in Fresh
    BY <1>3, PrefillKeeps
  <2>2. QED
    BY <2>1
<1> HIDE DEF N
<1>5. PICK f \in [0..N -> Fresh] : Unfolds(f, NewDocument, N, G)
  <2> HIDE DEF G
  <2> QED
    BY <1>2, <1>4, NewIsFresh, StepwiseExists
<1>6. ASSUME NEW i \in 1..N PROVE f[i] = Prefill(f[i - 1], s[i])
  <2>1. i - 1 \in 0..N
    BY <1>2
  <2>2. f[i - 1] \in Fresh /\ f[i] = G[<<f[i - 1], i>>]
    BY <1>5, <2>1 DEF Unfolds
  <2>3. QED
    BY <2>2
<1>7. f = F(f)
  <2>1. f[0] = NewDocument
    BY <1>5 DEF Unfolds
  <2>2. ASSUME NEW i \in 0..N
        PROVE  f[i] = IF i = 0 THEN NewDocument ELSE Prefill(f[i - 1], s[i])
    <3>1. i # 0 => i \in 1..N
      BY <1>2
    <3>2. QED
      BY <1>6, <2>1, <3>1
  <2>3. QED
    BY <2>2
<1>8. doc = F(doc)
  <2> HIDE DEF F
  <2> QED
    BY <1>7
<1> HIDE DEF doc, G
<1>9. \A i \in 0..N : doc[i] = IF i = 0 THEN NewDocument ELSE Prefill(doc[i - 1], s[i])
  BY <1>8
<1> HIDE DEF F
<1> DEFINE S == {n \in Nat : n \in 0..N => doc[n] \in Fresh}
<1>10. 0 \in S
  <2>1. 0 \in 0..N
    BY <1>2
  <2>2. QED
    BY <1>9, <2>1, NewIsFresh
<1>11. ASSUME NEW n \in Nat, n \in S PROVE n + 1 \in S
  <2>1. SUFFICES ASSUME n + 1 \in 0..N PROVE doc[n + 1] \in Fresh
    OBVIOUS
  <2>2. n \in 0..N /\ n + 1 \in 1..N /\ n + 1 # 0 /\ (n + 1) - 1 = n
    BY <1>2, <2>1
  <2>3. doc[n] \in Fresh
    BY <1>11, <2>2
  <2>4. doc[n + 1] = Prefill(doc[n], s[n + 1])
    BY <1>9, <2>1, <2>2
  <2>5. QED
    BY <1>3, <2>2, <2>3, <2>4, PrefillKeeps
<1>12. Nat \subseteq S
  <2> HIDE DEF S
  <2> QED
    BY <1>10, <1>11, Induction
<1>13. N \in S /\ N \in 0..N
  BY <1>2, <1>12
<1>14. QED
  BY <1>1, <1>13 DEF N

-----------------------------------------------------------------------------
(* The score                                                               *)

LEMMA MinOfTwo ==
  ASSUME NEW m \in Nat, NEW n \in Nat, m <= n
  PROVE  Min({n, m}) = m
<1>1. {n, m} \in SUBSET Nat /\ m \in {n, m} /\ \A x \in {n, m} : m <= x
  OBVIOUS
<1>2. QED
  BY <1>1, MinIs

\* The gate lowers a claim to 2 without an artifact, else to 3 without proof.
LEMMA GateIs ==
  ASSUME NEW claimed \in 1..5, NEW evidenced \in BOOLEAN, NEW passed, NEW tier
  PROVE  LET unnamed == claimed >= 3 /\ ~evidenced
             screened == claimed >= 4 /\ tier = "pulse"
             unproven == claimed >= 4 /\ tier # "pulse" /\ passed # "pass"
             g == Gate(claimed, evidenced, passed, tier)
         IN /\ g.level = IF unnamed THEN 2 ELSE IF screened \/ unproven THEN 3 ELSE claimed
            /\ "no_artifact" \in g.codes <=> unnamed
            /\ "pulse_ceiling" \in g.codes <=> screened
            /\ "probe_failed" \in g.codes <=> unproven
            /\ g.codes = {} <=> ~unnamed /\ ~screened /\ ~unproven
<1> DEFINE unnamed == claimed >= 3 /\ ~evidenced
           screened == claimed >= 4 /\ tier = "pulse"
           unproven == claimed >= 4 /\ tier # "pulse" /\ passed # "pass"
           S == {claimed} \cup (IF unnamed THEN {2} ELSE {})
                  \cup (IF screened \/ unproven THEN {3} ELSE {})
           g == Gate(claimed, evidenced, passed, tier)
           m == IF unnamed THEN 2 ELSE IF screened \/ unproven THEN 3 ELSE claimed
<1>1. g.level = Min(S)
  BY DEF Gate
<1>2. S \in SUBSET Nat /\ m \in S /\ \A x \in S : m <= x
  OBVIOUS
<1>3. Min(S) = m
  <2> HIDE DEF S, m
  <2> QED
    BY <1>2, MinIs
<1>4. g.codes = (IF unnamed THEN {"no_artifact"} ELSE {})
                  \cup (IF screened THEN {"pulse_ceiling"} ELSE {})
                  \cup (IF unproven THEN {"probe_failed"} ELSE {})
  BY DEF Gate
<1> HIDE DEF g, unnamed, screened, unproven
<1>5. /\ "no_artifact" \in g.codes <=> unnamed
      /\ "pulse_ceiling" \in g.codes <=> screened
      /\ "probe_failed" \in g.codes <=> unproven
      /\ g.codes = {} <=> ~unnamed /\ ~screened /\ ~unproven
  BY <1>4
<1>6. QED
  BY <1>1, <1>3, <1>5 DEF g, unnamed, screened, unproven

\* The validator accepts what the scorer makes of a document it takes, and a
\* high level rests on an artifact and on a proven answer.
LEMMA ScoreOfSound ==
  ASSUME NEW doc \in Document, Sound(doc), Scorable(doc), doc.tier # NoTier
  PROVE  LET a == Assessment(doc) IN
         /\ Valid(a)
         /\ \A d \in Dims :
              /\ a.scores[d].level >= 3 => doc.answers[d].evidence
              /\ a.scores[d].level >= 4 => doc.answers[d].judged \in Words
<1> DEFINE a == Assessment(doc)
           scores == [d \in Dims |-> Scored(doc, d)]
<1>1. /\ a.tier = doc.tier /\ a.scores = scores /\ a.overall = Floor(scores, Dims)
      /\ a.staged = [p \in ToSet(Pillars) |-> Floor(scores, ToSet(DimsOf[p]))]
  BY DEF Assessment
<1>2. ScoreTier(doc) = doc.tier /\ doc.tier \in Tiers
  BY DEF ScoreTier, Document
<1> HIDE DEF a
<1>3. ASSUME NEW d \in Dims
      PROVE  LET s == a.scores[d] IN
             /\ s.level <= s.claimed /\ s.capped = (s.level # s.claimed) /\ s.capped = (s.codes # {})
             /\ s.passed # "unset" => s.qc # Nothing
             /\ (s.claimed < 4 \/ a.tier = "pulse") => s.qc = Nothing /\ s.passed = "unset"
             /\ "no_artifact" \in s.codes <=> s.claimed >= 3 /\ ~s.evidence
             /\ "pulse_ceiling" \in s.codes <=> s.claimed >= 4 /\ a.tier = "pulse"
             /\ "probe_failed" \in s.codes <=> s.claimed >= 4 /\ a.tier # "pulse" /\ s.passed # "pass"
             /\ s.level = IF "no_artifact" \in s.codes THEN Min({s.claimed, 2})
                          ELSE IF s.codes # {} THEN Min({s.claimed, 3}) ELSE s.claimed
             /\ s.level >= 3 => doc.answers[d].evidence
             /\ s.level >= 4 => doc.answers[d].judged \in Words
  <2> DEFINE e == doc.answers[d]
             s == a.scores[d]
             g == Gate(e.anchor, e.evidence, e.passed, doc.tier)
  <2>1. e \in Entry /\ e.anchor \in 1..5 /\ e.evidence \in BOOLEAN
    <3>1. e \in Entry /\ e.anchor # 0
      BY DEF Document, Scorable, Anchored
    <3>2. QED
      BY <3>1, InterviewConstants DEF Entry
  <2>2. /\ s.claimed = e.anchor /\ s.level = g.level /\ s.codes = g.codes
        /\ s.capped = (g.level # e.anchor) /\ s.evidence = e.evidence
        /\ s.qc = e.qc /\ s.passed = e.passed
    <3>1. s = Scored(doc, d)
      BY <1>1
    <3>2. QED
      BY <1>2, <3>1 DEF Scored
  <2> DEFINE unnamed == e.anchor >= 3 /\ ~e.evidence
             screened == e.anchor >= 4 /\ doc.tier = "pulse"
             unproven == e.anchor >= 4 /\ doc.tier # "pulse" /\ e.passed # "pass"
  <2>3. /\ g.level = IF unnamed THEN 2 ELSE IF screened \/ unproven THEN 3 ELSE e.anchor
        /\ "no_artifact" \in g.codes <=> unnamed
        /\ "pulse_ceiling" \in g.codes <=> screened
        /\ "probe_failed" \in g.codes <=> unproven
        /\ g.codes = {} <=> ~unnamed /\ ~screened /\ ~unproven
    BY <2>1, GateIs
  <2>4. /\ HasProbeState(e) => Probed(doc.tier) /\ FiresProbe(e.anchor)
        /\ e.passed # "unset" => e.qc # Nothing
    BY <1>2 DEF Scorable
  <2>5. e.passed = "pass" => e.judged \in Words
    BY DEF Sound, Earned, Proven
  <2> HIDE DEF g, s, e
  <2>6. (e.anchor < 4 \/ doc.tier = "pulse") => e.qc = Nothing /\ e.passed = "unset"
    BY <2>1, <2>4 DEF HasProbeState, Probed, FiresProbe
  <2>7. unnamed => Min({e.anchor, 2}) = 2
    BY <2>1, MinOfTwo
  <2>8. screened \/ unproven => Min({e.anchor, 3}) = 3
    BY <2>1, MinOfTwo
  <2>9. s.level = IF "no_artifact" \in s.codes THEN Min({s.claimed, 2})
                  ELSE IF s.codes # {} THEN Min({s.claimed, 3}) ELSE s.claimed
    BY <2>1, <2>2, <2>3, <2>7, <2>8
  <2>10. s.level <= s.claimed /\ s.capped = (s.level # s.claimed) /\ s.capped = (s.codes # {})
    BY <2>1, <2>2, <2>3
  <2>11. /\ s.level >= 3 => e.evidence
         /\ s.level >= 4 => e.judged \in Words
    BY <2>1, <2>2, <2>3, <2>5
  <2>12. QED
    BY <1>1, <2>2, <2>3, <2>4, <2>6, <2>9, <2>10, <2>11 DEF s, e
<1>4. a.tier \in Tiers
  BY <1>1, <1>2
<1>5. \A p \in ToSet(Pillars) : a.staged[p] = Floor(a.scores, ToSet(DimsOf[p]))
  BY <1>1
<1> HIDE DEF scores
<1>6. a.overall = Floor(a.scores, Dims)
  BY <1>1
<1>7. Valid(a)
  BY <1>3, <1>4, <1>5, <1>6 DEF Valid
<1>8. QED
  BY <1>3, <1>7 DEF a

-----------------------------------------------------------------------------
(* The invariant                                                           *)

Values == UNION {AnswersTo(q) : q \in AllQuestions}
Reply == [action : {"accept"}, ask : AllQuestions, value : Values]
FrameType == [doc : Document, ask : AllQuestions, reply : Seq(Reply), quota : Nat, stale : BOOLEAN]

\* A frame waits for the question its document leads to, and what is parked
\* for it answers that question.
Waiting == {f \in FrameType :
              /\ f.ask = NextQuestion(f.doc) /\ Sound(f.doc)
              /\ \A k \in DOMAIN f.reply :
                   f.reply[k].ask = f.ask /\ f.reply[k].value \in AnswersTo(f.ask)}

Types ==
  /\ file = NoFile \/ (file \in Document /\ Sound(file))
  /\ frames \in Seq(Waiting) /\ Top <= MaxDepth
  /\ heard \in [Dims -> Levels \cup {0}] /\ lost \in BOOLEAN /\ spare \in 0..Spare

Unstarted == file = NoFile => frames = <<>> /\ heard = Nobody

\* As long as the interview goes straight on, every document is straight.
StraightOn ==
  spare = Spare => /\ file # NoFile => Straight(file)
                   /\ \A i \in DOMAIN frames : Straight(frames[i].doc)

InterviewInv == Types /\ Unstarted /\ StraightOn /\ SavedBeforeAsked /\ HeardIsKept

LEMMA DocumentIsFile ==
  ASSUME NEW doc \in Document
  PROVE  doc # NoFile
BY ServerConstants

\* What a call must see to before it writes the file.
LEMMA CallKeeps ==
  ASSUME InterviewInv, NEW doc \in Document, Sound(doc), SavedByCall(doc),
         heard' \in [Dims -> Levels \cup {0}], lost' = lost, spare' \in 0..Spare,
         spare' = Spare => spare = Spare /\ Straight(doc),
         ~lost => \A d \in Dims : doc.answers[d].anchor = heard'[d]
  PROVE  InterviewInv'
<1>1. file' = doc /\ doc # NoFile
  BY DocumentIsFile DEF SavedByCall
<1>2. frames \in Seq(Waiting) /\ Len(frames) \in Nat /\ DOMAIN frames = 1..Len(frames)
  BY DEF InterviewInv, Types
<1>3. \A i \in DOMAIN frames : [frames[i] EXCEPT !.stale = TRUE] \in Waiting
  <2>1. ASSUME NEW f \in Waiting PROVE [f EXCEPT !.stale = TRUE] \in Waiting
    <3>1. f \in FrameType
      BY DEF Waiting
    <3>2. /\ [f EXCEPT !.stale = TRUE] \in FrameType
          /\ [f EXCEPT !.stale = TRUE].doc = f.doc /\ [f EXCEPT !.stale = TRUE].ask = f.ask
          /\ [f EXCEPT !.stale = TRUE].reply = f.reply
      BY <3>1 DEF FrameType
    <3>3. QED
      BY <3>2 DEF Waiting
  <2>2. QED
    BY <1>2, <2>1
<1>4. /\ frames' \in Seq(Waiting) /\ Len(frames') = Len(frames) /\ DOMAIN frames' = DOMAIN frames
      /\ \A i \in DOMAIN frames : frames'[i] = [frames[i] EXCEPT !.stale = TRUE]
  <2>1. frames' = [i \in DOMAIN frames |-> [frames[i] EXCEPT !.stale = TRUE]]
    BY DEF SavedByCall
  <2>2. frames' \in [1..Len(frames) -> Waiting]
    BY <1>2, <1>3, <2>1
  <2>3. frames' \in Seq(Waiting) /\ Len(frames') = Len(frames)
    BY <1>2, <2>2, FunctionIsSeq
  <2>4. QED
    BY <2>1, <2>3
<1>5. \A i \in DOMAIN frames : frames'[i].stale /\ frames'[i].doc = frames[i].doc
  <2>1. \A i \in DOMAIN frames : frames[i] \in FrameType
    BY <1>2 DEF Waiting
  <2>2. QED
    BY <1>4, <2>1 DEF FrameType
<1>6. Types'
  BY <1>1, <1>4 DEF InterviewInv, Types, Top
<1>7. Unstarted' /\ HeardIsKept'
  BY <1>1 DEF Unstarted, HeardIsKept
<1>8. StraightOn'
  BY <1>1, <1>4, <1>5 DEF InterviewInv, StraightOn
<1>9. SavedBeforeAsked'
  BY <1>4, <1>5 DEF SavedBeforeAsked
<1>10. QED
  BY <1>6, <1>7, <1>8, <1>9 DEF InterviewInv

\* The frames below the one that has the floor.
LEMMA Below ==
  ASSUME InterviewInv, frames # <<>>
  PROVE  LET rest == SubSeq(frames, 1, Top - 1) IN
         /\ Top \in Nat \ {0} /\ frames[Top] \in Waiting /\ Top \in DOMAIN frames
         /\ rest \in Seq(Waiting) /\ Len(rest) = Top - 1
         /\ \A i \in 1..(Top - 1) : i \in DOMAIN frames /\ rest[i] = frames[i] /\ rest[i] \in Waiting
<1>1. frames \in Seq(Waiting) /\ Top \in Nat /\ DOMAIN frames = 1..Top
  BY DEF InterviewInv, Types, Top
<1>2. Top # 0
  BY <1>1, EmptySeq DEF Top
<1>3. SubSeq(frames, 1, Top - 1) \in Seq(Waiting) /\ Len(SubSeq(frames, 1, Top - 1)) = Top - 1
  BY <1>1, <1>2 DEF Top
<1>4. \A i \in 1..(Top - 1) : SubSeq(frames, 1, Top - 1)[i] = frames[i]
  BY <1>1, <1>2 DEF Top
<1>5. QED
  BY <1>1, <1>2, <1>3, <1>4

LEMMA StaleWaits ==
  ASSUME NEW f \in Waiting
  PROVE  [f EXCEPT !.stale = TRUE] \in Waiting /\ [f EXCEPT !.stale = TRUE].stale
           /\ [f EXCEPT !.stale = TRUE].doc = f.doc
<1>1. f \in FrameType
  BY DEF Waiting
<1>2. /\ [f EXCEPT !.stale = TRUE] \in FrameType /\ [f EXCEPT !.stale = TRUE].stale
      /\ [f EXCEPT !.stale = TRUE].doc = f.doc /\ [f EXCEPT !.stale = TRUE].ask = f.ask
      /\ [f EXCEPT !.stale = TRUE].reply = f.reply
  BY <1>1 DEF FrameType
<1>3. QED
  BY <1>2 DEF Waiting

\* What the frame on top must see to before it writes the file and ends.
LEMMA EndKeeps ==
  ASSUME InterviewInv, frames # <<>>, NEW doc \in Document, Sound(doc),
         SavedByTop(doc, SubSeq(frames, 1, Top - 1)),
         heard' \in [Dims -> Levels \cup {0}], spare' \in 0..Spare,
         spare' = Spare => spare = Spare /\ Straight(doc),
         ~lost' => \A d \in Dims : doc.answers[d].anchor = heard'[d]
  PROVE  InterviewInv'
<1> DEFINE rest == SubSeq(frames, 1, Top - 1)
<1>1. /\ Top \in Nat \ {0} /\ frames[Top] \in Waiting /\ Top \in DOMAIN frames
      /\ rest \in Seq(Waiting) /\ Len(rest) = Top - 1
      /\ \A i \in 1..(Top - 1) : i \in DOMAIN frames /\ rest[i] = frames[i] /\ rest[i] \in Waiting
  BY Below
<1>2. /\ file' = doc /\ doc # NoFile /\ lost' = (lost \/ frames[Top].stale)
      /\ frames' = [i \in DOMAIN rest |-> IF i < Top THEN [rest[i] EXCEPT !.stale = TRUE] ELSE rest[i]]
  BY DocumentIsFile DEF SavedByTop
<1> HIDE DEF rest
<1>3. DOMAIN rest = 1..(Top - 1)
  BY <1>1
<1>4. \A i \in 1..(Top - 1) : /\ frames'[i] \in Waiting /\ frames'[i].stale
                             /\ frames'[i].doc = frames[i].doc
  <2>1. ASSUME NEW i \in 1..(Top - 1) PROVE frames'[i] = [rest[i] EXCEPT !.stale = TRUE]
    <3>1. i < Top /\ i \in DOMAIN rest
      BY <1>1, <1>3
    <3>2. QED
      BY <1>2, <3>1
  <2>2. ASSUME NEW i \in 1..(Top - 1)
        PROVE  frames'[i] \in Waiting /\ frames'[i].stale /\ frames'[i].doc = frames[i].doc
    <3>1. rest[i] \in Waiting /\ rest[i] = frames[i] /\ frames'[i] = [rest[i] EXCEPT !.stale = TRUE]
      BY <1>1, <2>1
    <3>2. QED
      BY <3>1, StaleWaits
  <2>3. QED
    BY <2>2
<1>5. frames' \in [1..(Top - 1) -> Waiting]
  BY <1>2, <1>3, <1>4
<1>6. Top - 1 \in Nat
  BY <1>1
<1>7. frames' \in Seq(Waiting) /\ Len(frames') = Top - 1 /\ DOMAIN frames' = 1..(Top - 1)
  BY <1>5, <1>6, FunctionIsSeq
<1>8. lost' \in BOOLEAN /\ Top <= MaxDepth /\ MaxDepth \in Nat
  BY <1>2, ServerConstants DEF InterviewInv, Types
<1>9. Top' <= MaxDepth
  BY <1>6, <1>7, <1>8 DEF Top
<1>10. Types'
  BY <1>2, <1>7, <1>8, <1>9 DEF Types
<1>11. Unstarted' /\ HeardIsKept'
  BY <1>2 DEF Unstarted, HeardIsKept
<1>12. StraightOn'
  BY <1>1, <1>2, <1>4, <1>7 DEF InterviewInv, StraightOn
<1>13. SavedBeforeAsked'
  BY <1>4, <1>7 DEF SavedBeforeAsked
<1>14. QED
  BY <1>10, <1>11, <1>12, <1>13 DEF InterviewInv

\* ... and before it writes the file and asks again.
LEMMA AskAgainKeeps ==
  ASSUME InterviewInv, frames # <<>>, NEW doc \in Document, Sound(doc), NEW g \in Waiting,
         g.doc = doc, SavedByTop(doc, Append(SubSeq(frames, 1, Top - 1), g)),
         heard' \in [Dims -> Levels \cup {0}], spare' \in 0..Spare,
         spare' = Spare => spare = Spare /\ Straight(doc),
         ~lost' => \A d \in Dims : doc.answers[d].anchor = heard'[d]
  PROVE  InterviewInv'
<1> DEFINE rest == SubSeq(frames, 1, Top - 1)
           below == Append(rest, g)
<1>1. /\ Top \in Nat \ {0} /\ frames[Top] \in Waiting /\ Top \in DOMAIN frames
      /\ rest \in Seq(Waiting) /\ Len(rest) = Top - 1
      /\ \A i \in 1..(Top - 1) : i \in DOMAIN frames /\ rest[i] = frames[i] /\ rest[i] \in Waiting
  BY Below
<1>2. /\ file' = doc /\ doc # NoFile /\ lost' = (lost \/ frames[Top].stale)
      /\ frames' = [i \in DOMAIN below |-> IF i < Top THEN [below[i] EXCEPT !.stale = TRUE] ELSE below[i]]
  BY DocumentIsFile DEF SavedByTop
<1> HIDE DEF rest
<1>3. /\ below \in Seq(Waiting) /\ Len(below) = Top /\ below[Top] = g
      /\ \A i \in 1..(Top - 1) : below[i] = rest[i]
  BY <1>1
<1> HIDE DEF below
<1>4. DOMAIN below = 1..Top
  BY <1>3
<1>5. frames'[Top] = g
  BY <1>1, <1>2, <1>3, <1>4
<1>6. \A i \in 1..(Top - 1) : /\ frames'[i] \in Waiting /\ frames'[i].stale
                             /\ frames'[i].doc = frames[i].doc
  <2>1. ASSUME NEW i \in 1..(Top - 1) PROVE frames'[i] = [rest[i] EXCEPT !.stale = TRUE]
    <3>1. i < Top /\ i \in DOMAIN below /\ below[i] = rest[i]
      BY <1>1, <1>3, <1>4
    <3>2. QED
      BY <1>2, <3>1
  <2>2. ASSUME NEW i \in 1..(Top - 1)
        PROVE  frames'[i] \in Waiting /\ frames'[i].stale /\ frames'[i].doc = frames[i].doc
    <3>1. rest[i] \in Waiting /\ rest[i] = frames[i] /\ frames'[i] = [rest[i] EXCEPT !.stale = TRUE]
      BY <1>1, <2>1
    <3>2. QED
      BY <3>1, StaleWaits
  <2>3. QED
    BY <2>2
<1>7. \A i \in 1..Top : i = Top \/ i \in 1..(Top - 1)
  BY <1>1
<1>8. frames' \in [1..Top -> Waiting]
  BY <1>2, <1>4, <1>5, <1>6, <1>7
<1>9. frames' \in Seq(Waiting) /\ Len(frames') = Top /\ DOMAIN frames' = 1..Top
  BY <1>1, <1>8, FunctionIsSeq
<1>10. lost' \in BOOLEAN /\ Top' <= MaxDepth
  BY <1>2, <1>9 DEF InterviewInv, Types, Top
<1>11. Types'
  BY <1>2, <1>9, <1>10 DEF Types
<1>12. Unstarted' /\ HeardIsKept'
  BY <1>2 DEF Unstarted, HeardIsKept
<1>13. StraightOn'
  BY <1>1, <1>2, <1>5, <1>6, <1>7, <1>9 DEF InterviewInv, StraightOn
<1>14. SavedBeforeAsked'
  <2>1. [doc EXCEPT !.status = doc.status] = doc
    BY DEF Document
  <2>2. QED
    BY <1>2, <1>5, <1>6, <1>7, <1>9, <2>1 DEF SavedBeforeAsked
<1>15. QED
  BY <1>11, <1>12, <1>13, <1>14 DEF InterviewInv

-----------------------------------------------------------------------------
(* The initial states and the steps                                        *)

LEMMA StraightIsSound ==
  ASSUME NEW doc, Straight(doc)
  PROVE  Sound(doc)
BY DEF Straight, Sound, Earned

LEMMA AnchorTyped ==
  ASSUME NEW doc \in Document, NEW d \in Dims
  PROVE  doc.answers[d].anchor \in Levels \cup {0}
<1>1. doc.answers[d] \in Entry
  BY DEF Document
<1>2. QED
  BY <1>1 DEF Entry

LEMMA InterviewInitInv ==
  ASSUME Init
  PROVE  InterviewInv
<1>1. frames = <<>> /\ lost = FALSE /\ spare = Spare /\ Spare \in Nat /\ MaxDepth \in Nat
  BY ServerConstants DEF Init
<1>2. file = NoFile \/ (file \in Document /\ Straight(file) /\ Sound(file))
  BY ServerConstants, StraightIsSound DEF Init
<1>3. heard = [d \in Dims |-> IF file = NoFile THEN 0 ELSE file.answers[d].anchor]
  BY DEF Init
<1>4. heard \in [Dims -> Levels \cup {0}]
  BY <1>2, <1>3, AnchorTyped
<1>5. frames \in Seq(Waiting) /\ Len(frames) = 0 /\ DOMAIN frames = {}
  BY <1>1
<1>6. Types
  <2>1. Top <= MaxDepth /\ spare \in 0..Spare /\ lost \in BOOLEAN
    <3>1. Top = 0 /\ 0 <= MaxDepth
      BY <1>1, <1>5 DEF Top
    <3>2. spare \in 0..Spare
      BY <1>1
    <3>3. lost \in BOOLEAN
      BY <1>1
    <3>4. QED
      BY <3>1, <3>2, <3>3
  <2>2. QED
    BY <1>2, <1>4, <1>5, <2>1 DEF Types
<1>7. Unstarted /\ HeardIsKept
  BY <1>1, <1>3 DEF Unstarted, HeardIsKept, Nobody
<1>8. StraightOn /\ SavedBeforeAsked
  BY <1>2, <1>5 DEF StraightOn, SavedBeforeAsked
<1>9. QED
  BY <1>6, <1>7, <1>8 DEF InterviewInv

LEMMA FileIs ==
  ASSUME InterviewInv, file # NoFile
  PROVE  /\ file \in Document /\ Sound(file) /\ (spare = Spare => Straight(file))
         /\ ~lost => \A d \in Dims : file.answers[d].anchor = heard[d]
BY DEF InterviewInv, Types, StraightOn, HeardIsKept

\* The bound on departures only goes down.
LEMMA DepartsDown ==
  ASSUME InterviewInv, Departs
  PROVE  spare' \in 0..Spare /\ spare' # Spare
BY ServerConstants DEF InterviewInv, Types, Departs

LEMMA StartSessionKeeps ==
  ASSUME InterviewInv, NEW s \in Supplied, StartSession(s)
  PROVE  InterviewInv'
<1> DEFINE doc == Advanced(Prefilled(s))
<1>1. Prefilled(s) \in Fresh
  BY PrefilledIsFresh
<1>2. /\ Prefilled(s) \in Document /\ Straight(Prefilled(s)) /\ Sound(Prefilled(s))
      /\ \A d \in Dims : Prefilled(s).answers[d].anchor = 0
  BY <1>1, FreshIsSound
<1>3. /\ doc \in Document /\ Sound(doc) /\ Straight(doc)
      /\ \A d \in Dims : doc.answers[d].anchor = 0
  BY <1>2, AdvancedKeeps
<1>4. /\ file = NoFile /\ SavedByCall(doc)
      /\ heard' = heard /\ lost' = lost /\ spare' = spare
  BY DEF StartSession
<1> HIDE DEF doc
<1>5. heard \in [Dims -> Levels \cup {0}] /\ spare \in 0..Spare /\ heard = Nobody
  BY <1>4 DEF InterviewInv, Types, Unstarted
<1>6. \A d \in Dims : doc.answers[d].anchor = heard'[d]
  BY <1>3, <1>4, <1>5 DEF Nobody
<1>7. QED
  BY <1>3, <1>4, <1>5, <1>6, CallKeeps

LEMMA OverwriteSessionKeeps ==
  ASSUME InterviewInv, NEW s \in Supplied, OverwriteSession(s)
  PROVE  InterviewInv'
<1> DEFINE doc == Advanced(Prefilled(s))
<1>1. Prefilled(s) \in Fresh
  BY PrefilledIsFresh
<1>2. /\ Prefilled(s) \in Document /\ Straight(Prefilled(s)) /\ Sound(Prefilled(s))
      /\ \A d \in Dims : Prefilled(s).answers[d].anchor = 0
  BY <1>1, FreshIsSound
<1>3. /\ doc \in Document /\ Sound(doc) /\ Straight(doc)
      /\ \A d \in Dims : doc.answers[d].anchor = 0
  BY <1>2, AdvancedKeeps
<1>4. SavedByCall(doc) /\ heard' = Nobody /\ lost' = lost /\ Departs
  BY DEF OverwriteSession
<1> HIDE DEF doc
<1>5. heard' \in [Dims -> Levels \cup {0}] /\ \A d \in Dims : doc.answers[d].anchor = heard'[d]
  BY <1>3, <1>4 DEF Nobody
<1>6. QED
  BY <1>3, <1>4, <1>5, CallKeeps, DepartsDown

LEMMA ResumeSessionKeeps ==
  ASSUME InterviewInv, ResumeSession
  PROVE  InterviewInv'
<1>1. SavedByCall(Advanced(file)) /\ heard' = heard /\ lost' = lost /\ Departs /\ file # NoFile
  BY DEF ResumeSession
<1>2. /\ Advanced(file) \in Document /\ Sound(Advanced(file))
      /\ ~lost => \A d \in Dims : Advanced(file).answers[d].anchor = heard[d]
  BY <1>1, FileIs, AdvancedKeeps
<1>3. heard' \in [Dims -> Levels \cup {0}]
  BY <1>1 DEF InterviewInv, Types
<1>4. QED
  BY <1>1, <1>2, <1>3, CallKeeps, DepartsDown

\* A call that records: of the next question, or of another as a departure.
LEMMA RecordCallKeeps ==
  ASSUME InterviewInv, NEW q \in AllQuestions, NEW a \in AnswersTo(q), RecordCall(q, a),
         spare' \in 0..Spare, spare' = Spare => spare = Spare /\ q = NextQuestion(file)
  PROVE  InterviewInv'
<1> DEFINE r == Record(file, q, a)
           doc == Advanced(r)
<1>1. file # NoFile /\ SavedByCall(doc) /\ Hear(q, a) /\ lost' = lost
  BY DEF RecordCall
<1>2. /\ file \in Document /\ Sound(file) /\ (spare = Spare => Straight(file))
      /\ ~lost => \A d \in Dims : file.answers[d].anchor = heard[d]
  BY <1>1, FileIs
<1>3. /\ r \in Document /\ r.status = file.status
      /\ q[2] = "qa" => q[1] \in Dims /\ a \in Levels
      /\ \A d \in Dims :
           r.answers[d].anchor = IF q[2] = "qa" /\ d = q[1] THEN a ELSE file.answers[d].anchor
      /\ Sound(file) => Sound(r)
      /\ Straight(file) /\ q = NextQuestion(file) => Straight(r)
  BY <1>2, Recorded
<1> HIDE DEF r
<1>4. /\ doc \in Document /\ Sound(doc) /\ doc.answers = r.answers
      /\ spare' = Spare => spare = Spare /\ Straight(doc)
  BY <1>2, <1>3, AdvancedKeeps
<1> HIDE DEF doc
<1>5. heard \in [Dims -> Levels \cup {0}]
  BY DEF InterviewInv, Types
<1>6. heard' = IF q[2] = "qa" /\ ~lost THEN [heard EXCEPT ![q[1]] = a] ELSE heard
  BY <1>1 DEF Hear
<1>7. heard' \in [Dims -> Levels \cup {0}]
  BY <1>3, <1>5, <1>6
<1>8. ~lost => \A d \in Dims : doc.answers[d].anchor = heard'[d]
  BY <1>2, <1>3, <1>4, <1>5, <1>6
<1>9. QED
  BY <1>1, <1>4, <1>7, <1>8, CallKeeps

LEMMA JudgeProbeKeeps ==
  ASSUME InterviewInv, NEW d \in Dims, NEW v \in {"pass", "fail"}, JudgeProbe(d, v)
  PROVE  InterviewInv'
<1> DEFINE w == Judge(file, d, v)
           doc == Advanced(w)
<1>1. /\ file # NoFile /\ Judgeable(file, d, v) /\ SavedByCall(doc)
      /\ heard' = heard /\ lost' = lost
  BY DEF JudgeProbe
<1>2. /\ file \in Document /\ Sound(file) /\ (spare = Spare => Straight(file))
      /\ ~lost => \A e \in Dims : file.answers[e].anchor = heard[e]
  BY <1>1, FileIs
<1>3. /\ w \in Document /\ \A e \in Dims : w.answers[e].anchor = file.answers[e].anchor
      /\ Sound(file) => Sound(w)
      /\ Straight(file) => Straight(w)
  BY <1>1, <1>2, Judged
<1> HIDE DEF w
<1>4. /\ doc \in Document /\ Sound(doc) /\ doc.answers = w.answers
      /\ spare = Spare => Straight(doc)
  BY <1>2, <1>3, AdvancedKeeps
<1> HIDE DEF doc
<1>5. spare' \in 0..Spare /\ (spare' = Spare => spare = Spare)
  BY ServerConstants DEF InterviewInv, Types, JudgeProbe
<1>6. heard' \in [Dims -> Levels \cup {0}]
  BY <1>1 DEF InterviewInv, Types
<1>7. ~lost => \A e \in Dims : doc.answers[e].anchor = heard'[e]
  BY <1>1, <1>2, <1>3, <1>4
<1>8. QED
  BY <1>1, <1>4, <1>5, <1>6, <1>7, CallKeeps

LEMMA FrameWaits ==
  ASSUME NEW doc \in Document, Sound(doc), NextQuestion(doc) # NoQuestion, NEW n \in Nat
  PROVE  /\ Frame(doc, n) \in Waiting /\ Frame(doc, n).doc = doc /\ ~Frame(doc, n).stale
<1>1. NextQuestion(doc) \in AllQuestions /\ <<>> \in Seq(Reply) /\ DOMAIN <<>> = {}
  BY NextTyped
<1>2. Frame(doc, n) \in FrameType
  BY <1>1 DEF Frame, FrameType
<1>3. Frame(doc, n).doc = doc /\ Frame(doc, n).ask = NextQuestion(doc) /\ Frame(doc, n).reply = <<>>
  BY DEF Frame
<1>4. QED
  BY <1>1, <1>2, <1>3 DEF Waiting, Frame

LEMMA RunInterviewKeeps ==
  ASSUME InterviewInv, NEW n \in Quotas, RunInterview(n)
  PROVE  InterviewInv'
<1>1. file # NoFile /\ heard' = heard /\ lost' = lost /\ Top < MaxDepth
  BY DEF RunInterview
<1>2. /\ file \in Document /\ Sound(file) /\ (spare = Spare => Straight(file))
      /\ ~lost => \A d \in Dims : file.answers[d].anchor = heard[d]
  BY <1>1, FileIs
<1>3. spare' \in 0..Spare /\ (spare' = Spare => spare = Spare)
  BY ServerConstants DEF InterviewInv, Types, RunInterview
<1>4. heard \in [Dims -> Levels \cup {0}]
  BY DEF InterviewInv, Types
<1>5. CASE NextQuestion(file) = NoQuestion
  <2>1. SavedByCall(Advanced(file))
    BY <1>5 DEF RunInterview
  <2>2. /\ Advanced(file) \in Document /\ Sound(Advanced(file))
        /\ spare = Spare => Straight(Advanced(file))
        /\ ~lost => \A d \in Dims : Advanced(file).answers[d].anchor = heard[d]
    BY <1>2, AdvancedKeeps
  <2>3. QED
    BY <1>1, <1>3, <1>4, <2>1, <2>2, CallKeeps
<1>6. CASE NextQuestion(file) # NoQuestion
  <2> DEFINE f == Frame(file, n)
  <2>1. frames' = Append(frames, f) /\ file' = file
    BY <1>6 DEF RunInterview
  <2>2. n \in Nat /\ MaxDepth \in Nat
    BY ServerConstants
  <2>3. f \in Waiting /\ f.doc = file /\ ~f.stale
    BY <1>2, <1>6, <2>2, FrameWaits
  <2> HIDE DEF f
  <2>4. frames \in Seq(Waiting) /\ Top \in Nat /\ DOMAIN frames = 1..Top
    BY DEF InterviewInv, Types, Top
  <2>5. /\ frames' \in Seq(Waiting) /\ Len(frames') = Top + 1 /\ frames'[Top + 1] = f
        /\ \A i \in 1..Top : frames'[i] = frames[i]
    BY <2>1, <2>3, <2>4 DEF Top
  <2>6. DOMAIN frames' = 1..(Top + 1) /\ \A i \in 1..(Top + 1) : i = Top + 1 \/ i \in 1..Top
    BY <2>4, <2>5
  <2>7. Top' <= MaxDepth
    BY <1>1, <2>2, <2>4, <2>5 DEF Top
  <2>8. Types'
    BY <1>1, <1>2, <1>3, <1>4, <2>1, <2>5, <2>7 DEF InterviewInv, Types
  <2>9. Unstarted' /\ HeardIsKept'
    BY <1>1, <1>2, <2>1 DEF Unstarted, HeardIsKept
  <2>10. StraightOn'
    BY <1>2, <1>3, <2>1, <2>3, <2>4, <2>5, <2>6 DEF InterviewInv, StraightOn
  <2>11. SavedBeforeAsked'
    <3>1. [file EXCEPT !.status = file.status] = file
      BY <1>2 DEF Document
    <3>2. QED
      BY <2>1, <2>3, <2>4, <2>5, <2>6, <3>1 DEF InterviewInv, SavedBeforeAsked
  <2>12. QED
    BY <2>8, <2>9, <2>10, <2>11 DEF InterviewInv
<1>7. QED
  BY <1>5, <1>6

\* The frame that has the floor, and what the file says of its document.
LEMMA TopIs ==
  ASSUME InterviewInv, frames # <<>>
  PROVE  LET f == frames[Top] IN
         /\ f \in FrameType /\ f.ask = NextQuestion(f.doc) /\ f.doc \in Document /\ Sound(f.doc)
         /\ spare = Spare => Straight(f.doc)
         /\ ~lost /\ ~f.stale => \A d \in Dims : f.doc.answers[d].anchor = heard[d]
<1> DEFINE f == frames[Top]
<1>1. Top \in DOMAIN frames /\ f \in Waiting
  BY Below
<1>2. f \in FrameType /\ f.ask = NextQuestion(f.doc) /\ f.doc \in Document /\ Sound(f.doc)
  BY <1>1 DEF Waiting, FrameType
<1>3. spare = Spare => Straight(f.doc)
  BY <1>1 DEF InterviewInv, StraightOn
<1>4. file # NoFile /\ file \in Document
  BY DEF InterviewInv, Unstarted, Types
<1>5. ASSUME ~lost, ~f.stale PROVE \A d \in Dims : f.doc.answers[d].anchor = heard[d]
  <2>1. [f.doc EXCEPT !.status = file.status] = file
    BY <1>1, <1>5 DEF InterviewInv, SavedBeforeAsked
  <2>2. f.doc.answers = file.answers
    <3>1. [f.doc EXCEPT !.status = file.status].answers = f.doc.answers
      BY <1>2 DEF Document
    <3>2. QED
      BY <2>1, <3>1
  <2>3. QED
    BY <1>4, <1>5, <2>2 DEF InterviewInv, HeardIsKept
<1>6. QED
  BY <1>2, <1>3, <1>5

LEMMA TakeAnswerKeeps ==
  ASSUME InterviewInv, frames # <<>>, NEW a \in AnswersTo(frames[Top].ask),
         TakeAnswer(frames[Top].ask, a), spare' = spare
  PROVE  InterviewInv'
<1> DEFINE f == frames[Top]
           q == f.ask
           r == Record(f.doc, q, a)
           rest == SubSeq(frames, 1, Top - 1)
           g == [f EXCEPT !.doc = r, !.ask = NextQuestion(r), !.reply = <<>>, !.stale = FALSE,
                          !.quota = IF @ = 0 THEN 0 ELSE @ - 1]
<1>1. /\ f \in FrameType /\ q = NextQuestion(f.doc) /\ f.doc \in Document /\ Sound(f.doc)
      /\ spare = Spare => Straight(f.doc)
      /\ ~lost /\ ~f.stale => \A d \in Dims : f.doc.answers[d].anchor = heard[d]
  BY TopIs
<1>2. q \in AllQuestions /\ a \in AnswersTo(q)
  BY <1>1 DEF FrameType
<1>3. /\ r \in Document /\ r.status = f.doc.status
      /\ q[2] = "qa" => q[1] \in Dims /\ a \in Levels
      /\ \A d \in Dims :
           r.answers[d].anchor = IF q[2] = "qa" /\ d = q[1] THEN a ELSE f.doc.answers[d].anchor
      /\ Sound(f.doc) => Sound(r)
      /\ Straight(f.doc) /\ q = NextQuestion(f.doc) => Straight(r)
  <2> HIDE DEF f
  <2>1. QED
    BY <1>1, <1>2, Recorded
<1>4. /\ IF NextQuestion(r) = NoQuestion \/ f.quota = 1
           THEN SavedByTop(Advanced(r), rest)
           ELSE SavedByTop(r, Append(rest, g))
      /\ heard' = IF lost' THEN Nobody
                  ELSE IF q[2] = "qa" THEN [heard EXCEPT ![q[1]] = a] ELSE heard
  BY DEF TakeAnswer
<1>5. lost' = (lost \/ f.stale)
  BY <1>4 DEF SavedByTop
<1>6. Sound(r) /\ (spare = Spare => Straight(r))
  BY <1>1, <1>3
<1> HIDE DEF r, g
<1>7. heard \in [Dims -> Levels \cup {0}] /\ spare \in 0..Spare /\ lost \in BOOLEAN
  BY DEF InterviewInv, Types
<1>8. heard' \in [Dims -> Levels \cup {0}]
  BY <1>3, <1>4, <1>7 DEF Nobody
<1>9. ~lost' => \A d \in Dims : r.answers[d].anchor = heard'[d]
  <2> SUFFICES ASSUME ~lost' PROVE \A d \in Dims : r.answers[d].anchor = heard'[d]
    OBVIOUS
  <2>1. heard' = IF q[2] = "qa" THEN [heard EXCEPT ![q[1]] = a] ELSE heard
    BY <1>4
  <2>2. \A d \in Dims : f.doc.answers[d].anchor = heard[d]
    BY <1>1, <1>5
  <2> HIDE DEF q, f
  <2>3. QED
    BY <1>3, <1>7, <2>1, <2>2
<1>10. CASE NextQuestion(r) = NoQuestion \/ f.quota = 1
  <2>1. SavedByTop(Advanced(r), rest)
    BY <1>4, <1>10
  <2>2. /\ Advanced(r) \in Document /\ Sound(Advanced(r)) /\ Advanced(r).answers = r.answers
        /\ spare = Spare => Straight(Advanced(r))
    BY <1>3, <1>6, AdvancedKeeps
  <2>3. QED
    BY <1>7, <1>8, <1>9, <2>1, <2>2, EndKeeps
<1>11. CASE ~(NextQuestion(r) = NoQuestion \/ f.quota = 1)
  <2>1. SavedByTop(r, Append(rest, g))
    BY <1>4, <1>11
  <2>2. g \in FrameType /\ g.doc = r /\ g.ask = NextQuestion(r) /\ g.reply = <<>>
    <3>1. NextQuestion(r) \in AllQuestions /\ <<>> \in Seq(Reply)
      BY <1>11, NextTyped
    <3>2. PICK n \in Nat : n = IF f.quota = 0 THEN 0 ELSE f.quota - 1
      BY <1>1 DEF FrameType
    <3>3. g = [f EXCEPT !.doc = r, !.ask = NextQuestion(r), !.reply = <<>>, !.stale = FALSE,
                        !.quota = n]
      BY <1>1, <3>2 DEF g, FrameType
    <3> HIDE DEF f
    <3>4. QED
      BY <1>1, <1>3, <3>1, <3>3 DEF FrameType
  <2>3. g \in Waiting
    BY <1>6, <2>2 DEF Waiting
  <2>4. QED
    BY <1>3, <1>6, <1>7, <1>8, <1>9, <2>1, <2>2, <2>3, AskAgainKeeps
<1>12. QED
  BY <1>10, <1>11

LEMMA AnswerKeeps ==
  ASSUME InterviewInv, frames # <<>>, NEW a \in TypedAnswers(frames[Top].ask), Answer(a)
  PROVE  InterviewInv'
<1>1. a \in AnswersTo(frames[Top].ask)
  BY DEF TypedAnswers
<1>2. TakeAnswer(frames[Top].ask, a) /\ spare' = spare
  BY DEF Answer, Respond
<1>3. QED
  BY <1>1, <1>2, TakeAnswerKeeps

LEMMA TakeParkedKeeps ==
  ASSUME InterviewInv, TakeParked
  PROVE  InterviewInv'
<1> DEFINE f == frames[Top]
           p == f.reply[1]
<1>1. frames # <<>> /\ f.reply # <<>> /\ Respond(p) /\ spare' = spare
  BY DEF TakeParked
<1>2. f \in Waiting /\ f.reply \in Seq(Reply)
  BY <1>1, Below DEF Waiting, FrameType
<1> HIDE DEF f
<1>3. 1 \in DOMAIN f.reply /\ p \in Reply
  BY <1>1, <1>2, EmptySeq
<1>4. p.action = "accept" /\ p.ask = f.ask /\ p.value \in AnswersTo(f.ask)
  BY <1>2, <1>3 DEF Waiting, Reply
<1>5. TakeAnswer(f.ask, p.value)
  BY <1>1, <1>4 DEF Respond
<1>6. QED
  BY <1>1, <1>4, <1>5, TakeAnswerKeeps DEF f

\* An interview that ends without an answer.
LEMMA InterruptKeeps ==
  ASSUME InterviewInv, NEW action \in Stops, Interrupt(action)
  PROVE  InterviewInv'
<1> DEFINE f == frames[Top]
           rest == SubSeq(frames, 1, Top - 1)
           doc == IF action = "misfit" THEN f.doc ELSE Advanced(f.doc)
<1>1. frames # <<>> /\ Departs /\ StopInterview(action)
  BY DEF Interrupt, Respond, Stops
<1>2. spare' \in 0..Spare /\ spare' # Spare
  BY <1>1, DepartsDown
<1>3. /\ Top \in Nat \ {0} /\ rest \in Seq(Waiting) /\ Len(rest) = Top - 1
      /\ \A i \in 1..(Top - 1) : i \in DOMAIN frames /\ rest[i] = frames[i]
  BY <1>1, Below
<1>4. heard \in [Dims -> Levels \cup {0}] /\ lost \in BOOLEAN /\ Top <= MaxDepth
  BY DEF InterviewInv, Types
<1>5. CASE action = "error"
  <2>1. frames' = rest /\ file' = file /\ heard' = heard /\ lost' = lost
    BY <1>1, <1>5 DEF StopInterview
  <2> HIDE DEF rest
  <2>2. Top' = Top - 1 /\ DOMAIN rest = 1..(Top - 1) /\ MaxDepth \in Nat
    BY <1>3, <2>1, ServerConstants DEF Top
  <2>3. Types'
    BY <1>2, <1>3, <1>4, <2>1, <2>2 DEF InterviewInv, Types
  <2>4. Unstarted' /\ HeardIsKept' /\ StraightOn'
    BY <1>1, <1>2, <2>1 DEF InterviewInv, Unstarted, HeardIsKept, StraightOn
  <2>5. SavedBeforeAsked'
    BY <1>3, <2>1, <2>2 DEF InterviewInv, SavedBeforeAsked
  <2>6. QED
    BY <2>3, <2>4, <2>5 DEF InterviewInv
<1>6. CASE action # "error"
  <2>1. SavedByTop(doc, rest) /\ heard' = IF lost' THEN Nobody ELSE heard
    BY <1>1, <1>6 DEF StopInterview
  <2>2. /\ f.doc \in Document /\ Sound(f.doc)
        /\ ~lost /\ ~f.stale => \A d \in Dims : f.doc.answers[d].anchor = heard[d]
    BY <1>1, TopIs
  <2>3. doc \in Document /\ Sound(doc) /\ doc.answers = f.doc.answers
    <3> HIDE DEF f
    <3>1. QED
      BY <2>2, AdvancedKeeps
  <2>4. lost' = (lost \/ f.stale)
    BY <2>1 DEF SavedByTop
  <2> HIDE DEF doc
  <2>5. heard' \in [Dims -> Levels \cup {0}]
    BY <1>4, <2>1 DEF Nobody
  <2>6. ~lost' => \A d \in Dims : doc.answers[d].anchor = heard'[d]
    BY <2>1, <2>2, <2>3, <2>4
  <2>7. QED
    BY <1>1, <1>2, <2>1, <2>3, <2>5, <2>6, EndKeeps
<1>7. QED
  BY <1>5, <1>6

LEMMA AnswerOuterKeeps ==
  ASSUME InterviewInv, NEW i \in DOMAIN frames, NEW a \in TypedAnswers(frames[i].ask), AnswerOuter(i, a)
  PROVE  InterviewInv'
<1> DEFINE f == frames[i]
           p == [action |-> "accept", ask |-> f.ask, value |-> a]
           g == [f EXCEPT !.reply = <<p>>]
<1>1. f \in Waiting /\ f \in FrameType /\ frames \in Seq(Waiting)
  BY DEF InterviewInv, Types, Waiting
<1>2. a \in AnswersTo(f.ask) /\ f.ask \in AllQuestions
  BY <1>1 DEF TypedAnswers, FrameType
<1>3. p \in Reply /\ p.ask = f.ask /\ p.value = a
  BY <1>2 DEF Reply, Values
<1>4. frames' = [frames EXCEPT ![i] = g] /\ file' = file /\ heard' = heard /\ lost' = lost /\ spare' = spare
  BY DEF AnswerOuter
<1> HIDE DEF p
<1>5. <<p>> \in Seq(Reply) /\ DOMAIN <<p>> = {1} /\ <<p>>[1] = p
  BY <1>3
<1> HIDE DEF f
<1>6. g \in FrameType /\ g.doc = f.doc /\ g.ask = f.ask /\ g.stale = f.stale /\ g.reply = <<p>>
  BY <1>1, <1>5 DEF FrameType
<1> HIDE DEF g
<1>7. g \in Waiting
  BY <1>1, <1>2, <1>3, <1>5, <1>6 DEF Waiting
<1>8. frames' \in Seq(Waiting) /\ Len(frames') = Len(frames) /\ DOMAIN frames' = DOMAIN frames
  BY <1>1, <1>4, <1>7
<1>9. \A k \in DOMAIN frames : frames'[k].doc = frames[k].doc /\ frames'[k].stale = frames[k].stale
  <2>1. frames'[i] = g /\ \A k \in DOMAIN frames : k # i => frames'[k] = frames[k]
    BY <1>1, <1>4
  <2>2. QED
    BY <1>6, <2>1 DEF f
<1>10. Types'
  BY <1>4, <1>8 DEF InterviewInv, Types, Top
<1>11. Unstarted' /\ HeardIsKept'
  <2>1. frames # <<>>
    BY <1>1
  <2>2. QED
    BY <1>4, <2>1 DEF InterviewInv, Unstarted, HeardIsKept
<1>12. StraightOn' /\ SavedBeforeAsked'
  BY <1>4, <1>8, <1>9 DEF InterviewInv, StraightOn, SavedBeforeAsked
<1>13. QED
  BY <1>10, <1>11, <1>12 DEF InterviewInv

LEMMA CrashKeeps ==
  ASSUME InterviewInv, Crash
  PROVE  InterviewInv'
<1>1. frames' = <<>> /\ file' = file /\ heard' = heard /\ lost' = lost /\ Departs /\ frames # <<>>
  BY DEF Crash
<1>2. spare' \in 0..Spare /\ spare' # Spare
  BY <1>1, DepartsDown
<1>3. frames' \in Seq(Waiting) /\ DOMAIN frames' = {} /\ Top' = 0 /\ MaxDepth \in Nat
  BY <1>1, ServerConstants DEF Top
<1>4. Types'
  <2>1. Top' <= MaxDepth
    BY <1>3
  <2>2. QED
    BY <1>1, <1>2, <1>3, <2>1 DEF InterviewInv, Types
<1>5. Unstarted' /\ HeardIsKept' /\ StraightOn'
  BY <1>1, <1>2 DEF InterviewInv, Unstarted, HeardIsKept, StraightOn
<1>6. SavedBeforeAsked'
  BY <1>3 DEF SavedBeforeAsked
<1>7. QED
  BY <1>4, <1>5, <1>6 DEF InterviewInv

LEMMA InterviewNextInv ==
  ASSUME InterviewInv, [Next]_vars
  PROVE  InterviewInv'
<1>1. CASE \E s \in Supplied : StartSession(s) \/ OverwriteSession(s)
  BY <1>1, StartSessionKeeps, OverwriteSessionKeeps
<1>2. CASE ResumeSession
  BY <1>2, ResumeSessionKeeps
<1>3. ASSUME NEW q \in AllQuestions, NEW a \in AnswersTo(q), RecordOther(q, a) PROVE InterviewInv'
  <2>1. Departs /\ RecordCall(q, a)
    BY <1>3 DEF RecordOther
  <2>2. QED
    BY <2>1, DepartsDown, RecordCallKeeps
<1>4. CASE RecordNext
  <2>1. PICK q \in {NextQuestion(file)} \ {NoQuestion} : \E a \in AnswersTo(q) : RecordCall(q, a)
    BY <1>4 DEF RecordNext
  <2>2. PICK a \in AnswersTo(q) : RecordCall(q, a)
    BY <2>1
  <2>3. q = NextQuestion(file) /\ q \in AllQuestions
    BY <2>1, NextTyped
  <2>4. spare' = spare /\ spare \in 0..Spare
    BY <1>4 DEF RecordNext, InterviewInv, Types
  <2>5. QED
    BY <2>2, <2>3, <2>4, RecordCallKeeps
<1>5. CASE \E d \in Dims, v \in {"pass", "fail"} : JudgeProbe(d, v)
  BY <1>5, JudgeProbeKeeps
<1>6. CASE \E n \in Quotas : RunInterview(n)
  BY <1>6, RunInterviewKeeps
<1>7. CASE frames # <<>> /\ \E a \in TypedAnswers(frames[Top].ask) : Answer(a)
  BY <1>7, AnswerKeeps
<1>8. CASE \E action \in Stops : Interrupt(action)
  BY <1>8, InterruptKeeps
<1>9. CASE \E i \in DOMAIN frames : \E a \in TypedAnswers(frames[i].ask) : AnswerOuter(i, a)
  BY <1>9, AnswerOuterKeeps
<1>10. CASE TakeParked
  BY <1>10, TakeParkedKeeps
<1>11. CASE Crash
  BY <1>11, CrashKeeps
<1>12. CASE UNCHANGED vars
  BY <1>12 DEF vars, InterviewInv, Types, Unstarted, StraightOn, SavedBeforeAsked, HeardIsKept, Top, Listening
<1>13. QED
  BY <1>1, <1>2, <1>3, <1>4, <1>5, <1>6, <1>7, <1>8, <1>9, <1>10, <1>11, <1>12 DEF Next

-----------------------------------------------------------------------------
(* The theorems                                                            *)

LEMMA InterviewInvHolds == Spec => []InterviewInv
<1>1. Init => InterviewInv
  BY InterviewInitInv
<1>2. InterviewInv /\ [Next]_vars => InterviewInv'
  BY InterviewNextInv
<1>3. QED
  BY <1>1, <1>2, PTL DEF Spec

LEMMA InvTyped ==
  ASSUME InterviewInv
  PROVE  TypeOK
<1>1. \A i \in DOMAIN frames : frames[i] \in Waiting
  BY DEF InterviewInv, Types
<1>2. ASSUME NEW f \in Waiting
      PROVE  /\ f.doc \in Document /\ f.ask \in AllQuestions
             /\ f.quota \in Nat /\ f.stale \in BOOLEAN
             /\ \A k \in DOMAIN f.reply : f.reply[k].value \in AnswersTo(f.ask)
  BY DEF Waiting, FrameType
<1>3. QED
  BY <1>1, <1>2 DEF InterviewInv, Types, TypeOK

LEMMA InvHonest ==
  ASSUME InterviewInv
  PROVE  ScoreIsHonest
<1>1. TypeOK
  BY InvTyped
<1>2. PassedMeansProven
  BY DEF PassedMeansProven, InterviewInv, Types, Sound, Earned
<1>3. ScoreIsValid
  BY FileIs, ScoreOfSound DEF ScoreIsValid
<1>4. CompleteIsScorable
  <2> SUFFICES ASSUME file # NoFile, spare = Spare, IsComplete(file),
                      ~ \E d \in Dims : file.answers[d].passed = "fail" /\ file.answers[d].qc = Nothing
               PROVE  Scorable(file)
    BY DEF CompleteIsScorable
  <2>1. file \in Document /\ Sound(file) /\ Straight(file)
    BY FileIs
  <2>2. ASSUME NEW d \in Dims
        PROVE  LET e == file.answers[d] IN
               /\ Anchored(file, d)
               /\ HasProbeState(e) => Probed(ScoreTier(file)) /\ FiresProbe(e.anchor)
               /\ e.passed # "unset" => e.qc # Nothing
    <3> DEFINE e == file.answers[d]
    <3>1. Anchored(file, d) /\ e \in Entry
      BY <2>1 DEF IsComplete, Document
    <3>2. e.passed # "unset" => e.qc # Nothing
      <4>1. e.passed = "pass" => e.qc # Nothing
        BY <2>1, WordsAreWords DEF Straight, Proven
      <4>2. e.passed \in {"unset", "pass", "fail"}
        BY <3>1 DEF Entry
      <4>3. QED
        BY <4>1, <4>2
    <3>3. e.qc # Nothing => Probed(file.tier) /\ FiresProbe(e.anchor)
      BY <2>1 DEF Straight
    <3>4. Probed(file.tier) => Probed(ScoreTier(file))
      BY DEF Probed, ScoreTier
    <3>5. QED
      BY <3>1, <3>2, <3>3, <3>4 DEF HasProbeState
  <2>3. QED
    BY <2>2 DEF Scorable
<1>5. QED
  BY <1>1, <1>2, <1>3, <1>4 DEF ScoreIsHonest

\* Whatever is asked, answered, revised, judged or interrupted, in nested
\* interviews of any depth: what counts as passed was proven, the validator
\* takes the assessment of every document the scorer takes, and an interview
\* that goes straight on ends in a document that can be scored.
THEOREM ScoreTheorem == Spec => []ScoreIsHonest
BY InterviewInvHolds, InvHonest, PTL

\* An answer the customer gave is in the file before anything else is asked,
\* and stays there through nested calls, parked answers and crashes.
THEOREM AnswersTheorem == Spec => []AnswersAreKept
<1>1. InterviewInv => AnswersAreKept
  BY DEF InterviewInv, AnswersAreKept
<1>2. QED
  BY <1>1, InterviewInvHolds, PTL

-----------------------------------------------------------------------------
(* TaskCommands: greatest elements                                         *)

LEMMA MaxIs ==
  ASSUME NEW S \in SUBSET Nat, NEW m \in S, \A x \in S : x <= m
  PROVE  Max(S) = m
<1>1. \A x \in S : (\A y \in S : x >= y) => x = m
  OBVIOUS
<1>2. QED
  BY <1>1 DEF Max

LEMMA GreatestOf ==
  ASSUME NEW n \in Nat, NEW S \in SUBSET (0..n), S # {}
  PROVE  \E m \in S : \A x \in S : x <= m
<1> DEFINE T == {n - x : x \in S}
<1>1. T \in SUBSET Nat /\ T # {}
  <2>1. PICK x \in S : TRUE
    OBVIOUS
  <2>2. n - x \in T
    BY <2>1
  <2>3. QED
    BY <2>2
<1>2. PICK t \in T : \A u \in T : t <= u
  BY <1>1, LeastOf
<1>3. PICK m \in S : t = n - m
  BY <1>2
<1>4. ASSUME NEW x \in S PROVE x <= m
  <2>1. n - x \in T
    OBVIOUS
  <2>2. n - m <= n - x
    BY <1>2, <1>3, <2>1
  <2>3. QED
    BY <2>2
<1>5. QED
  BY <1>4

LEMMA MaxIn ==
  ASSUME NEW n \in Nat, NEW S \in SUBSET (0..n), S # {}
  PROVE  Max(S) \in S /\ \A x \in S : x <= Max(S)
<1>1. PICK m \in S : \A x \in S : x <= m
  BY GreatestOf
<1>2. Max(S) = m
  BY <1>1, MaxIs
<1>3. QED
  BY <1>1, <1>2

\* The last of some positions in a log, 0 when there is none.
LEMMA LatestIn ==
  ASSUME NEW n \in Nat, NEW S \in SUBSET (1..n)
  PROVE  /\ Latest(S) \in 0..n /\ \A x \in S : x <= Latest(S)
         /\ Latest(S) = 0 <=> S = {}
         /\ S # {} => Latest(S) \in S
<1>1. CASE S = {}
  BY <1>1 DEF Latest
<1>2. CASE S # {}
  <2>1. S \in SUBSET (0..n)
    OBVIOUS
  <2>2. Max(S) \in S /\ \A x \in S : x <= Max(S)
    BY <1>2, <2>1, MaxIn
  <2>3. Latest(S) = Max(S) /\ Max(S) \in 1..n
    BY <1>2, <2>2 DEF Latest
  <2>4. QED
    BY <1>2, <2>2, <2>3
<1>3. QED
  BY <1>1, <1>2

LEMMA LatestIs ==
  ASSUME NEW S \in SUBSET Nat, NEW m \in S, \A x \in S : x <= m
  PROVE  Latest(S) = m
  BY MaxIs DEF Latest

-----------------------------------------------------------------------------
(* TaskCommands: the inductive invariant of a log                          *)

Elements(log) == {log[i] : i \in DOMAIN log}
IsLog(log) == log \in Seq(Elements(log))

AllContracts == UNION {Contracts(s) : s \in Stories}
ApprovalTypes == {"terms-approved", "plan-approved", "execution-authorized"}
Approvals(log) == {i \in DOMAIN log : log[i].type \in ApprovalTypes}

IsRecord(e) == e.contract \in AllContracts /\ e.revision = e.contract.revision

\* An approval says what the contract says that was shown.
Covers(e, c) ==
  e.revision = c.revision /\ e.terms = TermsDigest(c) /\ e.plan = c.plan

\* What events refer to lies before them: a gate the record right before it,
\* an approval the last gate, a start its record, a finish its start.
RefersBack(log) ==
  /\ \A i \in Records(log) : IsRecord(log[i])
  /\ \A i \in Of(log, "gate-prepared") : i - 1 \in Records(log) /\ log[i].record = i - 1
  /\ \A i \in Approvals(log) :
       /\ log[i].prepared \in Of(log, "gate-prepared") /\ log[i].prepared < i
       /\ Covers(log[i], log[log[i].prepared - 1].contract)
  /\ \A i, j \in Approvals(log) : i < j => log[i].prepared <= log[j].prepared
  /\ \A i \in Of(log, "step-started") :
       \E j \in OfRevision(log, "contract-recorded", log[i].revision) : j < i
  /\ \A i \in Of(log, "step-finished") :
       \E j \in Attempts(log, log[i].revision, log[i].step) :
          j < i /\ log[j].attempt = log[i].attempt
  /\ \A i \in Of(log, "recovery-resolved") :
       log[i].opened \in Of(log, "recovery-opened") /\ log[i].opened < i

Shown(log, c) ==
  \E i \in Of(log, "execution-authorized") :
     i > Opened(log) /\ log[log[log[i].prepared].record].contract = c

\* As long as nothing follows the gate of an action, what it was prepared upon holds.
GateStands(log) ==
  GateIsHead(log) /\ log[Len(log)].gate = "action" =>
    LET c == log[Len(log) - 1].contract
    IN /\ Shown(log, c) /\ ~InRecovery(log)
       /\ ~Owed(log, c, log[Len(log)].action.step)

BeganIn(log, i) ==
  Max({j \in Attempts(log, log[i].revision, log[i].step) :
         j < i /\ log[j].attempt = log[i].attempt})
RecordIn(log, i) ==
  Latest({j \in OfRevision(log, "contract-recorded", log[i].revision) : j < i})

NotAcross(log) ==
  \A i \in Of(log, "step-finished"), k \in Of(log, "recovery-opened") :
     ~(BeganIn(log, i) < k /\ k < i)

NotAgain(log) ==
  \A i \in Of(log, "step-started"), k \in Of(log, "recovery-resolved") :
     LET e == log[i]
     IN /\ k < i /\ e.binding = "primary" /\ log[k].reconciliation = "occurred"
        /\ StepOf(log[RecordIn(log, i)].contract, e.step).output \in log[log[k].opened].outputs
        => \E j \in Of(log, "step-revalidated") :
              k < j /\ j < i /\ log[j].step = e.step /\ log[j].basis = "recovery-occurred"

TakenBackIn(log) ==
  \E i, j, k \in Records(log) :
     /\ i < j /\ j < k
     /\ log[i].contract = log[k].contract /\ log[j].contract # log[k].contract
     /\ log[j].revision = log[k].revision

\* Once a step was started in a revision, what is recorded in it is what was
\* authorized in it.
StartedStays(log) ==
  TakenBackIn(log) \/
  \A b \in Of(log, "step-started") :
    LET r == log[b].revision
        recorded == OfRevision(log, "contract-recorded", r)
    IN /\ AuthorizedRecord(log, r) # 0
       /\ \A m \in recorded :
            (\A j \in recorded : ~(m < j /\ j < b)) =>
              log[m].contract = log[AuthorizedRecord(log, r)].contract

LogInv(log) ==
  /\ IsLog(log) /\ Len(log) > 0 /\ RefersBack(log) /\ GateStands(log)
  /\ NotAcross(log) /\ NotAgain(log) /\ StartedStays(log)

TaskInv ==
  /\ TaskTypeOK /\ LogInv(ledger)

-----------------------------------------------------------------------------
(* TaskCommands: logs, and how they grow                                   *)

LEMMA SeqIs ==
  ASSUME NEW S, NEW s \in Seq(S)
  PROVE  /\ Len(s) \in Nat /\ DOMAIN s = 1..Len(s)
         /\ \A i \in 1..Len(s) : s[i] \in S
OBVIOUS

LEMMA LogIs ==
  ASSUME NEW log, IsLog(log)
  PROVE  Len(log) \in Nat /\ DOMAIN log = 1..Len(log)
  BY SeqIs DEF IsLog

LEMMA SingleIs ==
  ASSUME NEW S, NEW x \in S
  PROVE  <<x>> \in Seq(S) /\ Len(<<x>>) = 1 /\ DOMAIN <<x>> = 1..1 /\ <<x>>[1] = x
OBVIOUS

LEMMA ConcatIs ==
  ASSUME NEW S, NEW s \in Seq(S), NEW t \in Seq(S)
  PROVE  /\ s \o t \in Seq(S) /\ Len(s \o t) = Len(s) + Len(t)
         /\ \A i \in 1..Len(s) : (s \o t)[i] = s[i]
         /\ \A i \in 1..Len(t) : (s \o t)[Len(s) + i] = t[i]
OBVIOUS

LEMMA WiderSeq ==
  ASSUME NEW S, NEW T, S \subseteq T, NEW s \in Seq(S)
  PROVE  s \in Seq(T)
OBVIOUS

LEMMA LogOf ==
  ASSUME NEW S, NEW s \in Seq(S)
  PROVE  IsLog(s)
<1>1. Len(s) \in Nat /\ DOMAIN s = 1..Len(s) /\ \A i \in 1..Len(s) : s[i] \in Elements(s)
  BY SeqIs DEF Elements
<1>2. s = [i \in 1..Len(s) |-> s[i]]
  OBVIOUS
<1>3. QED
  BY <1>1, <1>2 DEF IsLog

LEMMA OneIsLog ==
  ASSUME NEW e
  PROVE  IsLog(<<e>>) /\ Len(<<e>>) = 1 /\ <<e>>[1] = e
<1>1. e \in {e}
  OBVIOUS
<1>2. QED
  BY <1>1, SingleIs, LogOf

LEMMA NoneIsLog == IsLog(<<>>) /\ Len(<<>>) = 0
  BY DEF IsLog

LEMMA ConcatIsLog ==
  ASSUME NEW l, IsLog(l), NEW b, IsLog(b)
  PROVE  /\ IsLog(l \o b) /\ Len(l \o b) = Len(l) + Len(b)
         /\ \A i \in 1..Len(l) : (l \o b)[i] = l[i]
         /\ \A i \in 1..Len(b) : (l \o b)[Len(l) + i] = b[i]
<1> DEFINE S == Elements(l) \cup Elements(b)
<1>1. l \in Seq(S) /\ b \in Seq(S)
  <2>1. Elements(l) \subseteq S /\ Elements(b) \subseteq S
    OBVIOUS
  <2> HIDE DEF S
  <2>2. QED
    BY <2>1, WiderSeq DEF IsLog
<1> HIDE DEF S
<1>2. /\ l \o b \in Seq(S) /\ Len(l \o b) = Len(l) + Len(b)
      /\ \A i \in 1..Len(l) : (l \o b)[i] = l[i]
      /\ \A i \in 1..Len(b) : (l \o b)[Len(l) + i] = b[i]
  BY <1>1, ConcatIs
<1>3. IsLog(l \o b)
  BY <1>2, LogOf
<1>4. QED
  BY <1>2, <1>3

LEMMA TwoIsLog ==
  ASSUME NEW e, NEW f
  PROVE  IsLog(<<e, f>>) /\ Len(<<e, f>>) = 2 /\ <<e, f>>[1] = e /\ <<e, f>>[2] = f
<1> DEFINE S == {e, f}
<1>1. e \in S /\ f \in S
  OBVIOUS
<1> HIDE DEF S
<1>2. <<e, f>> \in Seq(S) /\ Len(<<e, f>>) = 2
  BY <1>1
<1>3. QED
  BY <1>2, LogOf

\* m is the log l with more events.
Grown(l, m) ==
  /\ IsLog(l) /\ IsLog(m) /\ Len(l) > 0
  /\ Len(l) <= Len(m) /\ \A i \in 1..Len(l) : m[i] = l[i]
New(l, m) == (Len(l) + 1)..Len(m)
NoNew(l, m, type) == \A i \in New(l, m) : m[i].type # type

LEMMA GrownIs ==
  ASSUME NEW l, NEW m, Grown(l, m)
  PROVE  /\ Len(l) \in Nat \ {0} /\ Len(m) \in Nat /\ Len(l) <= Len(m)
         /\ DOMAIN l = 1..Len(l) /\ DOMAIN m = 1..Len(m)
         /\ \A i \in DOMAIN m : i \in DOMAIN l \/ i \in New(l, m)
         /\ \A i \in New(l, m) : i \in DOMAIN m
         /\ \A i \in DOMAIN l : i \in DOMAIN m /\ m[i] = l[i] /\ i \notin New(l, m)
         /\ \A i \in DOMAIN l, j \in New(l, m) : i < j /\ j \notin DOMAIN l
         /\ \A i \in DOMAIN l, j \in DOMAIN m : j < i => j \in DOMAIN l
<1>1. /\ Len(l) \in Nat \ {0} /\ Len(m) \in Nat /\ Len(l) <= Len(m)
      /\ DOMAIN l = 1..Len(l) /\ DOMAIN m = 1..Len(m)
      /\ \A i \in DOMAIN l : m[i] = l[i]
  <2>1. IsLog(l) /\ IsLog(m) /\ Len(l) > 0 /\ Len(l) <= Len(m)
    BY DEF Grown
  <2>2. /\ Len(l) \in Nat /\ Len(m) \in Nat
        /\ DOMAIN l = 1..Len(l) /\ DOMAIN m = 1..Len(m)
    BY <2>1, LogIs
  <2>3. \A i \in 1..Len(l) : m[i] = l[i]
    BY DEF Grown
  <2>4. QED
    BY <2>1, <2>2, <2>3
<1>2. 1..Len(m) = 1..Len(l) \cup ((Len(l) + 1)..Len(m))
  BY <1>1
<1>3. \A i \in 1..Len(l), j \in (Len(l) + 1)..Len(m) : i < j /\ j \notin 1..Len(l)
  BY <1>1
<1>4. \A i \in 1..Len(l), j \in 1..Len(m) : j < i => j \in 1..Len(l)
  BY <1>1
<1>5. New(l, m) = (Len(l) + 1)..Len(m)
  BY DEF New
<1>6. QED
  BY <1>1, <1>2, <1>3, <1>4, <1>5

LEMMA GrownBy ==
  ASSUME NEW l, IsLog(l), Len(l) > 0, NEW b, IsLog(b)
  PROVE  /\ Grown(l, l \o b)
         /\ New(l, l \o b) = {Len(l) + i : i \in 1..Len(b)}
         /\ \A i \in 1..Len(b) : (l \o b)[Len(l) + i] = b[i]
<1>1. Len(l) \in Nat /\ Len(b) \in Nat
  BY LogIs
<1>2. Grown(l, l \o b)
  BY <1>1, ConcatIsLog DEF Grown
<1>3. New(l, l \o b) = {Len(l) + i : i \in 1..Len(b)}
  <2>1. New(l, l \o b) = (Len(l) + 1)..(Len(l) + Len(b))
    BY ConcatIsLog DEF New
  <2>2. ASSUME NEW x \in (Len(l) + 1)..(Len(l) + Len(b))
        PROVE  x \in {Len(l) + i : i \in 1..Len(b)}
    <3>1. x - Len(l) \in 1..Len(b) /\ x = Len(l) + (x - Len(l))
      BY <1>1
    <3>2. QED
      BY <3>1
  <2>3. QED
    BY <1>1, <2>1, <2>2
<1>4. QED
  BY <1>2, <1>3, ConcatIsLog

LEMMA OfGrown ==
  ASSUME NEW l, NEW m, Grown(l, m), NEW type
  PROVE  /\ Of(l, type) \subseteq Of(m, type)
         /\ \A i \in Of(m, type) : i \in Of(l, type) \/ i \in New(l, m)
         /\ \A i \in Of(m, type) : i \in DOMAIN l => i \in Of(l, type)
         /\ NoNew(l, m, type) => Of(m, type) = Of(l, type)
<1>1. /\ \A i \in DOMAIN l : i \in DOMAIN m /\ m[i] = l[i]
      /\ \A i \in DOMAIN m : i \in DOMAIN l \/ i \in New(l, m)
  BY Zenon, GrownIs
<1>2. Of(l, type) \subseteq Of(m, type)
  BY <1>1 DEF Of
<1>3. \A i \in Of(m, type) : i \in DOMAIN l => i \in Of(l, type)
  BY <1>1 DEF Of
<1>4. \A i \in Of(m, type) : i \in Of(l, type) \/ i \in New(l, m)
  BY <1>1, <1>3 DEF Of
<1>5. ASSUME NoNew(l, m, type) PROVE Of(m, type) = Of(l, type)
  <2>1. \A i \in New(l, m) : i \notin Of(m, type)
    BY <1>5 DEF NoNew, Of
  <2>2. QED
    BY <1>2, <1>4, <2>1
<1>6. QED
  BY <1>2, <1>3, <1>4, <1>5

LEMMA OfRevisionGrown ==
  ASSUME NEW l, NEW m, Grown(l, m), NEW type, NEW r
  PROVE  /\ OfRevision(l, type, r) \subseteq OfRevision(m, type, r)
         /\ \A i \in OfRevision(m, type, r) : i \in OfRevision(l, type, r) \/ i \in New(l, m)
         /\ \A i \in OfRevision(m, type, r) : i \in DOMAIN l => i \in OfRevision(l, type, r)
         /\ NoNew(l, m, type) => OfRevision(m, type, r) = OfRevision(l, type, r)
<1>1. \A i \in Of(l, type) : m[i] = l[i]
  BY GrownIs DEF Of
<1>2. /\ Of(l, type) \subseteq Of(m, type)
      /\ \A i \in Of(m, type) : i \in Of(l, type) \/ i \in New(l, m)
      /\ \A i \in Of(m, type) : i \in DOMAIN l => i \in Of(l, type)
      /\ NoNew(l, m, type) => Of(m, type) = Of(l, type)
  BY OfGrown
<1>3. QED
  BY <1>1, <1>2 DEF OfRevision

LEMMA OpenedGrown ==
  ASSUME NEW l, NEW m, Grown(l, m), NoNew(l, m, "recovery-opened")
  PROVE  Opened(m) = Opened(l)
  BY OfGrown DEF Opened

LEMMA InRecoveryGrown ==
  ASSUME NEW l, NEW m, Grown(l, m),
         NoNew(l, m, "recovery-opened"), NoNew(l, m, "recovery-resolved")
  PROVE  InRecovery(m) = InRecovery(l)
<1>1. /\ Of(m, "recovery-opened") = Of(l, "recovery-opened")
      /\ Of(m, "recovery-resolved") = Of(l, "recovery-resolved")
  BY OfGrown
<1>2. \A j \in Of(l, "recovery-resolved") : m[j] = l[j]
  BY GrownIs DEF Of
<1>3. QED
  BY <1>1, <1>2 DEF InRecovery

LEMMA ObligationsGrown ==
  ASSUME NEW l, NEW m, Grown(l, m), RefersBack(l), NEW s,
         NoNew(l, m, "recovery-opened"), NoNew(l, m, "recovery-resolved"),
         NoNew(l, m, "step-revalidated")
  PROVE  Obligations(m, s) = Obligations(l, s)
<1>1. /\ Of(m, "recovery-opened") = Of(l, "recovery-opened")
      /\ Of(m, "recovery-resolved") = Of(l, "recovery-resolved")
      /\ Of(m, "step-revalidated") = Of(l, "step-revalidated")
  BY OfGrown
<1>2. \A t : \A j \in Of(l, t) : m[j] = l[j]
  BY GrownIs DEF Of
<1>3. \A j \in Of(l, "recovery-resolved") : m[m[j].opened] = l[l[j].opened]
  BY <1>2 DEF RefersBack
<1>4. {m[i].outputs : i \in Of(m, "recovery-opened")} = {l[i].outputs : i \in Of(l, "recovery-opened")}
  BY <1>1, <1>2
<1>5. QED
  BY <1>1, <1>2, <1>3, <1>4 DEF Obligations

LEMMA BeganGrown ==
  ASSUME NEW l, NEW m, Grown(l, m), NEW i \in DOMAIN l
  PROVE  BeganIn(m, i) = BeganIn(l, i)
<1> DEFINE S(x) == {j \in Attempts(x, x[i].revision, x[i].step) :
                      j < i /\ x[j].attempt = x[i].attempt}
<1>1. m[i] = l[i]
  BY GrownIs
<1>2. \A j \in DOMAIN m : j < i => j \in DOMAIN l
  BY GrownIs
<1>3. \A j \in DOMAIN l : m[j] = l[j] /\ j \in DOMAIN m
  BY GrownIs
<1>4. \A j : j \in S(m) <=> j \in S(l)
  BY <1>1, <1>2, <1>3 DEF Attempts, OfRevision, Of
<1>5. S(m) = S(l)
  BY <1>4
<1>6. QED
  BY <1>5 DEF BeganIn

LEMMA RecordGrown ==
  ASSUME NEW l, NEW m, Grown(l, m), NEW i \in DOMAIN l
  PROVE  RecordIn(m, i) = RecordIn(l, i)
<1> DEFINE S(x) == {j \in OfRevision(x, "contract-recorded", x[i].revision) : j < i}
<1>1. m[i] = l[i]
  BY GrownIs
<1>2. \A j \in DOMAIN m : j < i => j \in DOMAIN l
  BY GrownIs
<1>3. \A j \in DOMAIN l : m[j] = l[j] /\ j \in DOMAIN m
  BY GrownIs
<1>4. \A j : j \in S(m) <=> j \in S(l)
  BY <1>1, <1>2, <1>3 DEF OfRevision, Of
<1>5. S(m) = S(l)
  BY <1>4
<1>6. QED
  BY <1>5 DEF RecordIn

-----------------------------------------------------------------------------
(* TaskCommands: what every new event leaves alone                         *)

\* What a new event refers to.
NewRefers(l, m) ==
  \A i \in New(l, m) :
    /\ m[i].type = "contract-recorded" => IsRecord(m[i])
    /\ m[i].type = "gate-prepared" => i - 1 \in Records(m) /\ m[i].record = i - 1
    /\ m[i].type \in ApprovalTypes =>
         /\ m[i].prepared = Len(l) /\ Len(l) \in Of(l, "gate-prepared")
         /\ Covers(m[i], l[Len(l) - 1].contract)
    /\ m[i].type = "step-started" => OfRevision(l, "contract-recorded", m[i].revision) # {}
    /\ m[i].type = "step-finished" =>
         \E j \in Attempts(l, m[i].revision, m[i].step) : l[j].attempt = m[i].attempt
    /\ m[i].type = "recovery-resolved" => m[i].opened \in Of(l, "recovery-opened")

LEMMA Old ==
  ASSUME NEW l, NEW m, Grown(l, m)
  PROVE  /\ \A type : \A i \in Of(l, type) : i \in DOMAIN l /\ i \in Of(m, type) /\ m[i] = l[i]
         /\ \A type, r : \A i \in OfRevision(l, type, r) : i \in DOMAIN l /\ i \in OfRevision(m, type, r) /\ m[i] = l[i]
         /\ \A i \in Records(l) : i \in DOMAIN l /\ i \in Records(m) /\ m[i] = l[i]
         /\ \A i \in Approvals(l) : i \in DOMAIN l /\ i \in Approvals(m) /\ m[i] = l[i]
<1>1. \A i \in DOMAIN l : i \in DOMAIN m /\ m[i] = l[i]
  BY GrownIs
<1>2. QED
  BY <1>1 DEF Of, OfRevision, Records, Approvals

LEMMA Young ==
  ASSUME NEW l, NEW m, Grown(l, m), NEW i \in DOMAIN m, i \notin DOMAIN l
  PROVE  i \in New(l, m) /\ i \in Nat /\ i > Len(l) /\ \A j \in DOMAIN l : j < i
<1>1. i \in New(l, m)
  BY Zenon, GrownIs
<1>2. /\ Len(l) \in Nat \ {0} /\ DOMAIN l = 1..Len(l) /\ DOMAIN m = 1..Len(m)
      /\ Len(m) \in Nat
  BY Zenon, GrownIs
<1>3. QED
  BY <1>1, <1>2

LEMMA RefersKeeps ==
  ASSUME NEW l, NEW m, Grown(l, m), RefersBack(l), NewRefers(l, m)
  PROVE  RefersBack(m)
<1>1. ASSUME NEW i \in Records(m) PROVE IsRecord(m[i])
  <2>1. CASE i \in DOMAIN l
    BY <2>1, GrownIs DEF RefersBack, Records, Of
  <2>2. CASE i \notin DOMAIN l
    BY <2>2, Young DEF NewRefers, Records, Of
  <2>3. QED
    BY <2>1, <2>2
<1>2. ASSUME NEW i \in Of(m, "gate-prepared")
      PROVE  i - 1 \in Records(m) /\ m[i].record = i - 1
  <2>1. CASE i \in DOMAIN l
    <3>1. m[i] = l[i] /\ i \in Of(l, "gate-prepared")
      BY <2>1, GrownIs DEF Of
    <3>2. QED
      BY <3>1, Old DEF RefersBack
  <2>2. CASE i \notin DOMAIN l
    BY <2>2, Young DEF NewRefers, Of
  <2>3. QED
    BY <2>1, <2>2
<1>3. ASSUME NEW i \in Approvals(m), i \in DOMAIN l
      PROVE  i \in Approvals(l) /\ m[i] = l[i]
  BY <1>3, GrownIs DEF Approvals
<1>4. ASSUME NEW i \in Approvals(m), i \notin DOMAIN l
      PROVE  /\ m[i].prepared = Len(l) /\ Len(l) \in Of(l, "gate-prepared")
             /\ Covers(m[i], l[Len(l) - 1].contract) /\ i > Len(l)
  BY <1>4, Young DEF NewRefers, Approvals
<1>5. ASSUME NEW i \in Approvals(m)
      PROVE  /\ m[i].prepared \in Of(m, "gate-prepared") /\ m[i].prepared < i
             /\ Covers(m[i], m[m[i].prepared - 1].contract)
  <2>1. CASE i \in DOMAIN l
    <3>1. /\ l[i].prepared \in Of(l, "gate-prepared") /\ l[i].prepared < i
          /\ Covers(l[i], l[l[i].prepared - 1].contract)
      BY <1>3, <2>1 DEF RefersBack
    <3>2. l[i].prepared - 1 \in Records(l)
      BY <3>1 DEF RefersBack
    <3>3. QED
      BY <1>3, <2>1, <3>1, <3>2, Old
  <2>2. CASE i \notin DOMAIN l
    <3>1. Len(l) - 1 \in Records(l)
      BY <1>4, <2>2 DEF RefersBack
    <3>2. QED
      BY <1>4, <2>2, <3>1, Old, GrownIs
  <2>3. QED
    BY <2>1, <2>2
<1>6. ASSUME NEW i \in Approvals(m), NEW j \in Approvals(m), i < j
      PROVE  m[i].prepared <= m[j].prepared
  <2>1. CASE j \in DOMAIN l
    <3>1. i \in DOMAIN l
      BY <1>6, <2>1, GrownIs DEF Approvals
    <3>2. QED
      BY <1>3, <1>6, <2>1, <3>1 DEF RefersBack
  <2>2. CASE j \notin DOMAIN l
    <3>1. m[j].prepared = Len(l)
      BY <1>4, <2>2
    <3>2. CASE i \in DOMAIN l
      <4>1. l[i].prepared \in DOMAIN l
        BY <1>3, <3>2 DEF RefersBack, Of
      <4>2. QED
        BY <1>3, <3>1, <3>2, <4>1, GrownIs
    <3>3. CASE i \notin DOMAIN l
      BY <1>4, <3>1, <3>3, GrownIs
    <3>4. QED
      BY <3>2, <3>3
  <2>3. QED
    BY <2>1, <2>2
<1>7. ASSUME NEW i \in Of(m, "step-started")
      PROVE  \E j \in OfRevision(m, "contract-recorded", m[i].revision) : j < i
  <2>1. CASE i \in DOMAIN l
    <3>1. m[i] = l[i] /\ i \in Of(l, "step-started")
      BY <2>1, GrownIs DEF Of
    <3>2. QED
      BY <3>1, Old DEF RefersBack
  <2>2. CASE i \notin DOMAIN l
    <3>1. PICK j \in OfRevision(l, "contract-recorded", m[i].revision) : TRUE
      BY <2>2, Young DEF NewRefers, Of
    <3>2. i \in DOMAIN m
      BY DEF Of
    <3>3. QED
      BY <2>2, <3>1, <3>2, Old, Young
  <2>3. QED
    BY <2>1, <2>2
<1>8. ASSUME NEW i \in Of(m, "step-finished")
      PROVE  \E j \in Attempts(m, m[i].revision, m[i].step) : j < i /\ m[j].attempt = m[i].attempt
  <2>1. CASE i \in DOMAIN l
    <3>1. m[i] = l[i] /\ i \in Of(l, "step-finished")
      BY <2>1, GrownIs DEF Of
    <3>2. PICK j \in Attempts(l, m[i].revision, m[i].step) : j < i /\ l[j].attempt = m[i].attempt
      BY <3>1 DEF RefersBack
    <3>3. QED
      BY <3>2, Old DEF Attempts
  <2>2. CASE i \notin DOMAIN l
    <3>1. PICK j \in Attempts(l, m[i].revision, m[i].step) : l[j].attempt = m[i].attempt
      BY <2>2, Young DEF NewRefers, Of
    <3>2. i \in DOMAIN m
      BY DEF Of
    <3>3. QED
      BY <2>2, <3>1, <3>2, Old, Young DEF Attempts
  <2>3. QED
    BY <2>1, <2>2
<1>9. ASSUME NEW i \in Of(m, "recovery-resolved")
      PROVE  m[i].opened \in Of(m, "recovery-opened") /\ m[i].opened < i
  <2>1. CASE i \in DOMAIN l
    <3>1. m[i] = l[i] /\ i \in Of(l, "recovery-resolved")
      BY <2>1, GrownIs DEF Of
    <3>2. QED
      BY <3>1, Old DEF RefersBack
  <2>2. CASE i \notin DOMAIN l
    <3>1. m[i].opened \in Of(l, "recovery-opened") /\ i \in DOMAIN m
      BY <2>2, Young DEF NewRefers, Of
    <3>2. QED
      BY <2>2, <3>1, Old, Young
  <2>3. QED
    BY <2>1, <2>2
<1>10. QED
  BY <1>1, <1>2, <1>5, <1>6, <1>7, <1>8, <1>9 DEF RefersBack

LEMMA NotAcrossKeeps ==
  ASSUME NEW l, NEW m, Grown(l, m), NotAcross(l), NoNew(l, m, "step-finished")
  PROVE  NotAcross(m)
<1>1. SUFFICES ASSUME NEW i \in Of(m, "step-finished"), NEW k \in Of(m, "recovery-opened"),
                      BeganIn(m, i) < k, k < i
               PROVE  FALSE
  BY DEF NotAcross
<1>2. i \in Of(l, "step-finished") /\ i \in DOMAIN l
  BY OfGrown, Old
<1>3. k \in DOMAIN m
  BY DEF Of
<1>4. k \in DOMAIN l
  BY <1>1, <1>2, <1>3, GrownIs
<1>5. k \in Of(l, "recovery-opened")
  BY <1>4, OfGrown
<1>6. BeganIn(m, i) = BeganIn(l, i)
  BY <1>2, BeganGrown
<1>7. QED
  BY <1>1, <1>2, <1>5, <1>6 DEF NotAcross

\* Where the record of a start is.
LEMMA RecordIs ==
  ASSUME NEW l, IsLog(l), NEW i \in DOMAIN l,
         \E j \in OfRevision(l, "contract-recorded", l[i].revision) : j < i
  PROVE  /\ RecordIn(l, i) \in OfRevision(l, "contract-recorded", l[i].revision)
         /\ RecordIn(l, i) < i
         /\ \A j \in OfRevision(l, "contract-recorded", l[i].revision) : j < i => j <= RecordIn(l, i)
<1> DEFINE S == {j \in OfRevision(l, "contract-recorded", l[i].revision) : j < i}
<1>1. Len(l) \in Nat /\ DOMAIN l = 1..Len(l)
  BY LogIs
<1>2. S \in SUBSET (1..Len(l)) /\ S # {}
  BY <1>1 DEF OfRevision, Of
<1>3. Latest(S) \in S /\ \A j \in S : j <= Latest(S)
  BY <1>1, <1>2, LatestIn
<1>4. QED
  BY <1>3 DEF RecordIn

LEMMA NotAgainKeeps ==
  ASSUME NEW l, NEW m, Grown(l, m), RefersBack(l), NotAgain(l), NoNew(l, m, "step-started")
  PROVE  NotAgain(m)
<1>1. SUFFICES ASSUME NEW i \in Of(m, "step-started"), NEW k \in Of(m, "recovery-resolved"),
                      k < i, m[i].binding = "primary", m[k].reconciliation = "occurred",
                      StepOf(m[RecordIn(m, i)].contract, m[i].step).output \in m[m[k].opened].outputs
               PROVE  \E j \in Of(m, "step-revalidated") :
                        k < j /\ j < i /\ m[j].step = m[i].step /\ m[j].basis = "recovery-occurred"
  BY DEF NotAgain
<1>2. i \in Of(l, "step-started") /\ i \in DOMAIN l /\ m[i] = l[i]
  BY OfGrown, Old
<1>3. k \in DOMAIN m
  BY DEF Of
<1>4. k \in DOMAIN l
  BY <1>1, <1>2, <1>3, GrownIs
<1>5. k \in Of(l, "recovery-resolved") /\ m[k] = l[k]
  BY <1>4, OfGrown, GrownIs
<1>6. m[l[k].opened] = l[l[k].opened]
  BY <1>5, Old DEF RefersBack
<1>7. RecordIn(m, i) = RecordIn(l, i) /\ m[RecordIn(l, i)] = l[RecordIn(l, i)]
  <2>1. IsLog(l)
    BY DEF Grown
  <2>2. \E j \in OfRevision(l, "contract-recorded", l[i].revision) : j < i
    BY <1>2 DEF RefersBack
  <2>3. RecordIn(l, i) \in OfRevision(l, "contract-recorded", l[i].revision)
    BY <1>2, <2>1, <2>2, RecordIs
  <2>4. QED
    BY <1>2, <2>3, RecordGrown, Old
<1>8. PICK j \in Of(l, "step-revalidated") :
             k < j /\ j < i /\ l[j].step = l[i].step /\ l[j].basis = "recovery-occurred"
  BY <1>1, <1>2, <1>5, <1>6, <1>7 DEF NotAgain
<1>9. j \in Of(m, "step-revalidated") /\ m[j] = l[j]
  BY Old
<1>10. QED
  BY <1>2, <1>8, <1>9

LEMMA TakenBackGrown ==
  ASSUME NEW l, NEW m, Grown(l, m), TakenBackIn(l)
  PROVE  TakenBackIn(m)
<1>1. PICK i \in Records(l), j \in Records(l), k \in Records(l) :
             /\ i < j /\ j < k
             /\ l[i].contract = l[k].contract /\ l[j].contract # l[k].contract
             /\ l[j].revision = l[k].revision
  BY DEF TakenBackIn
<1>2. /\ i \in Records(m) /\ j \in Records(m) /\ k \in Records(m)
      /\ m[i] = l[i] /\ m[j] = l[j] /\ m[k] = l[k]
  BY Old
<1>3. QED
  BY <1>1, <1>2 DEF TakenBackIn

\* Where the authorized record is.
LEMMA AuthorizedIs ==
  ASSUME NEW l, IsLog(l), RefersBack(l), NEW r
  PROVE  /\ OfRevision(l, "execution-authorized", r) = {} => AuthorizedRecord(l, r) = 0
         /\ OfRevision(l, "execution-authorized", r) # {} =>
              LET a == Latest(OfRevision(l, "execution-authorized", r))
              IN /\ a \in OfRevision(l, "execution-authorized", r)
                 /\ \A j \in OfRevision(l, "execution-authorized", r) : j <= a
                 /\ AuthorizedRecord(l, r) = l[l[a].prepared].record
                 /\ AuthorizedRecord(l, r) = l[a].prepared - 1
                 /\ AuthorizedRecord(l, r) \in OfRevision(l, "contract-recorded", r)
                 /\ AuthorizedRecord(l, r) \in Nat \ {0}
                 /\ Covers(l[a], l[AuthorizedRecord(l, r)].contract)
<1> DEFINE S == OfRevision(l, "execution-authorized", r)
           a == Latest(S)
<1>1. Len(l) \in Nat /\ DOMAIN l = 1..Len(l)
  BY LogIs
<1>2. S \in SUBSET (1..Len(l))
  BY <1>1 DEF OfRevision, Of
<1>3. CASE S = {}
  <2>1. a = 0
    BY <1>3 DEF Latest
  <2>2. AuthorizedRecord(l, r) = 0
    BY <2>1 DEF AuthorizedRecord
  <2>3. QED
    BY <1>3, <2>2
<1>4. CASE S # {}
  <2>1. a \in S /\ a # 0 /\ \A j \in S : j <= a
    BY <1>1, <1>2, <1>4, LatestIn
  <2>2. AuthorizedRecord(l, r) = l[l[a].prepared].record
    BY <2>1 DEF AuthorizedRecord
  <2>3. a \in Approvals(l) /\ l[a].revision = r
    BY <2>1 DEF OfRevision, Of, Approvals, ApprovalTypes
  <2>4. l[a].prepared \in Of(l, "gate-prepared") /\ Covers(l[a], l[l[a].prepared - 1].contract)
    BY <2>3 DEF RefersBack
  <2>5. l[a].prepared - 1 \in Records(l) /\ l[l[a].prepared].record = l[a].prepared - 1
    BY <2>4 DEF RefersBack
  <2>6. IsRecord(l[l[a].prepared - 1])
    BY <2>5 DEF RefersBack
  <2>7. l[a].prepared - 1 \in OfRevision(l, "contract-recorded", r)
    BY <2>3, <2>4, <2>5, <2>6 DEF Covers, IsRecord, Records, OfRevision
  <2>8. l[a].prepared - 1 \in Nat \ {0}
    BY <1>1, <2>5 DEF Records, Of
  <2>9. QED
    BY <1>4, <2>1, <2>2, <2>4, <2>5, <2>7, <2>8
<1>5. QED
  BY <1>3, <1>4

LEMMA AuthorizedGrown ==
  ASSUME NEW l, NEW m, Grown(l, m), RefersBack(l), NEW r, NoNew(l, m, "execution-authorized")
  PROVE  /\ AuthorizedRecord(m, r) = AuthorizedRecord(l, r)
         /\ AuthorizedRecord(l, r) # 0 => m[AuthorizedRecord(l, r)] = l[AuthorizedRecord(l, r)]
<1> DEFINE S == OfRevision(l, "execution-authorized", r)
           a == Latest(S)
<1>1. OfRevision(m, "execution-authorized", r) = S
  BY OfRevisionGrown
<1>2. IsLog(l)
  BY DEF Grown
<1>3. CASE S = {}
  BY <1>1, <1>2, <1>3, AuthorizedIs DEF AuthorizedRecord, Latest
<1>4. CASE S # {}
  <2>1. /\ a \in S /\ AuthorizedRecord(l, r) = l[l[a].prepared].record
        /\ AuthorizedRecord(l, r) \in OfRevision(l, "contract-recorded", r)
    BY <1>2, <1>4, AuthorizedIs
  <2>2. a \in Approvals(l) /\ m[a] = l[a] /\ a # 0
    BY <2>1, GrownIs, Old DEF OfRevision, Of, Approvals, ApprovalTypes
  <2>3. m[l[a].prepared] = l[l[a].prepared]
    BY <2>2, Old DEF RefersBack
  <2>4. AuthorizedRecord(m, r) = AuthorizedRecord(l, r)
    BY <1>1, <2>1, <2>2, <2>3 DEF AuthorizedRecord
  <2>5. QED
    BY <2>1, <2>4, Old
<1>5. QED
  BY <1>3, <1>4

LEMMA StartedStaysKeeps ==
  ASSUME NEW l, NEW m, Grown(l, m), RefersBack(l), StartedStays(l),
         NoNew(l, m, "contract-recorded"), NoNew(l, m, "step-started"),
         NoNew(l, m, "execution-authorized")
  PROVE  StartedStays(m)
<1>1. CASE TakenBackIn(l)
  BY <1>1, TakenBackGrown DEF StartedStays
<1>2. ASSUME ~TakenBackIn(l), NEW b \in Of(m, "step-started")
      PROVE  LET r == m[b].revision
                 recorded == OfRevision(m, "contract-recorded", r)
             IN /\ AuthorizedRecord(m, r) # 0
                /\ \A n \in recorded :
                     (\A j \in recorded : ~(n < j /\ j < b)) =>
                       m[n].contract = m[AuthorizedRecord(m, r)].contract
  <2> DEFINE r == m[b].revision
             recorded == OfRevision(l, "contract-recorded", r)
  <2>1. b \in Of(l, "step-started") /\ m[b] = l[b]
    BY OfGrown, Old
  <2>2. OfRevision(m, "contract-recorded", r) = recorded
    BY OfRevisionGrown
  <2>3. AuthorizedRecord(l, r) # 0 /\ \A n \in recorded :
          (\A j \in recorded : ~(n < j /\ j < b)) => l[n].contract = l[AuthorizedRecord(l, r)].contract
    BY <1>2, <2>1 DEF StartedStays
  <2>4. AuthorizedRecord(m, r) = AuthorizedRecord(l, r) /\ m[AuthorizedRecord(l, r)] = l[AuthorizedRecord(l, r)]
    BY <2>3, AuthorizedGrown
  <2>5. \A n \in recorded : m[n] = l[n]
    BY Old
  <2>6. QED
    BY <2>2, <2>3, <2>4, <2>5
<1>3. QED
  BY <1>1, <1>2 DEF StartedStays

-----------------------------------------------------------------------------
(* TaskCommands: what each kind of batch preserves                         *)

\* A batch whose last event is not a gate.
Closes(l, m) == Len(m) > Len(l) /\ m[Len(m)].type # "gate-prepared"

LEMMA GateGone ==
  ASSUME NEW l, NEW m, Closes(l, m)
  PROVE  GateStands(m)
  BY DEF GateStands, GateIsHead, Closes

LEMMA QuietKeeps ==
  ASSUME NEW l, NEW m, LogInv(l), Grown(l, m), Closes(l, m), NewRefers(l, m),
         NoNew(l, m, "contract-recorded"), NoNew(l, m, "step-started"),
         NoNew(l, m, "execution-authorized"), NoNew(l, m, "step-finished")
  PROVE  LogInv(m)
<1>1. RefersBack(m)
  BY RefersKeeps DEF LogInv
<1>2. NotAcross(m)
  BY NotAcrossKeeps DEF LogInv
<1>3. NotAgain(m)
  BY NotAgainKeeps DEF LogInv
<1>4. StartedStays(m)
  BY StartedStaysKeeps DEF LogInv
<1>5. IsLog(m) /\ Len(m) > 0
  BY GrownIs DEF Grown
<1>6. QED
  BY <1>1, <1>2, <1>3, <1>4, <1>5, GateGone DEF LogInv

LEMMA FinishKeeps ==
  ASSUME NEW l, NEW m, LogInv(l), Grown(l, m), Closes(l, m), NewRefers(l, m),
         \A i \in New(l, m) :
            /\ m[i].type = "step-finished"
            /\ \E j \in Attempts(l, m[i].revision, m[i].step) :
                  l[j].attempt = m[i].attempt /\ Opened(l) < j
  PROVE  LogInv(m)
<1>1. /\ NoNew(l, m, "contract-recorded") /\ NoNew(l, m, "step-started")
      /\ NoNew(l, m, "execution-authorized") /\ NoNew(l, m, "recovery-opened")
  BY DEF NoNew
<1>2. RefersBack(m)
  BY RefersKeeps DEF LogInv
<1>3. NotAgain(m)
  BY <1>1, NotAgainKeeps DEF LogInv
<1>4. StartedStays(m)
  BY <1>1, StartedStaysKeeps DEF LogInv
<1>5. IsLog(m) /\ Len(m) > 0
  BY GrownIs DEF Grown
<1>6. NotAcross(m)
  <2>1. SUFFICES ASSUME NEW i \in Of(m, "step-finished"), NEW k \in Of(m, "recovery-opened"),
                        BeganIn(m, i) < k, k < i
                 PROVE  FALSE
    BY DEF NotAcross
  <2>2. k \in Of(l, "recovery-opened") /\ k \in DOMAIN l
    BY <1>1, OfGrown, Old
  <2>3. CASE i \in DOMAIN l
    <3>1. i \in Of(l, "step-finished")
      BY <2>3, OfGrown
    <3>2. QED
      BY <2>1, <2>2, <2>3, <3>1, BeganGrown DEF LogInv, NotAcross
  <2>4. CASE i \notin DOMAIN l
    <3> DEFINE S == {j \in Attempts(m, m[i].revision, m[i].step) :
                       j < i /\ m[j].attempt = m[i].attempt}
    <3>1. i \in New(l, m) /\ i \in Nat /\ \A j \in DOMAIN l : j < i
      BY <2>4, Young DEF Of
    <3>2. PICK j \in Attempts(l, m[i].revision, m[i].step) :
                 l[j].attempt = m[i].attempt /\ Opened(l) < j
      BY <3>1
    <3>3. j \in S
      BY <3>1, <3>2, Old DEF Attempts
    <3>4. DOMAIN l = 1..Len(l) /\ DOMAIN m = 1..Len(m) /\ Len(m) \in Nat /\ Len(l) \in Nat
      BY Zenon, GrownIs
    <3>5. S \in SUBSET (0..Len(m))
      BY <3>4 DEF Attempts, OfRevision, Of
    <3>6. Max(S) \in S /\ \A x \in S : x <= Max(S)
      <4> HIDE DEF S
      <4>1. QED
        BY <3>3, <3>4, <3>5, MaxIn
    <3>7. BeganIn(m, i) = Max(S)
      BY DEF BeganIn
    <3>8. Of(l, "recovery-opened") \in SUBSET (1..Len(l))
      BY <3>4 DEF Of
    <3>9. Opened(l) \in 0..Len(l) /\ k <= Opened(l)
      BY <2>2, <3>4, <3>8, LatestIn DEF Opened
    <3>10. Max(S) \in Nat /\ j \in Nat /\ j <= Max(S)
      BY <3>3, <3>5, <3>6
    <3> HIDE DEF S
    <3>11. k \in Nat
      BY <2>2, <3>4
    <3>12. QED
      BY <2>1, <3>2, <3>7, <3>9, <3>10, <3>11
  <2>5. QED
    BY <2>3, <2>4
<1>7. QED
  BY <1>2, <1>3, <1>4, <1>5, <1>6, GateGone DEF LogInv

\* Approvals of what the gate at the head of the log shows.
LEMMA ApproveKeeps ==
  ASSUME NEW l, NEW m, LogInv(l), Grown(l, m), Closes(l, m), GateIsHead(l),
         \A i \in New(l, m) :
            /\ m[i].type \in ApprovalTypes /\ m[i].prepared = Len(l)
            /\ Covers(m[i], l[Len(l) - 1].contract)
  PROVE  LogInv(m)
<1> DEFINE c == l[Len(l) - 1].contract
<1>1. /\ NoNew(l, m, "contract-recorded") /\ NoNew(l, m, "step-started")
      /\ NoNew(l, m, "step-finished")
  BY DEF NoNew, ApprovalTypes
<1>2. /\ Len(l) \in Nat \ {0} /\ DOMAIN l = 1..Len(l) /\ DOMAIN m = 1..Len(m)
      /\ Len(m) \in Nat /\ IsLog(l) /\ IsLog(m) /\ Len(m) > 0
  BY GrownIs DEF Grown
<1>3. Len(l) \in Of(l, "gate-prepared")
  BY <1>2 DEF GateIsHead, Of
<1>4. NewRefers(l, m)
  BY <1>3 DEF NewRefers, ApprovalTypes
<1>5. RefersBack(m)
  BY <1>4, RefersKeeps DEF LogInv
<1>6. NotAcross(m) /\ NotAgain(m)
  BY <1>1, NotAcrossKeeps, NotAgainKeeps DEF LogInv
<1>7. Len(l) - 1 \in Records(l) /\ IsRecord(l[Len(l) - 1])
  BY <1>3 DEF LogInv, RefersBack
<1>8. ASSUME ~TakenBackIn(l), NEW b \in Of(m, "step-started")
      PROVE  LET r == m[b].revision
                 recorded == OfRevision(m, "contract-recorded", r)
             IN /\ AuthorizedRecord(m, r) # 0
                /\ \A n \in recorded :
                     (\A j \in recorded : ~(n < j /\ j < b)) =>
                       m[n].contract = m[AuthorizedRecord(m, r)].contract
  <2> DEFINE r == m[b].revision
             recorded == OfRevision(l, "contract-recorded", r)
             new == OfRevision(m, "execution-authorized", r)
             a == Latest(new)
  <2>1. b \in Of(l, "step-started") /\ m[b] = l[b] /\ b \in DOMAIN l
    BY <1>1, OfGrown, Old
  <2>2. OfRevision(m, "contract-recorded", r) = recorded
    BY <1>1, OfRevisionGrown
  <2>3. AuthorizedRecord(l, r) # 0 /\ \A n \in recorded :
          (\A j \in recorded : ~(n < j /\ j < b)) => l[n].contract = l[AuthorizedRecord(l, r)].contract
    BY <1>8, <2>1 DEF LogInv, StartedStays
  <2>4. \A n \in recorded : m[n] = l[n]
    BY Old
  <2>5. OfRevision(l, "execution-authorized", r) # {}
    BY <1>2, <2>3, AuthorizedIs DEF LogInv
  <2>6. new # {}
    BY <2>5, OfRevisionGrown
  <2>7. /\ a \in new /\ \A j \in new : j <= a
        /\ AuthorizedRecord(m, r) = m[a].prepared - 1
        /\ AuthorizedRecord(m, r) \in OfRevision(m, "contract-recorded", r)
        /\ AuthorizedRecord(m, r) \in Nat \ {0}
    BY <1>2, <1>5, <2>6, AuthorizedIs
  <2>8. CASE a \in DOMAIN l
    <3>1. new = OfRevision(l, "execution-authorized", r)
      <4>1. \A j \in new : j \in DOMAIN m /\ j <= a
        BY <2>7 DEF OfRevision, Of
      <4>2. \A j \in new : j \in DOMAIN l
        BY <1>2, <2>8, <4>1
      <4>3. QED
        BY <4>2, OfRevisionGrown
    <3>2. a \in Approvals(l) /\ m[a] = l[a]
      BY <2>7, <2>8, <3>1, Old DEF OfRevision, Of, Approvals, ApprovalTypes
    <3>3. AuthorizedRecord(l, r) = l[a].prepared - 1
      BY <1>2, <2>5, <3>1, AuthorizedIs DEF LogInv
    <3>4. AuthorizedRecord(m, r) = AuthorizedRecord(l, r)
      BY <2>7, <3>2, <3>3
    <3>5. m[AuthorizedRecord(l, r)] = l[AuthorizedRecord(l, r)]
      BY <2>2, <2>4, <2>7, <3>4
    <3>6. QED
      BY <2>2, <2>3, <2>4, <3>4, <3>5
  <2>9. CASE a \notin DOMAIN l
    <3>1. a \in New(l, m)
      BY <2>7, <2>9, Young DEF OfRevision, Of
    <3>2. AuthorizedRecord(m, r) = Len(l) - 1
      BY <2>7, <3>1
    <3>3. Len(l) - 1 \in recorded
      BY <2>2, <2>7, <3>2
    <3>4. b \in 1..Len(l)
      BY <1>2, <2>1
    <3>5. \A j \in recorded : ~(Len(l) - 1 < j /\ j < b)
      BY <1>2, <3>4 DEF OfRevision, Of
    <3>6. l[Len(l) - 1].contract = l[AuthorizedRecord(l, r)].contract
      BY <2>3, <3>3, <3>5
    <3>7. m[Len(l) - 1] = l[Len(l) - 1]
      BY <2>4, <3>3
    <3>8. QED
      BY <2>2, <2>3, <2>4, <2>7, <3>2, <3>6, <3>7
  <2>10. QED
    BY <2>8, <2>9
<1>9. StartedStays(m)
  BY <1>8, TakenBackGrown DEF StartedStays
<1>10. QED
  BY <1>2, <1>5, <1>6, <1>9, GateGone DEF LogInv

\* A contract and a gate over it: in a revision with a started step it is the
\* authorized one, and the gate of an action asks for what it takes to start.
LEMMA PrepareKeeps ==
  ASSUME NEW l, NEW m, LogInv(l), Grown(l, m), NEW c \in AllContracts,
         NEW n, n = Len(l) + 1, Len(m) = n + 1,
         m[n].type = "contract-recorded", m[n].contract = c, m[n].revision = c.revision,
         m[n + 1].type = "gate-prepared", m[n + 1].record = n,
         \A b \in Of(l, "step-started") :
            /\ l[b].revision = c.revision /\ AuthorizedRecord(l, c.revision) # 0
            => c = l[AuthorizedRecord(l, c.revision)].contract,
         m[n + 1].gate = "action" =>
            /\ Shown(l, c) /\ ~InRecovery(l) /\ ~Owed(l, c, m[n + 1].action.step)
  PROVE  LogInv(m)
<1>1. /\ Len(l) \in Nat \ {0} /\ DOMAIN l = 1..Len(l) /\ DOMAIN m = 1..Len(m)
      /\ Len(m) \in Nat /\ IsLog(l) /\ IsLog(m) /\ Len(m) > 0
  BY GrownIs DEF Grown
<1>2. New(l, m) = {n, n + 1}
  BY <1>1 DEF New
<1>3. /\ NoNew(l, m, "step-started") /\ NoNew(l, m, "step-finished")
      /\ NoNew(l, m, "execution-authorized") /\ NoNew(l, m, "recovery-opened")
      /\ NoNew(l, m, "recovery-resolved") /\ NoNew(l, m, "step-revalidated")
  BY <1>2 DEF NoNew
<1>4. n \in Records(m) /\ n + 1 - 1 = n
  BY <1>1 DEF Records, Of
<1>5. NewRefers(l, m)
  <2>1. IsRecord(m[n])
    BY DEF IsRecord
  <2>2. QED
    BY <1>2, <1>4, <2>1 DEF NewRefers, ApprovalTypes
<1>6. RefersBack(m)
  BY <1>5, RefersKeeps DEF LogInv
<1>7. NotAcross(m) /\ NotAgain(m)
  BY <1>3, NotAcrossKeeps, NotAgainKeeps DEF LogInv
<1>8. GateStands(m)
  <2>1. SUFFICES ASSUME m[n + 1].gate = "action"
                 PROVE  Shown(m, c) /\ ~InRecovery(m) /\ ~Owed(m, c, m[n + 1].action.step)
    BY <1>1 DEF GateStands
  <2>2. ~InRecovery(m)
    BY <1>3, <2>1, InRecoveryGrown
  <2>3. ~Owed(m, c, m[n + 1].action.step)
    BY <1>3, <2>1, ObligationsGrown DEF Owed, LogInv
  <2>4. Shown(m, c)
    <3>1. PICK i \in Of(l, "execution-authorized") :
                 i > Opened(l) /\ l[l[l[i].prepared].record].contract = c
      BY <2>1 DEF Shown
    <3>2. i \in Approvals(l) /\ i \in Of(m, "execution-authorized") /\ m[i] = l[i]
      BY Old DEF Of, Approvals, ApprovalTypes
    <3>3. l[i].prepared \in Of(l, "gate-prepared")
      BY <3>2 DEF LogInv, RefersBack
    <3>4. m[l[i].prepared] = l[l[i].prepared] /\ l[l[i].prepared].record \in Records(l)
      BY <3>3, Old DEF LogInv, RefersBack
    <3>5. m[l[l[i].prepared].record] = l[l[l[i].prepared].record]
      BY <3>4, Old
    <3>6. Opened(m) = Opened(l)
      BY <1>3, OpenedGrown
    <3>7. QED
      BY <3>1, <3>2, <3>4, <3>5, <3>6 DEF Shown
  <2>5. QED
    BY <2>2, <2>3, <2>4
<1>9. ASSUME ~TakenBackIn(l), NEW b \in Of(m, "step-started")
      PROVE  LET r == m[b].revision
                 recorded == OfRevision(m, "contract-recorded", r)
             IN /\ AuthorizedRecord(m, r) # 0
                /\ \A i \in recorded :
                     (\A j \in recorded : ~(i < j /\ j < b)) =>
                       m[i].contract = m[AuthorizedRecord(m, r)].contract
  <2> DEFINE r == m[b].revision
             recorded == OfRevision(l, "contract-recorded", r)
  <2>1. b \in Of(l, "step-started") /\ m[b] = l[b]
    BY <1>3, OfGrown, Old
  <2>2. /\ recorded \subseteq OfRevision(m, "contract-recorded", r)
        /\ \A i \in OfRevision(m, "contract-recorded", r) : i \in recorded \/ i \in {n, n + 1}
    BY <1>2, OfRevisionGrown
  <2>3. AuthorizedRecord(l, r) # 0 /\ \A i \in recorded :
          (\A j \in recorded : ~(i < j /\ j < b)) => l[i].contract = l[AuthorizedRecord(l, r)].contract
    BY <1>9, <2>1 DEF LogInv, StartedStays
  <2>4. AuthorizedRecord(m, r) = AuthorizedRecord(l, r) /\ m[AuthorizedRecord(l, r)] = l[AuthorizedRecord(l, r)]
    BY <1>3, <2>3, AuthorizedGrown DEF LogInv
  <2>5. \A i \in recorded : m[i] = l[i]
    BY Old
  <2>6. ASSUME NEW i \in OfRevision(m, "contract-recorded", r),
               \A j \in OfRevision(m, "contract-recorded", r) : ~(i < j /\ j < b)
        PROVE  m[i].contract = m[AuthorizedRecord(m, r)].contract
    <3>1. CASE i \in recorded
      BY <2>2, <2>3, <2>4, <2>5, <2>6, <3>1
    <3>2. CASE i \notin recorded
      <4>1. i = n
        <5>1. i \in {n, n + 1} /\ m[i].type = "contract-recorded"
          BY <2>2, <3>2 DEF OfRevision, Of
        <5>2. QED
          BY <5>1
      <4>2. m[i].contract = c /\ r = c.revision
        BY <4>1 DEF OfRevision
      <4>3. c = l[AuthorizedRecord(l, r)].contract
        BY <2>1, <2>3, <4>2
      <4>4. QED
        BY <2>4, <4>2, <4>3
    <3>3. QED
      BY <3>1, <3>2
  <2>7. QED
    BY <2>3, <2>4, <2>6
<1>10. StartedStays(m)
  BY <1>9, TakenBackGrown DEF StartedStays
<1>11. QED
  BY <1>1, <1>6, <1>7, <1>8, <1>10 DEF LogInv

\* A start in a revision whose last record is the authorized one, of a step
\* that produces nothing again.
LEMMA StartKeeps ==
  ASSUME NEW l, NEW m, LogInv(l), Grown(l, m), Closes(l, m),
         NEW r, OfRevision(l, "contract-recorded", r) # {},
         TakenBackIn(l) \/
           /\ AuthorizedRecord(l, r) # 0
           /\ l[LatestRecord(l, r)].contract = l[AuthorizedRecord(l, r)].contract,
         \A i \in New(l, m) :
           /\ m[i].type \in {"action-approved", "fallback-invoked", "step-started"}
           /\ m[i].type = "step-started" =>
                /\ m[i].revision = r
                /\ m[i].binding = "primary" =>
                     \A k \in Of(l, "recovery-resolved") :
                       /\ l[k].reconciliation = "occurred"
                       /\ StepOf(l[LatestRecord(l, r)].contract, m[i].step).output
                            \in l[l[k].opened].outputs
                       => \E j \in Of(l, "step-revalidated") :
                            k < j /\ l[j].step = m[i].step /\ l[j].basis = "recovery-occurred"
  PROVE  LogInv(m)
<1>1. /\ Len(l) \in Nat \ {0} /\ DOMAIN l = 1..Len(l) /\ DOMAIN m = 1..Len(m)
      /\ Len(m) \in Nat /\ IsLog(l) /\ IsLog(m) /\ Len(m) > 0
  BY GrownIs DEF Grown
<1>2. /\ NoNew(l, m, "contract-recorded") /\ NoNew(l, m, "step-finished")
      /\ NoNew(l, m, "execution-authorized") /\ NoNew(l, m, "recovery-resolved")
  BY DEF NoNew
<1>3. NewRefers(l, m)
  BY DEF NewRefers, ApprovalTypes
<1>4. RefersBack(m)
  BY <1>3, RefersKeeps DEF LogInv
<1>5. NotAcross(m)
  BY <1>2, NotAcrossKeeps DEF LogInv
<1> DEFINE recorded == OfRevision(l, "contract-recorded", r)
           last == LatestRecord(l, r)
<1>6. last \in recorded /\ last \in DOMAIN l /\ \A j \in recorded : j <= last
  <2>1. recorded \in SUBSET (1..Len(l))
    BY <1>1 DEF OfRevision, Of
  <2>2. QED
    BY <1>1, <2>1, LatestIn DEF LatestRecord
<1>7. OfRevision(m, "contract-recorded", r) = recorded /\ \A j \in recorded : m[j] = l[j]
  BY <1>2, OfRevisionGrown, Old
<1>8. ASSUME NEW i \in Of(m, "step-started"), i \notin DOMAIN l
      PROVE  /\ i \in New(l, m) /\ m[i].revision = r /\ i \in Nat
             /\ \A j \in DOMAIN l : j < i
             /\ RecordIn(m, i) = last
  <2>1. i \in New(l, m) /\ i \in Nat /\ \A j \in DOMAIN l : j < i
    BY <1>8, Young DEF Of
  <2>2. m[i].revision = r
    BY <2>1 DEF Of
  <2>3. \A j \in recorded : j < i
    BY <2>1 DEF OfRevision, Of
  <2>4. {j \in recorded : j < i} = recorded
    BY <2>3
  <2>5. QED
    BY <1>7, <2>1, <2>2, <2>4 DEF RecordIn, LatestRecord
<1>9. NotAgain(m)
  <2>1. SUFFICES ASSUME NEW i \in Of(m, "step-started"), NEW k \in Of(m, "recovery-resolved"),
                        k < i, m[i].binding = "primary", m[k].reconciliation = "occurred",
                        StepOf(m[RecordIn(m, i)].contract, m[i].step).output \in m[m[k].opened].outputs
                 PROVE  \E j \in Of(m, "step-revalidated") :
                          k < j /\ j < i /\ m[j].step = m[i].step /\ m[j].basis = "recovery-occurred"
    BY DEF NotAgain
  <2>2. k \in Of(l, "recovery-resolved") /\ m[k] = l[k]
    BY <1>2, OfGrown, Old
  <2>3. m[l[k].opened] = l[l[k].opened]
    BY <2>2, Old DEF LogInv, RefersBack
  <2>4. CASE i \in DOMAIN l
    <3>1. i \in Of(l, "step-started") /\ m[i] = l[i]
      BY <2>4, OfGrown, GrownIs
    <3>2. RecordIn(l, i) \in OfRevision(l, "contract-recorded", l[i].revision)
      <4>1. \E j \in OfRevision(l, "contract-recorded", l[i].revision) : j < i
        BY <3>1 DEF LogInv, RefersBack
      <4>2. QED
        BY <1>1, <2>4, <4>1, RecordIs
    <3>3. RecordIn(m, i) = RecordIn(l, i) /\ m[RecordIn(l, i)] = l[RecordIn(l, i)]
      BY <2>4, <3>2, RecordGrown, Old
    <3>4. PICK j \in Of(l, "step-revalidated") :
                 k < j /\ j < i /\ l[j].step = l[i].step /\ l[j].basis = "recovery-occurred"
      BY <2>1, <2>2, <2>3, <3>1, <3>3 DEF LogInv, NotAgain
    <3>5. QED
      BY <3>1, <3>4, Old
  <2>5. CASE i \notin DOMAIN l
    <3>1. /\ i \in New(l, m) /\ RecordIn(m, i) = last /\ \A j \in DOMAIN l : j < i
      BY <1>8, <2>5
    <3>2. m[last] = l[last]
      BY <1>6, <1>7
    <3>3. PICK j \in Of(l, "step-revalidated") :
                 k < j /\ l[j].step = m[i].step /\ l[j].basis = "recovery-occurred"
      BY <2>1, <2>2, <2>3, <3>1, <3>2 DEF Of
    <3>4. QED
      BY <3>1, <3>3, Old
  <2>6. QED
    BY <2>4, <2>5
<1>10. ASSUME ~TakenBackIn(l), NEW b \in Of(m, "step-started")
       PROVE  LET q == m[b].revision
                  records == OfRevision(m, "contract-recorded", q)
              IN /\ AuthorizedRecord(m, q) # 0
                 /\ \A i \in records :
                      (\A j \in records : ~(i < j /\ j < b)) =>
                        m[i].contract = m[AuthorizedRecord(m, q)].contract
  <2> DEFINE q == m[b].revision
             records == OfRevision(l, "contract-recorded", q)
  <2>1. OfRevision(m, "contract-recorded", q) = records /\ \A j \in records : m[j] = l[j]
    BY <1>2, OfRevisionGrown, Old
  <2>2. AuthorizedRecord(l, q) # 0 /\ \A i \in records :
          (\A j \in records : ~(i < j /\ j < b)) => l[i].contract = l[AuthorizedRecord(l, q)].contract
    <3>1. CASE b \in DOMAIN l
      <4>1. b \in Of(l, "step-started") /\ m[b] = l[b]
        BY <3>1, OfGrown, Old
      <4>2. QED
        BY <1>10, <4>1 DEF LogInv, StartedStays
    <3>2. CASE b \notin DOMAIN l
      <4>1. q = r /\ b \in Nat /\ \A j \in DOMAIN l : j < b
        BY <1>8, <3>2
      <4>2. ASSUME NEW i \in records, \A j \in records : ~(i < j /\ j < b)
            PROVE  i = last
        <5>1. ~(i < last) /\ i <= last /\ i \in DOMAIN l
          BY <1>6, <4>1, <4>2 DEF OfRevision, Of
        <5>2. QED
          BY <1>1, <1>6, <5>1
      <4>3. QED
        BY <1>10, <4>1, <4>2
    <3>3. QED
      BY <3>1, <3>2
  <2>3. AuthorizedRecord(m, q) = AuthorizedRecord(l, q) /\ m[AuthorizedRecord(l, q)] = l[AuthorizedRecord(l, q)]
    BY <1>2, <2>2, AuthorizedGrown DEF LogInv
  <2>4. QED
    BY <2>1, <2>2, <2>3
<1>11. StartedStays(m)
  BY <1>10, TakenBackGrown DEF StartedStays
<1>12. QED
  BY <1>1, <1>4, <1>5, <1>9, <1>11, GateGone DEF LogInv

-----------------------------------------------------------------------------
(* TaskCommands: contracts, and what is in force                           *)

LEMMA ContractIs ==
  ASSUME NEW c \in AllContracts
  PROVE  /\ c.revision \in Nat \ {0}
         /\ c = [mode |-> c.mode, revision |-> c.revision, plan |-> c.plan, terms |-> c.terms]
<1>1. ValidContract(c)
  BY TaskConstants DEF AllContracts
<1>2. QED
  BY <1>1 DEF ValidContract

LEMMA SameIfCovered ==
  ASSUME NEW c \in AllContracts, NEW d \in AllContracts,
         TermsDigest(c) = TermsDigest(d), c.plan = d.plan
  PROVE  c = d
<1>1. c.mode = d.mode /\ c.revision = d.revision /\ c.terms = d.terms
  BY DEF TermsDigest
<1>2. QED
  BY <1>1, ContractIs

LEMMA SameIfContent ==
  ASSUME NEW c \in AllContracts, NEW d \in AllContracts,
         SameContent(c, d), c.revision = d.revision
  PROVE  c = d
<1> DEFINE C == [mode |-> c.mode, revision |-> c.revision, plan |-> c.plan, terms |-> c.terms]
           D == [mode |-> d.mode, revision |-> d.revision, plan |-> d.plan, terms |-> d.terms]
<1>1. c = C /\ d = D
  BY ContractIs
<1>2. [C EXCEPT !.revision = 0] = [D EXCEPT !.revision = 0]
  BY <1>1 DEF SameContent
<1>3. C.mode = D.mode /\ C.plan = D.plan /\ C.terms = D.terms
  <2>1. /\ [C EXCEPT !.revision = 0].mode = C.mode /\ [D EXCEPT !.revision = 0].mode = D.mode
        /\ [C EXCEPT !.revision = 0].plan = C.plan /\ [D EXCEPT !.revision = 0].plan = D.plan
        /\ [C EXCEPT !.revision = 0].terms = C.terms /\ [D EXCEPT !.revision = 0].terms = D.terms
    OBVIOUS
  <2>2. QED
    BY <1>2, <2>1
<1>4. QED
  BY <1>1, <1>3

LEMMA AuthorizedIsShown ==
  ASSUME NEW l, LogInv(l), NEW c \in AllContracts, ExecutionAuthorized(l, c)
  PROVE  Shown(l, c) /\ HasApprovals(l)
<1>1. PICK i \in Approved(l, "execution-authorized", c) : l[i].plan = c.plan
  BY DEF ExecutionAuthorized
<1>2. /\ i \in Of(l, "execution-authorized") /\ i \in Approvals(l)
      /\ i > Opened(l) /\ l[i].terms = TermsDigest(c)
  BY <1>1 DEF Approved, OfRevision, Of, Approvals, ApprovalTypes
<1> DEFINE p == l[i].prepared
<1>3. p \in Of(l, "gate-prepared") /\ Covers(l[i], l[p - 1].contract)
  BY <1>2 DEF LogInv, RefersBack
<1>4. p - 1 \in Records(l) /\ l[p].record = p - 1 /\ IsRecord(l[p - 1])
  BY <1>3 DEF LogInv, RefersBack
<1>5. l[p - 1].contract = c
  BY <1>1, <1>2, <1>3, <1>4, SameIfCovered DEF Covers, IsRecord
<1>6. QED
  BY <1>2, <1>4, <1>5 DEF Shown, HasApprovals

\* What was shown and authorized, and is what was recorded last, is what was
\* authorized last.
LEMMA ShownIsAuthorized ==
  ASSUME NEW l, LogInv(l), NEW c \in AllContracts, Shown(l, c),
         LatestRecord(l, c.revision) # 0,
         l[LatestRecord(l, c.revision)].contract = c
  PROVE  TakenBackIn(l) \/
           /\ AuthorizedRecord(l, c.revision) # 0
           /\ l[AuthorizedRecord(l, c.revision)].contract = c
<1> DEFINE r == c.revision
           S == OfRevision(l, "execution-authorized", r)
           a == Latest(S)
           last == LatestRecord(l, r)
           recorded == OfRevision(l, "contract-recorded", r)
<1>1. Len(l) \in Nat /\ DOMAIN l = 1..Len(l)
  BY LogIs DEF LogInv
<1>2. PICK i \in Of(l, "execution-authorized") : l[l[l[i].prepared].record].contract = c
  BY DEF Shown
<1> DEFINE p == l[i].prepared
<1>3. i \in Approvals(l)
  BY DEF Of, Approvals, ApprovalTypes
<1>4. p \in Of(l, "gate-prepared") /\ Covers(l[i], l[p - 1].contract)
  BY <1>3 DEF LogInv, RefersBack
<1>5. p - 1 \in Records(l) /\ l[p].record = p - 1
  BY <1>4 DEF LogInv, RefersBack
<1>6. l[p - 1].contract = c /\ i \in S
  BY <1>2, <1>4, <1>5 DEF Covers, OfRevision
<1>7. /\ a \in S /\ i <= a
      /\ AuthorizedRecord(l, r) = l[a].prepared - 1
      /\ AuthorizedRecord(l, r) \in recorded
      /\ AuthorizedRecord(l, r) \in Nat \ {0}
  BY <1>6, AuthorizedIs DEF LogInv
<1>8. a \in Approvals(l) /\ a \in Nat /\ i \in Nat
  BY <1>1, <1>7, <1>3 DEF OfRevision, Of, Approvals, ApprovalTypes
<1>9. p <= l[a].prepared /\ p \in Nat /\ l[a].prepared \in Nat
  <2>1. CASE i = a
    BY <1>1, <1>4, <2>1 DEF Of
  <2>2. CASE i # a
    <3>1. i < a
      BY <1>7, <1>8, <2>2
    <3>2. l[a].prepared \in Of(l, "gate-prepared")
      BY <1>8 DEF LogInv, RefersBack
    <3>3. QED
      BY <1>1, <1>3, <1>4, <1>8, <3>1, <3>2 DEF LogInv, RefersBack, Of
  <2>3. QED
    BY <2>1, <2>2
<1>10. last \in recorded /\ \A j \in recorded : j <= last
  <2>1. recorded \in SUBSET (1..Len(l))
    BY <1>1 DEF OfRevision, Of
  <2>2. QED
    BY <1>1, <1>7, <2>1, LatestIn DEF LatestRecord
<1>11. CASE l[AuthorizedRecord(l, r)].contract = c
  BY <1>7, <1>11
<1>12. CASE l[AuthorizedRecord(l, r)].contract # c
  <2>1. p - 1 < AuthorizedRecord(l, r)
    BY <1>6, <1>7, <1>9, <1>12
  <2>2. AuthorizedRecord(l, r) < last
    <3>1. AuthorizedRecord(l, r) <= last /\ last \in Nat
      BY <1>1, <1>7, <1>10 DEF OfRevision, Of
    <3>2. AuthorizedRecord(l, r) # last
      BY <1>12
    <3>3. QED
      BY <1>7, <3>1, <3>2
  <2>3. /\ AuthorizedRecord(l, r) \in Records(l) /\ last \in Records(l)
        /\ l[AuthorizedRecord(l, r)].revision = l[last].revision
    BY <1>7, <1>10 DEF OfRevision, Records
  <2>4. TakenBackIn(l)
    BY <1>5, <1>6, <1>12, <2>1, <2>2, <2>3 DEF TakenBackIn
  <2>5. QED
    BY <2>4
<1>13. QED
  BY <1>11, <1>12

\* A gate at the head of the log.
LEMMA HeadIs ==
  ASSUME NEW l, LogInv(l), GateIsHead(l)
  PROVE  LET c == l[Len(l) - 1].contract
         IN /\ c \in AllContracts /\ l[Len(l)].record = Len(l) - 1
            /\ LatestRecord(l, c.revision) = Len(l) - 1
            /\ Len(l) - 1 \in OfRevision(l, "contract-recorded", c.revision)
            /\ Len(l) - 1 # 0
<1> DEFINE c == l[Len(l) - 1].contract
           recorded == OfRevision(l, "contract-recorded", c.revision)
<1>1. Len(l) \in Nat /\ DOMAIN l = 1..Len(l) /\ Len(l) > 0
  BY LogIs DEF LogInv
<1>2. Len(l) \in Of(l, "gate-prepared")
  BY <1>1 DEF GateIsHead, Of
<1>3. Len(l) - 1 \in Records(l) /\ l[Len(l)].record = Len(l) - 1 /\ IsRecord(l[Len(l) - 1])
  BY <1>2 DEF LogInv, RefersBack
<1>4. Len(l) - 1 \in recorded
  BY <1>3 DEF IsRecord, OfRevision, Records
<1>5. \A j \in recorded : j <= Len(l) - 1
  <2>1. \A j \in recorded : j \in 1..Len(l) /\ j # Len(l)
    BY <1>1, <1>2 DEF OfRevision, Of
  <2>2. QED
    BY <1>1, <2>1
<1>6. recorded \in SUBSET Nat
  BY <1>1 DEF OfRevision, Of
<1>7. LatestRecord(l, c.revision) = Len(l) - 1
  <2> HIDE DEF recorded
  <2>1. QED
    BY <1>4, <1>5, <1>6, LatestIs DEF LatestRecord, recorded
<1>8. Len(l) - 1 # 0
  BY <1>1, <1>4 DEF OfRevision, Of
<1>9. QED
  BY <1>3, <1>4, <1>7, <1>8 DEF IsRecord

\* A bound of the recorded revisions.
LEMMA Bounded ==
  ASSUME NEW n \in Nat, NEW f \in [1..n -> Nat]
  PROVE  \E b \in Nat : \A i \in 1..n : f[i] <= b
<1> DEFINE P(k) == \E b \in Nat : \A i \in 1..k : i <= n => f[i] <= b
           S == {k \in Nat : P(k)}
<1>1. 0 \in S
  OBVIOUS
<1>2. ASSUME NEW k \in Nat, k \in S PROVE k + 1 \in S
  <2>1. PICK b \in Nat : \A i \in 1..k : i <= n => f[i] <= b
    BY <1>2
  <2>2. CASE k + 1 <= n
    <3>1. f[k + 1] \in Nat
      BY <2>2
    <3>2. \A i \in 1..(k + 1) : i <= n => f[i] <= b + f[k + 1]
      <4>1. ASSUME NEW i \in 1..(k + 1), i <= n PROVE f[i] <= b + f[k + 1]
        <5>1. f[i] \in Nat
          BY <4>1
        <5>2. CASE i = k + 1
          <6>1. f[i] = f[k + 1]
            BY <5>2
          <6>2. QED
            BY <3>1, <6>1
        <5>3. CASE i # k + 1
          <6>1. i \in 1..k
            BY <5>3
          <6>2. f[i] <= b
            BY <2>1, <4>1, <6>1
          <6>3. QED
            BY <3>1, <5>1, <6>2
        <5>4. QED
          BY <5>2, <5>3
      <4>2. QED
        BY <4>1
    <3>3. b + f[k + 1] \in Nat
      BY <3>1
    <3>4. P(k + 1)
      BY <3>2, <3>3
    <3>5. QED
      BY <3>4
  <2>3. CASE ~(k + 1 <= n)
    <3>1. \A i \in 1..(k + 1) : i <= n => f[i] <= b
      BY <2>1, <2>3
    <3>2. QED
      BY <3>1
  <2>4. QED
    BY <2>2, <2>3
<1> HIDE DEF S
<1>3. Nat \subseteq S
  BY <1>1, <1>2, Induction
<1>4. n \in S
  BY <1>3
<1>5. QED
  BY <1>4 DEF S

LEMMA MaxRecorded ==
  ASSUME NEW l, LogInv(l), NEW i \in Records(l)
  PROVE  /\ MaxRecordedRevision(l) \in Nat
         /\ l[i].revision <= MaxRecordedRevision(l) /\ l[i].revision \in Nat \ {0}
<1> DEFINE S == {l[j].revision : j \in Records(l)}
           f == [j \in 1..Len(l) |-> IF j \in Records(l) THEN l[j].revision ELSE 0]
<1>1. Len(l) \in Nat /\ DOMAIN l = 1..Len(l)
  BY LogIs DEF LogInv
<1>2. \A j \in Records(l) : l[j].revision \in Nat \ {0}
  BY ContractIs DEF LogInv, RefersBack, IsRecord
<1>3. f \in [1..Len(l) -> Nat]
  BY <1>2
<1>4. PICK b \in Nat : \A j \in 1..Len(l) : f[j] <= b
  <2> HIDE DEF f
  <2>1. QED
    BY <1>1, <1>3, Bounded
<1>5. \A j \in Records(l) : j \in 1..Len(l) /\ f[j] = l[j].revision
  BY <1>1 DEF Records, Of
<1>6. S \in SUBSET (1..b) /\ l[i].revision \in S
  <2>1. \A j \in Records(l) : l[j].revision \in 1..b
    <3>1. ASSUME NEW j \in Records(l) PROVE l[j].revision \in 1..b
      <4>1. l[j].revision <= b
        BY <1>4, <1>5
      <4>2. l[j].revision \in Nat \ {0}
        BY <1>2
      <4>3. QED
        BY <4>1, <4>2
    <3>2. QED
      BY <3>1
  <2>2. QED
    BY <2>1
<1>7. Latest(S) \in 0..b /\ l[i].revision <= Latest(S)
  <2> HIDE DEF S
  <2>1. QED
    BY <1>6, LatestIn
<1>8. MaxRecordedRevision(l) = Latest(S)
  BY DEF MaxRecordedRevision
<1> HIDE DEF S
<1>9. Latest(S) \in Nat
  BY <1>7
<1>10. QED
  BY <1>2, <1>7, <1>8, <1>9

-----------------------------------------------------------------------------
(* TaskCommands: check, approve and step start                             *)

LEMMA ContractTyped ==
  ASSUME TaskTypeOK
  PROVE  contract \in AllContracts
  BY DEF TaskTypeOK, AllContracts

LEMMA RevisionFits ==
  ASSUME TaskInv, RevisionIsNext, NEW b \in Of(ledger, "step-started"),
         ledger[b].revision = contract.revision,
         AuthorizedRecord(ledger, contract.revision) # 0
  PROVE  contract = ledger[AuthorizedRecord(ledger, contract.revision)].contract
<1> DEFINE r == contract.revision
           h == MaxRecordedRevision(ledger)
           a == AuthorizedRecord(ledger, r)
<1>1. LogInv(ledger) /\ contract \in AllContracts
  BY ContractTyped DEF TaskInv
<1>2. PICK j \in OfRevision(ledger, "contract-recorded", r) : TRUE
  BY <1>1 DEF LogInv, RefersBack
<1>3. j \in Records(ledger) /\ ledger[j].revision = r
  BY <1>2 DEF OfRevision, Records
<1>4. h \in Nat /\ r <= h /\ r \in Nat \ {0}
  BY <1>1, <1>3, MaxRecorded
<1>5. /\ r = h
      /\ ~(StartedIn(h) /\ ChangedSince(AuthorizedRecord(ledger, h)))
  <2>1. ~(h = 0) /\ ~(r = h + 1)
    BY <1>4
  <2>2. QED
    BY <2>1 DEF RevisionIsNext
<1>6. StartedIn(r)
  BY DEF StartedIn, OfRevision
<1>7. ~ChangedSince(a)
  BY <1>5, <1>6
<1>8. SameContent(ledger[a].contract, contract)
  BY <1>7 DEF ChangedSince
<1>9. a \in OfRevision(ledger, "contract-recorded", r)
  BY <1>1, AuthorizedIs DEF LogInv
<1>10. IsRecord(ledger[a]) /\ ledger[a].revision = r
  BY <1>1, <1>9 DEF LogInv, RefersBack, OfRevision, Records
<1>11. QED
  BY <1>1, <1>8, <1>10, SameIfContent DEF IsRecord

\* The last event of a step that counts.
LEMMA DecisiveIs ==
  ASSUME NEW l, LogInv(l), NEW r \in Nat \ {0}, NEW s, Decisive(l, r, s) # 0
  PROVE  LET reached == {q \in 1..r : /\ OwnEvents(l, q, s) # {}
                                     /\ \A p \in q..(r - 1) :
                                          SameStepIn(l, RecordFor(l, p + 1), AuthorizedRecord(l, p), s)}
             from == Latest(reached)
             i == Decisive(l, r, s)
         IN /\ i \in OwnEvents(l, from, s)
            /\ \A j \in OwnEvents(l, from, s) : j <= i
            /\ from = r \/ StatusAfter(l, i) \in Terminal
            /\ from \in 0..r /\ (from # 0 => from \in reached)
<1> DEFINE reached == {q \in 1..r : /\ OwnEvents(l, q, s) # {}
                                   /\ \A p \in q..(r - 1) :
                                        SameStepIn(l, RecordFor(l, p + 1), AuthorizedRecord(l, p), s)}
           from == Latest(reached)
           own == OwnEvents(l, from, s)
           last == Latest(own)
           i == Decisive(l, r, s)
<1>1. Len(l) \in Nat /\ DOMAIN l = 1..Len(l)
  BY LogIs DEF LogInv
<1>2. i = IF from = r \/ StatusAfter(l, last) \in Terminal THEN last ELSE 0
  BY DEF Decisive
<1>3. i = last /\ (from = r \/ StatusAfter(l, i) \in Terminal) /\ last # 0
  BY <1>2
<1>4. reached \in SUBSET (1..r)
  OBVIOUS
<1>5. from \in 0..r /\ (from # 0 => from \in reached)
  <2> HIDE DEF reached
  <2>1. QED
    BY <1>4, LatestIn
<1> HIDE DEF reached, from, i
<1>6. own \in SUBSET (1..Len(l))
  BY <1>1 DEF OwnEvents
<1>7. own # {} /\ last \in own /\ \A j \in own : j <= last
  <2> HIDE DEF own
  <2>1. QED
    BY <1>1, <1>3, <1>6, LatestIn
<1>8. QED
  BY <1>3, <1>5, <1>7 DEF reached, from, i

LEMMA GrownByOne ==
  ASSUME NEW l, IsLog(l), Len(l) > 0, NEW b, IsLog(b), Len(b) = 1
  PROVE  LET m == l \o b
         IN /\ Grown(l, m) /\ New(l, m) = {Len(l) + 1} /\ Len(m) = Len(l) + 1
            /\ m[Len(l) + 1] = b[1]
<1>1. Len(l) \in Nat
  BY LogIs
<1>2. /\ Grown(l, l \o b) /\ New(l, l \o b) = {Len(l) + i : i \in 1..1}
      /\ \A i \in 1..1 : (l \o b)[Len(l) + i] = b[i]
  <2>1. /\ Grown(l, l \o b) /\ New(l, l \o b) = {Len(l) + i : i \in 1..Len(b)}
        /\ \A i \in 1..Len(b) : (l \o b)[Len(l) + i] = b[i]
    BY Zenon, GrownBy
  <2>2. QED
    BY Zenon, <2>1
<1>3. Len(l \o b) = Len(l) + 1
  <2>1. Len(l \o b) = Len(l) + Len(b)
    BY Zenon, ConcatIsLog
  <2>2. QED
    BY Zenon, <2>1
<1>4. 1..1 = {1}
  OBVIOUS
<1>5. QED
  BY <1>1, <1>2, <1>3, <1>4

LEMMA GrownOne ==
  ASSUME NEW l, IsLog(l), Len(l) > 0, NEW e, NEW m, m = l \o <<e>>
  PROVE  /\ Grown(l, m) /\ New(l, m) = {Len(l) + 1} /\ Len(m) = Len(l) + 1
         /\ m[Len(l) + 1] = e /\ m[Len(m)] = e /\ Len(m) > Len(l)
<1> DEFINE b == <<e>>
<1>1. IsLog(b) /\ Len(b) = 1 /\ b[1] = e
  BY OneIsLog
<1>2. Len(l) \in Nat
  BY LogIs
<1>3. m = l \o b
  OBVIOUS
<1> HIDE DEF b
<1>4. /\ Grown(l, m) /\ New(l, m) = {Len(l) + 1} /\ Len(m) = Len(l) + 1
      /\ m[Len(l) + 1] = e
  BY <1>1, <1>3, GrownByOne
<1>5. QED
  BY <1>2, <1>4

\* A batch of events that are of one kind.
LEMMA GrownSeq ==
  ASSUME NEW l, IsLog(l), Len(l) > 0, NEW S, NEW b \in Seq(S), Len(b) > 0, NEW m, m = l \o b
  PROVE  /\ Grown(l, m) /\ Len(m) > Len(l) /\ m[Len(m)] \in S
         /\ \A i \in New(l, m) : m[i] \in S
         /\ m[Len(l) + 1] = b[1] /\ Len(l) + 1 \in New(l, m)
         /\ m[Len(m)] = b[Len(b)] /\ Len(m) \in New(l, m)
<1>1. IsLog(b) /\ Len(b) \in Nat /\ \A i \in 1..Len(b) : b[i] \in S
  BY LogOf, SeqIs
<1>2. Len(l) \in Nat
  BY LogIs
<1>3. /\ Grown(l, m) /\ New(l, m) = {Len(l) + i : i \in 1..Len(b)}
      /\ \A i \in 1..Len(b) : m[Len(l) + i] = b[i]
  BY <1>1, GrownBy
<1>4. Len(m) = Len(l) + Len(b)
  BY <1>1, ConcatIsLog
<1>5. 1 \in 1..Len(b) /\ Len(b) \in 1..Len(b)
  BY <1>1
<1>6. m[Len(m)] = b[Len(b)] /\ Len(m) \in New(l, m) /\ Len(l) + 1 \in New(l, m) /\ m[Len(l) + 1] = b[1]
  BY <1>3, <1>4, <1>5
<1>7. \A i \in New(l, m) : m[i] \in S
  BY <1>1, <1>3
<1>8. QED
  BY <1>1, <1>2, <1>3, <1>4, <1>6, <1>7

\* The ledger has the batch, or is as it was.
LEMMA Appends ==
  ASSUME TaskInv, NEW batch, AppendBatch(batch),
         ledger' = ledger \o batch => LogInv(ledger')
  PROVE  TaskInv'
<1>1. UNCHANGED files
  BY DEF AppendBatch
<1>2. LogInv(ledger')
  BY DEF AppendBatch, TaskInv
<1>3. torn' \in BOOLEAN /\ claim' \in {"free", "died"} /\ crashes' \in 0..story.crashes
  <2>1. CASE UNCHANGED <<claim, crashes>>
    BY <2>1 DEF AppendBatch, TaskInv, TaskTypeOK, Dies
  <2>2. CASE Dies
    <3>1. story.crashes \in Nat
      BY TaskConstants DEF TaskInv, TaskTypeOK
    <3>2. crashes' \in 0..story.crashes /\ claim' = "died"
      BY <2>2, <3>1 DEF Dies, TaskInv, TaskTypeOK
    <3>3. QED
      BY <3>2 DEF AppendBatch
  <2>3. QED
    BY <2>1, <2>2 DEF AppendBatch
<1>4. TaskTypeOK'
  BY <1>1, <1>3 DEF files, TaskInv, TaskTypeOK, Contracts
<1>5. QED
  BY <1>2, <1>4 DEF TaskInv

LEMMA LedgerIs ==
  ASSUME TaskInv
  PROVE  /\ LogInv(ledger) /\ IsLog(ledger) /\ Len(ledger) > 0
         /\ Len(ledger) \in Nat /\ DOMAIN ledger = 1..Len(ledger)
         /\ contract \in AllContracts
  BY LogIs, ContractTyped DEF TaskInv, LogInv

\* Events that are not there start nothing.
LEMMA NothingStarts ==
  ASSUME TaskInv,
         \/ ledger' = ledger
         \/ Grown(ledger, ledger') /\ NoNew(ledger, ledger', "step-started")
  PROVE  \A i \in NewEvents : StartIsApproved(i)
<1>1. CASE ledger' = ledger
  BY <1>1, LedgerIs DEF NewEvents
<1>2. CASE Grown(ledger, ledger') /\ NoNew(ledger, ledger', "step-started")
  <2>1. Len(ledger) \in Nat /\ DOMAIN ledger' = 1..Len(ledger') /\ Len(ledger') \in Nat
    BY <1>2, GrownIs
  <2>2. NewEvents = New(ledger, ledger')
    BY <2>1 DEF NewEvents, New
  <2>3. QED
    BY <1>2, <2>2 DEF NoNew, StartIsApproved
<1>3. QED
  BY <1>1, <1>2

\* Commands that append one event, which starts nothing and is no gate.
LEMMA OneEvent ==
  ASSUME TaskInv, NEW e, AppendBatch(<<e>>), e.type # "gate-prepared", e.type # "step-started",
         NEW m, m = ledger \o <<e>>, LogInv(m)
  PROVE  TaskInv' /\ \A i \in NewEvents : StartIsApproved(i)
<1>1. TaskInv'
  <2>1. ledger' = ledger \o <<e>> => LogInv(ledger')
    OBVIOUS
  <2>2. QED
    BY <2>1, Appends
<1>2. CASE ledger' = ledger
  <2>1. \A i \in NewEvents : StartIsApproved(i)
    BY <1>2, NothingStarts
  <2>2. QED
    BY <1>1, <2>1
<1>3. CASE ledger' = ledger \o <<e>>
  <2>1. /\ Grown(ledger, ledger') /\ New(ledger, ledger') = {Len(ledger) + 1}
        /\ ledger'[Len(ledger) + 1] = e
    BY <1>3, LedgerIs, GrownOne
  <2>2. NoNew(ledger, ledger', "step-started")
    BY <2>1 DEF NoNew
  <2>3. QED
    BY <1>1, <2>1, <2>2, NothingStarts
<1>4. QED
  BY <1>2, <1>3 DEF AppendBatch

\* Types of events that say nothing of records, approvals, starts and ends of steps.
Silent == {"task-cancelled", "step-skipped", "step-revalidated", "acceptance-recorded",
           "recovery-opened", "recovery-resolved", "repair"}

LEMMA SilentEvent ==
  ASSUME NEW l, LogInv(l), NEW e, e.type \in Silent,
         e.type = "recovery-resolved" => e.opened \in Of(l, "recovery-opened"),
         NEW m, m = l \o <<e>>
  PROVE  Grown(l, m) /\ NoNew(l, m, "step-started") /\ LogInv(m)
<1>1. /\ Grown(l, m) /\ New(l, m) = {Len(l) + 1} /\ Len(m) > Len(l)
      /\ m[Len(l) + 1] = e /\ m[Len(m)] = e
  BY GrownOne DEF LogInv
<1>2. Closes(l, m)
  BY <1>1 DEF Closes, Silent
<1>3. /\ NoNew(l, m, "contract-recorded") /\ NoNew(l, m, "step-started")
      /\ NoNew(l, m, "execution-authorized") /\ NoNew(l, m, "step-finished")
  BY <1>1 DEF NoNew, Silent
<1>4. NewRefers(l, m)
  BY <1>1 DEF NewRefers, Silent, ApprovalTypes
<1>5. QED
  BY <1>1, <1>2, <1>3, <1>4, QuietKeeps

LEMMA SilentStep ==
  ASSUME TaskInv, NEW e, AppendBatch(<<e>>), e.type \in Silent,
         e.type = "recovery-resolved" => e.opened \in Of(ledger, "recovery-opened")
  PROVE  TaskInv' /\ \A i \in NewEvents : StartIsApproved(i)
<1> DEFINE m == ledger \o <<e>>
<1>1. LogInv(m)
  BY LedgerIs, SilentEvent
<1>2. e.type # "gate-prepared" /\ e.type # "step-started"
  BY DEF Silent
<1> HIDE DEF m
<1>3. m = ledger \o <<e>>
  BY DEF m
<1>4. QED
  BY <1>1, <1>2, <1>3, OneEvent

\* check
LEMMA PreparedLog ==
  ASSUME NEW l, LogInv(l), NEW c \in AllContracts, NEW e, NEW f, NEW m, m = l \o <<e, f>>,
         e.type = "contract-recorded", e.contract = c, e.revision = c.revision,
         f.type = "gate-prepared", f.record = Len(l) + 1,
         \A b \in Of(l, "step-started") :
            /\ l[b].revision = c.revision /\ AuthorizedRecord(l, c.revision) # 0
            => c = l[AuthorizedRecord(l, c.revision)].contract,
         f.gate = "action" => Shown(l, c) /\ ~InRecovery(l) /\ ~Owed(l, c, f.action.step)
  PROVE  Grown(l, m) /\ NoNew(l, m, "step-started") /\ LogInv(m)
<1> DEFINE n == Len(l) + 1
<1>1. IsLog(l) /\ Len(l) > 0 /\ Len(l) \in Nat
  BY LogIs DEF LogInv
<1>2. Grown(l, m) /\ Len(m) = Len(l) + 2 /\ m[n] = e /\ m[Len(l) + 2] = f
  <2> DEFINE b == <<e, f>>
  <2>1. IsLog(b)
    BY TwoIsLog
  <2>2. Len(b) = 2 /\ b[1] = e /\ b[2] = f
    BY TwoIsLog
  <2>3. m = l \o b
    OBVIOUS
  <2> HIDE DEF b
  <2>4. Grown(l, m)
    BY <1>1, <2>1, <2>3, GrownBy
  <2>5. \A i \in 1..Len(b) : m[Len(l) + i] = b[i]
    BY <1>1, <2>1, <2>3, GrownBy
  <2>6. Len(m) = Len(l) + Len(b)
    BY <1>1, <2>1, <2>3, ConcatIsLog
  <2>7. QED
    BY <2>2, <2>4, <2>5, <2>6
<1>3. Len(m) = n + 1 /\ m[n + 1] = f
  BY <1>1, <1>2
<1>4. New(l, m) = {n, n + 1}
  BY <1>1, <1>3 DEF New
<1>5. NoNew(l, m, "step-started")
  BY <1>2, <1>3, <1>4 DEF NoNew
<1>6. n = Len(l) + 1
  OBVIOUS
<1> HIDE DEF n
<1>7. LogInv(m)
  <2>1. /\ m[n].type = "contract-recorded" /\ m[n].contract = c /\ m[n].revision = c.revision
        /\ m[n + 1].type = "gate-prepared" /\ m[n + 1].record = n
    BY <1>2, <1>3, <1>6
  <2>2. m[n + 1].gate = "action" =>
            Shown(l, c) /\ ~InRecovery(l) /\ ~Owed(l, c, m[n + 1].action.step)
    BY <1>3
  <2>3. Grown(l, m) /\ Len(m) = n + 1
    BY <1>2, <1>3
  <2>4. QED
    BY <1>6, <2>1, <2>2, <2>3, PrepareKeeps
<1>8. QED
  BY <1>2, <1>5, <1>7

LEMMA PrepareStep ==
  ASSUME TaskInv, NEW gate, NEW action, RevisionIsNext, Prepare(gate, action),
         gate = "action" =>
           /\ Shown(ledger, contract) /\ ~InRecovery(ledger)
           /\ ~Owed(ledger, contract, action.step)
  PROVE  TaskInv' /\ \A i \in NewEvents : StartIsApproved(i)
<1> DEFINE e == [type |-> "contract-recorded", revision |-> contract.revision, contract |-> contract]
           f == [type |-> "gate-prepared", gate |-> gate, record |-> Len(ledger) + 1, action |-> action]
           m == ledger \o <<e, f>>
<1>1. AppendBatch(<<e, f>>)
  BY DEF Prepare
<1>2. /\ e.type = "contract-recorded" /\ e.contract = contract /\ e.revision = contract.revision
      /\ f.type = "gate-prepared" /\ f.record = Len(ledger) + 1 /\ f.gate = gate /\ f.action = action
  OBVIOUS
<1> HIDE DEF e, f
<1>3. \A b \in Of(ledger, "step-started") :
            /\ ledger[b].revision = contract.revision /\ AuthorizedRecord(ledger, contract.revision) # 0
            => contract = ledger[AuthorizedRecord(ledger, contract.revision)].contract
  BY RevisionFits
<1>4. m = ledger \o <<e, f>>
  OBVIOUS
<1> HIDE DEF m
<1>5. Grown(ledger, m) /\ NoNew(ledger, m, "step-started") /\ LogInv(m)
  BY <1>2, <1>3, <1>4, LedgerIs, PreparedLog
<1>6. TaskInv'
  BY <1>1, <1>4, <1>5, Appends
<1>7. ledger' = ledger \/ ledger' = m
  BY <1>1, <1>4 DEF AppendBatch
<1>8. \A i \in NewEvents : StartIsApproved(i)
  BY <1>5, <1>7, NothingStarts
<1>9. QED
  BY <1>6, <1>8

LEMMA CheckCompactStep == ASSUME TaskInv, CheckCompact PROVE TaskInv' /\ \A i \in NewEvents : StartIsApproved(i)
  BY PrepareStep DEF CheckCompact, MayCheckCompact, MayCheck

LEMMA CheckTermsStep == ASSUME TaskInv, CheckTerms PROVE TaskInv' /\ \A i \in NewEvents : StartIsApproved(i)
  BY PrepareStep DEF CheckTerms, MayCheckTerms, MayCheck

LEMMA CheckExecutionStep == ASSUME TaskInv, CheckExecution PROVE TaskInv' /\ \A i \in NewEvents : StartIsApproved(i)
  BY PrepareStep DEF CheckExecution, MayCheckExecution, MayCheck

LEMMA CheckActionStep ==
  ASSUME TaskInv, NEW s, NEW binding, CheckAction(s, binding)
  PROVE  TaskInv' /\ \A i \in NewEvents : StartIsApproved(i)
<1> DEFINE a == ActionOf(s, NextAttempt(s), binding)
<1>1. a.step = s
  BY DEF ActionOf
<1>2. /\ RevisionIsNext /\ ~InRecovery(ledger) /\ ExecutionAuthorized(ledger, contract)
      /\ ~Owed(ledger, contract, s) /\ Prepare("action", a)
  BY DEF CheckAction, MayCheckAction, MayCheck
<1> HIDE DEF a
<1>3. Shown(ledger, contract)
  BY <1>2, LedgerIs, AuthorizedIsShown
<1>4. QED
  BY <1>1, <1>2, <1>3, PrepareStep

\* approve
LEMMA MaybeOne ==
  ASSUME NEW S, NEW x \in S, NEW P
  PROVE  LET b == IF P THEN <<x>> ELSE <<>>
         IN b \in Seq(S) /\ Len(b) = (IF P THEN 1 ELSE 0) /\ Len(b) \in {0, 1}
<1>1. CASE P
  BY <1>1, SingleIs
<1>2. CASE ~P
  BY <1>2
<1>3. QED
  BY <1>1, <1>2

LEMMA OpenGate ==
  ASSUME TaskInv, GateIsOpen
  PROVE  /\ GateIsHead(ledger) /\ ledger[Len(ledger) - 1].contract = contract
         /\ LatestRecord(ledger, contract.revision) = Len(ledger) - 1 /\ Len(ledger) - 1 # 0
         /\ OfRevision(ledger, "contract-recorded", contract.revision) # {}
<1>1. GateIsHead(ledger) /\ ledger[ledger[Len(ledger)].record].contract = contract
  BY DEF GateIsOpen, GateMatches
<1>2. QED
  BY <1>1, LedgerIs, HeadIs

LEMMA ApproveStep ==
  ASSUME TaskInv, GateIsOpen, NEW b \in Seq({Approval(t) : t \in ApprovalTypes}), Len(b) > 0,
         AppendBatch(b)
  PROVE  TaskInv' /\ \A i \in NewEvents : StartIsApproved(i)
<1> DEFINE S == {Approval(t) : t \in ApprovalTypes}
           m == ledger \o b
<1>1. \A e \in S : /\ e.type \in ApprovalTypes /\ e.prepared = Len(ledger)
                   /\ Covers(e, contract)
  BY DEF Approval, Covers
<1>2. m = ledger \o b /\ b \in Seq(S)
  OBVIOUS
<1> HIDE DEF S, m
<1>3. /\ Grown(ledger, m) /\ Len(m) > Len(ledger) /\ m[Len(m)] \in S
      /\ \A i \in New(ledger, m) : m[i] \in S
  BY <1>2, LedgerIs, GrownSeq
<1>4. Closes(ledger, m)
  BY <1>1, <1>3 DEF Closes, ApprovalTypes
<1>5. NoNew(ledger, m, "step-started")
  BY <1>1, <1>3 DEF NoNew, ApprovalTypes
<1>6. \A i \in New(ledger, m) : /\ m[i].type \in ApprovalTypes /\ m[i].prepared = Len(ledger)
                                /\ Covers(m[i], ledger[Len(ledger) - 1].contract)
  BY <1>1, <1>3, OpenGate
<1>7. LogInv(m)
  BY <1>3, <1>4, <1>6, LedgerIs, OpenGate, ApproveKeeps
<1>8. TaskInv'
  BY <1>2, <1>7, Appends
<1>9. ledger' = ledger \/ ledger' = m
  BY <1>2 DEF AppendBatch
<1>10. \A i \in NewEvents : StartIsApproved(i)
  BY <1>3, <1>5, <1>9, NothingStarts
<1>11. QED
  BY <1>8, <1>10

LEMMA ApproveTermsStep == ASSUME TaskInv, ApproveTerms PROVE TaskInv' /\ \A i \in NewEvents : StartIsApproved(i)
<1> DEFINE S == {Approval(t) : t \in ApprovalTypes}
           e == Approval("terms-approved")
<1>1. e \in S
  BY DEF ApprovalTypes
<1>2. AppendBatch(<<e>>) /\ GateIsOpen
  BY DEF ApproveTerms
<1> HIDE DEF e
<1>3. <<e>> \in Seq(S) /\ Len(<<e>>) = 1
  <2> HIDE DEF S
  <2>1. QED
    BY <1>1, SingleIs
<1> DEFINE b == <<e>>
<1> HIDE DEF b, S
<1>4. b \in Seq(S) /\ Len(b) > 0 /\ AppendBatch(b)
  BY <1>2, <1>3 DEF b
<1>5. QED
  BY <1>2, <1>4, ApproveStep DEF S

LEMMA ApproveCompactStep ==
  ASSUME TaskInv, NEW execute \in BOOLEAN, ApproveCompact(execute)
  PROVE  TaskInv' /\ \A i \in NewEvents : StartIsApproved(i)
<1> DEFINE S == {Approval(t) : t \in ApprovalTypes}
           e == Approval("terms-approved")
           f == Approval("plan-approved")
           g == Approval("execution-authorized")
           one == <<e, f>>
           two == IF execute THEN <<g>> ELSE <<>>
<1>1. e \in S /\ f \in S /\ g \in S
  BY DEF ApprovalTypes
<1>2. AppendBatch(one \o two) /\ GateIsOpen
  BY DEF ApproveCompact
<1> HIDE DEF S, e, f, g
<1>3. two \in Seq(S) /\ Len(two) \in {0, 1}
  BY <1>1, MaybeOne
<1>4. one \in Seq(S) /\ Len(one) = 2
  BY <1>1
<1> HIDE DEF one, two
<1>5. one \o two \in Seq(S) /\ Len(one \o two) = Len(one) + Len(two)
  BY <1>3, <1>4, ConcatIs
<1>6. Len(one \o two) > 0
  BY <1>3, <1>4, <1>5
<1>7. QED
  BY <1>2, <1>5, <1>6, ApproveStep DEF S

LEMMA ApproveExecutionStep ==
  ASSUME TaskInv, NEW execute \in BOOLEAN, ApproveExecution(execute)
  PROVE  TaskInv' /\ \A i \in NewEvents : StartIsApproved(i)
<1> DEFINE S == {Approval(t) : t \in ApprovalTypes}
           planned == PlanApproved(ledger, contract)
           f == Approval("plan-approved")
           g == Approval("execution-authorized")
           one == IF ~planned THEN <<f>> ELSE <<>>
           two == IF execute THEN <<g>> ELSE <<>>
<1>1. f \in S /\ g \in S
  BY DEF ApprovalTypes
<1>2. AppendBatch(one \o two) /\ GateIsOpen /\ (execute \/ ~planned)
  <2>1. (IF planned THEN <<>> ELSE <<f>>) = one
    OBVIOUS
  <2>2. QED
    BY <2>1 DEF ApproveExecution
<1> HIDE DEF S, f, g
<1>3. two \in Seq(S) /\ Len(two) = (IF execute THEN 1 ELSE 0)
  BY <1>1, MaybeOne
<1>4. one \in Seq(S) /\ Len(one) = (IF ~planned THEN 1 ELSE 0)
  <2> HIDE DEF planned
  <2>1. QED
    BY <1>1, MaybeOne
<1> HIDE DEF one, two, planned
<1>5. one \o two \in Seq(S) /\ Len(one \o two) = Len(one) + Len(two)
  BY <1>3, <1>4, ConcatIs
<1>6. Len(one \o two) > 0
  BY <1>2, <1>3, <1>4, <1>5
<1>7. QED
  BY <1>2, <1>5, <1>6, ApproveStep DEF S

\* step start, step fallback and the approval of an action
LEMMA StartStep ==
  ASSUME TaskInv, NEW s, NEW attempt, NEW binding, NEW S,
         \A e \in S : \/ e.type \in {"action-approved", "fallback-invoked"}
                     \/ e = Started(s, attempt, binding),
         NEW b, b \in Seq(S), Len(b) > 0,
         AppendBatch(b),
         OfRevision(ledger, "contract-recorded", contract.revision) # {},
         LET r == contract.revision
         IN TakenBackIn(ledger) \/
              /\ AuthorizedRecord(ledger, r) # 0
              /\ ledger[LatestRecord(ledger, r)].contract = ledger[AuthorizedRecord(ledger, r)].contract,
         binding = "primary" =>
           /\ ledger[LatestRecord(ledger, contract.revision)].contract = contract
           /\ ~Owed(ledger, contract, s)
  PROVE  /\ TaskInv'
         /\ \A i \in NewEvents : ledger'[i].type = "step-started" => ledger'[i] = Started(s, attempt, binding)
         /\ \A i \in NewEvents : Len(ledger) + 1 \in NewEvents /\ ledger'[Len(ledger) + 1] = b[1]
         /\ \A i \in NewEvents : i \in Nat /\ i >= Len(ledger) + 1
<1> DEFINE m == ledger \o b
           r == contract.revision
           started == Started(s, attempt, binding)
<1>1. /\ started.type = "step-started" /\ started.revision = r /\ started.step = s
      /\ started.binding = binding
  BY DEF Started
<1>2. /\ m = ledger \o b
      /\ \A e \in S : e.type \in {"action-approved", "fallback-invoked"} \/ e = started
  OBVIOUS
<1> HIDE DEF m, started
<1>3. /\ Grown(ledger, m) /\ Len(m) > Len(ledger)
      /\ \A i \in New(ledger, m) : m[i] \in S
      /\ m[Len(ledger) + 1] = b[1] /\ Len(ledger) + 1 \in New(ledger, m)
      /\ m[Len(m)] \in S
  <2>1. IsLog(ledger) /\ Len(ledger) > 0
    BY LedgerIs
  <2>2. b \in Seq(S) /\ Len(b) > 0
    OBVIOUS
  <2>3. Grown(ledger, m) 
    BY <1>2, <2>1, <2>2, GrownSeq
  <2>4. Len(m) > Len(ledger)
    BY <1>2, <2>1, <2>2, GrownSeq
  <2>5. \A i \in New(ledger, m) : m[i] \in S
    BY <1>2, <2>1, <2>2, GrownSeq
  <2>6. m[Len(ledger) + 1] = b[1] /\ Len(ledger) + 1 \in New(ledger, m)
    <3>1. m[Len(ledger) + 1] = b[1]
      BY <1>2, <2>1, <2>2, GrownSeq
    <3>2. Len(ledger) + 1 \in New(ledger, m)
      BY <1>2, <2>1, <2>2, GrownSeq
    <3>3. QED
      BY <3>1, <3>2
  <2>7. m[Len(m)] \in S
    BY <1>2, <2>1, <2>2, GrownSeq
  <2>8. QED
    BY <2>3, <2>4, <2>5, <2>6, <2>7
<1>4. Closes(ledger, m)
  BY <1>1, <1>2, <1>3 DEF Closes
<1>5. ASSUME binding = "primary", NEW k \in Of(ledger, "recovery-resolved"),
             ledger[k].reconciliation = "occurred",
             StepOf(ledger[LatestRecord(ledger, r)].contract, s).output \in ledger[ledger[k].opened].outputs
      PROVE  \E j \in Of(ledger, "step-revalidated") :
                k < j /\ ledger[j].step = s /\ ledger[j].basis = "recovery-occurred"
  <2> DEFINE output == StepOf(contract, s).output
             owed == <<k, output>>
  <2>1. output \in ledger[ledger[k].opened].outputs
    BY <1>5
  <2>2. ledger[k].opened \in Of(ledger, "recovery-opened")
    BY LedgerIs DEF LogInv, RefersBack
  <2> HIDE DEF output
  <2>3. owed[1] = k /\ owed[2] = output
    OBVIOUS
  <2>4. owed \in Of(ledger, "recovery-resolved")
                 \X UNION {ledger[i].outputs : i \in Of(ledger, "recovery-opened")}
    BY <2>1, <2>2
  <2> HIDE DEF owed
  <2>5. owed \notin Obligations(ledger, s)
    BY <1>5, <2>3 DEF Owed, output
  <2>6. PICK j \in Of(ledger, "step-revalidated") :
               j > k /\ ledger[j].basis = "recovery-occurred" /\ ledger[j].step = s
    BY <1>5, <2>1, <2>3, <2>4, <2>5 DEF Obligations
  <2>7. j \in Nat /\ k \in Nat
    BY LedgerIs DEF Of
  <2>8. QED
    BY <2>6, <2>7
<1>6. \A i \in New(ledger, m) :
           /\ m[i].type \in {"action-approved", "fallback-invoked", "step-started"}
           /\ m[i].type = "step-started" => m[i] = started
  BY <1>1, <1>2, <1>3
<1>7. LogInv(m)
  <2>1. \A i \in New(ledger, m) :
           /\ m[i].type \in {"action-approved", "fallback-invoked", "step-started"}
           /\ m[i].type = "step-started" =>
                /\ m[i].revision = r
                /\ m[i].binding = "primary" =>
                     \A k \in Of(ledger, "recovery-resolved") :
                       /\ ledger[k].reconciliation = "occurred"
                       /\ StepOf(ledger[LatestRecord(ledger, r)].contract, m[i].step).output
                            \in ledger[ledger[k].opened].outputs
                       => \E j \in Of(ledger, "step-revalidated") :
                            k < j /\ ledger[j].step = m[i].step /\ ledger[j].basis = "recovery-occurred"
    BY <1>1, <1>5, <1>6
  <2>2. QED
    BY <1>3, <1>4, <2>1, LedgerIs, StartKeeps
<1>8. TaskInv'
  BY <1>2, <1>7, Appends
<1>9. ledger' = ledger \/ ledger' = m
  BY <1>2 DEF AppendBatch
<1>10. CASE ledger' = ledger
  <2>1. NewEvents = {}
    BY <1>10, LedgerIs DEF NewEvents
  <2>2. QED
    BY <1>8, <2>1
<1>11. CASE ledger' = m
  <2>1. Len(ledger) \in Nat /\ DOMAIN m = 1..Len(m) /\ Len(m) \in Nat
    BY <1>3, GrownIs
  <2>2. NewEvents = New(ledger, m)
    BY <1>11, <2>1 DEF NewEvents, New
  <2>3. \A i \in New(ledger, m) : i \in Nat /\ i >= Len(ledger) + 1
    BY <2>1 DEF New
  <2>4. QED
    BY <1>3, <1>6, <1>8, <1>11, <2>2, <2>3 DEF started
<1>12. QED
  BY <1>9, <1>10, <1>11

\* A current step: its contract is recorded, shown and authorized.
LEMMA CurrentIs ==
  ASSUME TaskInv, NEW s, IsCurrent(ledger, contract, s)
  PROVE  /\ ~InRecovery(ledger) /\ Shown(ledger, contract)
         /\ LatestRecord(ledger, contract.revision) # 0
         /\ ledger[LatestRecord(ledger, contract.revision)].contract = contract
<1>1. Executing(ledger, contract)
  BY DEF IsCurrent
<1>2. /\ ~GateMatches(ledger, contract) /\ ~InRecovery(ledger)
      /\ ~ContentDiffers(ledger, contract) /\ ExecutionAuthorized(ledger, contract)
  BY <1>1 DEF Executing, Drafting
<1>3. Shown(ledger, contract) /\ HasApprovals(ledger)
  BY <1>2, LedgerIs, AuthorizedIsShown
<1>4. RecordMatches(ledger, contract)
  BY <1>2, <1>3 DEF ContentDiffers
<1>5. QED
  BY <1>2, <1>3, <1>4 DEF RecordMatches

LEMMA ShownIs == ASSUME Shown(ledger, contract) PROVE ShownAndAuthorized
  BY DEF Shown, ShownAndAuthorized

LEMMA LatestRecordIs ==
  ASSUME NEW l, LogInv(l), NEW r
  PROVE  LatestRecord(l, r) # 0 <=> OfRevision(l, "contract-recorded", r) # {}
<1> DEFINE S == OfRevision(l, "contract-recorded", r)
<1>1. Len(l) \in Nat /\ DOMAIN l = 1..Len(l)
  BY LogIs DEF LogInv
<1>2. S \in SUBSET (1..Len(l))
  BY <1>1 DEF OfRevision, Of
<1> HIDE DEF S
<1>3. Latest(S) = 0 <=> S = {}
  BY <1>1, <1>2, LatestIn
<1>4. QED
  BY <1>3 DEF LatestRecord, S

LEMMA StepStartStep ==
  ASSUME TaskInv, NEW s, StepStart(s)
  PROVE  TaskInv' /\ \A i \in NewEvents : StartIsApproved(i)
<1> DEFINE attempt == NextAttempt(s)
           e == Started(s, attempt, "primary")
           S == {e}
           b == <<e>>
<1>1. /\ IsCurrent(ledger, contract, s) /\ ~Owed(ledger, contract, s) /\ AppendBatch(b)
      /\ StepOf(contract, s).effect = "none"
  BY DEF StepStart, MayStart
<1>2. \A x \in S : x.type \in {"action-approved", "fallback-invoked"} \/ x = Started(s, attempt, "primary")
  OBVIOUS
<1>3. b \in Seq(S) /\ Len(b) > 0
  <2>1. e \in S
    OBVIOUS
  <2> HIDE DEF S, e
  <2>2. b \in Seq(S) /\ Len(b) = 1
    BY <2>1, SingleIs
  <2>3. QED
    BY <2>2
<1>4. /\ ~InRecovery(ledger) /\ ShownAndAuthorized
      /\ ledger[LatestRecord(ledger, contract.revision)].contract = contract
      /\ OfRevision(ledger, "contract-recorded", contract.revision) # {}
  BY <1>1, CurrentIs, ShownIs, LedgerIs, LatestRecordIs
<1>5. TakenBackIn(ledger) \/
        /\ AuthorizedRecord(ledger, contract.revision) # 0
        /\ ledger[LatestRecord(ledger, contract.revision)].contract
             = ledger[AuthorizedRecord(ledger, contract.revision)].contract
  BY <1>1, CurrentIs, LedgerIs, ShownIsAuthorized
<1> HIDE DEF S, e, b, attempt
<1>6. TaskInv' /\ \A i \in NewEvents : ledger'[i].type = "step-started" => ledger'[i] = Started(s, attempt, "primary")
  BY <1>1, <1>2, <1>3, <1>4, <1>5, StartStep
<1>7. Started(s, attempt, "primary").step = s
  BY DEF Started
<1>8. QED
  BY <1>1, <1>4, <1>6, <1>7 DEF StartIsApproved

LEMMA ApproveActionStep ==
  ASSUME TaskInv, ApproveAction
  PROVE  TaskInv' /\ \A i \in NewEvents : StartIsApproved(i)
<1> DEFINE a == HeadGate.action
           approved == [type |-> "action-approved", action |-> a]
           invoked == Invoked(a.step, a.attempt)
           started == Started(a.step, a.attempt, a.binding)
           S == {approved, invoked, started}
           one == <<approved>>
           two == IF a.binding = "fallback" THEN <<invoked>> ELSE <<>>
           three == <<started>>
           b == one \o two \o three
<1>1. /\ GateIsOpen /\ HeadGate.gate = "action" /\ AppendBatch(b)
      /\ ActionOf(a.step, a.attempt, a.binding) = a
  BY DEF ApproveAction
<1>2. /\ approved.type = "action-approved" /\ approved.action = a
      /\ invoked.type = "fallback-invoked"
      /\ started.type = "step-started" /\ started.step = a.step /\ started.attempt = a.attempt
      /\ started.binding = a.binding
  BY DEF Invoked, Started
<1>3. /\ started = Started(a.step, a.attempt, a.binding)
      /\ approved \in S /\ invoked \in S /\ started \in S
      /\ \A x \in S : x = approved \/ x = invoked \/ x = started
  OBVIOUS
<1>4. /\ Shown(ledger, contract) /\ ~InRecovery(ledger) /\ ~Owed(ledger, contract, a.step)
  <2>1. GateIsHead(ledger) /\ ledger[Len(ledger) - 1].contract = contract
    BY <1>1, OpenGate
  <2>2. ledger[Len(ledger)].gate = "action" /\ ledger[Len(ledger)].action = a
    BY <1>1 DEF HeadGate
  <2>3. QED
    BY <2>1, <2>2, LedgerIs DEF LogInv, GateStands
<1> HIDE DEF a, approved, invoked, started, S
<1>5. one \in Seq(S) /\ Len(one) = 1 /\ one[1] = approved
  BY <1>3, SingleIs
<1>6. two \in Seq(S) /\ Len(two) \in {0, 1}
  BY <1>3, MaybeOne
<1>7. three \in Seq(S) /\ Len(three) = 1
  BY <1>3, SingleIs
<1> HIDE DEF one, two, three
<1>8. /\ one \o two \in Seq(S) /\ Len(one \o two) = 1 + Len(two)
      /\ (one \o two)[1] = one[1]
  <2>1. /\ one \o two \in Seq(S) /\ Len(one \o two) = Len(one) + Len(two)
        /\ \A i \in 1..Len(one) : (one \o two)[i] = one[i]
    BY <1>5, <1>6, ConcatIs
  <2>2. 1 \in 1..Len(one)
    BY <1>5
  <2>3. QED
    BY <1>5, <2>1, <2>2
<1>9. /\ b \in Seq(S) /\ Len(b) = Len(one \o two) + 1 /\ b[1] = (one \o two)[1]
  <2> DEFINE c == one \o two
  <2>1. c \in Seq(S) /\ Len(c) \in Nat /\ 1 \in 1..Len(c)
    BY <1>6, <1>8
  <2>2. b = c \o three
    OBVIOUS
  <2> HIDE DEF b, c
  <2>3. /\ c \o three \in Seq(S) /\ Len(c \o three) = Len(c) + Len(three)
        /\ \A i \in 1..Len(c) : (c \o three)[i] = c[i]
    BY <1>7, <2>1, ConcatIs
  <2>4. QED
    BY <1>7, <2>1, <2>2, <2>3 DEF c
<1> HIDE DEF b
<1>10. b \in Seq(S) /\ Len(b) > 0 /\ b[1] = approved
  BY <1>5, <1>6, <1>8, <1>9
<1>11. /\ LatestRecord(ledger, contract.revision) # 0
       /\ ledger[LatestRecord(ledger, contract.revision)].contract = contract
       /\ OfRevision(ledger, "contract-recorded", contract.revision) # {}
  BY <1>1, OpenGate
<1>12. TakenBackIn(ledger) \/
         /\ AuthorizedRecord(ledger, contract.revision) # 0
         /\ ledger[LatestRecord(ledger, contract.revision)].contract
              = ledger[AuthorizedRecord(ledger, contract.revision)].contract
  BY <1>4, <1>11, LedgerIs, ShownIsAuthorized
<1>13. \A x \in S : x.type \in {"action-approved", "fallback-invoked"} \/ x = Started(a.step, a.attempt, a.binding)
  BY <1>2, <1>3
<1>14. /\ TaskInv'
       /\ \A i \in NewEvents : ledger'[i].type = "step-started" => ledger'[i] = started
       /\ \A i \in NewEvents : Len(ledger) + 1 \in NewEvents /\ ledger'[Len(ledger) + 1] = b[1]
       /\ \A i \in NewEvents : i \in Nat /\ i >= Len(ledger) + 1
  BY <1>1, <1>3, <1>4, <1>10, <1>11, <1>12, <1>13, StartStep
<1>15. ASSUME NEW i \in NewEvents, ledger'[i].type = "step-started"
       PROVE  StartIsApproved(i)
  <2> DEFINE j == Len(ledger) + 1
  <2>1. ledger'[i] = started /\ j \in NewEvents /\ ledger'[j] = approved /\ i \in Nat /\ i >= j
    BY <1>10, <1>14, <1>15
  <2>2. i # j
    BY <1>2, <2>1
  <2>3. j < i
    BY <2>1, <2>2, LedgerIs
  <2>4. ledger'[j].type = "action-approved"
        /\ ledger'[j].action = ActionOf(started.step, started.attempt, started.binding)
    BY <1>1, <1>2, <2>1
  <2> HIDE DEF j
  <2>5. ShownAndAuthorized /\ ~InRecovery(ledger)
    BY <1>4, ShownIs
  <2>6. QED
    BY <2>1, <2>3, <2>4, <2>5 DEF StartIsApproved
<1>16. QED
  BY <1>14, <1>15 DEF StartIsApproved

\* A step that failed was started, in a revision whose record stays.
LEMMA FailedIs ==
  ASSUME NEW l, LogInv(l), NEW c \in AllContracts, NEW s, Status(l, c, s) = "failed"
  PROVE  /\ OfRevision(l, "contract-recorded", c.revision) # {}
         /\ TakenBackIn(l) \/
              /\ AuthorizedRecord(l, c.revision) # 0
              /\ l[LatestRecord(l, c.revision)].contract = l[AuthorizedRecord(l, c.revision)].contract
<1> DEFINE r == c.revision
           i == Decisive(l, r, s)
           recorded == OfRevision(l, "contract-recorded", r)
           last == LatestRecord(l, r)
<1>1. StatusAfter(l, i) = "failed" /\ r \in Nat \ {0}
  BY ContractIs DEF Status
<1>2. i # 0
  <2> HIDE DEF i
  <2>1. ASSUME i = 0 PROVE StatusAfter(l, i) = "pending"
    BY <2>1 DEF StatusAfter
  <2>2. QED
    BY <1>1, <2>1
<1> HIDE DEF i, r
<1>3. i \in OwnEvents(l, r, s)
  <2> DEFINE reached == {q \in 1..r : /\ OwnEvents(l, q, s) # {}
                                     /\ \A p \in q..(r - 1) :
                                          SameStepIn(l, RecordFor(l, p + 1), AuthorizedRecord(l, p), s)}
             from == Latest(reached)
  <2>1. i \in OwnEvents(l, from, s) /\ (from = r \/ StatusAfter(l, i) \in Terminal)
    BY <1>1, <1>2, DecisiveIs DEF i
  <2> HIDE DEF from
  <2>2. from = r
    BY <1>1, <2>1 DEF Terminal
  <2>3. QED
    BY <2>1, <2>2
<1>4. l[i].type \in StepEvents /\ i \in DOMAIN l /\ l[i].revision = r
  BY <1>3 DEF OwnEvents
<1>5. l[i].type = "step-finished"
  <2>1. ASSUME l[i].type = "step-started" PROVE StatusAfter(l, i) # "failed"
    BY <1>2, <2>1 DEF StatusAfter
  <2>2. ASSUME l[i].type = "step-skipped" PROVE StatusAfter(l, i) # "failed"
    BY <1>2, <2>2 DEF StatusAfter
  <2>3. ASSUME l[i].type = "step-revalidated" PROVE StatusAfter(l, i) # "failed"
    BY <1>2, <2>3 DEF StatusAfter
  <2>4. QED
    BY <1>1, <1>4, <2>1, <2>2, <2>3 DEF StepEvents
<1>6. PICK b \in Attempts(l, r, l[i].step) : TRUE
  BY <1>4, <1>5 DEF LogInv, RefersBack, Of
<1>7. b \in Of(l, "step-started") /\ l[b].revision = r
  BY <1>6 DEF Attempts, OfRevision
<1>8. recorded # {}
  BY <1>7 DEF LogInv, RefersBack
<1>9. CASE TakenBackIn(l)
  BY <1>8, <1>9 DEF r
<1>10. CASE ~TakenBackIn(l)
  <2>1. /\ AuthorizedRecord(l, r) # 0
        /\ \A m \in recorded : (\A j \in recorded : ~(m < j /\ j < b)) =>
              l[m].contract = l[AuthorizedRecord(l, r)].contract
    BY <1>7, <1>10 DEF LogInv, StartedStays
  <2>2. Len(l) \in Nat /\ DOMAIN l = 1..Len(l)
    BY LogIs DEF LogInv
  <2>3. last \in recorded /\ \A j \in recorded : j <= last
    <3>1. recorded \in SUBSET (1..Len(l))
      BY <2>2 DEF OfRevision, Of
    <3>2. QED
      BY <1>8, <2>2, <3>1, LatestIn DEF LatestRecord
  <2>4. \A j \in recorded : ~(last < j /\ j < b)
    <3>1. \A j \in recorded : j \in Nat /\ last \in Nat
      BY <2>2, <2>3 DEF OfRevision, Of
    <3>2. QED
      BY <2>3, <3>1
  <2>5. QED
    BY <1>8, <2>1, <2>3, <2>4 DEF r
<1>11. QED
  BY <1>9, <1>10

LEMMA StepFallbackStep ==
  ASSUME TaskInv, NEW s, StepFallback(s)
  PROVE  TaskInv' /\ \A i \in NewEvents : StartIsApproved(i)
<1> DEFINE attempt == NextAttempt(s)
           e == Invoked(s, attempt)
           f == Started(s, attempt, "fallback")
           S == {e, f}
           b == <<e, f>>
<1>1. /\ Status(ledger, contract, s) = "failed" /\ AppendBatch(b)
      /\ StepOf(contract, s).effect = "none"
  BY DEF StepFallback, MayFallBack
<1>2. \A x \in S : x.type \in {"action-approved", "fallback-invoked"} \/ x = Started(s, attempt, "fallback")
  BY DEF Invoked
<1>3. e \in S /\ f \in S
  OBVIOUS
<1> HIDE DEF S, e, f
<1>4. b \in Seq(S) /\ Len(b) = 2
  BY <1>3
<1>5. b \in Seq(S) /\ Len(b) > 0
  BY <1>4
<1>6. /\ OfRevision(ledger, "contract-recorded", contract.revision) # {}
      /\ TakenBackIn(ledger) \/
           /\ AuthorizedRecord(ledger, contract.revision) # 0
           /\ ledger[LatestRecord(ledger, contract.revision)].contract
                = ledger[AuthorizedRecord(ledger, contract.revision)].contract
  BY <1>1, LedgerIs, FailedIs
<1> HIDE DEF b, attempt
<1>7. TaskInv' /\ \A i \in NewEvents : ledger'[i].type = "step-started" => ledger'[i] = Started(s, attempt, "fallback")
  BY <1>1, <1>2, <1>5, <1>6, StartStep
<1>8. Started(s, attempt, "fallback").step = s /\ Started(s, attempt, "fallback").binding = "fallback"
  BY DEF Started
<1>9. QED
  BY <1>1, <1>7, <1>8 DEF StartIsApproved

-----------------------------------------------------------------------------
(* TaskCommands: the other commands                                        *)

LEMMA StepFinishStep ==
  ASSUME TaskInv, NEW s, NEW outcome, StepFinish(s, outcome)
  PROVE  TaskInv' /\ \A i \in NewEvents : StartIsApproved(i)
<1> DEFINE running == Running(ledger, contract.revision)
           start == Max(running)
           e == [type |-> "step-finished", revision |-> contract.revision, step |-> s,
                 attempt |-> ledger[start].attempt, outcome |-> outcome, evidence |-> evidence]
           m == ledger \o <<e>>
<1>1. /\ running # {} /\ ledger[start].step = s /\ Opened(ledger) < start
      /\ AppendBatch(<<e>>)
  BY DEF StepFinish, MayFinish
<1>2. /\ e.type = "step-finished" /\ e.revision = contract.revision /\ e.step = s
      /\ e.attempt = ledger[start].attempt
  OBVIOUS
<1>3. start \in running
  <2>1. running \in SUBSET (0..Len(ledger)) /\ Len(ledger) \in Nat
    BY LedgerIs DEF Running, OfRevision, Of
  <2> HIDE DEF running
  <2>2. QED
    BY <1>1, <2>1, MaxIn
<1>4. start \in Attempts(ledger, contract.revision, s)
  BY <1>1, <1>3 DEF Running, Attempts
<1> HIDE DEF start, running, e
<1>5. m = ledger \o <<e>>
  OBVIOUS
<1> HIDE DEF m
<1>6. /\ Grown(ledger, m) /\ New(ledger, m) = {Len(ledger) + 1}
      /\ m[Len(ledger) + 1] = e /\ m[Len(m)] = e /\ Len(m) > Len(ledger)
  BY <1>5, LedgerIs, GrownOne
<1>7. Closes(ledger, m)
  BY <1>2, <1>6 DEF Closes
<1>8. \A i \in New(ledger, m) :
         /\ m[i].type = "step-finished"
         /\ \E j \in Attempts(ledger, m[i].revision, m[i].step) :
               ledger[j].attempt = m[i].attempt /\ Opened(ledger) < j
  BY <1>1, <1>2, <1>4, <1>6
<1>9. NewRefers(ledger, m)
  BY <1>8 DEF NewRefers, ApprovalTypes
<1>10. LogInv(m)
  BY <1>6, <1>7, <1>8, <1>9, LedgerIs, FinishKeeps
<1>11. QED
  BY <1>1, <1>2, <1>5, <1>10, OneEvent

LEMMA DeclineStep == ASSUME TaskInv, Decline PROVE TaskInv' /\ \A i \in NewEvents : StartIsApproved(i)
<1> DEFINE e == [type |-> "task-cancelled"]
<1>1. AppendBatch(<<e>>) /\ e.type = "task-cancelled"
  BY DEF Decline
<1> HIDE DEF e
<1>2. QED
  BY <1>1, SilentStep DEF Silent

LEMMA RecoverCancelStep ==
  ASSUME TaskInv, RecoverCancel PROVE TaskInv' /\ \A i \in NewEvents : StartIsApproved(i)
<1> DEFINE e == [type |-> "task-cancelled"]
<1>1. AppendBatch(<<e>>) /\ e.type = "task-cancelled"
  BY DEF RecoverCancel
<1> HIDE DEF e
<1>2. QED
  BY <1>1, SilentStep DEF Silent

LEMMA StepSkipStep ==
  ASSUME TaskInv, NEW s, StepSkip(s) PROVE TaskInv' /\ \A i \in NewEvents : StartIsApproved(i)
<1> DEFINE e == [type |-> "step-skipped", revision |-> contract.revision, step |-> s]
<1>1. AppendBatch(<<e>>) /\ e.type = "step-skipped"
  BY DEF StepSkip
<1> HIDE DEF e
<1>2. QED
  BY <1>1, SilentStep DEF Silent

LEMMA StepRevalidateStep ==
  ASSUME TaskInv, NEW s, NEW basis, StepRevalidate(s, basis)
  PROVE  TaskInv' /\ \A i \in NewEvents : StartIsApproved(i)
<1> DEFINE e == [type |-> "step-revalidated", revision |-> contract.revision, step |-> s,
                 basis |-> basis, evidence |-> evidence]
<1>1. AppendBatch(<<e>>) /\ e.type = "step-revalidated"
  BY DEF StepRevalidate
<1> HIDE DEF e
<1>2. QED
  BY <1>1, SilentStep DEF Silent

LEMMA AcceptStep ==
  ASSUME TaskInv, NEW verdict, Accept(verdict) PROVE TaskInv' /\ \A i \in NewEvents : StartIsApproved(i)
<1> DEFINE e == [type |-> "acceptance-recorded", revision |-> contract.revision,
                 verdict |-> verdict, acceptance |-> acceptance]
<1>1. AppendBatch(<<e>>) /\ e.type = "acceptance-recorded"
  BY DEF Accept
<1> HIDE DEF e
<1>2. QED
  BY <1>1, SilentStep DEF Silent

LEMMA RecoverOpenStep ==
  ASSUME TaskInv, NEW outputs, RecoverOpen(outputs)
  PROVE  TaskInv' /\ \A i \in NewEvents : StartIsApproved(i)
<1> DEFINE e == [type |-> "recovery-opened", revision |-> contract.revision, outputs |-> outputs]
<1>1. AppendBatch(<<e>>) /\ e.type = "recovery-opened"
  BY DEF RecoverOpen
<1> HIDE DEF e
<1>2. QED
  BY <1>1, SilentStep DEF Silent

LEMMA RecoverResolveStep ==
  ASSUME TaskInv, NEW way, RecoverResolve(way) PROVE TaskInv' /\ \A i \in NewEvents : StartIsApproved(i)
<1> DEFINE e == [type |-> "recovery-resolved", opened |-> Opened(ledger), reconciliation |-> way]
           S == Of(ledger, "recovery-opened")
<1>1. AppendBatch(<<e>>) /\ e.type = "recovery-resolved" /\ e.opened = Opened(ledger) /\ InRecovery(ledger)
  BY DEF RecoverResolve
<1>2. S # {} /\ S \in SUBSET (1..Len(ledger)) /\ Len(ledger) \in Nat
  BY <1>1, LedgerIs DEF InRecovery, Of
<1>3. Opened(ledger) = Latest(S)
  BY DEF Opened
<1> HIDE DEF e, S
<1>4. Opened(ledger) \in S
  BY <1>2, <1>3, LatestIn
<1>5. e.opened \in Of(ledger, "recovery-opened")
  BY <1>1, <1>4 DEF S
<1>6. e.type \in Silent
  BY <1>1 DEF Silent
<1>7. QED
  BY <1>1, <1>5, <1>6, SilentStep

LEMMA RepairStep == ASSUME TaskInv, Repair PROVE TaskInv' /\ \A i \in NewEvents : StartIsApproved(i)
<1> DEFINE e == [type |-> "repair"]
<1>1. ledger' = ledger \o <<e>> /\ torn' = FALSE /\ e.type = "repair"
      /\ UNCHANGED <<story, contract, payload, evidence, acceptance, claim, crashes>>
  BY DEF Repair
<1> HIDE DEF e
<1>2. e.type \in Silent /\ e.type # "recovery-resolved"
  BY <1>1 DEF Silent
<1>3. Grown(ledger, ledger') /\ NoNew(ledger, ledger', "step-started") /\ LogInv(ledger')
  BY <1>1, <1>2, LedgerIs, SilentEvent
<1>4. TaskTypeOK'
  BY <1>1 DEF TaskInv, TaskTypeOK, Contracts
<1>5. QED
  BY <1>3, <1>4, NothingStarts DEF TaskInv

\* The edits of the files, and the removal of a claim.
LEMMA EditStep ==
  ASSUME TaskInv, TaskTypeOK', ledger' = ledger
  PROVE  TaskInv' /\ \A i \in NewEvents : StartIsApproved(i)
<1>1. TaskInv'
  BY DEF TaskInv
<1>2. \A i \in NewEvents : StartIsApproved(i)
  BY NothingStarts
<1>3. QED
  BY <1>1, <1>2

LEMMA TaskInitInv == TaskInit => TaskInv
<1> SUFFICES ASSUME TaskInit PROVE TaskInv
  OBVIOUS
<1> DEFINE e == [type |-> "task-created"]
<1>1. TaskTypeOK
  <2>1. story \in Stories /\ story.crashes \in Nat
    BY TaskConstants DEF TaskInit
  <2>2. crashes \in 0..story.crashes
    BY <2>1 DEF TaskInit
  <2>3. contract \in Contracts(story)
    BY DEF TaskInit
  <2>4. /\ payload \in story.payloads /\ evidence \in story.contents /\ acceptance \in story.acceptances
        /\ torn \in BOOLEAN /\ claim \in {"free", "died"}
    BY DEF TaskInit
  <2>5. QED
    BY <2>1, <2>2, <2>3, <2>4 DEF TaskTypeOK
<1>2. ledger = <<e>> /\ e.type = "task-created"
  BY DEF TaskInit
<1> HIDE DEF e
<1>3. IsLog(ledger) /\ Len(ledger) = 1 /\ ledger[1] = e
  BY <1>2, OneIsLog
<1>4. DOMAIN ledger = 1..1
  BY <1>3, LogIs
<1>5. \A type : type # "task-created" => Of(ledger, type) = {}
  BY <1>2, <1>3, <1>4 DEF Of
<1>6. Approvals(ledger) = {}
  BY <1>2, <1>3, <1>4 DEF Approvals, ApprovalTypes
<1>7. RefersBack(ledger)
  BY <1>5, <1>6 DEF RefersBack, Records
<1>8. GateStands(ledger)
  BY <1>2, <1>3 DEF GateStands, GateIsHead
<1>9. NotAcross(ledger) /\ NotAgain(ledger) /\ StartedStays(ledger)
  BY <1>5 DEF NotAcross, NotAgain, StartedStays
<1>10. QED
  BY <1>1, <1>3, <1>7, <1>8, <1>9 DEF TaskInv, LogInv

LEMMA TaskNextInv ==
  ASSUME TaskInv, [TaskNext]_taskVars
  PROVE  TaskInv' /\ \A i \in NewEvents : StartIsApproved(i)
<1>1. CASE UNCHANGED taskVars
  <2>1. TaskTypeOK' /\ ledger' = ledger
    BY <1>1 DEF taskVars, TaskInv, TaskTypeOK, Contracts
  <2>2. QED
    BY <2>1, EditStep
<1>2. CASE CheckCompact
  BY <1>2, CheckCompactStep
<1>3. CASE CheckTerms
  BY <1>3, CheckTermsStep
<1>4. CASE CheckExecution
  BY <1>4, CheckExecutionStep
<1>5. CASE \E s \in StepIds, binding \in Bindings : CheckAction(s, binding)
  BY <1>5, CheckActionStep
<1>6. CASE Decline
  BY <1>6, DeclineStep
<1>7. CASE ApproveTerms
  BY <1>7, ApproveTermsStep
<1>8. CASE ApproveAction
  BY <1>8, ApproveActionStep
<1>9. CASE \E execute \in BOOLEAN : ApproveCompact(execute) \/ ApproveExecution(execute)
  BY <1>9, ApproveCompactStep, ApproveExecutionStep
<1>10. ASSUME NEW s \in StepIds, StepStart(s)
       PROVE  TaskInv' /\ \A i \in NewEvents : StartIsApproved(i)
  BY <1>10, StepStartStep
<1>11. ASSUME NEW s \in StepIds, StepFallback(s)
       PROVE  TaskInv' /\ \A i \in NewEvents : StartIsApproved(i)
  BY <1>11, StepFallbackStep
<1>12. ASSUME NEW s \in StepIds, StepSkip(s)
       PROVE  TaskInv' /\ \A i \in NewEvents : StartIsApproved(i)
  BY <1>12, StepSkipStep
<1>13. ASSUME NEW s \in StepIds, \E outcome \in {"completed", "failed"} : StepFinish(s, outcome)
       PROVE  TaskInv' /\ \A i \in NewEvents : StartIsApproved(i)
  BY <1>13, StepFinishStep
<1>14. ASSUME NEW s \in StepIds,
              \E basis \in {"stale-evidence", "recovery-occurred"} : StepRevalidate(s, basis)
       PROVE  TaskInv' /\ \A i \in NewEvents : StartIsApproved(i)
  BY <1>14, StepRevalidateStep
<1>15. CASE \E verdict \in {"complete", "partial"} : Accept(verdict)
  BY <1>15, AcceptStep
<1>16. CASE \E output \in Outputs : RecoverOpen({output})
  BY <1>16, RecoverOpenStep
<1>17. CASE \E way \in Reconciliations : RecoverResolve(way)
  BY <1>17, RecoverResolveStep
<1>18. CASE RecoverCancel
  BY <1>18, RecoverCancelStep
<1>19. CASE Repair
  BY <1>19, RepairStep
<1>20. CASE RepairLock
  <2>1. TaskTypeOK' /\ ledger' = ledger
    BY <1>20 DEF RepairLock, TaskInv, TaskTypeOK, Contracts
  <2>2. QED
    BY <2>1, EditStep
<1>21. CASE \E c \in Contracts(story) : EditContract(c)
  <2>1. TaskTypeOK' /\ ledger' = ledger
    BY <1>21 DEF EditContract, TaskInv, TaskTypeOK, Contracts
  <2>2. QED
    BY <2>1, EditStep
<1>22. CASE \E p \in story.payloads : EditPayload(p)
  <2>1. TaskTypeOK' /\ ledger' = ledger
    BY <1>22 DEF EditPayload, TaskInv, TaskTypeOK, Contracts
  <2>2. QED
    BY <2>1, EditStep
<1>23. CASE \E e \in story.contents : EditEvidence(e)
  <2>1. TaskTypeOK' /\ ledger' = ledger
    BY <1>23 DEF EditEvidence, TaskInv, TaskTypeOK, Contracts
  <2>2. QED
    BY <2>1, EditStep
<1>24. CASE \E a \in story.acceptances : WriteAcceptance(a)
  <2>1. TaskTypeOK' /\ ledger' = ledger
    BY <1>24 DEF WriteAcceptance, TaskInv, TaskTypeOK, Contracts
  <2>2. QED
    BY <2>1, EditStep
<1>25. QED
  BY <1>1, <1>2, <1>3, <1>4, <1>5, <1>6, <1>7, <1>8, <1>9, <1>10, <1>11, <1>12, <1>13, <1>14,
     <1>15, <1>16, <1>17, <1>18, <1>19, <1>20, <1>21, <1>22, <1>23, <1>24 DEF TaskNext

LEMMA TaskInvHolds == TaskSpec => []TaskInv
<1>1. TaskInv /\ [TaskNext]_taskVars => TaskInv'
  BY TaskNextInv
<1>2. QED
  BY TaskInitInv, <1>1, PTL DEF TaskSpec

-----------------------------------------------------------------------------
(* TaskCommands: the theorems                                              *)

\* StartsAreApproved (superclarity.mjs:908): a step starts only under the very
\* contract that was shown when execution was authorized, and a step with an
\* outside effect only with the payload its own gate showed.
THEOREM StartsTheorem == TaskSpec => StartsAreApproved
<1>1. TaskInv /\ [TaskNext]_taskVars => [\A i \in NewEvents : StartIsApproved(i)]_taskVars
  BY TaskNextInv
<1>2. QED
  BY TaskInvHolds, <1>1, PTL DEF TaskSpec, StartsAreApproved

\* RecoveryHolds (superclarity.mjs:920): no attempt is finished across a
\* recovery, and an effect that was found to have occurred is not produced
\* again before the step has inspected it.
THEOREM RecoveryTheorem == TaskSpec => []RecoveryHolds
<1>1. TaskInv => RecoveryHolds
  <2>1. SUFFICES ASSUME TaskInv PROVE RecoveryHolds
    OBVIOUS
  <2>2. NotAcross(ledger) /\ NotAgain(ledger)
    BY <2>1 DEF TaskInv, LogInv
  <2>3. \A i : Began(i) = BeganIn(ledger, i) /\ RecordedAt(i) = ledger[RecordIn(ledger, i)].contract
    BY DEF Began, BeganIn, RecordedAt, RecordIn
  <2>4. QED
    BY <2>2, <2>3 DEF NotAcross, NotAgain, RecoveryHolds
<1>2. QED
  BY TaskInvHolds, <1>1, PTL

\* The start of an attempt that was finished, and the contract it was under.
LEMMA BeganIs ==
  ASSUME NEW l, LogInv(l), NEW i \in Of(l, "step-finished")
  PROVE  LET b == BeganIn(l, i)
         IN b \in Attempts(l, l[i].revision, l[i].step) /\ b \in DOMAIN l
<1> DEFINE S == {j \in Attempts(l, l[i].revision, l[i].step) :
                   j < i /\ l[j].attempt = l[i].attempt}
<1>1. Len(l) \in Nat /\ DOMAIN l = 1..Len(l)
  BY LogIs DEF LogInv
<1>2. S # {}
  BY DEF LogInv, RefersBack
<1>3. S \in SUBSET (0..Len(l))
  BY <1>1 DEF Attempts, OfRevision, Of
<1>4. BeganIn(l, i) = Max(S)
  BY DEF BeganIn
<1>5. S \subseteq Attempts(l, l[i].revision, l[i].step)
  OBVIOUS
<1> HIDE DEF S
<1>6. Max(S) \in S
  BY <1>1, <1>2, <1>3, MaxIn
<1>7. QED
  BY <1>4, <1>5, <1>6 DEF Attempts, OfRevision, Of

LEMMA StartedUnder ==
  ASSUME NEW l, LogInv(l), ~TakenBackIn(l), NEW b \in Of(l, "step-started")
  PROVE  /\ l[b].revision \in Nat \ {0} /\ AuthorizedRecord(l, l[b].revision) # 0
         /\ l[RecordIn(l, b)].contract = l[AuthorizedRecord(l, l[b].revision)].contract
<1> DEFINE r == l[b].revision
           recorded == OfRevision(l, "contract-recorded", r)
           m == RecordIn(l, b)
<1>1. b \in DOMAIN l /\ \E j \in recorded : j < b
  BY DEF LogInv, RefersBack, Of
<1>2. m \in recorded /\ m < b /\ \A j \in recorded : j < b => j <= m
  BY <1>1, RecordIs DEF LogInv
<1>3. r \in Nat \ {0}
  <2>1. m \in Records(l) /\ l[m].revision = r
    BY <1>2 DEF OfRevision, Records
  <2>2. l[m].contract \in AllContracts /\ l[m].revision = l[m].contract.revision
    BY <2>1 DEF LogInv, RefersBack, IsRecord
  <2>3. QED
    BY <2>1, <2>2, ContractIs
<1>4. \A j \in recorded : ~(m < j /\ j < b)
  <2>1. \A j \in recorded : j \in Nat
    BY LogIs DEF OfRevision, Of, LogInv
  <2> HIDE DEF recorded, m
  <2>2. QED
    BY <1>2, <2>1
<1>5. QED
  BY <1>2, <1>3, <1>4 DEF LogInv, StartedStays

\* An authorized contract whose content is that of the log is what was authorized last.
LEMMA InForceIs ==
  ASSUME NEW l, LogInv(l), ~TakenBackIn(l), NEW c \in AllContracts,
         ExecutionAuthorized(l, c), ~ContentDiffers(l, c)
  PROVE  AuthorizedRecord(l, c.revision) # 0 /\ l[AuthorizedRecord(l, c.revision)].contract = c
<1>1. Shown(l, c) /\ HasApprovals(l)
  BY AuthorizedIsShown
<1>2. RecordMatches(l, c) \/ GateMatches(l, c)
  BY <1>1 DEF ContentDiffers
<1>3. LatestRecord(l, c.revision) # 0 /\ l[LatestRecord(l, c.revision)].contract = c
  <2>1. CASE RecordMatches(l, c)
    BY <2>1 DEF RecordMatches
  <2>2. CASE GateMatches(l, c)
    <3> DEFINE d == l[Len(l) - 1].contract
    <3>1. /\ l[Len(l)].record = Len(l) - 1 /\ LatestRecord(l, d.revision) = Len(l) - 1
          /\ Len(l) - 1 # 0
      BY <2>2, HeadIs DEF GateMatches
    <3>2. d = c
      BY <2>2, <3>1 DEF GateMatches
    <3>3. QED
      BY <3>1, <3>2
  <2>3. QED
    BY <1>2, <2>1, <2>2
<1>4. QED
  BY <1>1, <1>3, ShownIsAuthorized

\* A result is carried only along revisions in which the step is the same.
LEMMA CarriedIsSame ==
  ASSUME NEW l, NEW from \in Nat, NEW r \in Nat, from <= r, NEW s,
         \A p \in from..(r - 1) : SameStepIn(l, RecordFor(l, p + 1), AuthorizedRecord(l, p), s),
         AuthorizedRecord(l, r) # 0
  PROVE  StepDigest(l[AuthorizedRecord(l, from)].contract, s)
           = StepDigest(l[AuthorizedRecord(l, r)].contract, s)
<1> DEFINE D(p) == StepDigest(l[AuthorizedRecord(l, p)].contract, s)
           S == {n \in Nat : from + n <= r => D(from) = D(from + n)}
<1>1. \A p \in from..(r - 1) : D(p) = D(p + 1)
  <2>1. SUFFICES ASSUME NEW p \in from..(r - 1) PROVE D(p) = D(p + 1)
    OBVIOUS
  <2>2. AuthorizedRecord(l, p + 1) # 0
    <3>1. CASE p + 1 = r
      BY <3>1
    <3>2. CASE p + 1 # r
      <4>1. p + 1 \in from..(r - 1)
        BY <3>2
      <4>2. QED
        BY <4>1 DEF SameStepIn
    <3>3. QED
      BY <3>1, <3>2
  <2>3. RecordFor(l, p + 1) = AuthorizedRecord(l, p + 1)
    BY <2>2 DEF RecordFor
  <2>4. QED
    BY <2>3 DEF SameStepIn
<1> HIDE DEF D
<1>2. 0 \in S
  <2>1. from + 0 = from
    OBVIOUS
  <2>2. QED
    BY <2>1
<1>3. ASSUME NEW n \in Nat, n \in S PROVE n + 1 \in S
  <2>1. SUFFICES ASSUME from + (n + 1) <= r PROVE D(from) = D(from + (n + 1))
    OBVIOUS
  <2>2. from + n \in from..(r - 1) /\ from + (n + 1) = (from + n) + 1
    BY <2>1
  <2>3. D(from) = D(from + n)
    BY <1>3, <2>2
  <2>4. QED
    BY <1>1, <2>2, <2>3
<1> HIDE DEF S
<1>4. Nat \subseteq S
  BY <1>2, <1>3, Induction
<1>5. r - from \in Nat /\ from + (r - from) = r
  OBVIOUS
<1>6. D(from) = D(r)
  BY <1>4, <1>5 DEF S
<1>7. QED
  BY <1>6 DEF D

\* ResultsAreOfTheStep (protocol.md:101): a step counts by an attempt at the
\* very same step, in whatever revision that was.  A step that was started was
\* started under what is authorized in its revision, and results are carried
\* only over revisions in which the step is the same.
THEOREM ResultsTheorem == TaskSpec => []ResultsAreOfTheStep
<1>1. TaskInv => ResultsAreOfTheStep
  <2> DEFINE r == contract.revision
  <2>1. SUFFICES ASSUME TaskInv, ExecutionAuthorized(ledger, contract),
                        ~ContentDiffers(ledger, contract), ~TakenBackIn(ledger),
                        NEW s, Decisive(ledger, r, s) # 0,
                        ledger[Decisive(ledger, r, s)].type = "step-finished"
                 PROVE  StepDigest(RecordedAt(Began(Decisive(ledger, r, s))), s) = StepDigest(contract, s)
    BY DEF ResultsAreOfTheStep, TakenBack, TakenBackIn, TaskInv
  <2>2. /\ LogInv(ledger) /\ contract \in AllContracts /\ r \in Nat \ {0}
    BY <2>1, LedgerIs, ContractIs
  <2> DEFINE i == Decisive(ledger, r, s)
             reached == {q \in 1..r : /\ OwnEvents(ledger, q, s) # {}
                                     /\ \A p \in q..(r - 1) :
                                          SameStepIn(ledger, RecordFor(ledger, p + 1), AuthorizedRecord(ledger, p), s)}
             from == Latest(reached)
             b == BeganIn(ledger, i)
  <2>3. i \in OwnEvents(ledger, from, s) /\ from \in 0..r /\ (from # 0 => from \in reached)
    BY <2>1, <2>2, DecisiveIs
  <2>4. i \in Of(ledger, "step-finished") /\ ledger[i].revision = from /\ ledger[i].step = s
    BY <2>1, <2>3 DEF OwnEvents, Of
  <2>5. AuthorizedRecord(ledger, r) # 0 /\ ledger[AuthorizedRecord(ledger, r)].contract = contract
    BY <2>1, <2>2, InForceIs
  <2>6. \A j : Began(j) = BeganIn(ledger, j) /\ RecordedAt(j) = ledger[RecordIn(ledger, j)].contract
    BY DEF Began, BeganIn, RecordedAt, RecordIn
  <2>7. from # 0 => \A p \in from..(r - 1) :
          SameStepIn(ledger, RecordFor(ledger, p + 1), AuthorizedRecord(ledger, p), s)
    BY <2>3
  <2> HIDE DEF i, from, r, reached
  <2>8. b \in Attempts(ledger, from, s)
    BY <2>2, <2>4, BeganIs
  <2> HIDE DEF b
  <2>9. b \in Of(ledger, "step-started") /\ ledger[b].revision = from
    BY <2>8 DEF Attempts, OfRevision
  <2>10. /\ from \in Nat \ {0}
         /\ ledger[RecordIn(ledger, b)].contract = ledger[AuthorizedRecord(ledger, from)].contract
    BY <2>1, <2>2, <2>9, StartedUnder
  <2>11. from <= r
    BY <2>2, <2>3
  <2>12. StepDigest(ledger[AuthorizedRecord(ledger, from)].contract, s)
           = StepDigest(ledger[AuthorizedRecord(ledger, r)].contract, s)
    BY <2>2, <2>5, <2>7, <2>10, <2>11, CarriedIsSame
  <2>13. RecordedAt(Began(i)) = ledger[AuthorizedRecord(ledger, from)].contract
    BY <2>6, <2>10 DEF b
  <2>14. QED
    BY <2>5, <2>12, <2>13 DEF i, r
<1>2. QED
  BY TaskInvHolds, <1>1, PTL

-----------------------------------------------------------------------------
(* TaskCommands: what a single event says, for the command that is named   *)

Says(log, e) ==
  /\ e.type = "gate-prepared" => (e.gate = "action" => e.action.step \in StepIds)
  /\ e.type = "step-started" => e.step \in StepIds /\ Of(log, "execution-authorized") # {}
  /\ e.type = "step-finished" => e.outcome \in {"completed", "failed"}
Said == \A i \in DOMAIN ledger : Says(ledger, ledger[i])

\* What an event says remains said.
LEMMA SaidGrown ==
  ASSUME NEW l, NEW m, Grown(l, m), \A i \in DOMAIN l : Says(l, l[i]),
         \A i \in New(l, m) : Says(l, m[i])
  PROVE  \A i \in DOMAIN m : Says(m, m[i])
<1>1. Of(l, "execution-authorized") \subseteq Of(m, "execution-authorized")
  BY OfGrown
<1>2. \A e : Says(l, e) => Says(m, e)
  BY <1>1 DEF Says
<1>3. /\ \A i \in DOMAIN m : i \in DOMAIN l \/ i \in New(l, m)
      /\ \A i \in DOMAIN l : m[i] = l[i]
  BY GrownIs
<1>4. QED
  BY <1>2, <1>3

LEMMA SaidBatch ==
  ASSUME TaskInv, Said, NEW S, NEW b, b \in Seq(S), AppendBatch(b),
         \A e \in S : Says(ledger, e)
  PROVE  Said'
<1> DEFINE m == ledger \o b
<1>1. IsLog(b) /\ Len(b) \in Nat /\ \A i \in 1..Len(b) : b[i] \in S
  BY LogOf, SeqIs
<1>2. IsLog(ledger) /\ Len(ledger) > 0
  BY LedgerIs
<1>3. /\ Grown(ledger, m) /\ New(ledger, m) = {Len(ledger) + i : i \in 1..Len(b)}
      /\ \A i \in 1..Len(b) : m[Len(ledger) + i] = b[i]
  BY <1>1, <1>2, GrownBy
<1>4. ledger' = ledger \/ ledger' = m
  BY DEF AppendBatch
<1> HIDE DEF m
<1>5. \A i \in New(ledger, m) : m[i] \in S
  BY <1>1, <1>3
<1>6. \A i \in New(ledger, m) : Says(ledger, m[i])
  BY <1>5
<1>7. \A i \in DOMAIN m : Says(m, m[i])
  BY <1>3, <1>6, SaidGrown DEF Said
<1>8. CASE ledger' = ledger
  BY <1>8 DEF Said, Says, Pending, Of
<1>9. CASE ledger' = m
  BY <1>7, <1>9 DEF Said, Says, Pending, Of
<1>10. QED
  BY <1>4, <1>8, <1>9

LEMMA SaidOne ==
  ASSUME TaskInv, Said, NEW e, AppendBatch(<<e>>), Says(ledger, e)
  PROVE  Said'
<1> DEFINE S == {e}
           b == <<e>>
<1>1. e \in S /\ \A x \in S : Says(ledger, x)
  OBVIOUS
<1>2. AppendBatch(b)
  OBVIOUS
<1>3. b \in Seq(S)
  <2> HIDE DEF S
  <2>1. QED
    BY <1>1, SingleIs
<1> HIDE DEF S, b
<1>4. QED
  BY <1>1, <1>2, <1>3, SaidBatch

LEMMA SaidSilent ==
  ASSUME TaskInv, Said, NEW e, AppendBatch(<<e>>), e.type \in Silent
  PROVE  Said'
<1>1. Says(ledger, e)
  BY DEF Says, Silent
<1>2. QED
  BY <1>1, SaidOne

LEMMA SaidPrepare ==
  ASSUME TaskInv, Said, NEW gate, NEW action, Prepare(gate, action),
         gate = "action" => action.step \in StepIds
  PROVE  Said'
<1> DEFINE e == [type |-> "contract-recorded", revision |-> contract.revision, contract |-> contract]
           f == [type |-> "gate-prepared", gate |-> gate, record |-> Len(ledger) + 1, action |-> action]
           S == {e, f}
           b == <<e, f>>
<1>1. AppendBatch(b)
  BY DEF Prepare
<1>2. Says(ledger, e) /\ Says(ledger, f)
  BY DEF Says
<1>3. e \in S /\ f \in S /\ \A x \in S : Says(ledger, x)
  BY <1>2
<1> HIDE DEF S, e, f
<1>4. b \in Seq(S)
  BY <1>3
<1> HIDE DEF b
<1>5. QED
  BY <1>1, <1>3, <1>4, SaidBatch

LEMMA SaidApproval ==
  ASSUME TaskInv, Said, NEW b, b \in Seq({Approval(t) : t \in ApprovalTypes}), AppendBatch(b)
  PROVE  Said'
<1>1. \A e \in {Approval(t) : t \in ApprovalTypes} : Says(ledger, e)
  BY DEF Approval, ApprovalTypes, Says
<1>2. QED
  BY <1>1, SaidBatch

\* A revision whose contract is shown has been authorized.
LEMMA ShownAfter ==
  ASSUME NEW l, NEW c, Shown(l, c)
  PROVE  Of(l, "execution-authorized") # {}
  BY DEF Shown

-----------------------------------------------------------------------------
(* TaskCommands: the status of a step                                      *)

\* The event that decides on a step, and what it makes of the step.
LEMMA StatusIs ==
  ASSUME NEW l, LogInv(l), NEW c \in AllContracts, NEW s
  PROVE  LET i == Decisive(l, c.revision, s)
         IN \/ i = 0 /\ Status(l, c, s) = "pending"
            \/ /\ i \in DOMAIN l /\ l[i].type \in StepEvents /\ l[i].step = s /\ i > Resolved(l)
               /\ Status(l, c, s) = StatusAfter(l, i)
               /\ Status(l, c, s) \notin Terminal =>
                    /\ l[i].revision = c.revision
                    /\ \A j \in OwnEvents(l, c.revision, s) : j <= i
<1> DEFINE r == c.revision
           i == Decisive(l, r, s)
           reached == {q \in 1..r : /\ OwnEvents(l, q, s) # {}
                                   /\ \A p \in q..(r - 1) :
                                        SameStepIn(l, RecordFor(l, p + 1), AuthorizedRecord(l, p), s)}
           from == Latest(reached)
<1>1. r \in Nat \ {0} /\ Status(l, c, s) = StatusAfter(l, i)
  BY ContractIs DEF Status
<1>2. CASE i = 0
  <2> HIDE DEF i
  <2>1. StatusAfter(l, i) = "pending"
    BY <1>2 DEF StatusAfter
  <2>2. QED
    BY <1>1, <1>2, <2>1 DEF i
<1>3. CASE i # 0
  <2>1. /\ i \in OwnEvents(l, from, s)
        /\ \A j \in OwnEvents(l, from, s) : j <= i
        /\ from = r \/ StatusAfter(l, i) \in Terminal
    BY <1>1, <1>3, DecisiveIs
  <2> HIDE DEF i, from, reached, r
  <2>2. /\ i \in DOMAIN l /\ l[i].type \in StepEvents /\ l[i].step = s /\ i > Resolved(l)
        /\ l[i].revision = from
    BY <2>1 DEF OwnEvents
  <2>3. Status(l, c, s) \notin Terminal => from = r
    BY <1>1, <2>1
  <2>4. QED
    BY <1>1, <2>1, <2>2, <2>3 DEF i, r
<1>4. QED
  BY <1>2, <1>3

LEMMA StatusIn ==
  ASSUME TaskInv, Said, ~InRecovery(ledger), NEW s
  PROVE  Status(ledger, contract, s) \in {"pending", "running", "completed", "failed", "skipped"}
<1> DEFINE i == Decisive(ledger, contract.revision, s)
           status == Status(ledger, contract, s)
<1>1. \/ status = "pending"
      \/ i \in DOMAIN ledger /\ ledger[i].type \in StepEvents /\ status = StatusAfter(ledger, i)
  BY LedgerIs, StatusIs
<1> HIDE DEF i, status
<1>2. ASSUME i \in DOMAIN ledger, ledger[i].type \in StepEvents, status = StatusAfter(ledger, i)
      PROVE  status \in {"pending", "running", "completed", "failed", "skipped"}
  <2>1. ledger[i].type = "step-finished" => ledger[i].outcome \in {"completed", "failed"}
    BY <1>2 DEF Said, Says
  <2>2. i # 0
    BY <1>2, LedgerIs
  <2>3. CASE ledger[i].type = "step-started"
    BY <1>2, <2>2, <2>3 DEF StatusAfter
  <2>4. CASE ledger[i].type = "step-finished"
    BY <1>2, <2>1, <2>2, <2>4 DEF StatusAfter
  <2>5. CASE ledger[i].type = "step-skipped"
    BY <1>2, <2>2, <2>5 DEF StatusAfter
  <2>6. CASE ledger[i].type = "step-revalidated"
    BY <1>2, <2>2, <2>6 DEF StatusAfter
  <2>7. QED
    BY <1>2, <2>3, <2>4, <2>5, <2>6 DEF StepEvents
<1>3. QED
  BY <1>1, <1>2 DEF status
-----------------------------------------------------------------------------
(* TaskCommands: every command keeps what is said                          *)

\* A step that failed had been started.
LEMMA FailedAfter ==
  ASSUME TaskInv, Said, NEW s, Status(ledger, contract, s) = "failed"
  PROVE  Of(ledger, "execution-authorized") # {}
<1> DEFINE i == Decisive(ledger, contract.revision, s)
           status == Status(ledger, contract, s)
<1>1. \/ status = "pending"
      \/ i \in DOMAIN ledger /\ ledger[i].type \in StepEvents /\ status = StatusAfter(ledger, i)
  BY LedgerIs, StatusIs
<1>2. status = "failed"
  OBVIOUS
<1> HIDE DEF i, status
<1>3. i # 0
  BY <1>1, <1>2, LedgerIs
<1>4. i \in DOMAIN ledger /\ ledger[i].type = "step-finished"
  <2>1. ledger[i].type = "step-started" => StatusAfter(ledger, i) # "failed"
    BY <1>3 DEF StatusAfter
  <2>2. ledger[i].type = "step-skipped" => StatusAfter(ledger, i) # "failed"
    BY <1>3 DEF StatusAfter
  <2>3. ledger[i].type = "step-revalidated" => StatusAfter(ledger, i) # "failed"
    BY <1>3 DEF StatusAfter
  <2>4. QED
    BY <1>1, <1>2, <2>1, <2>2, <2>3 DEF StepEvents
<1>5. PICK j \in Attempts(ledger, ledger[i].revision, ledger[i].step) : TRUE
  BY <1>4, LedgerIs DEF LogInv, RefersBack, Of
<1>6. j \in DOMAIN ledger /\ ledger[j].type = "step-started"
  BY <1>5 DEF Attempts, OfRevision, Of
<1>7. QED
  BY <1>6 DEF Said, Says

LEMMA SaidCheck ==
  ASSUME TaskInv, Said,
         \/ CheckCompact \/ CheckTerms \/ CheckExecution
         \/ \E s \in StepIds, binding \in Bindings : CheckAction(s, binding)
  PROVE  Said'
<1>1. CASE CheckCompact
  BY <1>1, SaidPrepare DEF CheckCompact
<1>2. CASE CheckTerms
  BY <1>2, SaidPrepare DEF CheckTerms
<1>3. CASE CheckExecution
  BY <1>3, SaidPrepare DEF CheckExecution
<1>4. ASSUME NEW s \in StepIds, NEW binding \in Bindings, CheckAction(s, binding)
      PROVE  Said'
  <2> DEFINE a == ActionOf(s, NextAttempt(s), binding)
  <2>1. a.step = s
    BY DEF ActionOf
  <2>2. s \in PlanIds(contract) /\ Prepare("action", a)
    BY <1>4 DEF CheckAction, MayCheckAction
  <2>3. ~Pending(contract)
    BY <2>2 DEF PlanIds, Pending
  <2> HIDE DEF a
  <2>4. QED
    BY <2>1, <2>2, <2>3, SaidPrepare
<1>5. QED
  BY <1>1, <1>2, <1>3, <1>4

LEMMA SaidApproveTerms == ASSUME TaskInv, Said, ApproveTerms PROVE Said'
<1> DEFINE e == Approval("terms-approved")
<1>1. AppendBatch(<<e>>)
  BY DEF ApproveTerms
<1>2. Says(ledger, e)
  BY DEF Says, Approval
<1> HIDE DEF e
<1>3. QED
  BY <1>1, <1>2, SaidOne

LEMMA SaidApproveCompact ==
  ASSUME TaskInv, Said, NEW execute \in BOOLEAN, ApproveCompact(execute)
  PROVE  Said'
<1> DEFINE S == {Approval(t) : t \in ApprovalTypes}
           e == Approval("terms-approved")
           f == Approval("plan-approved")
           g == Approval("execution-authorized")
           one == <<e, f>>
           two == IF execute THEN <<g>> ELSE <<>>
<1>1. e \in S /\ f \in S /\ g \in S
  BY DEF ApprovalTypes
<1>2. AppendBatch(one \o two)
  BY DEF ApproveCompact
<1> HIDE DEF S, e, f, g
<1>3. two \in Seq(S) /\ one \in Seq(S)
  BY <1>1, MaybeOne
<1> HIDE DEF one, two
<1>4. one \o two \in Seq(S)
  BY <1>3, ConcatIs
<1>5. QED
  BY <1>2, <1>4, SaidApproval DEF S

LEMMA SaidApproveExecution ==
  ASSUME TaskInv, Said, NEW execute \in BOOLEAN, ApproveExecution(execute)
  PROVE  Said'
<1> DEFINE S == {Approval(t) : t \in ApprovalTypes}
           planned == PlanApproved(ledger, contract)
           f == Approval("plan-approved")
           g == Approval("execution-authorized")
           one == IF ~planned THEN <<f>> ELSE <<>>
           two == IF execute THEN <<g>> ELSE <<>>
<1>1. f \in S /\ g \in S
  BY DEF ApprovalTypes
<1>2. AppendBatch(one \o two)
  <2>1. (IF planned THEN <<>> ELSE <<f>>) = one
    OBVIOUS
  <2>2. QED
    BY <2>1 DEF ApproveExecution
<1> HIDE DEF S, f, g
<1>3. two \in Seq(S)
  BY <1>1, MaybeOne
<1>4. one \in Seq(S)
  <2> HIDE DEF planned
  <2>1. QED
    BY <1>1, MaybeOne
<1> HIDE DEF one, two, planned
<1>5. one \o two \in Seq(S)
  BY <1>3, <1>4, ConcatIs
<1>6. QED
  BY <1>2, <1>5, SaidApproval DEF S

LEMMA SaidApproveAction == ASSUME TaskInv, Said, ApproveAction PROVE Said'
<1> DEFINE a == HeadGate.action
           approved == [type |-> "action-approved", action |-> a]
           invoked == Invoked(a.step, a.attempt)
           started == Started(a.step, a.attempt, a.binding)
           S == {approved, invoked, started}
           one == <<approved>>
           two == IF a.binding = "fallback" THEN <<invoked>> ELSE <<>>
           three == <<started>>
<1>1. GateIsOpen /\ HeadGate.gate = "action" /\ AppendBatch(one \o two \o three)
  BY DEF ApproveAction
<1>2. GateIsHead(ledger) /\ ledger[Len(ledger) - 1].contract = contract
  BY <1>1, OpenGate
<1>3. Of(ledger, "execution-authorized") # {}
  <2>1. Shown(ledger, contract)
    BY <1>1, <1>2, LedgerIs DEF LogInv, GateStands, HeadGate
  <2>2. QED
    BY <2>1, ShownAfter
<1>4. a.step \in StepIds
  <2>1. Len(ledger) \in DOMAIN ledger
    BY LedgerIs
  <2>2. Says(ledger, ledger[Len(ledger)]) /\ ledger[Len(ledger)].type = "gate-prepared"
    BY <1>2, <2>1 DEF Said, GateIsHead
  <2>3. QED
    BY <1>1, <2>2 DEF Says, HeadGate
<1>5. Says(ledger, approved) /\ Says(ledger, invoked) /\ Says(ledger, started)
  BY <1>3, <1>4 DEF Says, Invoked, Started
<1>6. approved \in S /\ invoked \in S /\ started \in S /\ \A x \in S : Says(ledger, x)
  BY <1>5
<1> HIDE DEF S, approved, invoked, started
<1>7. one \in Seq(S) /\ three \in Seq(S)
  BY <1>6, SingleIs
<1>8. two \in Seq(S)
  BY <1>6, MaybeOne
<1> HIDE DEF a, one, two, three
<1>9. one \o two \in Seq(S)
  BY <1>7, <1>8, ConcatIs
<1> DEFINE c == one \o two
<1>10. c \in Seq(S) /\ AppendBatch(c \o three)
  BY <1>1, <1>9
<1> HIDE DEF c
<1>11. c \o three \in Seq(S)
  BY <1>7, <1>10, ConcatIs
<1> DEFINE d == c \o three
<1>12. d \in Seq(S) /\ AppendBatch(d)
  BY <1>10, <1>11
<1> HIDE DEF d
<1>13. QED
  BY <1>6, <1>12, SaidBatch

LEMMA SaidStepStart == ASSUME TaskInv, Said, NEW s \in StepIds, StepStart(s) PROVE Said'
<1> DEFINE e == Started(s, NextAttempt(s), "primary")
<1>1. AppendBatch(<<e>>) /\ IsCurrent(ledger, contract, s)
  BY DEF StepStart, MayStart
<1>2. Of(ledger, "execution-authorized") # {}
  BY <1>1, CurrentIs, ShownAfter
<1>3. Says(ledger, e)
  BY <1>2 DEF Says, Started
<1> HIDE DEF e
<1>4. QED
  BY <1>1, <1>3, SaidOne

LEMMA SaidStepFallback == ASSUME TaskInv, Said, NEW s \in StepIds, StepFallback(s) PROVE Said'
<1> DEFINE attempt == NextAttempt(s)
           e == Invoked(s, attempt)
           f == Started(s, attempt, "fallback")
           S == {e, f}
           b == <<e, f>>
<1>1. AppendBatch(b) /\ Status(ledger, contract, s) = "failed"
  BY DEF StepFallback, MayFallBack
<1>2. Of(ledger, "execution-authorized") # {}
  BY <1>1, FailedAfter
<1>3. Says(ledger, e) /\ Says(ledger, f)
  BY <1>2 DEF Says, Invoked, Started
<1>4. e \in S /\ f \in S /\ \A x \in S : Says(ledger, x)
  BY <1>3
<1> HIDE DEF S, e, f
<1>5. b \in Seq(S)
  BY <1>4
<1> HIDE DEF b
<1>6. QED
  BY <1>1, <1>4, <1>5, SaidBatch

LEMMA SaidStepFinish ==
  ASSUME TaskInv, Said, NEW s, NEW outcome \in {"completed", "failed"}, StepFinish(s, outcome)
  PROVE  Said'
<1> DEFINE e == [type |-> "step-finished", revision |-> contract.revision, step |-> s,
                 attempt |-> ledger[Max(Running(ledger, contract.revision))].attempt,
                 outcome |-> outcome, evidence |-> evidence]
<1>1. AppendBatch(<<e>>)
  BY DEF StepFinish
<1>2. Says(ledger, e)
  BY DEF Says
<1> HIDE DEF e
<1>3. QED
  BY <1>1, <1>2, SaidOne

LEMMA SaidRepair == ASSUME TaskInv, Said, Repair PROVE Said'
<1> DEFINE e == [type |-> "repair"]
           m == ledger \o <<e>>
<1>1. ledger' = m /\ e.type = "repair"
  BY DEF Repair
<1> HIDE DEF e
<1>2. m = ledger \o <<e>> /\ IsLog(ledger) /\ Len(ledger) > 0
  BY LedgerIs
<1> HIDE DEF m
<1>3. Grown(ledger, m) /\ New(ledger, m) = {Len(ledger) + 1} /\ m[Len(ledger) + 1] = e
  BY <1>2, GrownOne
<1>4. \A i \in New(ledger, m) : Says(ledger, m[i])
  BY <1>1, <1>3 DEF Says
<1>5. \A i \in DOMAIN m : Says(m, m[i])
  BY <1>3, <1>4, SaidGrown DEF Said
<1>6. QED
  BY <1>1, <1>5 DEF Said, Says, Pending, Of

\* The commands that append one event which says nothing here.
LEMMA SaidQuiet ==
  ASSUME TaskInv, Said,
         \/ Decline \/ RecoverCancel
         \/ \E s : StepSkip(s) \/ \E basis : StepRevalidate(s, basis)
         \/ \E verdict : Accept(verdict)
         \/ \E outputs : RecoverOpen(outputs)
         \/ \E way : RecoverResolve(way)
  PROVE  Said'
<1>1. ASSUME Decline \/ RecoverCancel PROVE Said'
  <2> DEFINE e == [type |-> "task-cancelled"]
  <2>1. AppendBatch(<<e>>) /\ e.type \in Silent
    BY <1>1 DEF Decline, RecoverCancel, Silent
  <2> HIDE DEF e
  <2>2. QED
    BY <2>1, SaidSilent
<1>2. ASSUME NEW s, StepSkip(s) PROVE Said'
  <2> DEFINE e == [type |-> "step-skipped", revision |-> contract.revision, step |-> s]
  <2>1. AppendBatch(<<e>>) /\ e.type \in Silent
    BY <1>2 DEF StepSkip, Silent
  <2> HIDE DEF e
  <2>2. QED
    BY <2>1, SaidSilent
<1>3. ASSUME NEW s, NEW basis, StepRevalidate(s, basis) PROVE Said'
  <2> DEFINE e == [type |-> "step-revalidated", revision |-> contract.revision, step |-> s,
                   basis |-> basis, evidence |-> evidence]
  <2>1. AppendBatch(<<e>>) /\ e.type \in Silent
    BY <1>3 DEF StepRevalidate, Silent
  <2> HIDE DEF e
  <2>2. QED
    BY <2>1, SaidSilent
<1>4. ASSUME NEW verdict, Accept(verdict) PROVE Said'
  <2> DEFINE e == [type |-> "acceptance-recorded", revision |-> contract.revision,
                   verdict |-> verdict, acceptance |-> acceptance]
  <2>1. AppendBatch(<<e>>) /\ e.type \in Silent
    BY <1>4 DEF Accept, Silent
  <2> HIDE DEF e
  <2>2. QED
    BY <2>1, SaidSilent
<1>5. ASSUME NEW outputs, RecoverOpen(outputs) PROVE Said'
  <2> DEFINE e == [type |-> "recovery-opened", revision |-> contract.revision, outputs |-> outputs]
  <2>1. AppendBatch(<<e>>) /\ e.type \in Silent
    BY <1>5 DEF RecoverOpen, Silent
  <2> HIDE DEF e
  <2>2. QED
    BY <2>1, SaidSilent
<1>6. ASSUME NEW way, RecoverResolve(way) PROVE Said'
  <2> DEFINE e == [type |-> "recovery-resolved", opened |-> Opened(ledger), reconciliation |-> way]
  <2>1. AppendBatch(<<e>>) /\ e.type \in Silent
    BY <1>6 DEF RecoverResolve, Silent
  <2> HIDE DEF e
  <2>2. QED
    BY <2>1, SaidSilent
<1>7. QED
  BY <1>1, <1>2, <1>3, <1>4, <1>5, <1>6

LEMMA SaidStays == ASSUME Said, ledger' = ledger PROVE Said'
  BY DEF Said, Says, Pending, Of

LEMMA SaidFirst == TaskInit => Said
<1> SUFFICES ASSUME TaskInit PROVE Said
  OBVIOUS
<1> DEFINE e == [type |-> "task-created"]
<1>1. ledger = <<e>> /\ e.type = "task-created"
  BY DEF TaskInit
<1> HIDE DEF e
<1>2. DOMAIN ledger = 1..1 /\ ledger[1] = e
  BY <1>1, OneIsLog, LogIs
<1>3. QED
  BY <1>1, <1>2 DEF Said, Says

LEMMA SaidNext ==
  ASSUME TaskInv, Said, [TaskNext]_taskVars
  PROVE  Said'
<1>1. CASE \/ CheckCompact \/ CheckTerms \/ CheckExecution
           \/ \E s \in StepIds, binding \in Bindings : CheckAction(s, binding)
  BY <1>1, SaidCheck
<1>2. CASE \/ Decline \/ RecoverCancel
           \/ \E s : StepSkip(s) \/ \E basis : StepRevalidate(s, basis)
           \/ \E verdict : Accept(verdict)
           \/ \E outputs : RecoverOpen(outputs)
           \/ \E way : RecoverResolve(way)
  BY <1>2, SaidQuiet
<1>3. CASE ApproveTerms \/ ApproveAction
  BY <1>3, SaidApproveTerms, SaidApproveAction
<1>4. CASE \E execute \in BOOLEAN : ApproveCompact(execute) \/ ApproveExecution(execute)
  BY <1>4, SaidApproveCompact, SaidApproveExecution
<1>5. ASSUME NEW s \in StepIds, StepStart(s) \/ StepFallback(s) PROVE Said'
  BY <1>5, SaidStepStart, SaidStepFallback
<1>6. ASSUME NEW s \in StepIds, NEW outcome \in {"completed", "failed"}, StepFinish(s, outcome)
      PROVE  Said'
  BY <1>6, SaidStepFinish
<1>7. CASE Repair
  BY <1>7, SaidRepair
<1>8. CASE \/ UNCHANGED taskVars \/ RepairLock
           \/ \E c \in Contracts(story) : EditContract(c)
           \/ \E p \in story.payloads : EditPayload(p)
           \/ \E e \in story.contents : EditEvidence(e)
           \/ \E a \in story.acceptances : WriteAcceptance(a)
  <2>1. ledger' = ledger
    BY <1>8 DEF taskVars, RepairLock, EditContract, EditPayload, EditEvidence, WriteAcceptance
  <2>2. QED
    BY <2>1, SaidStays
<1>9. QED
  BY <1>1, <1>2, <1>3, <1>4, <1>5, <1>6, <1>7, <1>8 DEF TaskNext

LEMMA SaidHolds == TaskSpec => []Said
<1>1. TaskInv /\ Said /\ [TaskNext]_taskVars => Said'
  BY SaidNext
<1>2. QED
  BY SaidFirst, TaskInvHolds, <1>1, PTL DEF TaskSpec

-----------------------------------------------------------------------------
(* TaskCommands: the command that is named                                 *)

\* While nothing is recovered, the attempt that was started last can be
\* finished when some step is running.
LEMMA RunningIs ==
  ASSUME TaskInv, Said, ~InRecovery(ledger), NEW s, Status(ledger, contract, s) = "running"
  PROVE  \E t \in StepIds : MayFinish(t)
<1> DEFINE r == contract.revision
           i == Decisive(ledger, r, s)
           running == Running(ledger, r)
           last == Max(running)
<1>1. /\ i \in DOMAIN ledger /\ ledger[i].type \in StepEvents /\ ledger[i].step = s
      /\ i > Resolved(ledger) /\ StatusAfter(ledger, i) = "running"
      /\ ledger[i].revision = r /\ \A j \in OwnEvents(ledger, r, s) : j <= i
  BY LedgerIs, StatusIs DEF Terminal
<1> HIDE DEF i
<1>2. Len(ledger) \in Nat /\ DOMAIN ledger = 1..Len(ledger) /\ i # 0
  BY <1>1, LedgerIs
<1>3. ledger[i].type = "step-started"
  <2>1. ledger[i].type = "step-finished" => StatusAfter(ledger, i) # "running"
    BY <1>1, <1>2 DEF StatusAfter, Said, Says
  <2>2. ledger[i].type = "step-skipped" => StatusAfter(ledger, i) # "running"
    BY <1>2 DEF StatusAfter
  <2>3. ledger[i].type = "step-revalidated" => StatusAfter(ledger, i) # "running"
    BY <1>2 DEF StatusAfter
  <2>4. QED
    BY <1>1, <2>1, <2>2, <2>3 DEF StepEvents
<1> DEFINE resolved == Of(ledger, "recovery-resolved")
           opened == Of(ledger, "recovery-opened")
<1>4. Resolved(ledger) \in Nat /\ \A j \in resolved : j <= Resolved(ledger)
  <2>1. resolved \in SUBSET (1..Len(ledger))
    BY <1>2 DEF Of
  <2> HIDE DEF resolved
  <2>2. Latest(resolved) \in Nat /\ \A j \in resolved : j <= Latest(resolved)
    BY <1>2, <2>1, LatestIn
  <2>3. QED
    BY <2>2 DEF Resolved, resolved
<1>5. \A k \in opened : k < i
  <2>1. ASSUME NEW k \in opened PROVE k < i
    <3>1. PICK j \in resolved : ledger[j].opened = k
      BY DEF InRecovery
    <3>2. k < j
      BY <3>1, LedgerIs DEF LogInv, RefersBack
    <3>3. j <= Resolved(ledger) /\ j \in Nat /\ k \in Nat /\ i \in Nat
      BY <1>1, <1>2, <1>4 DEF Of
    <3>4. QED
      BY <1>1, <1>4, <3>2, <3>3
  <2>2. QED
    BY <2>1
<1>6. Opened(ledger) < i /\ Opened(ledger) \in Nat
  <2>1. opened \in SUBSET (1..Len(ledger))
    BY <1>2 DEF Of
  <2>2. i \in Nat \ {0}
    BY <1>1, <1>2
  <2> HIDE DEF opened
  <2>3. Latest(opened) \in 0..Len(ledger) /\ (opened # {} => Latest(opened) \in opened)
        /\ (opened = {} => Latest(opened) = 0)
    BY <1>2, <2>1, LatestIn
  <2>4. Latest(opened) < i /\ Latest(opened) \in Nat
    BY <1>2, <1>5, <2>2, <2>3
  <2>5. QED
    BY <2>4 DEF Opened, opened
<1>7. i \in running
  <2>1. i \in OfRevision(ledger, "step-started", r)
    BY <1>1, <1>3 DEF OfRevision, Of
  <2>2. ASSUME NEW j \in OfRevision(ledger, "step-finished", r), j > i
        PROVE  ledger[j].step # s
    <3>1. j \in DOMAIN ledger /\ ledger[j].type = "step-finished" /\ ledger[j].revision = r
      BY <2>2 DEF OfRevision, Of
    <3>2. j > Resolved(ledger) /\ ~(j <= i)
      BY <1>1, <1>2, <1>4, <2>2, <3>1
    <3>3. ledger[j].step = s => j \in OwnEvents(ledger, r, s)
      BY <3>1, <3>2 DEF OwnEvents, StepEvents
    <3>4. QED
      BY <1>1, <3>2, <3>3
  <2>3. QED
    BY <1>1, <2>1, <2>2 DEF Running
<1>8. last \in running /\ i <= last
  <2>1. running \in SUBSET (0..Len(ledger))
    BY <1>2 DEF Running, OfRevision, Of
  <2>2. running # {}
    BY <1>7
  <2>3. i \in running
    BY <1>7
  <2> HIDE DEF running
  <2>4. Max(running) \in running /\ \A x \in running : x <= Max(running)
    BY <1>2, <2>1, <2>2, MaxIn
  <2>5. QED
    BY <2>3, <2>4
<1>9. last \in DOMAIN ledger /\ ledger[last].type = "step-started"
  BY <1>8 DEF Running, OfRevision, Of
<1>10. ledger[last].step \in StepIds
  BY <1>9 DEF Said, Says
<1>11. Opened(ledger) < last
  BY <1>1, <1>2, <1>6, <1>8, <1>9
<1>12. MayFinish(ledger[last].step)
  BY <1>7, <1>11 DEF MayFinish
<1>13. QED
  BY <1>10, <1>12

LEMMA ContractSteps ==
  ASSUME NEW c \in AllContracts
  PROVE  /\ c.mode \in {"compact", "full"} /\ c.plan \in Seq({c.plan[k] : k \in DOMAIN c.plan})
         /\ PlanIds(c) \subseteq StepIds
         /\ c.mode = "compact" => \A s \in PlanIds(c) : StepOf(c, s).effect = "none"
  BY TaskConstants DEF AllContracts, ValidContract

\* While the contract is executed and not all is done, some step is current.
LEMMA CurrentExists ==
  ASSUME NEW l, NEW c \in AllContracts, Executing(l, c), ~AllDone(l, c)
  PROVE  \E s \in PlanIds(c) : IsCurrent(l, c, s)
<1> DEFINE waiting == {k \in DOMAIN c.plan : Status(l, c, c.plan[k].id) \notin Terminal}
<1>1. Len(c.plan) \in Nat /\ DOMAIN c.plan = 1..Len(c.plan)
  BY ContractSteps, SeqIs
<1>2. waiting # {} /\ waiting \in SUBSET Nat
  BY <1>1 DEF AllDone, PlanIds
<1>3. PICK k \in waiting : \A h \in waiting : k <= h
  <2> HIDE DEF waiting
  <2>1. QED
    BY <1>2, LeastOf
<1>4. \A h \in 1..(k - 1) : Status(l, c, c.plan[h].id) \in Terminal
  <2>1. ASSUME NEW h \in 1..(k - 1) PROVE Status(l, c, c.plan[h].id) \in Terminal
    <3>1. k \in 1..Len(c.plan)
      BY <1>1, <1>3
    <3>2. h \in 1..Len(c.plan) /\ ~(k <= h)
      BY <1>1, <3>1
    <3>3. QED
      BY <1>1, <1>3, <3>2
  <2>2. QED
    BY <2>1
<1>5. IsCurrent(l, c, c.plan[k].id) /\ c.plan[k].id \in PlanIds(c)
  BY <1>3, <1>4 DEF IsCurrent, PlanIds
<1>6. QED
  BY <1>5

\* The commands NextIsRunnable is about.
Named == {"check-compact", "check-terms", "check-execution", "check-action", "start-step",
          "reconcile-step", "assess-fallback"}

\* Where the name of a command comes from.
LEMMA AdviceIs ==
  ASSUME NEW done, Advice(ledger, torn, contract, done) \in Named
  PROVE  LET advice == Advice(ledger, torn, contract, done)
             s == CHOOSE s \in PlanIds(contract) : IsCurrent(ledger, contract, s)
         IN /\ ~InRecovery(ledger) /\ ~NeedsUpgrade(ledger, contract)
            /\ \/ ContentDiffers(ledger, contract) /\ advice = AdviceOnMismatch(ledger, contract)
               \/ /\ ~ContentDiffers(ledger, contract) /\ ~GateMatches(ledger, contract)
                  /\ Drafting(ledger, contract) /\ advice = AdviceOnDraft(ledger, contract)
               \/ /\ Executing(ledger, contract) /\ ~AllDone(ledger, contract)
                  /\ advice = AdviceOnStep(ledger, contract, s)
<1> DEFINE s == CHOOSE x \in PlanIds(contract) : IsCurrent(ledger, contract, x)
           mismatch == AdviceOnMismatch(ledger, contract)
           draft == AdviceOnDraft(ledger, contract)
           step == AdviceOnStep(ledger, contract, s)
           advice == Advice(ledger, torn, contract, done)
<1>1. advice = IF torn THEN "repair-ledger"
               ELSE IF InRecovery(ledger) THEN "resolve-recovery"
               ELSE IF Cancelled(ledger) THEN "none"
               ELSE IF NeedsUpgrade(ledger, contract) THEN "upgrade-to-full"
               ELSE IF ContentDiffers(ledger, contract) THEN mismatch
               ELSE IF GateMatches(ledger, contract) THEN "reprepare"
               ELSE IF done THEN "none"
               ELSE IF Drafting(ledger, contract) THEN draft
               ELSE IF AllDone(ledger, contract) THEN "accept"
               ELSE step
  BY DEF Advice
<1>2. advice \in Named
  OBVIOUS
<1> HIDE DEF s, mismatch, draft, step, advice
<1>3. ~InRecovery(ledger) /\ ~NeedsUpgrade(ledger, contract) /\ ~Cancelled(ledger)
  BY <1>1, <1>2 DEF Named
<1>4. \/ ContentDiffers(ledger, contract) /\ advice = mismatch
      \/ /\ ~ContentDiffers(ledger, contract) /\ ~GateMatches(ledger, contract)
         /\ Drafting(ledger, contract) /\ advice = draft
      \/ /\ ~ContentDiffers(ledger, contract) /\ ~GateMatches(ledger, contract)
         /\ ~Drafting(ledger, contract) /\ ~AllDone(ledger, contract) /\ advice = step
  BY <1>1, <1>2 DEF Named
<1>5. QED
  BY <1>3, <1>4 DEF Executing, advice, mismatch, draft, step, s

\* Whoever is told to check the execution gate of a compact contract may prepare
\* another compact gate, as long as nothing was started.
LEMMA AnotherGate ==
  ASSUME TaskInv, ~InRecovery(ledger), contract.mode = "compact", RevisionIsNext, IdsAreNew,
         Of(ledger, "step-started") = {}, Opened(ledger) = 0, ~Pending(contract),
         contract.terms.capability.readiness = "ready"
  PROVE  MayCheckCompact
<1>1. \A s \in PlanIds(contract) : StepOf(contract, s).effect = "none"
  BY LedgerIs, ContractSteps
<1>2. QED
  BY <1>1 DEF MayCheckCompact, MayCheck

\* The contract is not the one that was approved.
LEMMA MismatchRuns ==
  ASSUME TaskInv, Said, ~InRecovery(ledger), ContentDiffers(ledger, contract),
         Advice(ledger, torn, contract, Accepted) = AdviceOnMismatch(ledger, contract)
  PROVE  NextIsRunnable
<1> DEFINE advice == Advice(ledger, torn, contract, Accepted)
           numbered == RevisionIsNext /\ IdsAreNew
           compact == contract.mode = "compact"
           fresh == /\ Of(ledger, "step-started") = {} /\ Opened(ledger) = 0 /\ ~Pending(contract)
                    /\ contract.terms.capability.readiness = "ready"
<1>1. \/ advice = "reconcile-step" /\ \E s \in StepIds : Status(ledger, contract, s) = "running"
      \/ advice = "check-execution" /\ TermsApproved(ledger, contract)
      \/ advice = "check-terms"
  BY DEF AdviceOnMismatch
<1>2. ~compact => contract.mode = "full"
  BY LedgerIs, ContractSteps
<1>3. CASE advice = "reconcile-step" /\ \E s \in StepIds : Status(ledger, contract, s) = "running"
  <2>1. \E s \in StepIds : MayFinish(s)
    BY <1>3, RunningIs
  <2>2. QED
    BY <1>3, <2>1 DEF NextIsRunnable
<1>4. CASE advice = "check-execution" /\ TermsApproved(ledger, contract)
  <2>1. numbered => MayCheckExecution \/ compact \/ Pending(contract) \/ ~Executable(contract)
    BY <1>4 DEF MayCheckExecution, MayCheck, LedgerAdmitsExecutionGate
  <2>2. numbered /\ compact /\ fresh => MayCheckCompact
    BY AnotherGate
  <2>3. QED
    BY <1>4, <2>1, <2>2 DEF NextIsRunnable
<1>5. CASE advice = "check-terms"
  <2>1. numbered => MayCheckTerms \/ compact
    BY <1>2 DEF MayCheckTerms, MayCheck
  <2>2. QED
    BY <1>5, <2>1 DEF NextIsRunnable
<1>6. QED
  BY <1>1, <1>3, <1>4, <1>5

\* Before its first approval nothing of a compact contract was started, and
\* nothing was recovered.
LEMMA CompactIsNew ==
  ASSUME TaskInv, Said, ~InRecovery(ledger), ~NeedsUpgrade(ledger, contract),
         contract.mode = "compact", ~HasApprovals(ledger)
  PROVE  Of(ledger, "step-started") = {} /\ Opened(ledger) = 0
<1>1. Of(ledger, "step-started") = {}
  BY DEF HasApprovals, Said, Says, Of
<1>2. Of(ledger, "recovery-resolved") = {}
  <2> DEFINE S == Of(ledger, "recovery-resolved")
  <2>1. S \in SUBSET (1..Len(ledger)) /\ Len(ledger) \in Nat
    BY LedgerIs DEF Of
  <2>2. Latest(S) = 0
    BY DEF NeedsUpgrade, Resolved
  <2> HIDE DEF S
  <2>3. S = {}
    BY <2>1, <2>2, LatestIn
  <2>4. QED
    BY <2>3 DEF S
<1>3. Of(ledger, "recovery-opened") = {}
  BY <1>2 DEF InRecovery
<1>4. QED
  BY <1>1, <1>3 DEF Opened, Latest

\* The gates before any step.
LEMMA DraftRuns ==
  ASSUME TaskInv, Said, ~InRecovery(ledger), ~NeedsUpgrade(ledger, contract),
         ~ContentDiffers(ledger, contract), ~GateMatches(ledger, contract),
         Drafting(ledger, contract),
         Advice(ledger, torn, contract, Accepted) = AdviceOnDraft(ledger, contract)
  PROVE  NextIsRunnable
<1> DEFINE advice == Advice(ledger, torn, contract, Accepted)
           numbered == RevisionIsNext /\ IdsAreNew
           compact == contract.mode = "compact"
           fresh == /\ Of(ledger, "step-started") = {} /\ Opened(ledger) = 0 /\ ~Pending(contract)
                    /\ contract.terms.capability.readiness = "ready"
           approved == TermsApproved(ledger, contract)
<1>1. \/ advice = "check-terms" /\ ~compact
      \/ advice \in {"resolve-capability", "write-plan"}
      \/ /\ advice = "check-compact" /\ compact /\ ~RecordMatches(ledger, contract)
         /\ Executable(contract) /\ ~Pending(contract)
      \/ /\ advice = "check-execution"
         /\ compact \/ (approved /\ Executable(contract) /\ ~Pending(contract))
  BY DEF AdviceOnDraft
<1>2. ~compact => contract.mode = "full"
  BY LedgerIs, ContractSteps
<1>3. CASE advice = "check-terms" /\ ~compact
  <2>1. numbered => MayCheckTerms
    BY <1>2, <1>3 DEF MayCheckTerms, MayCheck
  <2>2. QED
    BY <1>3, <2>1 DEF NextIsRunnable
<1>4. CASE advice \in {"resolve-capability", "write-plan"}
  BY <1>4 DEF NextIsRunnable
<1>5. CASE /\ advice = "check-compact" /\ compact /\ ~RecordMatches(ledger, contract)
           /\ Executable(contract) /\ ~Pending(contract)
  <2>1. ~HasApprovals(ledger)
    BY <1>5 DEF ContentDiffers
  <2>2. Of(ledger, "step-started") = {} /\ Opened(ledger) = 0
    BY <1>5, <2>1, CompactIsNew
  <2>3. \A s \in PlanIds(contract) : StepOf(contract, s).effect = "none"
    BY <1>5, LedgerIs, ContractSteps
  <2>4. numbered => MayCheckCompact \/ contract.terms.capability.readiness = "resolved"
    BY <1>5, <2>2, <2>3 DEF MayCheckCompact, MayCheck, Executable
  <2>5. QED
    BY <1>5, <2>4 DEF NextIsRunnable
<1>6. CASE /\ advice = "check-execution"
           /\ compact \/ (approved /\ Executable(contract) /\ ~Pending(contract))
  <2>1. numbered => MayCheckExecution \/ compact
    BY <1>6 DEF MayCheckExecution, MayCheck, LedgerAdmitsExecutionGate
  <2>2. numbered /\ compact /\ fresh => MayCheckCompact
    BY AnotherGate
  <2>3. QED
    BY <1>6, <2>1, <2>2 DEF NextIsRunnable
<1>7. QED
  BY <1>1, <1>3, <1>4, <1>5, <1>6

\* A step is current.
LEMMA StepRuns ==
  ASSUME TaskInv, Said, ~InRecovery(ledger), NEW s \in PlanIds(contract),
         IsCurrent(ledger, contract, s),
         Advice(ledger, torn, contract, Accepted) = AdviceOnStep(ledger, contract, s)
  PROVE  NextIsRunnable
<1> DEFINE advice == Advice(ledger, torn, contract, Accepted)
           numbered == RevisionIsNext /\ IdsAreNew
           status == Status(ledger, contract, s)
           fallback == HasFallback(contract) /\ ~FallbackUsed(ledger, contract.revision, s)
           plain == StepOf(contract, s).effect = "none"
           start == IF plain THEN "start-step" ELSE "check-action"
<1>1. s \in StepIds /\ s \in ToMove
  BY LedgerIs, ContractSteps DEF ToMove
<1>2. status \in {"pending", "running", "failed"}
  <2>1. status \notin Terminal
    BY DEF IsCurrent
  <2>2. QED
    BY <2>1, StatusIn DEF Terminal
<1>3. ExecutionAuthorized(ledger, contract)
  BY DEF IsCurrent, Executing, Drafting
<1>4. \/ advice = "reconcile-step" /\ status = "running"
      \/ advice = "assess-fallback" /\ status = "failed" /\ fallback
      \/ advice = start /\ status \in {"pending", "failed"}
      \/ advice = "ask-user"
  <2> DEFINE r == contract.revision
             retry == StepOf(contract, s).retrySafe
                      /\ Cardinality({i \in Attempts(ledger, r, s) : ledger[i].binding = "primary"}) < 2
             ready == StepOf(contract, s).after \subseteq
                        {d \in PlanIds(contract) : Status(ledger, contract, d) \in Terminal}
  <2>1. advice = CASE status = "running" -> "reconcile-step"
                   [] status = "failed" /\ fallback -> "assess-fallback"
                   [] status = "failed" /\ ~fallback -> IF retry THEN start ELSE "ask-user"
                   [] status = "pending" -> IF ready THEN start ELSE "ask-user"
    BY DEF AdviceOnStep
  <2> HIDE DEF advice, status, fallback, start, retry, ready
  <2>2. CASE status = "running"
    BY <2>1, <2>2
  <2>3. CASE status = "failed"
    BY <2>1, <2>3
  <2>4. CASE status = "pending"
    BY <2>1, <2>4
  <2>5. QED
    BY <1>2, <2>2, <2>3, <2>4
<1>5. CASE advice = "reconcile-step" /\ status = "running"
  <2>1. \E t \in StepIds : MayFinish(t)
    BY <1>5, RunningIs
  <2>2. QED
    BY <1>5, <2>1 DEF NextIsRunnable
<1>6. CASE advice = "assess-fallback" /\ status = "failed" /\ fallback
  <2>1. MayFallBack(s) \/ Owed(ledger, contract, s) \/ (numbered => MayCheckAction(s, "fallback"))
    BY <1>3, <1>6 DEF MayFallBack, MayCheckAction, MayCheck
  <2>2. QED
    BY <1>1, <1>6, <2>1 DEF NextIsRunnable
<1>7. CASE advice = start /\ plain
  <2>1. MayStart(s) \/ Owed(ledger, contract, s)
    BY <1>7 DEF MayStart
  <2>2. QED
    BY <1>1, <1>7, <2>1 DEF NextIsRunnable
<1>8. CASE advice = start /\ ~plain /\ status \in {"pending", "failed"}
  <2>1. numbered => MayCheckAction(s, "primary") \/ Owed(ledger, contract, s)
    BY <1>3, <1>8 DEF MayCheckAction, MayCheck
  <2>2. QED
    BY <1>1, <1>8, <2>1 DEF NextIsRunnable
<1>9. CASE advice = "ask-user"
  BY <1>9 DEF NextIsRunnable
<1>10. QED
  BY <1>4, <1>5, <1>6, <1>7, <1>8, <1>9

LEMMA NextRuns ==
  ASSUME TaskInv, Said
  PROVE  NextIsRunnable
<1> DEFINE advice == Advice(ledger, torn, contract, Accepted)
           s == CHOOSE x \in PlanIds(contract) : IsCurrent(ledger, contract, x)
<1>1. CASE advice \notin Named
  BY <1>1 DEF Named, NextIsRunnable
<1>2. CASE advice \in Named
  <2>1. /\ ~InRecovery(ledger) /\ ~NeedsUpgrade(ledger, contract)
        /\ \/ ContentDiffers(ledger, contract) /\ advice = AdviceOnMismatch(ledger, contract)
           \/ /\ ~ContentDiffers(ledger, contract) /\ ~GateMatches(ledger, contract)
              /\ Drafting(ledger, contract) /\ advice = AdviceOnDraft(ledger, contract)
           \/ /\ Executing(ledger, contract) /\ ~AllDone(ledger, contract)
              /\ advice = AdviceOnStep(ledger, contract, s)
    BY <1>2, AdviceIs
  <2>2. CASE ContentDiffers(ledger, contract) /\ advice = AdviceOnMismatch(ledger, contract)
    BY <2>1, <2>2, MismatchRuns
  <2>3. CASE /\ ~ContentDiffers(ledger, contract) /\ ~GateMatches(ledger, contract)
             /\ Drafting(ledger, contract) /\ advice = AdviceOnDraft(ledger, contract)
    BY <2>1, <2>3, DraftRuns
  <2>4. CASE /\ Executing(ledger, contract) /\ ~AllDone(ledger, contract)
             /\ advice = AdviceOnStep(ledger, contract, s)
    <3>1. \E x \in PlanIds(contract) : IsCurrent(ledger, contract, x)
      BY <2>4, LedgerIs, CurrentExists
    <3>2. s \in PlanIds(contract) /\ IsCurrent(ledger, contract, s)
      BY <3>1
    <3> HIDE DEF s
    <3>3. QED
      BY <2>1, <2>4, <3>2, StepRuns
  <2>5. QED
    BY <2>1, <2>2, <2>3, <2>4
<1>3. QED
  BY <1>1, <1>2

\* NextIsRunnable (superclarity.mjs:334): the command that `status` names is
\* accepted, with the exceptions the property states; the execution gate of a
\* compact contract, which is always refused, is one of them: another compact
\* gate is accepted instead, as long as nothing was started.
THEOREM RunnableTheorem == TaskSpec => []NextIsRunnable
<1>1. TaskInv /\ Said => NextIsRunnable
  BY NextRuns
<1>2. QED
  BY TaskInvHolds, SaidHolds, <1>1, PTL

=============================================================================
