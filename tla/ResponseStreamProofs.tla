------------------------ MODULE ResponseStreamProofs ------------------------
(***************************************************************************)
(* Proofs about ResponseStream, for any number of items and pieces: the    *)
(* output is well formed when the response completes, what was shown is    *)
(* never taken back, the speech in it is whole and in order, and the       *)
(* console and Teams answer alike.                                         *)
(*                                                                         *)
(* Each operation of the handler maps a response to the next one, so the   *)
(* proof is compositional: WellFormed is what every operation needs and    *)
(* leaves, Grows is what every operation does to what was shown before it, *)
(* and Grows is transitive.  What the operations add to the output is      *)
(* either speech of the item in progress or notes behind it (Noted, which  *)
(* is transitive too).                                                     *)
(***************************************************************************)
EXTENDS ResponseStream, TLAPS

(* The handler's variables point at open items of their kind.              *)
Pointing(s) ==
  /\ s.reasoning \in 0..Len(s.out) /\ s.message \in 0..Len(s.out)
  /\ s.reasoning # 0 => s.out[s.reasoning].kind = "reasoning" /\ s.out[s.reasoning].open
  /\ s.message # 0 => s.out[s.message].kind = "message" /\ s.out[s.message].open
  /\ \A p \in s.tools : /\ p[2] \in 1..Len(s.out)
                        /\ s.out[p[2]].kind = "tool" /\ s.out[p[2]].open

(* Nothing else is open.                                                   *)
Accounted(s) ==
  \A i \in 1..Len(s.out) :
    s.out[i].open => i = s.reasoning \/ i = s.message \/ \E p \in s.tools : p[2] = i

(* There is no other message, and its text is what the handler collected.  *)
OneMessage(s) ==
  /\ \A i \in 1..Len(s.out) : s.out[i].kind = "message" => i = s.message
  /\ s.message # 0 => s.out[s.message].text = s.output
  /\ s.message = 0 => s.output = <<>>

(* Calls that are still open are different items.                          *)
Separate(s) == \A p, q \in s.tools : p[2] = q[2] => p = q

Shaped(s) ==
  s \in Response /\ Pointing(s) /\ Accounted(s) /\ OneMessage(s) /\ Separate(s)

(* A message is opened only to write in it.                                *)
WellFormed(s) == Shaped(s) /\ (s.message # 0 => s.output # <<>>)

Grows(s, t) ==
  \A i \in 1..Len(s.out) :
    /\ i <= Len(t.out)
    /\ t.out[i].kind = s.out[i].kind
    /\ IsPrefixOf(s.out[i].text, t.out[i].text)
    /\ ~s.out[i].open => t.out[i] = s.out[i]

Concluded(s) ==
  /\ \A i \in 1..Len(s.out) : ~s.out[i].open
  /\ {i \in 1..Len(s.out) : s.out[i].kind = "message"} = {s.message}
  /\ s.out[s.message].text = s.output

-----------------------------------------------------------------------------
(* Sequences                                                               *)

(* Text appended to text leaves a prefix.                                  *)
LEMMA PrefixConcat ==
  ASSUME NEW S, NEW a \in Seq(S), NEW b \in Seq(S)
  PROVE  IsPrefixOf(a, a \o b) /\ a \o b \in Seq(S)
<1>1. a \o b \in Seq(S) /\ Len(a \o b) = Len(a) + Len(b) /\ Len(a) \in Nat /\ Len(b) \in Nat
  OBVIOUS
<1>2. SubSeq(a \o b, 1, Len(a)) = a
  BY <1>1
<1> QED
  BY <1>1, <1>2 DEF IsPrefixOf

(* Text is a prefix of itself.                                             *)
LEMMA PrefixReflexive ==
  ASSUME NEW S, NEW a \in Seq(S)
  PROVE  IsPrefixOf(a, a)
<1>1. SubSeq(a, 1, Len(a)) = a
  OBVIOUS
<1> QED
  BY <1>1 DEF IsPrefixOf

(* Being a prefix is transitive.                                           *)
LEMMA PrefixTransitive ==
  ASSUME NEW S, NEW a \in Seq(S), NEW b \in Seq(S), NEW c \in Seq(S),
         IsPrefixOf(a, b), IsPrefixOf(b, c)
  PROVE  IsPrefixOf(a, c)
<1>1. Len(a) <= Len(b) /\ Len(b) <= Len(c) /\ Len(a) \in Nat /\ Len(b) \in Nat /\ Len(c) \in Nat
  BY DEF IsPrefixOf
<1>2. \A k \in 1..Len(a) : a[k] = SubSeq(b, 1, Len(a))[k] /\ b[k] = SubSeq(c, 1, Len(b))[k]
  BY <1>1 DEF IsPrefixOf
<1>3. \A k \in 1..Len(a) : a[k] = c[k]
  BY <1>1, <1>2
<1>4. SubSeq(c, 1, Len(a)) = a
  BY <1>1, <1>3
<1> QED
  BY <1>1, <1>4 DEF IsPrefixOf

(* Text is its prefix and the rest of it.                                  *)
LEMMA PrefixAndRest ==
  ASSUME NEW S, NEW a \in Seq(S), NEW b \in Seq(S), IsPrefixOf(a, b)
  PROVE  a \o SubSeq(b, Len(a) + 1, Len(b)) = b
<1> DEFINE m == Len(a)
           rest == SubSeq(b, m + 1, Len(b))
<1>1. m \in Nat /\ Len(b) \in Nat /\ m <= Len(b) /\ SubSeq(b, 1, m) = a
  BY DEF IsPrefixOf
<1>2. \A i \in 1..m : a[i] = b[i]
  <2>1. \A i \in 1..m : SubSeq(b, 1, m)[i] = b[i]
    BY <1>1
  <2> QED
    BY <1>1, <2>1
<1> HIDE DEF m
<1>3. /\ rest \in Seq(S) /\ Len(rest) = Len(b) - m
      /\ \A i \in 1..Len(b) - m : rest[i] = b[m + i]
  BY <1>1
<1> HIDE DEF rest
<1>4. a \o rest \in Seq(S) /\ Len(a \o rest) = Len(b)
  BY <1>1, <1>3 DEF m
<1>5. ASSUME NEW i \in 1..Len(b)
      PROVE  (a \o rest)[i] = b[i]
  <2>1. CASE i <= m
    <3>1. i \in 1..m
      BY <1>1, <2>1
    <3>2. (a \o rest)[i] = a[i]
      BY <1>3, <3>1 DEF m
    <3> QED
      BY <1>2, <3>1, <3>2
  <2>2. CASE i > m
    <3>1. i - m \in 1..Len(b) - m /\ m + (i - m) = i
      BY <1>1, <2>2
    <3>2. (a \o rest)[i] = rest[i - m]
      BY <1>1, <1>3, <2>2, <3>1 DEF m
    <3> QED
      BY <1>3, <3>1, <3>2
  <2>3. i <= m \/ i > m
    BY <1>1
  <2> QED
    BY <2>1, <2>2, <2>3
<1>6. a \o rest = b
  BY <1>1, <1>4, <1>5
<1> QED
  BY <1>6 DEF m, rest

-----------------------------------------------------------------------------
(* What is shown                                                           *)

(* The items of a response are output items.                               *)
LEMMA ItemType ==
  ASSUME NEW s \in Response, NEW i \in 1..Len(s.out)
  PROVE  s.out[i] \in OutputItem /\ s.out[i].text \in Seq(Pieces)
<1>1. s.out \in Seq(OutputItem)
  BY DEF Response
<1>2. s.out[i] \in OutputItem
  BY <1>1
<1> QED
  BY <1>2 DEF OutputItem

(* Doing nothing takes nothing back.                                       *)
LEMMA GrowsReflexive ==
  ASSUME NEW s \in Response
  PROVE  Grows(s, s)
<1>1. \A i \in 1..Len(s.out) : s.out[i].text \in Seq(Pieces)
  BY ItemType
<1>2. \A i \in 1..Len(s.out) : IsPrefixOf(s.out[i].text, s.out[i].text)
  BY <1>1, PrefixReflexive
<1>3. Len(s.out) \in Nat
  BY DEF Response
<1> QED
  BY <1>2, <1>3 DEF Grows

(* Neither do two operations of which neither does.                        *)
LEMMA GrowsTransitive ==
  ASSUME NEW s \in Response, NEW t \in Response, NEW u \in Response,
         Grows(s, t), Grows(t, u)
  PROVE  Grows(s, u)
<1> SUFFICES ASSUME NEW i \in 1..Len(s.out)
             PROVE  /\ i <= Len(u.out)
                    /\ u.out[i].kind = s.out[i].kind
                    /\ IsPrefixOf(s.out[i].text, u.out[i].text)
                    /\ ~s.out[i].open => u.out[i] = s.out[i]
  BY DEF Grows
<1>1. s.out \in Seq(OutputItem) /\ t.out \in Seq(OutputItem) /\ u.out \in Seq(OutputItem)
  BY DEF Response
<1>2. i \in 1..Len(t.out) /\ i \in 1..Len(u.out)
  BY <1>1 DEF Grows
<1>3. s.out[i].text \in Seq(Pieces) /\ t.out[i].text \in Seq(Pieces) /\ u.out[i].text \in Seq(Pieces)
  BY <1>2, ItemType
<1>4. IsPrefixOf(s.out[i].text, u.out[i].text)
  BY <1>2, <1>3, PrefixTransitive DEF Grows
<1> QED
  BY <1>2, <1>4 DEF Grows

-----------------------------------------------------------------------------
(* The three primitive operations, field by field                          *)

(* Adding an item puts an open, empty one behind the others.               *)
LEMMA AddFields ==
  ASSUME NEW s \in Response, NEW kind \in {"reasoning", "tool", "message"}
  PROVE  LET t == Add(s, kind) IN
         /\ t \in Response /\ Grows(s, t)
         /\ Len(t.out) = Len(s.out) + 1
         /\ \A i \in 1..Len(s.out) : t.out[i] = s.out[i]
         /\ t.out[Len(s.out) + 1] = [kind |-> kind, open |-> TRUE, text |-> <<>>]
         /\ t.reasoning = s.reasoning /\ t.message = s.message
         /\ t.tools = s.tools /\ t.output = s.output
<1> DEFINE item == [kind |-> kind, open |-> TRUE, text |-> <<>>]
           t == Add(s, kind)
<1>1. item \in OutputItem
  BY DEF OutputItem
<1>2. s.out \in Seq(OutputItem) /\ Len(s.out) \in Nat
  BY DEF Response
<1>3. t.out = Append(s.out, item) /\ t = [s EXCEPT !.out = Append(s.out, item)]
  BY DEF Add, Response
<1>4. Append(s.out, item) \in Seq(OutputItem) /\ Len(Append(s.out, item)) = Len(s.out) + 1
      /\ Append(s.out, item)[Len(s.out) + 1] = item
      /\ \A i \in 1..Len(s.out) : Append(s.out, item)[i] = s.out[i]
  BY <1>1, <1>2
<1>5. t \in Response /\ t.reasoning = s.reasoning /\ t.message = s.message
      /\ t.tools = s.tools /\ t.output = s.output
  BY <1>3, <1>4 DEF Response
<1>6. \A i \in 1..Len(s.out) : IsPrefixOf(s.out[i].text, s.out[i].text)
  BY ItemType, PrefixReflexive
<1>7. Grows(s, t)
  BY <1>2, <1>3, <1>4, <1>6 DEF Grows
<1> QED
  BY <1>3, <1>4, <1>5, <1>7

(* Writing lengthens the text of one open item.                            *)
LEMMA WriteFields ==
  ASSUME NEW s \in Response, NEW i \in 1..Len(s.out), s.out[i].open,
         NEW text \in Seq(Pieces)
  PROVE  LET t == Write(s, i, text) IN
         /\ t \in Response /\ Grows(s, t)
         /\ Len(t.out) = Len(s.out)
         /\ \A j \in 1..Len(s.out) : t.out[j].kind = s.out[j].kind /\ (t.out[j].open <=> s.out[j].open)
         /\ \A j \in 1..Len(s.out) : j # i => t.out[j] = s.out[j]
         /\ t.out[i].text = s.out[i].text \o text
         /\ t.reasoning = s.reasoning /\ t.message = s.message
         /\ t.tools = s.tools /\ t.output = s.output
<1> DEFINE t == Write(s, i, text)
           item == [s.out[i] EXCEPT !.text = s.out[i].text \o text]
<1>1. s.out \in Seq(OutputItem) /\ Len(s.out) \in Nat /\ s.out[i] \in OutputItem
  BY ItemType DEF Response
<1>2. s.out[i].text \in Seq(Pieces) /\ s.out[i].text \o text \in Seq(Pieces)
      /\ IsPrefixOf(s.out[i].text, s.out[i].text \o text)
  BY ItemType, PrefixConcat
<1>3. item \in OutputItem /\ item.text = s.out[i].text \o text
      /\ item.kind = s.out[i].kind /\ item.open = s.out[i].open
  BY <1>1, <1>2 DEF OutputItem
<1>4. t = [s EXCEPT !.out = [s.out EXCEPT ![i] = item]]
  BY DEF Write
<1> DEFINE out == [s.out EXCEPT ![i] = item]
<1>5. out \in Seq(OutputItem) /\ Len(out) = Len(s.out) /\ out[i] = item
      /\ \A j \in 1..Len(s.out) : j # i => out[j] = s.out[j]
  BY <1>1, <1>3
<1> HIDE DEF item, out
<1>6. t.out = out /\ t \in Response /\ t.reasoning = s.reasoning /\ t.message = s.message
      /\ t.tools = s.tools /\ t.output = s.output
  BY <1>4, <1>5 DEF Response, out
<1> HIDE DEF t
<1>7. \A j \in 1..Len(s.out) : t.out[j].kind = s.out[j].kind /\ (t.out[j].open <=> s.out[j].open)
  BY <1>3, <1>5, <1>6
<1>8. \A j \in 1..Len(s.out) : IsPrefixOf(s.out[j].text, t.out[j].text)
  BY <1>2, <1>3, <1>5, <1>6, ItemType, PrefixReflexive
<1>9. Grows(s, t)
  BY <1>1, <1>5, <1>6, <1>7, <1>8 DEF Grows
<1> QED
  BY <1>3, <1>5, <1>6, <1>7, <1>9 DEF t

(* Closing changes nothing but whether items are open.                     *)
LEMMA CloseFields ==
  ASSUME NEW s \in Response, NEW positions
  PROVE  LET t == Close(s, positions) IN
         /\ t \in Response /\ Grows(s, t)
         /\ Len(t.out) = Len(s.out)
         /\ \A i \in 1..Len(s.out) :
              /\ t.out[i].kind = s.out[i].kind /\ t.out[i].text = s.out[i].text
              /\ t.out[i].open <=> s.out[i].open /\ i \notin positions
         /\ t.reasoning = s.reasoning /\ t.message = s.message
         /\ t.tools = s.tools /\ t.output = s.output
<1> DEFINE closed(i) == [s.out[i] EXCEPT !.open = FALSE]
           out == [i \in 1..Len(s.out) |-> IF i \in positions THEN closed(i) ELSE s.out[i]]
           t == Close(s, positions)
<1>1. s.out \in Seq(OutputItem) /\ Len(s.out) \in Nat /\ DOMAIN s.out = 1..Len(s.out)
  BY DEF Response
<1>2. \A i \in 1..Len(s.out) : s.out[i] \in OutputItem
  BY ItemType
<1>3. \A i \in 1..Len(s.out) :
        /\ closed(i) \in OutputItem /\ closed(i).kind = s.out[i].kind
        /\ closed(i).text = s.out[i].text /\ closed(i).open = FALSE
        /\ ~s.out[i].open => closed(i) = s.out[i]
  BY <1>2 DEF OutputItem
<1>4. t = [s EXCEPT !.out = out]
  BY <1>1 DEF Close
<1> HIDE DEF closed
<1>5. out \in Seq(OutputItem) /\ Len(out) = Len(s.out)
      /\ \A i \in 1..Len(s.out) : out[i] = IF i \in positions THEN closed(i) ELSE s.out[i]
  BY <1>1, <1>2, <1>3
<1> HIDE DEF out
<1>6. t.out = out /\ t \in Response /\ t.reasoning = s.reasoning /\ t.message = s.message
      /\ t.tools = s.tools /\ t.output = s.output
  BY <1>4, <1>5 DEF Response
<1> HIDE DEF t
<1>7. \A i \in 1..Len(s.out) :
        /\ t.out[i].kind = s.out[i].kind /\ t.out[i].text = s.out[i].text
        /\ ~s.out[i].open => t.out[i] = s.out[i]
        /\ t.out[i].open <=> s.out[i].open /\ i \notin positions
  <2> SUFFICES ASSUME NEW i \in 1..Len(s.out)
               PROVE  /\ t.out[i].kind = s.out[i].kind /\ t.out[i].text = s.out[i].text
                      /\ ~s.out[i].open => t.out[i] = s.out[i]
                      /\ t.out[i].open <=> s.out[i].open /\ i \notin positions
    OBVIOUS
  <2>1. s.out[i].open \in BOOLEAN
    BY <1>2 DEF OutputItem
  <2>2. CASE i \in positions
    BY <1>3, <1>5, <1>6, <2>2
  <2>3. CASE i \notin positions
    BY <1>5, <1>6, <2>1, <2>3
  <2> QED
    BY <2>2, <2>3
<1>8. \A i \in 1..Len(s.out) : IsPrefixOf(s.out[i].text, t.out[i].text)
  BY <1>7, ItemType, PrefixReflexive
<1>9. Grows(s, t)
  BY <1>1, <1>5, <1>6, <1>7, <1>8 DEF Grows
<1> QED
  BY <1>5, <1>6, <1>7, <1>9 DEF t

-----------------------------------------------------------------------------
(* The handler's operations                                                *)

(* A new message is the only one when the response has none.               *)
LEMMA NewMessageKeeps ==
  ASSUME NEW s, Shaped(s), s.message = 0
  PROVE  LET t == NewMessage(s) IN
         /\ Shaped(t) /\ Grows(s, t) /\ t.message # 0 /\ t.output = s.output
         /\ t.reasoning = s.reasoning /\ t.tools = s.tools
<1> DEFINE a == Add(s, "message")
           t == NewMessage(s)
<1>0. s.output = <<>>
  BY DEF Shaped, OneMessage
<1>1. s \in Response /\ Len(s.out) \in Nat
  BY DEF Shaped, Response
<1>2. /\ a \in Response /\ Grows(s, a) /\ Len(a.out) = Len(s.out) + 1
      /\ \A i \in 1..Len(s.out) : a.out[i] = s.out[i]
      /\ a.out[Len(s.out) + 1] = [kind |-> "message", open |-> TRUE, text |-> <<>>]
      /\ a.reasoning = s.reasoning /\ a.tools = s.tools /\ a.output = s.output
  BY <1>1, AddFields
<1>3. t = [a EXCEPT !.message = Len(s.out) + 1]
  BY DEF NewMessage
<1> HIDE DEF a
<1>4. /\ t \in Response /\ t.out = a.out /\ t.message = Len(s.out) + 1
      /\ t.reasoning = a.reasoning /\ t.tools = a.tools /\ t.output = a.output
  BY <1>1, <1>2, <1>3 DEF Response
<1> HIDE DEF t
<1>5. Grows(s, t)
  BY <1>2, <1>4 DEF Grows
<1>6. Pointing(t)
  BY <1>1, <1>2, <1>4 DEF Shaped, Pointing
<1>7. Accounted(t)
  BY <1>1, <1>2, <1>4 DEF Shaped, Accounted
<1>8. OneMessage(t)
  BY <1>0, <1>1, <1>2, <1>4 DEF Shaped, OneMessage
<1> QED
  BY <1>1, <1>2, <1>4, <1>5, <1>6, <1>7, <1>8 DEF Shaped, Separate, t

(* Text is said in the one message and in the collected output alike.      *)
LEMMA SayKeeps ==
  ASSUME NEW s, Shaped(s), NEW text \in Seq(Pieces), text # <<>>
  PROVE  LET t == Say(s, text) IN
         /\ WellFormed(t) /\ Grows(s, t) /\ t.message # 0
         /\ t.output = s.output \o text /\ t.output # <<>>
         /\ t.reasoning = s.reasoning /\ t.tools = s.tools
<1> DEFINE o == OpenMessage(s)
           w == Write(o, o.message, text)
           t == Say(s, text)
<1>1. /\ Shaped(o) /\ Grows(s, o) /\ o.message # 0 /\ o.output = s.output
      /\ o.reasoning = s.reasoning /\ o.tools = s.tools
  <2>1. CASE s.message = 0
    BY <2>1, NewMessageKeeps DEF OpenMessage
  <2>2. CASE s.message # 0
    BY <2>2, GrowsReflexive DEF OpenMessage, Shaped
  <2> QED
    BY <2>1, <2>2
<1> HIDE DEF o
<1>2. /\ o \in Response /\ o.message \in 1..Len(o.out) /\ o.out[o.message].open
      /\ o.out[o.message].text = o.output /\ o.output \in Seq(Pieces) /\ Len(o.out) \in Nat
  BY <1>1 DEF Shaped, Pointing, OneMessage, Response
<1>3. /\ w \in Response /\ Grows(o, w) /\ Len(w.out) = Len(o.out)
      /\ \A j \in 1..Len(o.out) : w.out[j].kind = o.out[j].kind /\ (w.out[j].open <=> o.out[j].open)
      /\ w.out[o.message].text = o.output \o text
      /\ w.reasoning = o.reasoning /\ w.message = o.message
      /\ w.tools = o.tools /\ w.output = o.output
  <2> DEFINE i == o.message
  <2>1. i \in 1..Len(o.out) /\ o.out[i].open /\ o.out[i].text = o.output
    BY <1>2
  <2> HIDE DEF i
  <2>2. LET v == Write(o, i, text) IN
        /\ v \in Response /\ Grows(o, v) /\ Len(v.out) = Len(o.out)
        /\ \A j \in 1..Len(o.out) : v.out[j].kind = o.out[j].kind /\ (v.out[j].open <=> o.out[j].open)
        /\ v.out[i].text = o.out[i].text \o text
        /\ v.reasoning = o.reasoning /\ v.message = o.message
        /\ v.tools = o.tools /\ v.output = o.output
    BY <1>2, <2>1, WriteFields
  <2> QED
    BY <2>1, <2>2 DEF i
<1>4. t = [w EXCEPT !.output = w.output \o text]
  BY DEF Say, o
<1>5. o.output \o text \in Seq(Pieces) /\ o.output \o text # <<>>
  BY <1>2
<1> HIDE DEF w
<1>6. /\ t \in Response /\ t.out = w.out /\ t.output = o.output \o text
      /\ t.reasoning = w.reasoning /\ t.message = w.message /\ t.tools = w.tools
  BY <1>3, <1>4, <1>5 DEF Response
<1> HIDE DEF t
<1>7. Shaped(t)
  <2>1. Pointing(t)
    <3>1. Pointing(o) /\ t.message = o.message /\ t.reasoning = o.reasoning /\ t.tools = o.tools
      BY <1>1, <1>3, <1>6 DEF Shaped
    <3>2. Len(t.out) = Len(o.out)
          /\ \A j \in 1..Len(o.out) : t.out[j].kind = o.out[j].kind /\ (t.out[j].open <=> o.out[j].open)
      BY <1>3, <1>6
    <3>3. t.reasoning # 0 => t.out[t.reasoning].kind = "reasoning" /\ t.out[t.reasoning].open
      <4>1. o.reasoning # 0 => o.reasoning \in 1..Len(o.out)
        BY <1>2, <3>1 DEF Pointing
      <4> QED
        BY <3>1, <3>2, <4>1 DEF Pointing
    <3>4. t.out[t.message].kind = "message" /\ t.out[t.message].open
      BY <1>2, <3>1, <3>2 DEF Pointing
    <3>5. \A p \in t.tools : /\ p[2] \in 1..Len(t.out)
                             /\ t.out[p[2]].kind = "tool" /\ t.out[p[2]].open
      BY <3>1, <3>2 DEF Pointing
    <3> QED
      BY <3>1, <3>2, <3>3, <3>4, <3>5 DEF Pointing
  <2>2. Accounted(t)
    BY <1>1, <1>2, <1>3, <1>6 DEF Shaped, Accounted
  <2>3. OneMessage(t)
    BY <1>1, <1>2, <1>3, <1>6 DEF Shaped, OneMessage
  <2> QED
    BY <1>1, <1>3, <1>6, <2>1, <2>2, <2>3 DEF Shaped, Separate
<1>8. Grows(o, t)
  BY <1>3, <1>6 DEF Grows
<1>9. Grows(s, t)
  BY <1>1, <1>2, <1>6, <1>8, GrowsTransitive DEF Shaped
<1> QED
  BY <1>1, <1>3, <1>5, <1>6, <1>7, <1>9 DEF WellFormed, t

(* Closing the reasoning item leaves none.                                 *)
LEMMA CloseReasoningKeeps ==
  ASSUME NEW s, WellFormed(s)
  PROVE  LET t == CloseReasoning(s) IN
         /\ WellFormed(t) /\ Grows(s, t) /\ t.reasoning = 0
         /\ t.message = s.message /\ t.tools = s.tools /\ t.output = s.output
<1> DEFINE c == Close(s, {s.reasoning})
           t == CloseReasoning(s)
<1>1. s \in Response /\ Len(s.out) \in Nat
  BY DEF WellFormed, Shaped, Response
<1>2. /\ c \in Response /\ Grows(s, c) /\ Len(c.out) = Len(s.out)
      /\ \A i \in 1..Len(s.out) :
           /\ c.out[i].kind = s.out[i].kind /\ c.out[i].text = s.out[i].text
           /\ c.out[i].open <=> s.out[i].open /\ i # s.reasoning
      /\ c.message = s.message /\ c.tools = s.tools /\ c.output = s.output
  BY <1>1, CloseFields
<1>3. t = [c EXCEPT !.reasoning = 0]
  BY DEF CloseReasoning
<1> HIDE DEF c
<1>4. /\ t \in Response /\ t.out = c.out /\ t.reasoning = 0 /\ t.message = c.message
      /\ t.tools = c.tools /\ t.output = c.output
  BY <1>2, <1>3 DEF Response
<1> HIDE DEF t
<1>5. Grows(s, t)
  BY <1>2, <1>4 DEF Grows
<1>6. Shaped(t)
  <2>1. \A p \in s.tools : /\ p[2] \in 1..Len(s.out) /\ p[2] # s.reasoning
                           /\ s.out[p[2]].kind = "tool" /\ s.out[p[2]].open
    BY DEF WellFormed, Shaped, Pointing
  <2>2. s.message # 0 => s.message \in 1..Len(s.out) /\ s.message # s.reasoning
    BY <1>1 DEF WellFormed, Shaped, Pointing
  <2>3. Pointing(t)
    BY <1>1, <1>2, <1>4, <2>1, <2>2 DEF WellFormed, Shaped, Pointing
  <2>4. Accounted(t)
    BY <1>1, <1>2, <1>4 DEF WellFormed, Shaped, Accounted
  <2>5. OneMessage(t)
    BY <1>1, <1>2, <1>4, <2>2 DEF WellFormed, Shaped, OneMessage
  <2>6. Separate(t)
    BY <1>2, <1>4 DEF WellFormed, Shaped, Separate
  <2> QED
    BY <1>4, <2>3, <2>4, <2>5, <2>6 DEF Shaped
<1> QED
  BY <1>2, <1>4, <1>5, <1>6 DEF WellFormed, t

(* Opening a reasoning item when there is none.                            *)
LEMMA OpenReasoningKeeps ==
  ASSUME NEW s, WellFormed(s), s.reasoning = 0
  PROVE  LET t == OpenReasoning(s) IN
         WellFormed(t) /\ Grows(s, t) /\ t.reasoning # 0 /\ t.output = s.output
<1> DEFINE a == Add(s, "reasoning")
           t == OpenReasoning(s)
<1>1. s \in Response /\ Len(s.out) \in Nat
  BY DEF WellFormed, Shaped, Response
<1>2. /\ a \in Response /\ Grows(s, a) /\ Len(a.out) = Len(s.out) + 1
      /\ \A i \in 1..Len(s.out) : a.out[i] = s.out[i]
      /\ a.out[Len(s.out) + 1] = [kind |-> "reasoning", open |-> TRUE, text |-> <<>>]
      /\ a.message = s.message /\ a.tools = s.tools /\ a.output = s.output
  BY <1>1, AddFields
<1>3. t = [a EXCEPT !.reasoning = Len(s.out) + 1]
  BY DEF OpenReasoning
<1> HIDE DEF a
<1>4. /\ t \in Response /\ t.out = a.out /\ t.reasoning = Len(s.out) + 1
      /\ t.message = a.message /\ t.tools = a.tools /\ t.output = a.output
  BY <1>1, <1>2, <1>3 DEF Response
<1> HIDE DEF t
<1>5. Grows(s, t)
  BY <1>2, <1>4 DEF Grows
<1>6. Pointing(t)
  <2>1. Pointing(s) /\ t.message = s.message /\ t.tools = s.tools
    BY <1>2, <1>4 DEF WellFormed, Shaped
  <2>2. Len(t.out) = Len(s.out) + 1 /\ \A i \in 1..Len(s.out) : t.out[i] = s.out[i]
    BY <1>2, <1>4
  <2>3. t.reasoning = Len(s.out) + 1 /\ t.out[t.reasoning].kind = "reasoning" /\ t.out[t.reasoning].open
    BY <1>2, <1>4
  <2> QED
    BY <1>1, <2>1, <2>2, <2>3 DEF Pointing
<1>7. Accounted(t)
  BY <1>1, <1>2, <1>4 DEF WellFormed, Shaped, Accounted
<1>8. OneMessage(t)
  <2>1. t.message # 0 => t.message \in 1..Len(s.out)
    BY <1>1, <1>2, <1>4 DEF WellFormed, Shaped, Pointing
  <2> QED
    BY <1>1, <1>2, <1>4, <2>1 DEF WellFormed, Shaped, OneMessage
<1> QED
  BY <1>1, <1>2, <1>4, <1>5, <1>6, <1>7, <1>8 DEF WellFormed, Shaped, Separate, t

(* Writing in the open reasoning item.                                     *)
LEMMA WriteReasoningKeeps ==
  ASSUME NEW s, WellFormed(s), s.reasoning # 0, NEW text \in Seq(Pieces)
  PROVE  LET t == Write(s, s.reasoning, text) IN
         WellFormed(t) /\ Grows(s, t) /\ t.output = s.output
<1> DEFINE t == Write(s, s.reasoning, text)
<1>1. /\ s \in Response /\ s.reasoning \in 1..Len(s.out) /\ s.out[s.reasoning].open
      /\ Len(s.out) \in Nat /\ s.out[s.reasoning].kind = "reasoning"
  BY DEF WellFormed, Shaped, Pointing, Response
<1>2. /\ t \in Response /\ Grows(s, t) /\ Len(t.out) = Len(s.out)
      /\ \A j \in 1..Len(s.out) : t.out[j].kind = s.out[j].kind /\ (t.out[j].open <=> s.out[j].open)
      /\ \A j \in 1..Len(s.out) : j # s.reasoning => t.out[j] = s.out[j]
      /\ t.reasoning = s.reasoning /\ t.message = s.message
      /\ t.tools = s.tools /\ t.output = s.output
  BY <1>1, WriteFields
<1> HIDE DEF t
<1>3. s.message # s.reasoning /\ (s.message # 0 => s.message \in 1..Len(s.out))
  BY <1>1 DEF WellFormed, Shaped, Pointing
<1>4. Pointing(t)
  BY <1>1, <1>2 DEF WellFormed, Shaped, Pointing
<1>5. Accounted(t)
  BY <1>1, <1>2 DEF WellFormed, Shaped, Accounted
<1>6. OneMessage(t)
  BY <1>1, <1>2, <1>3 DEF WellFormed, Shaped, OneMessage
<1> QED
  BY <1>2, <1>4, <1>5, <1>6 DEF WellFormed, Shaped, Separate, t

(* A tool call is put behind the other items.                              *)
LEMMA OpenToolKeeps ==
  ASSUME NEW s, WellFormed(s), NEW item \in Items
  PROVE  LET t == OpenTool(s, item) IN
         WellFormed(t) /\ Grows(s, t) /\ t.output = s.output
<1> DEFINE a == Add(s, "tool")
           call == <<item, Len(s.out) + 1>>
           t == OpenTool(s, item)
<1>1. s \in Response /\ Len(s.out) \in Nat /\ s.tools \subseteq Items \X Nat
      /\ call \in Items \X Nat /\ call[2] = Len(s.out) + 1
  BY DEF WellFormed, Shaped, Response
<1>2. /\ a \in Response /\ Grows(s, a) /\ Len(a.out) = Len(s.out) + 1
      /\ \A i \in 1..Len(s.out) : a.out[i] = s.out[i]
      /\ a.out[Len(s.out) + 1] = [kind |-> "tool", open |-> TRUE, text |-> <<>>]
      /\ a.reasoning = s.reasoning /\ a.message = s.message /\ a.tools = s.tools
      /\ a.output = s.output
  BY <1>1, AddFields
<1>3. t = [a EXCEPT !.tools = a.tools \union {call}]
  BY DEF OpenTool
<1> HIDE DEF a, call
<1>4. /\ t \in Response /\ t.out = a.out /\ t.tools = s.tools \union {call}
      /\ t.reasoning = a.reasoning /\ t.message = a.message /\ t.output = a.output
  <2> DEFINE tools == s.tools \union {call}
  <2>1. tools \in SUBSET (Items \X Nat)
    BY <1>1
  <2>2. t = [a EXCEPT !.tools = tools]
    BY <1>2, <1>3
  <2> HIDE DEF tools, t
  <2>3. /\ t \in Response /\ t.out = a.out /\ t.tools = tools
        /\ t.reasoning = a.reasoning /\ t.message = a.message /\ t.output = a.output
    BY <1>2, <2>1, <2>2 DEF Response
  <2> QED
    BY <2>3 DEF tools
<1> HIDE DEF t
<1>5. Grows(s, t)
  BY <1>2, <1>4 DEF Grows
<1>6. Pointing(t)
  <2>1. Pointing(s) /\ t.message = s.message /\ t.reasoning = s.reasoning
    BY <1>2, <1>4 DEF WellFormed, Shaped
  <2>2. Len(t.out) = Len(s.out) + 1 /\ \A i \in 1..Len(s.out) : t.out[i] = s.out[i]
    BY <1>2, <1>4
  <2>3. \A p \in s.tools : /\ p[2] \in 1..Len(t.out)
                           /\ t.out[p[2]].kind = "tool" /\ t.out[p[2]].open
    BY <1>1, <2>1, <2>2 DEF Pointing
  <2>4. call[2] \in 1..Len(t.out) /\ t.out[call[2]].kind = "tool" /\ t.out[call[2]].open
    BY <1>1, <1>2, <1>4
  <2>5. \A p \in t.tools : /\ p[2] \in 1..Len(t.out)
                           /\ t.out[p[2]].kind = "tool" /\ t.out[p[2]].open
    BY <1>4, <2>3, <2>4
  <2>6. /\ s.reasoning # 0 => t.out[s.reasoning] = s.out[s.reasoning]
        /\ s.message # 0 => t.out[s.message] = s.out[s.message]
    BY <1>1, <2>1, <2>2 DEF Pointing
  <2>7. s.reasoning \in 0..Len(t.out) /\ s.message \in 0..Len(t.out)
    BY <1>1, <2>1, <2>2 DEF Pointing
  <2> QED
    BY <2>1, <2>5, <2>6, <2>7 DEF Pointing
<1>7. Accounted(t)
  <2> SUFFICES ASSUME NEW i \in 1..Len(t.out), t.out[i].open
               PROVE  i = t.reasoning \/ i = t.message \/ \E p \in t.tools : p[2] = i
    BY DEF Accounted
  <2>1. CASE i = Len(s.out) + 1
    BY <1>1, <1>4, <2>1
  <2>2. CASE i # Len(s.out) + 1
    <3>1. i \in 1..Len(s.out) /\ s.out[i].open
      BY <1>1, <1>2, <1>4, <2>2
    <3>2. i = s.reasoning \/ i = s.message \/ \E p \in s.tools : p[2] = i
      BY <3>1 DEF WellFormed, Shaped, Accounted
    <3> QED
      BY <1>2, <1>4, <3>2
  <2> QED
    BY <2>1, <2>2
<1>8. OneMessage(t)
  <2>1. t.message # 0 => t.message \in 1..Len(s.out)
    BY <1>1, <1>2, <1>4 DEF WellFormed, Shaped, Pointing
  <2> QED
    BY <1>1, <1>2, <1>4, <2>1 DEF WellFormed, Shaped, OneMessage
<1>9. Separate(t)
  <2>1. \A p \in s.tools : p[2] # call[2]
    BY <1>1 DEF WellFormed, Shaped, Pointing
  <2> QED
    BY <1>4, <2>1 DEF WellFormed, Shaped, Separate
<1> QED
  BY <1>2, <1>4, <1>5, <1>6, <1>7, <1>8, <1>9 DEF WellFormed, Shaped, t

(* Closing the calls of some items leaves the others open.                 *)
LEMMA CloseToolsKeeps ==
  ASSUME NEW s, WellFormed(s), NEW items
  PROVE  LET t == CloseTools(s, items) IN
         /\ WellFormed(t) /\ Grows(s, t)
         /\ t.reasoning = s.reasoning /\ t.message = s.message /\ t.output = s.output
         /\ t.tools = s.tools \ CallsOf(s, items)
<1> DEFINE calls == CallsOf(s, items)
           positions == {p[2] : p \in calls}
           c == Close(s, positions)
           t == CloseTools(s, items)
<1>1. s \in Response /\ Len(s.out) \in Nat /\ calls \subseteq s.tools
  BY DEF WellFormed, Shaped, Response, CallsOf
<1>2. \A p \in s.tools \ calls : p[2] \notin positions
  BY <1>1 DEF WellFormed, Shaped, Separate
<1>3. \A i \in positions : i \in 1..Len(s.out) /\ s.out[i].kind = "tool"
  BY <1>1 DEF WellFormed, Shaped, Pointing
<1>4. \A p \in calls : p[2] \in positions
  OBVIOUS
<1>5. \A i \in positions : \E p \in calls : p[2] = i
  OBVIOUS
<1>6. t = [c EXCEPT !.tools = c.tools \ calls]
  BY DEF CloseTools
<1> HIDE DEF calls, positions
<1>7. /\ c \in Response /\ Grows(s, c) /\ Len(c.out) = Len(s.out)
      /\ \A i \in 1..Len(s.out) :
           /\ c.out[i].kind = s.out[i].kind /\ c.out[i].text = s.out[i].text
           /\ c.out[i].open <=> s.out[i].open /\ i \notin positions
      /\ c.reasoning = s.reasoning /\ c.message = s.message
      /\ c.tools = s.tools /\ c.output = s.output
  BY <1>1, CloseFields
<1> HIDE DEF c
<1>8. /\ t \in Response /\ t.out = c.out /\ t.tools = s.tools \ calls
      /\ t.reasoning = s.reasoning /\ t.message = s.message /\ t.output = s.output
  BY <1>6, <1>7 DEF Response
<1> HIDE DEF t
<1>9. Grows(s, t)
  BY <1>7, <1>8 DEF Grows
<1>10. Pointing(t)
  <2>1. Pointing(s)
    BY DEF WellFormed, Shaped
  <2>2. \A p \in t.tools : /\ p[2] \in 1..Len(t.out)
                           /\ t.out[p[2]].kind = "tool" /\ t.out[p[2]].open
    BY <1>2, <1>7, <1>8, <2>1 DEF Pointing
  <2>3. /\ s.reasoning \in 0..Len(s.out) /\ s.message \in 0..Len(s.out)
        /\ s.reasoning # 0 => s.reasoning \in 1..Len(s.out) \ positions
        /\ s.message # 0 => s.message \in 1..Len(s.out) \ positions
    BY <1>1, <1>3, <2>1 DEF Pointing
  <2> QED
    BY <1>7, <1>8, <2>1, <2>2, <2>3 DEF Pointing
<1>11. Accounted(t)
  <2> SUFFICES ASSUME NEW i \in 1..Len(t.out), t.out[i].open
               PROVE  i = t.reasoning \/ i = t.message \/ \E p \in t.tools : p[2] = i
    BY DEF Accounted
  <2>1. i \in 1..Len(s.out) /\ s.out[i].open /\ i \notin positions
    BY <1>7, <1>8
  <2>2. i = s.reasoning \/ i = s.message \/ \E p \in s.tools : p[2] = i
    BY <2>1 DEF WellFormed, Shaped, Accounted
  <2> QED
    BY <1>4, <1>8, <2>1, <2>2
<1>12. OneMessage(t)
  <2>1. s.message # 0 => s.message \in 1..Len(s.out)
    BY <1>1 DEF WellFormed, Shaped, Pointing
  <2> QED
    BY <1>7, <1>8, <2>1 DEF WellFormed, Shaped, OneMessage
<1>13. Separate(t)
  BY <1>8 DEF WellFormed, Shaped, Separate
<1> QED
  BY <1>8, <1>9, <1>10, <1>11, <1>12, <1>13 DEF WellFormed, Shaped, t, calls

(* After the last event no reasoning and no call stays open.               *)
LEMMA CloseCallsKeeps ==
  ASSUME NEW s, WellFormed(s)
  PROVE  LET t == CloseCalls(s) IN
         WellFormed(t) /\ Grows(s, t) /\ t.reasoning = 0 /\ t.tools = {} /\ t.output = s.output
<1> DEFINE r == CloseReasoning(s)
           t == CloseCalls(s)
<1>1. WellFormed(r) /\ Grows(s, r) /\ r.reasoning = 0 /\ r.output = s.output
  BY CloseReasoningKeeps
<1> HIDE DEF r
<1>2. /\ WellFormed(t) /\ Grows(r, t) /\ t.reasoning = r.reasoning
      /\ t.tools = r.tools \ CallsOf(r, Items) /\ t.output = r.output
  BY <1>1, CloseToolsKeeps DEF CloseCalls, r
<1> HIDE DEF t
<1>3. r.tools \subseteq Items \X Nat
  BY <1>1 DEF WellFormed, Shaped, Response
<1>4. t.tools = {}
  BY <1>2, <1>3 DEF CallsOf
<1>5. Grows(s, t)
  BY <1>1, <1>2, GrowsTransitive DEF WellFormed, Shaped
<1> QED
  BY <1>1, <1>2, <1>4, <1>5 DEF t

(* What the adapter says itself is text like any other.                    *)
LEMMA NotesType ==
  /\ <<Ready>> \in Seq(Pieces) /\ <<Manifest>> \in Seq(Pieces)
  /\ <<Explanation>> \in Seq(Pieces) /\ <<ProfileNote>> \in Seq(Pieces)
BY DEF Pieces, Ready, Manifest, Explanation, ProfileNote

(* The files are reported in the message.                                  *)
LEMMA DeliverFilesKeeps ==
  ASSUME NEW s, WellFormed(s)
  PROVE  LET t == DeliverFiles(s) IN
         WellFormed(t) /\ Grows(s, t) /\ t.reasoning = s.reasoning /\ t.tools = s.tools
<1> DEFINE r == IF files.made /\ IsBlank(s.output) THEN Say(s, <<Ready>>) ELSE s
           t == DeliverFiles(s)
<1>1. WellFormed(r) /\ Grows(s, r) /\ r.reasoning = s.reasoning /\ r.tools = s.tools
  <2>1. CASE files.made /\ IsBlank(s.output)
    <3>1. <<Ready>> # <<>>
      OBVIOUS
    <3> QED
      BY <2>1, <3>1, NotesType, SayKeeps DEF WellFormed
  <2>2. CASE ~(files.made /\ IsBlank(s.output))
    BY <2>2, GrowsReflexive DEF WellFormed, Shaped
  <2> QED
    BY <2>1, <2>2
<1>2. CASE ~files.made /\ ~files.lost
  BY <1>2, GrowsReflexive DEF DeliverFiles, WellFormed, Shaped
<1>3. CASE files.made \/ files.lost
  <2>1. t = Say(r, <<Manifest>>)
    BY <1>3 DEF DeliverFiles
  <2> HIDE DEF r, t
  <2>2. WellFormed(t) /\ Grows(r, t) /\ t.reasoning = r.reasoning /\ t.tools = r.tools
    <3>1. <<Manifest>> # <<>>
      OBVIOUS
    <3> QED
      BY <1>1, <2>1, <3>1, NotesType, SayKeeps DEF WellFormed
  <2>3. Grows(s, t)
    BY <1>1, <2>2, GrowsTransitive DEF WellFormed, Shaped
  <2> QED
    BY <1>1, <2>2, <2>3 DEF t
<1> QED
  BY <1>2, <1>3

(* The reason is told in a message of its own, which is the only one       *)
(* because nothing was said before.                                        *)
LEMMA ExplainKeeps ==
  ASSUME NEW s, WellFormed(s)
  PROVE  LET t == Explain(s) IN
         WellFormed(t) /\ Grows(s, t) /\ t.reasoning = s.reasoning /\ t.tools = s.tools
<1> DEFINE m == NewMessage(s)
           t == Explain(s)
<1>1. CASE s.output # <<>>
  BY <1>1, GrowsReflexive DEF Explain, WellFormed, Shaped
<1>2. CASE s.output = <<>>
  <2>1. s.message = 0
    BY <1>2 DEF WellFormed
  <2>2. Shaped(m) /\ Grows(s, m) /\ m.reasoning = s.reasoning /\ m.tools = s.tools
    BY <2>1, NewMessageKeeps DEF WellFormed
  <2>3. t = Say(m, <<Explanation>>)
    BY <1>2 DEF Explain
  <2> HIDE DEF m, t
  <2>4. WellFormed(t) /\ Grows(m, t) /\ t.reasoning = m.reasoning /\ t.tools = m.tools
    <3>1. <<Explanation>> # <<>>
      OBVIOUS
    <3> QED
      BY <2>2, <2>3, <3>1, NotesType, SayKeeps
  <2>5. Grows(s, t)
    BY <2>2, <2>4, GrowsTransitive DEF WellFormed, Shaped
  <2> QED
    BY <2>2, <2>4, <2>5 DEF t
<1> QED
  BY <1>1, <1>2

(* With reasoning and calls closed, closing the message concludes.         *)
LEMMA CloseMessageConcludes ==
  ASSUME NEW s, WellFormed(s), s.reasoning = 0, s.tools = {}, s.message # 0
  PROVE  LET t == CloseMessage(s) IN
         t \in Response /\ Grows(s, t) /\ Concluded(t)
<1> DEFINE t == CloseMessage(s)
<1>1. s \in Response /\ Len(s.out) \in Nat /\ s.message \in 1..Len(s.out)
      /\ s.out[s.message].kind = "message"
  BY DEF WellFormed, Shaped, Pointing, Response
<1>2. /\ t \in Response /\ Grows(s, t) /\ Len(t.out) = Len(s.out)
      /\ \A i \in 1..Len(s.out) :
           /\ t.out[i].kind = s.out[i].kind /\ t.out[i].text = s.out[i].text
           /\ t.out[i].open <=> s.out[i].open /\ i # s.message
      /\ t.message = s.message /\ t.output = s.output
  BY <1>1, CloseFields DEF CloseMessage
<1> HIDE DEF t
<1>3. \A i \in 1..Len(t.out) : ~t.out[i].open
  BY <1>2 DEF WellFormed, Shaped, Accounted
<1>4. \A i \in 1..Len(t.out) : t.out[i].kind = "message" <=> i = t.message
  BY <1>1, <1>2 DEF WellFormed, Shaped, OneMessage
<1>5. t.out[t.message].text = t.output
  BY <1>1, <1>2 DEF WellFormed, Shaped, OneMessage
<1> QED
  BY <1>1, <1>2, <1>3, <1>4, <1>5 DEF Concluded, t

-----------------------------------------------------------------------------
(* The steps of the handler                                                *)

Inv ==
  /\ TypeOK
  /\ phase # "completed" => WellFormed(resp)
  /\ ClosedOnCompletion

(* A turn is in progress and the response is well formed.                  *)
Hearing == TypeOK /\ phase = "running" /\ WellFormed(resp)

(* The pieces of an item the engine reports are pieces.                    *)
LEMMA WholeType ==
  ASSUME NEW item \in Items, NEW n \in 0..MaxPieces
  PROVE  Whole(item, n) \in Seq(Pieces)
<1>1. \A k \in 1..n : <<item, k>> \in Pieces
  BY StreamAssumption DEF Pieces
<1> QED
  BY <1>1 DEF Whole

(* The part of a completed message that is shown is text.                  *)
LEMMA CompletionDeltaType ==
  ASSUME NEW shown \in Seq(Pieces), NEW whole \in Seq(Pieces)
  PROVE  CompletionDelta(shown, whole) \in Seq(Pieces)
<1>1. SubSeq(whole, Len(shown) + 1, Len(whole)) \in Seq(Pieces)
  <2>1. Len(shown) + 1 \in 1..Len(whole) + 1 \/ Len(shown) + 1 > Len(whole)
    OBVIOUS
  <2> QED
    BY <2>1
<1> QED
  BY <1>1 DEF CompletionDelta

(* The item in progress is one of the items.                               *)
LEMMA CurrentType ==
  ASSUME TypeOK, current # 0
  PROVE  current \in Items
BY StreamAssumption DEF TypeOK, Items

(* Deltas are text.                                                        *)
LEMMA DeltaType ==
  ASSUME NEW text \in Deltas
  PROVE  text \in Seq(Pieces)
<1>1. CASE text = <<>>
  BY <1>1
<1>2. ASSUME NEW p \in Pieces, text = <<p>>
      PROVE  text \in Seq(Pieces)
  BY <1>2
<1> QED
  BY <1>1, <1>2 DEF Deltas

(* A reasoning delta goes into the open reasoning item.                    *)
LEMMA ReasoningDeltaKeeps ==
  ASSUME Hearing, NEW text \in Deltas, ReasoningDelta(text)
  PROVE  WellFormed(resp') /\ Grows(resp, resp')
<1> DEFINE o == IF resp.reasoning = 0 THEN OpenReasoning(resp) ELSE resp
<1>1. text \in Seq(Pieces) /\ WellFormed(resp) /\ resp \in Response
  BY DeltaType DEF Hearing, WellFormed, Shaped
<1>2. WellFormed(o) /\ Grows(resp, o) /\ o.reasoning # 0
  BY <1>1, OpenReasoningKeeps, GrowsReflexive
<1>3. resp' = IF ~Reported(text) THEN resp ELSE Write(o, o.reasoning, text)
  BY DEF ReasoningDelta
<1> HIDE DEF o
<1>4. CASE Reported(text)
  <2>1. WellFormed(resp') /\ Grows(o, resp')
    BY <1>1, <1>2, <1>3, <1>4, WriteReasoningKeeps
  <2> QED
    BY <1>1, <1>2, <2>1, GrowsTransitive DEF WellFormed, Shaped
<1> QED
  BY <1>1, <1>3, <1>4, GrowsReflexive

(* A reasoning summary goes into a new item, which stays open.             *)
LEMMA ReasoningCompletedKeeps ==
  ASSUME Hearing, NEW n \in 0..MaxPieces, ReasoningCompleted(n)
  PROVE  WellFormed(resp') /\ Grows(resp, resp')
<1> DEFINE o == OpenReasoning(resp)
           text == Whole(current, n)
<1>1. text \in Seq(Pieces) /\ WellFormed(resp) /\ resp \in Response
  BY WholeType, CurrentType DEF Hearing, WellFormed, Shaped, ReasoningCompleted, Streams
<1>2. resp' = IF IsBlank(text) \/ resp.reasoning # 0 THEN resp ELSE Write(o, o.reasoning, text)
  BY DEF ReasoningCompleted
<1>3. CASE ~IsBlank(text) /\ resp.reasoning = 0
  <2>1. WellFormed(o) /\ Grows(resp, o) /\ o.reasoning # 0
    BY <1>1, <1>3, OpenReasoningKeeps
  <2> HIDE DEF o, text
  <2>2. WellFormed(resp') /\ Grows(o, resp')
    BY <1>1, <1>2, <1>3, <2>1, WriteReasoningKeeps
  <2> QED
    BY <1>1, <2>1, <2>2, GrowsTransitive DEF WellFormed, Shaped
<1> QED
  BY <1>1, <1>2, <1>3, GrowsReflexive

(* A message delta ends the reasoning and goes into the message.           *)
LEMMA MessageDeltaKeeps ==
  ASSUME Hearing, NEW text \in Deltas, MessageDelta(text)
  PROVE  WellFormed(resp') /\ Grows(resp, resp')
<1> DEFINE c == CloseReasoning(resp)
<1>1. text \in Seq(Pieces) /\ WellFormed(resp) /\ resp \in Response
  BY DeltaType DEF Hearing, WellFormed, Shaped
<1>2. resp' = IF Reported(text) THEN Say(c, text) ELSE resp
  BY DEF MessageDelta
<1>3. WellFormed(c) /\ Grows(resp, c)
  BY <1>1, CloseReasoningKeeps
<1> HIDE DEF c
<1>4. CASE Reported(text)
  <2>1. text # <<>>
    BY <1>4 DEF Reported
  <2>2. WellFormed(resp') /\ Grows(c, resp')
    BY <1>1, <1>2, <1>3, <1>4, <2>1, SayKeeps DEF WellFormed
  <2> QED
    BY <1>1, <1>3, <2>2, GrowsTransitive DEF WellFormed, Shaped
<1> QED
  BY <1>1, <1>2, <1>4, GrowsReflexive

(* So does the rest of a completed message.                                *)
LEMMA MessageCompletedKeeps ==
  ASSUME Hearing, NEW n \in 0..MaxPieces, MessageCompleted(n)
  PROVE  WellFormed(resp') /\ Grows(resp, resp')
<1> DEFINE rest == CompletionDelta(resp.output, Whole(current, n))
<1>1. WellFormed(resp) /\ resp \in Response /\ resp.output \in Seq(Pieces)
  BY DEF Hearing, WellFormed, Shaped, Response
<1>2. Whole(current, n) \in Seq(Pieces)
  BY WholeType, CurrentType DEF Hearing, MessageCompleted, Streams
<1>3. rest \in Seq(Pieces)
  BY <1>1, <1>2, CompletionDeltaType
<1>4. resp' = IF rest # <<>> THEN Say(resp, rest) ELSE resp
  BY DEF MessageCompleted
<1> HIDE DEF rest
<1> QED
  BY <1>1, <1>3, <1>4, SayKeeps, GrowsReflexive DEF WellFormed

(* A tool ends the reasoning and adds a call.                              *)
LEMMA ToolStartedKeeps ==
  ASSUME Hearing, ToolStarted
  PROVE  WellFormed(resp') /\ Grows(resp, resp')
<1> DEFINE c == CloseReasoning(resp)
           item == Len(kinds) + 1
<1>1. WellFormed(resp) /\ resp \in Response
  BY DEF Hearing, WellFormed, Shaped
<1>2. item \in Items
  BY StreamAssumption DEF Hearing, TypeOK, ToolStarted, NewItem, Items
<1>3. WellFormed(c) /\ Grows(resp, c)
  BY <1>1, CloseReasoningKeeps
<1>4. resp' = OpenTool(c, item)
  BY DEF ToolStarted
<1> HIDE DEF c, item
<1>5. WellFormed(resp') /\ Grows(c, resp')
  BY <1>2, <1>3, <1>4, OpenToolKeeps
<1> QED
  BY <1>1, <1>3, <1>5, GrowsTransitive DEF WellFormed, Shaped

(* The response is concluded, or left well formed without its message.     *)
LEMMA RespondConcludes ==
  ASSUME TypeOK, phase # "completed" => WellFormed(resp), Respond
  PROVE  /\ Grows(resp, resp') /\ resp' \in Response
         /\ \/ phase' = "completed" /\ Concluded(resp')
            \/ phase' = "error" /\ WellFormed(resp')
<1> DEFINE c == CloseCalls(resp)
           d == DeliverFiles(c)
           e == Explain(d)
           a == AddProfile(e)
<1>1. WellFormed(resp)
  BY DEF Respond
<1>2. WellFormed(c) /\ Grows(resp, c) /\ c.reasoning = 0 /\ c.tools = {}
  BY <1>1, CloseCallsKeeps
<1> HIDE DEF c
<1>3. WellFormed(d) /\ Grows(c, d) /\ d.reasoning = 0 /\ d.tools = {}
  BY <1>2, DeliverFilesKeeps
<1> HIDE DEF d
<1>4. WellFormed(e) /\ Grows(d, e) /\ e.reasoning = 0 /\ e.tools = {}
  BY <1>3, ExplainKeeps
<1> HIDE DEF e
<1>5. WellFormed(a) /\ Grows(e, a) /\ a.reasoning = 0 /\ a.tools = {} /\ a.message # 0
  <2>1. <<ProfileNote>> # <<>>
    OBVIOUS
  <2> QED
    BY <1>4, <2>1, NotesType, SayKeeps DEF WellFormed, AddProfile
<1> HIDE DEF a
<1>6. CloseMessage(a) \in Response /\ Grows(a, CloseMessage(a)) /\ Concluded(CloseMessage(a))
  BY <1>5, CloseMessageConcludes
<1>7. resp \in Response /\ c \in Response /\ d \in Response /\ e \in Response /\ a \in Response
  BY <1>1, <1>2, <1>3, <1>4, <1>5 DEF WellFormed, Shaped
<1>8. Grows(resp, d)
  BY <1>2, <1>3, <1>7, GrowsTransitive
<1>9. Grows(resp, e)
  BY <1>4, <1>7, <1>8, GrowsTransitive
<1>10. Grows(resp, a)
  BY <1>5, <1>7, <1>9, GrowsTransitive
<1>11. Grows(resp, CloseMessage(a))
  BY <1>6, <1>7, <1>10, GrowsTransitive
<1>12. \/ resp' = CloseMessage(a) /\ phase' = "completed"
       \/ resp' = d /\ phase' = "error"
  BY DEF Respond, a, e, d, c
<1>13. CASE resp' = CloseMessage(a) /\ phase' = "completed"
  <2>1. Concluded(resp') /\ resp' \in Response
    BY <1>6, <1>13
  <2>2. Grows(resp, resp')
    BY <1>11, <1>13
  <2> QED
    BY <1>13, <2>1, <2>2
<1>14. CASE resp' = d /\ phase' = "error"
  <2>1. WellFormed(resp')
    BY <1>3, <1>14
  <2> QED
    BY <1>7, <1>8, <1>14, <2>1
<1> QED
  BY <1>12, <1>13, <1>14

-----------------------------------------------------------------------------
(* Every step                                                              *)

(* What a step does to the response: it stays well formed until it is      *)
(* concluded, and nothing shown is taken back.                             *)
LEMMA ResponseStep ==
  ASSUME TypeOK, phase # "completed" => WellFormed(resp), Next
  PROVE  /\ Grows(resp, resp') /\ resp' \in Response
         /\ \/ phase' = "completed" /\ Concluded(resp')
            \/ phase' # "completed" /\ WellFormed(resp')
<1> DEFINE Goal == /\ Grows(resp, resp') /\ resp' \in Response
                   /\ \/ phase' = "completed" /\ Concluded(resp')
                      \/ phase' # "completed" /\ WellFormed(resp')
<1>1. resp \in Response
  BY DEF TypeOK
<1>2. ASSUME phase # "completed", phase' # "completed", resp' = resp
      PROVE  Goal
  BY <1>1, <1>2, GrowsReflexive
<1>3. ASSUME Hears, WellFormed(resp') /\ Grows(resp, resp')
      PROVE  Goal
  BY <1>3 DEF Hears, WellFormed, Shaped
<1>4. CASE Begin
  BY <1>2, <1>4 DEF Begin
<1>5. CASE Event
  <2>1. Hears /\ Hearing
    BY <1>5 DEF Event, Hears, Hearing, ItemStarted, ReasoningDelta, MessageDelta,
                ReasoningCompleted, MessageCompleted, ToolStarted, ToolCompleted, TurnError
  <2>2. ASSUME resp' = resp
        PROVE  Goal
    BY <1>2, <2>1, <2>2 DEF Hears
  <2>3. ASSUME NEW kind \in {"message", "reasoning"}, ItemStarted(kind)
        PROVE  Goal
    BY <2>2, <2>3 DEF ItemStarted
  <2>4. ASSUME NEW text \in Deltas, ReasoningDelta(text)
        PROVE  Goal
    BY <1>3, <2>1, <2>4, ReasoningDeltaKeeps
  <2>5. ASSUME NEW text \in Deltas, MessageDelta(text)
        PROVE  Goal
    BY <1>3, <2>1, <2>5, MessageDeltaKeeps
  <2>6. ASSUME NEW n \in 0..MaxPieces, ReasoningCompleted(n)
        PROVE  Goal
    BY <1>3, <2>1, <2>6, ReasoningCompletedKeeps
  <2>7. ASSUME NEW n \in 0..MaxPieces, MessageCompleted(n)
        PROVE  Goal
    BY <1>3, <2>1, <2>7, MessageCompletedKeeps
  <2>8. CASE ToolStarted
    BY <1>3, <2>1, <2>8, ToolStartedKeeps
  <2>9. ASSUME NEW item \in Items, ToolCompleted(item)
        PROVE  Goal
    <3>1. resp' = CloseTools(resp, {item})
      BY <2>9 DEF ToolCompleted
    <3>2. WellFormed(resp') /\ Grows(resp, resp')
      BY <2>1, <3>1, CloseToolsKeeps DEF Hearing
    <3> QED
      BY <1>3, <2>1, <3>2
  <2>10. ASSUME NEW willRetry \in BOOLEAN, TurnError(willRetry)
         PROVE  Goal
    BY <2>2, <2>10 DEF TurnError
  <2>11. CASE \E kind \in {"message", "reasoning"} : ItemStarted(kind)
    BY <2>3, <2>11
  <2>12. CASE \E text \in Deltas : ReasoningDelta(text) \/ MessageDelta(text)
    BY <2>4, <2>5, <2>12
  <2>13. CASE \E n \in 0..MaxPieces : ReasoningCompleted(n) \/ MessageCompleted(n)
    BY <2>6, <2>7, <2>13
  <2>14. CASE \E item \in Items : ToolCompleted(item)
    BY <2>9, <2>14
  <2>15. CASE \E willRetry \in BOOLEAN : TurnError(willRetry)
    BY <2>10, <2>15
  <2> HIDE DEF Goal
  <2> QED
    BY <1>5, <2>8, <2>11, <2>12, <2>13, <2>14, <2>15 DEF Event
<1>6. CASE End
  BY <1>2, <1>6 DEF End, TurnSucceeds, TurnFails, TurnRetried, TurnBreaks, Publish
<1>7. CASE Respond
  <2>1. phase' = "error" => phase' # "completed"
    OBVIOUS
  <2> QED
    BY <1>7, <2>1, RespondConcludes
<1> QED
  BY <1>4, <1>5, <1>6, <1>7 DEF Next

(* Every step keeps the types.                                             *)
LEMMA TypeStep ==
  ASSUME TypeOK, resp' \in Response, Next
  PROVE  TypeOK'
<1> DEFINE K == {"reasoning", "tool", "message"}
<1>1. kinds \in Seq(K) /\ Len(kinds) \in Nat /\ current \in 0..Len(kinds)
      /\ streamed \in [Items -> 0..MaxPieces]
  BY DEF TypeOK
<1>2. ASSUME NEW kind \in K, NewItem(kind)
      PROVE  kinds' \in Seq(K) /\ Len(kinds') = Len(kinds) + 1 /\ Len(kinds') <= MaxItems
  BY <1>1, <1>2, StreamAssumption DEF NewItem
<1>3. ASSUME NEW text \in Deltas, NextDelta(text), current # 0
      PROVE  streamed' \in [Items -> 0..MaxPieces] /\ spoke' \in BOOLEAN
  <2>1. current \in Items
    BY <1>3, CurrentType
  <2>2. text = <<>> \/ text = << <<current, streamed[current] + 1>> >>
    BY <1>3 DEF NextDelta
  <2>3. Len(text) = 0 \/ (Len(text) = 1 /\ streamed[current] < MaxPieces)
    BY <1>3, <2>2 DEF NextDelta
  <2>4. streamed[current] + Len(text) \in 0..MaxPieces
    <3>1. streamed[current] \in 0..MaxPieces /\ MaxPieces \in Nat
      BY <1>1, <2>1, StreamAssumption
    <3>2. CASE Len(text) = 0
      <4>1. streamed[current] + 0 \in 0..MaxPieces
        BY <3>1
      <4> QED
        BY <3>2, <4>1
    <3>3. CASE Len(text) = 1 /\ streamed[current] < MaxPieces
      <4>1. streamed[current] + 1 \in 0..MaxPieces
        BY <3>1, <3>3
      <4> QED
        BY <3>3, <4>1
    <3> QED
      BY <2>3, <3>2, <3>3
  <2>5. streamed' = [streamed EXCEPT ![current] = streamed[current] + Len(text)]
    BY <1>3 DEF NextDelta
  <2> QED
    BY <1>1, <1>3, <2>4, <2>5 DEF NextDelta, Reported, TypeOK
<1>4. CASE Begin
  BY <1>4 DEF Begin, TypeOK, Phases, clientVars, engineVars
<1>5. ASSUME NEW kind \in {"message", "reasoning"}, ItemStarted(kind)
      PROVE  TypeOK'
  BY <1>1, <1>2, <1>5 DEF ItemStarted, Hears, TypeOK
<1>6. ASSUME NEW text \in Deltas, ReasoningDelta(text)
      PROVE  TypeOK'
  BY <1>1, <1>3, <1>6 DEF ReasoningDelta, Streams, Hears, TypeOK
<1>7. ASSUME NEW text \in Deltas, MessageDelta(text)
      PROVE  TypeOK'
  BY <1>1, <1>3, <1>7 DEF MessageDelta, Streams, Hears, TypeOK
<1>8. ASSUME NEW n \in 0..MaxPieces, ReasoningCompleted(n)
      PROVE  TypeOK'
  <2>1. spoke' \in BOOLEAN
    BY <1>8 DEF ReasoningCompleted, Reported, TypeOK
  <2> QED
    BY <1>1, <1>8, <2>1 DEF ReasoningCompleted, Hears, TypeOK
<1>9. ASSUME NEW n \in 0..MaxPieces, MessageCompleted(n)
      PROVE  TypeOK'
  <2>1. spoke' \in BOOLEAN
    BY <1>9 DEF MessageCompleted, Reported, TypeOK
  <2> QED
    BY <1>1, <1>9, <2>1 DEF MessageCompleted, Hears, TypeOK
<1>10. CASE ToolStarted
  BY <1>1, <1>2, <1>10 DEF ToolStarted, Hears, TypeOK
<1>11. ASSUME NEW item \in Items, ToolCompleted(item)
       PROVE  TypeOK'
  BY <1>11 DEF ToolCompleted, Hears, TypeOK
<1>12. ASSUME NEW willRetry \in BOOLEAN, TurnError(willRetry)
       PROVE  TypeOK'
  BY <1>12 DEF TurnError, Hears, TypeOK
<1>13. CASE End
  <2>1. ASSUME NEW outcome \in {"ok", "cancelled"}, TurnSucceeds(outcome)
        PROVE  TypeOK'
    BY <2>1 DEF TurnSucceeds, TypeOK, Phases, clientVars
  <2>2. ASSUME NEW explained \in BOOLEAN, TurnFails(explained)
        PROVE  TypeOK'
    BY <2>2 DEF TurnFails, TypeOK, Phases, clientVars
  <2>3. CASE TurnRetried
    <3>1. try' \in 1..2
      BY <2>3 DEF TurnRetried
    <3>2. current' \in 0..Len(kinds)
      BY <1>1, <2>3 DEF TurnRetried
    <3>3. failure' \in BOOLEAN
      BY <2>3 DEF TurnRetried, TypeOK
    <3> QED
      BY <2>3, <3>1, <3>2, <3>3 DEF TurnRetried, TypeOK
  <2>4. CASE TurnBreaks
    BY <2>4 DEF TurnBreaks, TypeOK, Phases, clientVars
  <2>5. ASSUME NEW made \in BOOLEAN, NEW lost \in BOOLEAN, Publish(made, lost)
        PROVE  TypeOK'
    BY <2>5 DEF Publish, TypeOK, Phases, clientVars, engineVars
  <2> QED
    BY <1>13, <2>1, <2>2, <2>3, <2>4, <2>5 DEF End
<1>14. CASE Respond
  BY <1>14 DEF Respond, TypeOK, Phases, clientVars, engineVars
<1> QED
  BY <1>4, <1>5, <1>6, <1>7, <1>8, <1>9, <1>10, <1>11, <1>12, <1>13, <1>14 DEF Next, Event

(* The initial response is empty, hence well formed.                       *)
LEMMA InitInv == Init => Inv
<1> SUFFICES ASSUME Init
             PROVE  Inv
  OBVIOUS
<1>1. Empty \in Response
  BY DEF Empty, Response
<1>2. Len(Empty.out) = 0 /\ Empty.reasoning = 0 /\ Empty.message = 0 /\ Empty.tools = {}
      /\ Empty.output = <<>>
  BY DEF Empty
<1>3. WellFormed(Empty)
  BY <1>1, <1>2 DEF WellFormed, Shaped, Pointing, Accounted, OneMessage, Separate
<1>4. TypeOK
  <2>1. [i \in Items |-> 0] \in [Items -> 0..MaxPieces] /\ 0 <= MaxItems
    BY StreamAssumption
  <2>2. <<>> \in Seq({"reasoning", "tool", "message"}) /\ Len(<<>>) = 0
    OBVIOUS
  <2>3. kinds \in Seq({"reasoning", "tool", "message"}) /\ Len(kinds) <= MaxItems
        /\ current \in 0..Len(kinds)
    BY <2>1, <2>2 DEF Init
  <2>4. streamed \in [Items -> 0..MaxPieces] /\ resp \in Response
    BY <1>1, <2>1 DEF Init
  <2>5. phase \in Phases /\ turn \in {"running", "ok", "cancelled", "failed"}
    BY DEF Init, Phases
  <2>7. try \in 1..2
    BY DEF Init
  <2>8. spoke \in BOOLEAN /\ failure \in BOOLEAN
    BY DEF Init
  <2>6. files \in [made : BOOLEAN, lost : BOOLEAN]
    BY DEF Init
  <2> QED
    BY <2>3, <2>4, <2>5, <2>6, <2>7, <2>8 DEF TypeOK
<1> QED
  BY <1>3, <1>4 DEF Init, Inv, ClosedOnCompletion

(* Every step keeps the invariant and takes nothing back.                  *)
LEMMA InvStep ==
  ASSUME Inv, [Next]_vars
  PROVE  Inv' /\ Grows(resp, resp')
<1>1. CASE Next
  <2>1. /\ Grows(resp, resp') /\ resp' \in Response
        /\ \/ phase' = "completed" /\ Concluded(resp')
           \/ phase' # "completed" /\ WellFormed(resp')
    BY <1>1, ResponseStep DEF Inv
  <2>2. TypeOK'
    BY <1>1, <2>1, TypeStep DEF Inv
  <2> QED
    BY <2>1, <2>2 DEF Inv, ClosedOnCompletion, Concluded
<1>2. CASE UNCHANGED vars
  <2>1. Grows(resp, resp)
    BY GrowsReflexive DEF Inv, TypeOK
  <2>2. UNCHANGED <<phase, try, spoke, kinds, current, streamed, turn, failure, files, resp>>
    BY <1>2 DEF vars, clientVars, engineVars
  <2>3. TypeOK'
    BY <2>2 DEF Inv, TypeOK
  <2> QED
    BY <2>1, <2>2, <2>3 DEF Inv, ClosedOnCompletion
<1> QED
  BY <1>1, <1>2

-----------------------------------------------------------------------------
(* What the steps add to the output                                        *)

Parts(o) == {o[i] : i \in 1..Len(o)}

Notes == {Ready, Manifest, Explanation, ProfileNote}

InOrder(o) ==
  \A a, b \in 1..Len(o) : a < b /\ IsSpeech(o[a]) /\ IsSpeech(o[b]) => Before(o[a], o[b])

(* o became t by notes of the adapter behind it.                           *)
Noted(o, t) ==
  /\ Len(o) <= Len(t)
  /\ \A i \in 1..Len(o) : t[i] = o[i]
  /\ \A i \in 1..Len(t) : i > Len(o) => t[i] \in Notes

(* A piece that is appended becomes the last one.                          *)
LEMMA AppendPiece ==
  ASSUME NEW o \in Seq(Pieces), NEW p \in Pieces
  PROVE  LET t == o \o <<p>> IN
         /\ t \in Seq(Pieces) /\ Len(t) = Len(o) + 1 /\ t[Len(o) + 1] = p
         /\ \A i \in 1..Len(o) : t[i] = o[i]
         /\ Parts(t) = Parts(o) \union {p}
<1> DEFINE t == o \o <<p>>
<1>1. t \in Seq(Pieces) /\ Len(t) = Len(o) + 1 /\ t[Len(o) + 1] = p
      /\ (\A i \in 1..Len(o) : t[i] = o[i]) /\ Len(o) \in Nat
  OBVIOUS
<1> HIDE DEF t
<1>2. 1..Len(t) = 1..Len(o) \union {Len(o) + 1}
  BY <1>1
<1>3. Parts(t) = Parts(o) \union {p}
  BY <1>1, <1>2 DEF Parts
<1> QED
  BY <1>1, <1>3 DEF t

(* Notes are pieces, they are told apart, and none of them is speech.      *)
LEMMA NotesAreNoSpeech ==
  /\ Notes \subseteq Pieces
  /\ \A p \in Notes : ~IsSpeech(p)
  /\ Ready # Manifest /\ Ready # Explanation /\ Ready # ProfileNote
  /\ Manifest # Explanation /\ Manifest # ProfileNote /\ Explanation # ProfileNote
BY DEF Notes, Pieces, Ready, Manifest, Explanation, ProfileNote, IsSpeech

(* Adding no note is the least that can be added.                          *)
LEMMA NotedReflexive ==
  ASSUME NEW o \in Seq(Pieces)
  PROVE  Noted(o, o)
<1>1. Len(o) \in Nat
  OBVIOUS
<1> QED
  BY <1>1 DEF Noted

(* Notes behind notes are notes.                                           *)
LEMMA NotedTransitive ==
  ASSUME NEW o \in Seq(Pieces), NEW t \in Seq(Pieces), NEW u \in Seq(Pieces),
         Noted(o, t), Noted(t, u)
  PROVE  Noted(o, u)
<1>1. Len(o) \in Nat /\ Len(t) \in Nat /\ Len(u) \in Nat /\ Len(o) <= Len(t) /\ Len(t) <= Len(u)
  BY DEF Noted
<1>2. \A i \in 1..Len(o) : i \in 1..Len(t) /\ u[i] = o[i]
  BY <1>1 DEF Noted
<1>3. ASSUME NEW i \in 1..Len(u), i > Len(o)
      PROVE  u[i] \in Notes
  <2>1. CASE i <= Len(t)
    <3>1. i \in 1..Len(t)
      BY <1>1, <1>3, <2>1
    <3> QED
      BY <1>3, <3>1 DEF Noted
  <2>2. CASE i > Len(t)
    BY <1>3, <2>2 DEF Noted
  <2> QED
    BY <1>1, <1>3, <2>1, <2>2
<1> QED
  BY <1>1, <1>2, <1>3 DEF Noted

(* Saying a note.                                                          *)
LEMMA SayNote ==
  ASSUME NEW s, Shaped(s), NEW note \in Notes
  PROVE  LET t == Say(s, <<note>>) IN
         /\ WellFormed(t) /\ Noted(s.output, t.output) /\ t.output \in Seq(Pieces)
         /\ Parts(t.output) = Parts(s.output) \union {note}
         /\ t.output # <<>>
<1> DEFINE t == Say(s, <<note>>)
<1>1. note \in Pieces /\ <<note>> \in Seq(Pieces) /\ <<note>> # <<>>
  BY NotesAreNoSpeech
<1>2. WellFormed(t) /\ t.output = s.output \o <<note>> /\ t.output # <<>>
  BY <1>1, SayKeeps
<1> HIDE DEF t
<1>3. s.output \in Seq(Pieces) /\ Len(s.output) \in Nat
  BY DEF Shaped, Response
<1> DEFINE o == s.output
           u == t.output
<1>4. o \in Seq(Pieces) /\ u = o \o <<note>>
  BY <1>2, <1>3
<1> HIDE DEF o, u
<1>5. /\ u \in Seq(Pieces) /\ Len(u) = Len(o) + 1 /\ u[Len(o) + 1] = note
      /\ \A i \in 1..Len(o) : u[i] = o[i]
      /\ Parts(u) = Parts(o) \union {note}
  BY <1>1, <1>4, AppendPiece
<1>6. Len(o) \in Nat
  BY <1>4
<1>7. Noted(o, u)
  BY <1>5, <1>6 DEF Noted
<1> QED
  BY <1>2, <1>5, <1>7 DEF t, o, u

(* Only messages are speech: reasoning and tools leave the output alone.   *)
LEMMA QuietSteps ==
  ASSUME Hearing,
         \/ \E text \in Deltas : ReasoningDelta(text)
         \/ \E n \in 0..MaxPieces : ReasoningCompleted(n)
         \/ ToolStarted
         \/ \E item \in Items : ToolCompleted(item)
  PROVE  resp'.output = resp.output
<1>1. WellFormed(resp)
  BY DEF Hearing
<1>2. ASSUME NEW text \in Deltas, ReasoningDelta(text)
      PROVE  resp'.output = resp.output
  <2> DEFINE o == IF resp.reasoning = 0 THEN OpenReasoning(resp) ELSE resp
  <2>1. WellFormed(o) /\ o.reasoning # 0 /\ o.output = resp.output
    BY <1>1, OpenReasoningKeeps
  <2>2. resp' = IF ~Reported(text) THEN resp ELSE Write(o, o.reasoning, text)
    BY <1>2 DEF ReasoningDelta
  <2> HIDE DEF o
  <2>3. text \in Seq(Pieces)
    BY DeltaType
  <2> QED
    BY <2>1, <2>2, <2>3, WriteReasoningKeeps
<1>3. ASSUME NEW n \in 0..MaxPieces, ReasoningCompleted(n)
      PROVE  resp'.output = resp.output
  <2> DEFINE o == OpenReasoning(resp)
             text == Whole(current, n)
  <2>1. text \in Seq(Pieces)
    BY <1>3, WholeType, CurrentType DEF Hearing, ReasoningCompleted, Streams
  <2>2. resp' = IF IsBlank(text) \/ resp.reasoning # 0 THEN resp ELSE Write(o, o.reasoning, text)
    BY <1>3 DEF ReasoningCompleted
  <2>3. resp.reasoning = 0 => WellFormed(o) /\ o.reasoning # 0 /\ o.output = resp.output
    BY <1>1, OpenReasoningKeeps
  <2> HIDE DEF o, text
  <2> QED
    BY <2>1, <2>2, <2>3, WriteReasoningKeeps
<1>4. CASE ToolStarted
  <2> DEFINE c == CloseReasoning(resp)
             item == Len(kinds) + 1
  <2>1. item \in Items
    BY <1>4, StreamAssumption DEF Hearing, TypeOK, ToolStarted, NewItem, Items
  <2>2. WellFormed(c) /\ c.output = resp.output
    BY <1>1, CloseReasoningKeeps
  <2>3. resp' = OpenTool(c, item)
    BY <1>4 DEF ToolStarted
  <2> HIDE DEF c, item
  <2> QED
    BY <2>1, <2>2, <2>3, OpenToolKeeps
<1>5. ASSUME NEW item \in Items, ToolCompleted(item)
      PROVE  resp'.output = resp.output
  BY <1>1, <1>5, CloseToolsKeeps DEF ToolCompleted
<1> QED
  BY <1>2, <1>3, <1>4, <1>5

(* A message delta is appended.                                            *)
LEMMA MessageDeltaOutput ==
  ASSUME Hearing, NEW text \in Deltas, MessageDelta(text)
  PROVE  \/ text = <<>> /\ resp'.output = resp.output
         \/ /\ text = << <<current, streamed[current] + 1>> >>
            /\ resp'.output = resp.output \o text
<1> DEFINE c == CloseReasoning(resp)
<1>1. WellFormed(c) /\ c.output = resp.output
  BY CloseReasoningKeeps DEF Hearing
<1>2. /\ resp' = IF Reported(text) THEN Say(c, text) ELSE resp
      /\ text \in {<<>>, << <<current, streamed[current] + 1>> >>}
  BY DEF MessageDelta, NextDelta
<1> HIDE DEF c
<1>3. CASE text = <<>>
  BY <1>2, <1>3 DEF Reported
<1>4. CASE text # <<>>
  <2>1. resp' = Say(c, text) /\ Shaped(c)
    BY <1>1, <1>2, <1>4 DEF Reported, WellFormed
  <2>2. text \in Seq(Pieces)
    BY DeltaType
  <2>3. resp'.output = c.output \o text
    BY <1>4, <2>1, <2>2, SayKeeps
  <2> QED
    BY <1>1, <1>2, <1>4, <2>3
<1> QED
  BY <1>3, <1>4

(* A completed message changes nothing, or is what is shown.               *)
LEMMA MessageCompletedOutput ==
  ASSUME Hearing, NEW n \in 0..MaxPieces, MessageCompleted(n)
  PROVE  \/ resp'.output = resp.output
         \/ /\ resp'.output = Whole(current, n) /\ Len(resp.output) <= n
            /\ \A i \in 1..Len(resp.output) : resp'.output[i] = resp.output[i]
<1> DEFINE o == resp.output
           w == Whole(current, n)
           rest == CompletionDelta(o, w)
<1>1. WellFormed(resp) /\ o \in Seq(Pieces)
  BY DEF Hearing, WellFormed, Shaped, Response
<1>2. w \in Seq(Pieces) /\ Len(w) = n
  <2>1. w \in Seq(Pieces)
    BY WholeType, CurrentType DEF Hearing, MessageCompleted, Streams
  <2>2. Len(w) = n
    BY StreamAssumption DEF Whole
  <2> QED
    BY <2>1, <2>2
<1>3. resp' = IF rest # <<>> THEN Say(resp, rest) ELSE resp
  BY DEF MessageCompleted
<1> HIDE DEF w
<1>4. rest \in Seq(Pieces)
  BY <1>1, <1>2, CompletionDeltaType
<1>5. CASE rest = <<>>
  BY <1>3, <1>5
<1>6. CASE rest # <<>>
  <2>1. rest = SubSeq(w, Len(o) + 1, Len(w)) /\ IsPrefixOf(o, w)
    BY <1>6 DEF CompletionDelta
  <2>2. Shaped(resp) /\ resp' = Say(resp, rest)
    BY <1>1, <1>3, <1>6 DEF WellFormed
  <2> HIDE DEF rest
  <2>3. resp'.output = o \o rest
    BY <1>4, <1>6, <2>2, SayKeeps
  <2> HIDE DEF o
  <2>4. o \o rest = w
    BY <1>1, <1>2, <2>1, PrefixAndRest
  <2>5. Len(o) <= Len(w) /\ SubSeq(w, 1, Len(o)) = o /\ Len(o) \in Nat /\ Len(w) \in Nat
    BY <1>1, <1>2, <2>1 DEF IsPrefixOf
  <2>6. \A i \in 1..Len(o) : SubSeq(w, 1, Len(o))[i] = w[i]
    BY <1>2, <2>5
  <2> QED
    BY <1>2, <2>3, <2>4, <2>5, <2>6 DEF o, w
<1> QED
  BY <1>5, <1>6

(* What the adapter adds to an output of a turn when it responds.          *)
FileNotes(o) ==
  (IF files.made /\ IsBlank(o) THEN {Ready} ELSE {}) \union
  (IF files.made \/ files.lost THEN {Manifest} ELSE {})

NotesOf(o) ==
  FileNotes(o) \union {ProfileNote} \union
  (IF o = <<>> /\ ~files.made /\ ~files.lost THEN {Explanation} ELSE {})

(* The notes about the files.                                              *)
LEMMA DeliverFilesOutput ==
  ASSUME NEW s, WellFormed(s)
  PROVE  LET t == DeliverFiles(s) IN
         /\ WellFormed(t) /\ t.output \in Seq(Pieces)
         /\ Noted(s.output, t.output)
         /\ Parts(t.output) = Parts(s.output) \union FileNotes(s.output)
         /\ t.output = <<>> <=> s.output = <<>> /\ ~files.made /\ ~files.lost
<1> DEFINE r == IF files.made /\ IsBlank(s.output) THEN Say(s, <<Ready>>) ELSE s
           t == DeliverFiles(s)
           first == IF files.made /\ IsBlank(s.output) THEN {Ready} ELSE {}
<1>0. s.output \in Seq(Pieces) /\ Shaped(s)
  BY DEF WellFormed, Shaped, Response
<1>1. /\ WellFormed(r) /\ r.output \in Seq(Pieces) /\ Noted(s.output, r.output)
      /\ Parts(r.output) = Parts(s.output) \union first
  <2>1. CASE files.made /\ IsBlank(s.output)
    BY <1>0, <2>1, SayNote DEF Notes
  <2>2. CASE ~(files.made /\ IsBlank(s.output))
    BY <1>0, <2>2, NotedReflexive
  <2> QED
    BY <2>1, <2>2
<1>2. CASE ~files.made /\ ~files.lost
  <2>1. t = s /\ FileNotes(s.output) = {}
    BY <1>2 DEF DeliverFiles, FileNotes
  <2> QED
    BY <1>0, <1>2, <2>1, NotedReflexive
<1>3. CASE files.made \/ files.lost
  <2>1. t = Say(r, <<Manifest>>) /\ FileNotes(s.output) = first \union {Manifest}
    BY <1>3 DEF DeliverFiles, FileNotes
  <2> HIDE DEF r, t, first
  <2>2. /\ WellFormed(t) /\ Noted(r.output, t.output) /\ t.output \in Seq(Pieces)
        /\ Parts(t.output) = Parts(r.output) \union {Manifest}
        /\ t.output # <<>>
    <3>1. Shaped(r) /\ Manifest \in Notes
      BY <1>1 DEF WellFormed, Notes
    <3> QED
      BY <2>1, <3>1, SayNote
  <2>3. Noted(s.output, t.output)
    BY <1>0, <1>1, <2>2, NotedTransitive
  <2> QED
    BY <1>1, <1>3, <2>1, <2>2, <2>3 DEF t
<1> QED
  BY <1>2, <1>3

(* The explanation, when there is nothing else.                            *)
LEMMA ExplainOutput ==
  ASSUME NEW s, WellFormed(s)
  PROVE  LET t == Explain(s) IN
         /\ WellFormed(t) /\ t.output \in Seq(Pieces)
         /\ Noted(s.output, t.output)
         /\ Parts(t.output) = Parts(s.output) \union
              (IF s.output = <<>> THEN {Explanation} ELSE {})
<1> DEFINE m == NewMessage(s)
           t == Explain(s)
<1>0. s.output \in Seq(Pieces)
  BY DEF WellFormed, Shaped, Response
<1>1. CASE s.output # <<>>
  BY <1>0, <1>1, NotedReflexive DEF Explain
<1>2. CASE s.output = <<>>
  <2>1. s.message = 0
    BY <1>2 DEF WellFormed
  <2>2. Shaped(m) /\ m.output = s.output
    BY <2>1, NewMessageKeeps DEF WellFormed
  <2>3. t = Say(m, <<Explanation>>)
    BY <1>2 DEF Explain
  <2> HIDE DEF m, t
  <2>4. /\ WellFormed(t) /\ Noted(m.output, t.output) /\ t.output \in Seq(Pieces)
        /\ Parts(t.output) = Parts(m.output) \union {Explanation}
    BY <2>2, <2>3, SayNote DEF Notes
  <2> QED
    BY <1>2, <2>2, <2>4 DEF t
<1> QED
  BY <1>1, <1>2

(* The whole response: the turn's output, and behind it the notes that say *)
(* what became of its files, or why there is nothing, and the profile.     *)
LEMMA RespondOutput ==
  ASSUME TypeOK, WellFormed(resp), Respond
  PROVE  LET o == resp.output IN
         /\ resp'.output \in Seq(Pieces) /\ Noted(o, resp'.output)
         /\ \/ /\ phase' = "completed"
               /\ o # <<>> \/ files.made \/ files.lost \/ failure
               /\ Parts(resp'.output) = Parts(o) \union NotesOf(o)
            \/ /\ phase' = "error"
               /\ resp'.output = <<>> /\ o = <<>>
               /\ ~files.made /\ ~files.lost /\ ~failure
<1> DEFINE c == CloseCalls(resp)
           d == DeliverFiles(c)
           e == Explain(d)
           a == AddProfile(e)
           o == resp.output
<1>1. WellFormed(c) /\ c.output = o /\ o \in Seq(Pieces)
  BY CloseCallsKeeps DEF WellFormed, Shaped, Response
<1>2. \/ resp' = CloseMessage(a) /\ phase' = "completed" /\ (d.output # <<>> \/ failure)
      \/ resp' = d /\ phase' = "error" /\ d.output = <<>> /\ ~failure
  BY DEF Respond
<1> HIDE DEF c, o
<1>3. /\ WellFormed(d) /\ d.output \in Seq(Pieces) /\ Noted(o, d.output)
      /\ Parts(d.output) = Parts(o) \union FileNotes(o)
      /\ d.output = <<>> <=> o = <<>> /\ ~files.made /\ ~files.lost
  BY <1>1, DeliverFilesOutput
<1> HIDE DEF d
<1>4. /\ WellFormed(e) /\ e.output \in Seq(Pieces) /\ Noted(d.output, e.output)
      /\ Parts(e.output) = Parts(d.output) \union
           (IF d.output = <<>> THEN {Explanation} ELSE {})
  BY <1>3, ExplainOutput
<1> HIDE DEF e
<1>5. /\ WellFormed(a) /\ a.output \in Seq(Pieces) /\ Noted(e.output, a.output)
      /\ Parts(a.output) = Parts(e.output) \union {ProfileNote}
  <2>1. Shaped(e) /\ ProfileNote \in Notes
    BY <1>4 DEF WellFormed, Notes
  <2> QED
    BY <2>1, SayNote DEF AddProfile
<1> HIDE DEF a
<1>6. CloseMessage(a).output = a.output
  BY <1>5, CloseFields DEF CloseMessage, WellFormed, Shaped
<1>7. Noted(o, e.output)
  BY <1>1, <1>3, <1>4, NotedTransitive
<1>8. Noted(o, a.output)
  BY <1>1, <1>4, <1>5, <1>7, NotedTransitive
<1>9. CASE resp' = CloseMessage(a) /\ phase' = "completed" /\ (d.output # <<>> \/ failure)
  <2>1. Parts(a.output) = Parts(o) \union NotesOf(o)
    BY <1>3, <1>4, <1>5 DEF NotesOf
  <2> QED
    BY <1>3, <1>5, <1>6, <1>8, <1>9, <2>1 DEF o
<1>10. CASE resp' = d /\ phase' = "error" /\ d.output = <<>> /\ ~failure
  BY <1>3, <1>10 DEF o
<1> QED
  BY <1>2, <1>9, <1>10

-----------------------------------------------------------------------------
(* What is said                                                            *)

(* Why SpeechIntact is kept: what is shown belongs to items reported so    *)
(* far, and nothing that is shown lies behind the next piece.              *)
SpeechInv ==
  /\ SpeechIntact
  /\ \A p \in Speech : p[1] <= Len(kinds)
  /\ \A i \in Items : i > Len(kinds) => streamed[i] = 0
  /\ current # 0 =>
       \A p \in Shown : p[1] < current \/ (p[1] = current /\ p[2] <= streamed[current])

(* Why AnswersAlike is: before the response is concluded there are no      *)
(* notes, and it is concluded only after a turn that did not fail.         *)
AnswerInv ==
  /\ phase \in {"new", "running"} => turn = "running"
  /\ phase \in {"publishing", "concluding", "completed"} => turn \in {"ok", "cancelled"}
  /\ phase \notin {"completed", "error"} => \A p \in Shown : IsSpeech(p)
  /\ AnswersAlike

(* Pieces are pairs of numbers.                                            *)
LEMMA PieceType ==
  ASSUME NEW p \in Pieces
  PROVE  p[1] \in Nat /\ p[2] \in Nat /\ p = <<p[1], p[2]>>
BY StreamAssumption DEF Pieces, Items

(* What is shown are the parts of the output.                              *)
LEMMA ShownIsParts == Shown = Parts(resp.output) /\ Shown' = Parts(resp'.output)
BY DEF Shown, Parts

(* Shown pieces are pieces.                                                *)
LEMMA PartsType ==
  ASSUME NEW o \in Seq(Pieces)
  PROVE  Parts(o) \subseteq Pieces /\ \A i \in 1..Len(o) : o[i] \in Parts(o)
BY DEF Parts

(* What the output and the items say of speech does not change when they   *)
(* do not.                                                                 *)
LEMMA SpeechKept ==
  ASSUME SpeechInv, resp'.output = resp.output, UNCHANGED <<kinds, streamed>>,
         current' \in {current, 0}
  PROVE  SpeechInv'
<1>1. Shown' = Shown /\ Speech' = Speech
  BY DEF Shown, Speech
<1>2. SpeechIntact'
  BY <1>1 DEF SpeechInv, SpeechIntact
<1> QED
  BY <1>1, <1>2 DEF SpeechInv


(* An item that was just reported has said nothing.                        *)
LEMMA NewItemKept ==
  ASSUME TypeOK, SpeechInv, resp'.output = resp.output, UNCHANGED streamed,
         NEW kind \in {"reasoning", "tool", "message"}, NewItem(kind),
         current' \in {current, Len(kinds) + 1}
  PROVE  SpeechInv'
<1>1. Shown' = Shown /\ Speech' = Speech
  BY DEF Shown, Speech
<1>2. /\ kinds \in Seq({"reasoning", "tool", "message"}) /\ Len(kinds) \in Nat
      /\ Len(kinds) < MaxItems /\ kinds' = Append(kinds, kind)
      /\ Len(kinds) + 1 \in Items /\ MaxPieces \in Nat /\ MaxItems \in Nat
  BY StreamAssumption DEF TypeOK, NewItem, Items
<1>3. Len(kinds') = Len(kinds) + 1 /\ \A i \in 1..Len(kinds) : kinds'[i] = kinds[i]
  BY <1>2
<1>4. streamed[Len(kinds) + 1] = 0
  BY <1>2 DEF SpeechInv
<1>5. resp.output \in Seq(Pieces) /\ Shown \subseteq Pieces
  BY PartsType, ShownIsParts DEF TypeOK, Response
<1>6. \A p \in Shown : p[1] \in Nat /\ p[1] <= Len(kinds)
  BY <1>2, <1>5, PieceType DEF SpeechInv, Speech, IsSpeech
<1>7. \A i \in 1..Len(kinds'), k \in 1..MaxPieces :
        kinds'[i] = "message" /\ k <= streamed'[i] => <<i, k>> \in Shown'
  <2> SUFFICES ASSUME NEW i \in 1..Len(kinds'), NEW k \in 1..MaxPieces,
                      kinds'[i] = "message", k <= streamed[i]
               PROVE  <<i, k>> \in Shown
    BY <1>1
  <2>1. i # Len(kinds) + 1
    BY <1>2, <1>4
  <2>2. i \in 1..Len(kinds)
    BY <1>2, <1>3, <2>1
  <2> QED
    BY <1>3, <2>2 DEF SpeechInv, SpeechIntact
<1>8. SpeechIntact'
  BY <1>1, <1>7 DEF SpeechInv, SpeechIntact
<1>9. current' # 0 =>
        \A p \in Shown : p[1] < current' \/ (p[1] = current' /\ p[2] <= streamed[current'])
  <2>1. CASE current' = current
    BY <2>1 DEF SpeechInv
  <2>2. CASE current' = Len(kinds) + 1
    BY <1>2, <1>6, <2>2
  <2> QED
    BY <2>1, <2>2
<1>10. (\A p \in Speech : p[1] <= Len(kinds')) /\ \A i \in Items : i > Len(kinds') => streamed[i] = 0
  <2>1. \A p \in Speech : p[1] <= Len(kinds')
    BY <1>2, <1>3, <1>6 DEF Speech
  <2>2. \A i \in Items : i > Len(kinds') => streamed[i] = 0
    BY <1>2, <1>3 DEF SpeechInv, Items
  <2> QED
    BY <2>1, <2>2
<1> QED
  BY <1>1, <1>8, <1>9, <1>10 DEF SpeechInv

(* What a delta says of the item in progress.                              *)
LEMMA NextDeltaSays ==
  ASSUME TypeOK, current # 0, NEW text, NextDelta(text), kinds' = kinds, current' = current
  PROVE  /\ current \in Items /\ current \in 1..Len(kinds) /\ streamed[current] \in Nat
         /\ \A i \in Items : i # current => streamed'[i] = streamed[i]
         /\ \/ text = <<>> /\ streamed' = streamed
            \/ /\ text = << <<current, streamed[current] + 1>> >>
               /\ streamed[current] < MaxPieces
               /\ streamed'[current] = streamed[current] + 1
<1>1. current \in Items
  BY CurrentType
<1>2. streamed \in [Items -> 0..MaxPieces] /\ MaxPieces \in Nat /\ current \in 1..Len(kinds)
  BY StreamAssumption DEF TypeOK
<1>3. streamed[current] \in Nat
  BY <1>1, <1>2
<1>4. streamed' = [streamed EXCEPT ![current] = streamed[current] + Len(text)]
  BY DEF NextDelta
<1>5. text \in {<<>>, << <<current, streamed[current] + 1>> >>}
  BY DEF NextDelta
<1>6. CASE text = <<>>
  <2>1. Len(text) = 0
    BY <1>6
  <2>2. streamed[current] + Len(text) = streamed[current]
    BY <1>3, <2>1
  <2>3. streamed' = [streamed EXCEPT ![current] = streamed[current]]
    BY <1>4, <2>2
  <2>4. streamed' = streamed
    BY <1>1, <1>2, <2>3
  <2> QED
    BY <1>1, <1>2, <1>3, <1>6, <2>4
<1>7. CASE text = << <<current, streamed[current] + 1>> >>
  <2>1. Len(text) = 1 /\ text # <<>>
    BY <1>7
  <2>2. streamed[current] < MaxPieces
    BY <2>1 DEF NextDelta
  <2>3. streamed' = [streamed EXCEPT ![current] = streamed[current] + 1]
    BY <1>4, <2>1
  <2> QED
    BY <1>1, <1>2, <1>3, <1>7, <2>2, <2>3
<1> QED
  BY <1>5, <1>6, <1>7

(* Reasoning is streamed, but it is not speech.                            *)
LEMMA ReasoningDeltaSpeech ==
  ASSUME SpeechInv, Hearing, NEW text \in Deltas, ReasoningDelta(text)
  PROVE  SpeechInv'
<1>1. TypeOK /\ current # 0 /\ kinds[current] = "reasoning" /\ NextDelta(text)
      /\ kinds' = kinds /\ current' = current
  BY DEF Hearing, ReasoningDelta, Streams
<1>2. resp'.output = resp.output
  BY QuietSteps
<1>3. Shown' = Shown /\ Speech' = Speech
  BY <1>2 DEF Shown, Speech
<1>4. /\ current \in Items /\ current \in 1..Len(kinds) /\ streamed[current] \in Nat
      /\ \A i \in Items : i # current => streamed'[i] = streamed[i]
      /\ streamed'[current] \in {streamed[current], streamed[current] + 1}
  BY <1>1, NextDeltaSays
<1>5. Len(kinds) \in Nat /\ Len(kinds) <= MaxItems /\ MaxItems \in Nat
  BY <1>1, StreamAssumption DEF TypeOK
<1>6. \A i \in 1..Len(kinds), k \in 1..MaxPieces :
        kinds[i] = "message" /\ k <= streamed'[i] => <<i, k>> \in Shown
  <2> SUFFICES ASSUME NEW i \in 1..Len(kinds), NEW k \in 1..MaxPieces,
                      kinds[i] = "message", k <= streamed'[i]
               PROVE  <<i, k>> \in Shown
    OBVIOUS
  <2>1. i \in Items /\ i # current
    BY <1>1, <1>5 DEF Items
  <2> QED
    BY <1>4, <2>1 DEF SpeechInv, SpeechIntact
<1>7. SpeechIntact'
  BY <1>1, <1>2, <1>3, <1>6 DEF SpeechInv, SpeechIntact
<1>8. \A p \in Shown : p[1] < current \/ (p[1] = current /\ p[2] <= streamed'[current])
  <2>1. \A p \in Shown : p \in Pieces /\ p[2] \in Nat
    BY <1>1, PartsType, ShownIsParts, PieceType DEF TypeOK, Response
  <2> QED
    BY <1>1, <1>4, <2>1 DEF SpeechInv
<1>9. \A i \in Items : i > Len(kinds) => streamed'[i] = 0
  BY <1>4, <1>5 DEF SpeechInv, Items
<1> QED
  BY <1>1, <1>3, <1>7, <1>8, <1>9 DEF SpeechInv


(* The next piece of a message comes behind everything shown.              *)
LEMMA MessageDeltaSpeech ==
  ASSUME SpeechInv, Hearing, NEW text \in Deltas, MessageDelta(text)
  PROVE  SpeechInv'
<1>1. TypeOK /\ current # 0 /\ NextDelta(text) /\ kinds' = kinds /\ current' = current
  BY DEF Hearing, MessageDelta, Streams
<1>2. kinds[current] = "message"
  BY DEF MessageDelta, Streams
<1>3. /\ current \in Items /\ current \in 1..Len(kinds) /\ streamed[current] \in Nat
      /\ \A i \in Items : i # current => streamed'[i] = streamed[i]
      /\ \/ text = <<>> /\ streamed' = streamed
         \/ /\ text = << <<current, streamed[current] + 1>> >>
            /\ streamed[current] < MaxPieces
            /\ streamed'[current] = streamed[current] + 1
  BY <1>1, NextDeltaSays
<1>4. CASE text = <<>>
  <2>1. resp'.output = resp.output
    BY <1>4, MessageDeltaOutput
  <2>2. streamed' = streamed
    BY <1>3, <1>4
  <2> QED
    BY <1>1, <2>1, <2>2, SpeechKept
<1>5. CASE text # <<>>
  <2> DEFINE p == <<current, streamed[current] + 1>>
             o == resp.output
             u == resp'.output
  <2>1. u = o \o <<p>> /\ o \in Seq(Pieces)
    BY <1>1, <1>5, MessageDeltaOutput DEF TypeOK, Response
  <2>2. streamed[current] < MaxPieces /\ streamed'[current] = streamed[current] + 1
    BY <1>3, <1>5
  <2>3. p \in Pieces /\ p[1] = current /\ p[2] = streamed[current] + 1 /\ IsSpeech(p)
    <3>1. streamed[current] + 1 \in 1..MaxPieces
      BY <1>3, <2>2, StreamAssumption
    <3> QED
      BY <1>1, <1>3, <3>1 DEF Pieces, IsSpeech
  <2>4. Shown = Parts(o) /\ Shown' = Parts(u)
    BY ShownIsParts
  <2> HIDE DEF p, o, u
  <2>5. /\ u \in Seq(Pieces) /\ Len(u) = Len(o) + 1 /\ u[Len(o) + 1] = p
        /\ \A i \in 1..Len(o) : u[i] = o[i]
        /\ Parts(u) = Parts(o) \union {p} /\ Len(o) \in Nat
    BY <2>1, <2>3, AppendPiece
  <2>6. Shown' = Shown \union {p} /\ Speech' = Speech \union {p}
    BY <2>3, <2>4, <2>5 DEF Speech
  <2>7. \A q \in Shown : /\ q \in Pieces /\ q[1] \in Nat /\ q[2] \in Nat
                         /\ q[1] < current \/ (q[1] = current /\ q[2] <= streamed[current])
    BY <1>1, <2>1, <2>4, PartsType, PieceType DEF SpeechInv
  <2>8. ASSUME NEW i \in 1..Len(kinds), NEW k \in 1..MaxPieces,
               kinds[i] = "message", k <= streamed'[i]
        PROVE  <<i, k>> \in Shown'
    <3>1. CASE i = current
      <4>1. k <= streamed[current] \/ k = streamed[current] + 1
        BY <1>3, <2>2, <2>8, <3>1
      <4>2. CASE k <= streamed[current]
        BY <2>6, <2>8, <3>1, <4>2 DEF SpeechInv, SpeechIntact
      <4>3. CASE k = streamed[current] + 1
        BY <2>6, <3>1, <4>3 DEF p
      <4> QED
        BY <4>1, <4>2, <4>3
    <3>2. CASE i # current
      <4>1. i \in Items
        BY <1>1, StreamAssumption DEF TypeOK, Items
      <4> QED
        BY <1>3, <2>6, <2>8, <3>2, <4>1 DEF SpeechInv, SpeechIntact
    <3> QED
      BY <3>1, <3>2
  <2>9. InOrder(u)
    <3> SUFFICES ASSUME NEW a \in 1..Len(u), NEW b \in 1..Len(u), a < b,
                        IsSpeech(u[a]), IsSpeech(u[b])
                 PROVE  Before(u[a], u[b])
      BY DEF InOrder
    <3>1. a \in 1..Len(o) /\ u[a] = o[a]
      BY <2>5
    <3>2. CASE b \in 1..Len(o)
      <4>1. InOrder(o)
        BY DEF SpeechInv, SpeechIntact, InOrder, o
      <4> QED
        BY <2>5, <3>1, <3>2, <4>1 DEF InOrder
    <3>3. CASE b = Len(o) + 1
      <4>1. u[b] = p /\ o[a] \in Shown
        BY <2>4, <2>5, <3>1, <3>3 DEF Parts
      <4>2. o[a][1] < current \/ (o[a][1] = current /\ o[a][2] < streamed[current] + 1)
        BY <1>3, <2>7, <4>1
      <4> QED
        BY <2>3, <3>1, <4>1, <4>2 DEF Before
    <3> QED
      BY <2>5, <3>2, <3>3
  <2>10. ASSUME NEW q \in Speech', q[2] > 1
         PROVE  <<q[1], q[2] - 1>> \in Speech'
    <3>1. CASE q \in Speech
      BY <2>6, <2>10, <3>1 DEF SpeechInv, SpeechIntact
    <3>2. CASE q = p
      <4>1. streamed[current] \in 1..MaxPieces /\ q[1] = current /\ q[2] - 1 = streamed[current]
        BY <1>3, <2>2, <2>3, <2>10, <3>2, StreamAssumption
      <4>2. <<current, streamed[current]>> \in Shown
        BY <1>2, <1>3, <4>1 DEF SpeechInv, SpeechIntact
      <4>3. <<current, streamed[current]>> \in Speech
        BY <1>1, <4>2 DEF Speech, IsSpeech
      <4> QED
        BY <2>6, <4>1, <4>3
    <3> QED
      BY <2>6, <3>1, <3>2
  <2>11. SpeechIntact'
    <3>1. \A i \in 1..Len(kinds'), k \in 1..MaxPieces :
            kinds'[i] = "message" /\ k <= streamed'[i] => <<i, k>> \in Shown'
      BY <1>1, <2>8
    <3> QED
      BY <2>9, <2>10, <3>1 DEF SpeechIntact, InOrder, u
  <2>12. \A q \in Shown' : q[1] < current \/ (q[1] = current /\ q[2] <= streamed'[current])
    BY <1>3, <2>2, <2>3, <2>6, <2>7
  <2>13. \A q \in Speech' : q[1] <= Len(kinds)
    BY <1>3, <2>3, <2>6 DEF SpeechInv
  <2>14. \A i \in Items : i > Len(kinds) => streamed'[i] = 0
    BY <1>1, <1>3 DEF SpeechInv, TypeOK, Items
  <2> QED
    BY <1>1, <2>11, <2>12, <2>13, <2>14 DEF SpeechInv
<1> QED
  BY <1>4, <1>5

(* A completed message is shown as it is reported, or not at all.          *)
LEMMA MessageCompletedSpeech ==
  ASSUME SpeechInv, Hearing, NEW n \in 0..MaxPieces, MessageCompleted(n)
  PROVE  SpeechInv'
<1>1. /\ TypeOK /\ current # 0 /\ kinds[current] = "message" /\ n >= streamed[current]
      /\ kinds' = kinds /\ current' = 0 /\ streamed' = streamed
  BY DEF Hearing, MessageCompleted, Streams
<1>2. CASE resp'.output = resp.output
  BY <1>1, <1>2, SpeechKept
<1>3. CASE /\ resp'.output = Whole(current, n) /\ Len(resp.output) <= n
           /\ \A i \in 1..Len(resp.output) : resp'.output[i] = resp.output[i]
  <2> DEFINE o == resp.output
             u == resp'.output
  <2>1. current \in Items /\ current \in 1..Len(kinds) /\ n \in Nat /\ Len(kinds) \in Nat
    BY <1>1, CurrentType, StreamAssumption DEF TypeOK
  <2>2. Len(u) = n /\ \A i \in 1..n : u[i] = <<current, i>>
    BY <1>3, <2>1 DEF Whole
  <2>3. Len(o) \in Nat /\ Len(o) <= Len(u) /\ \A i \in 1..Len(o) : i \in 1..Len(u) /\ u[i] = o[i]
    BY <1>1, <1>3, <2>1, <2>2 DEF TypeOK, Response
  <2>4. Shown = Parts(o) /\ Shown' = Parts(u)
    BY ShownIsParts
  <2> HIDE DEF o, u
  <2>5. Shown \subseteq Shown'
    BY <2>3, <2>4 DEF Parts
  <2>6. Shown' = {<<current, i>> : i \in 1..n}
    BY <2>2, <2>4 DEF Parts
  <2>7. \A q \in Shown' : IsSpeech(q) /\ q[1] = current
    BY <1>1, <2>6 DEF IsSpeech
  <2>8. Speech' = Shown'
    BY <2>7 DEF Speech
  <2>9. InOrder(u)
    <3> SUFFICES ASSUME NEW a \in 1..Len(u), NEW b \in 1..Len(u), a < b
                 PROVE  Before(u[a], u[b])
      BY DEF InOrder
    <3> QED
      BY <2>2 DEF Before
  <2>10. \A i \in 1..Len(kinds), k \in 1..MaxPieces :
           kinds[i] = "message" /\ k <= streamed[i] => <<i, k>> \in Shown'
    BY <2>5 DEF SpeechInv, SpeechIntact
  <2>11. ASSUME NEW q \in Speech', q[2] > 1
         PROVE  <<q[1], q[2] - 1>> \in Speech'
    <3>1. PICK i \in 1..n : q = <<current, i>>
      BY <2>6, <2>8
    <3>2. q[1] = current /\ q[2] = i /\ i - 1 \in 1..n
      BY <2>1, <2>11, <3>1
    <3> QED
      BY <2>6, <2>8, <3>2
  <2>12. SpeechIntact'
    BY <1>1, <2>9, <2>10, <2>11 DEF SpeechIntact, InOrder, u
  <2>13. \A q \in Speech' : q[1] <= Len(kinds)
    BY <2>1, <2>7, <2>8
  <2> QED
    BY <1>1, <2>12, <2>13 DEF SpeechInv
<1> QED
  BY <1>2, <1>3, MessageCompletedOutput

(* Notes are no speech, so they do not disturb it.                         *)
LEMMA NotedSpeech ==
  ASSUME TypeOK, SpeechInv, resp'.output \in Seq(Pieces), Noted(resp.output, resp'.output),
         UNCHANGED <<kinds, streamed>>, current' = current
  PROVE  /\ SpeechIntact' /\ Speech' = Speech
         /\ \A p \in Speech' : p[1] <= Len(kinds)
<1> DEFINE o == resp.output
           u == resp'.output
<1>1. o \in Seq(Pieces) /\ u \in Seq(Pieces)
  BY DEF TypeOK, Response
<1>2. Shown = Parts(o) /\ Shown' = Parts(u) /\ Noted(o, u)
  BY ShownIsParts
<1>3. InOrder(o)
  BY DEF SpeechInv, SpeechIntact, InOrder
<1> HIDE DEF o, u
<1>4. /\ Len(o) \in Nat /\ Len(u) \in Nat /\ Len(o) <= Len(u)
      /\ \A i \in 1..Len(o) : i \in 1..Len(u) /\ u[i] = o[i]
      /\ \A i \in 1..Len(u) : IsSpeech(u[i]) => i \in 1..Len(o)
  BY <1>1, <1>2, NotesAreNoSpeech DEF Noted
<1>5. Shown \subseteq Shown'
  BY <1>2, <1>4 DEF Parts
<1>6. \A p \in Shown' : IsSpeech(p) => p \in Shown
  BY <1>2, <1>4 DEF Parts
<1>7. Speech' = Speech
  BY <1>5, <1>6 DEF Speech
<1>8. InOrder(u)
  BY <1>3, <1>4 DEF InOrder
<1>9. SpeechIntact'
  BY <1>5, <1>7, <1>8 DEF SpeechInv, SpeechIntact, InOrder, u
<1> QED
  BY <1>7, <1>9 DEF SpeechInv


(* The response adds only notes to what was said.                          *)
LEMMA RespondSpeech ==
  ASSUME TypeOK, WellFormed(resp), SpeechInv, Respond
  PROVE  SpeechInv'
<1>1. resp'.output \in Seq(Pieces) /\ Noted(resp.output, resp'.output)
  BY RespondOutput
<1>2. UNCHANGED <<kinds, streamed>> /\ current' = current
  BY DEF Respond, engineVars
<1>3. SpeechIntact' /\ Speech' = Speech /\ \A p \in Speech' : p[1] <= Len(kinds)
  BY <1>1, <1>2, NotedSpeech
<1>4. ASSUME current # 0, NEW p \in Shown'
      PROVE  p[1] < current \/ (p[1] = current /\ p[2] <= streamed[current])
  <2>1. CASE IsSpeech(p)
    <3>1. p \in Shown
      BY <1>3, <1>4, <2>1 DEF Speech
    <3> QED
      BY <1>4, <3>1 DEF SpeechInv
  <2>2. CASE ~IsSpeech(p)
    BY <1>4, <2>2 DEF IsSpeech, TypeOK
  <2> QED
    BY <2>1, <2>2
<1>5. \A i \in Items : i > Len(kinds) => streamed[i] = 0
  BY DEF SpeechInv
<1> QED
  BY <1>2, <1>3, <1>4, <1>5 DEF SpeechInv

(* Every step keeps what is said intact.                                   *)
LEMMA SpeechStep ==
  ASSUME Inv, SpeechInv, [Next]_vars
  PROVE  SpeechInv'
<1>1. TypeOK /\ (phase # "completed" => WellFormed(resp))
  BY DEF Inv
<1>2. Hears => Hearing
  BY <1>1 DEF Hears, Hearing
<1>3. CASE Begin \/ End \/ UNCHANGED vars
  <2>1. resp' = resp /\ UNCHANGED <<kinds, streamed>> /\ current' \in {current, 0}
    BY <1>3 DEF Begin, End, TurnSucceeds, TurnFails, TurnRetried, TurnBreaks, Publish, vars,
                engineVars
  <2> QED
    BY <2>1, SpeechKept
<1>4. ASSUME NEW kind \in {"message", "reasoning"}, ItemStarted(kind)
      PROVE  SpeechInv'
  <2>1. resp' = resp /\ UNCHANGED streamed /\ NewItem(kind) /\ current' = Len(kinds) + 1
    BY <1>4 DEF ItemStarted
  <2> QED
    BY <1>1, <2>1, NewItemKept
<1>5. ASSUME NEW text \in Deltas, ReasoningDelta(text)
      PROVE  SpeechInv'
  BY <1>2, <1>5, ReasoningDeltaSpeech DEF ReasoningDelta
<1>6. ASSUME NEW text \in Deltas, MessageDelta(text)
      PROVE  SpeechInv'
  BY <1>2, <1>6, MessageDeltaSpeech DEF MessageDelta
<1>7. ASSUME NEW n \in 0..MaxPieces, ReasoningCompleted(n)
      PROVE  SpeechInv'
  <2>1. UNCHANGED <<kinds, streamed>> /\ current' \in {current, 0} /\ Hearing
    BY <1>2, <1>7 DEF ReasoningCompleted
  <2>2. resp'.output = resp.output
    BY <1>7, <2>1, QuietSteps
  <2> QED
    BY <2>1, <2>2, SpeechKept
<1>8. ASSUME NEW n \in 0..MaxPieces, MessageCompleted(n)
      PROVE  SpeechInv'
  BY <1>2, <1>8, MessageCompletedSpeech DEF MessageCompleted
<1>9. CASE ToolStarted
  <2>1. UNCHANGED <<streamed, current>> /\ NewItem("tool") /\ Hearing
    BY <1>2, <1>9 DEF ToolStarted
  <2>2. resp'.output = resp.output
    BY <1>9, <2>1, QuietSteps
  <2> QED
    BY <1>1, <2>1, <2>2, NewItemKept
<1>10. ASSUME NEW item \in Items, ToolCompleted(item)
       PROVE  SpeechInv'
  <2>1. UNCHANGED <<kinds, streamed>> /\ current' \in {current, 0} /\ Hearing
    BY <1>2, <1>10 DEF ToolCompleted
  <2>2. resp'.output = resp.output
    BY <1>10, <2>1, QuietSteps
  <2> QED
    BY <2>1, <2>2, SpeechKept
<1>11. ASSUME NEW willRetry \in BOOLEAN, TurnError(willRetry)
       PROVE  SpeechInv'
  <2>1. resp' = resp /\ UNCHANGED <<kinds, streamed>> /\ current' \in {current, 0}
    BY <1>11 DEF TurnError
  <2> QED
    BY <2>1, SpeechKept
<1>12. CASE Respond
  BY <1>1, <1>12, RespondSpeech DEF Respond
<1> QED
  BY <1>3, <1>4, <1>5, <1>6, <1>7, <1>8, <1>9, <1>10, <1>11, <1>12 DEF Next, Event

-----------------------------------------------------------------------------
(* What is answered                                                        *)

(* Events add nothing but speech.                                          *)
LEMMA EventSpeaks ==
  ASSUME Hearing, Event, \A p \in Shown : IsSpeech(p)
  PROVE  \A p \in Shown' : IsSpeech(p)
<1>1. Shown = Parts(resp.output) /\ Shown' = Parts(resp'.output)
  BY ShownIsParts
<1>2. CASE resp'.output = resp.output
  BY <1>1, <1>2
<1>3. ASSUME NEW text \in Deltas, MessageDelta(text)
      PROVE  \A p \in Shown' : IsSpeech(p)
  <2>1. CASE text = <<>>
    BY <1>2, <1>3, <2>1, MessageDeltaOutput
  <2>2. CASE text # <<>>
    <3> DEFINE p == <<current, streamed[current] + 1>>
               o == resp.output
               u == resp'.output
    <3>1. u = o \o <<p>> /\ o \in Seq(Pieces) /\ text = <<p>>
      BY <1>3, <2>2, MessageDeltaOutput DEF Hearing, TypeOK, Response
    <3>2. p \in Pieces
      BY <2>2, <3>1 DEF Deltas
    <3>3. IsSpeech(p)
      BY <1>3 DEF MessageDelta, Streams, IsSpeech
    <3>4. Shown = Parts(o) /\ Shown' = Parts(u)
      BY <1>1
    <3> HIDE DEF p, o, u
    <3>5. Parts(u) = Parts(o) \union {p}
      BY <3>1, <3>2, AppendPiece
    <3> QED
      BY <3>3, <3>4, <3>5
  <2> QED
    BY <2>1, <2>2
<1>4. ASSUME NEW n \in 0..MaxPieces, MessageCompleted(n)
      PROVE  \A p \in Shown' : IsSpeech(p)
  <2>1. CASE resp'.output = Whole(current, n)
    <3>1. current # 0 /\ n \in Nat
      BY <1>4, StreamAssumption DEF MessageCompleted, Streams
    <3>2. Parts(Whole(current, n)) = {<<current, i>> : i \in 1..n}
      BY <3>1 DEF Parts, Whole
    <3> QED
      BY <1>1, <2>1, <3>1, <3>2 DEF IsSpeech
  <2> QED
    BY <1>2, <1>4, <2>1, MessageCompletedOutput
<1>5. (\E kind \in {"message", "reasoning"} : ItemStarted(kind)) \/
      (\E willRetry \in BOOLEAN : TurnError(willRetry)) => resp' = resp
  BY DEF ItemStarted, TurnError
<1> QED
  BY <1>2, <1>3, <1>4, <1>5, QuietSteps DEF Event

(* A response that is concluded is not silent, and says of the same turn   *)
(* what _activity_reply says.                                              *)
LEMMA RespondAnswers ==
  ASSUME TypeOK, WellFormed(resp), AnswerInv, Respond
  PROVE  AnswerInv'
<1> DEFINE o == resp.output
           u == resp'.output
<1>1. /\ phase = "concluding" /\ turn \in {"ok", "cancelled"}
      /\ \A p \in Shown : IsSpeech(p)
      /\ turn' = turn /\ files' = files /\ failure' = failure
  BY DEF Respond, AnswerInv, engineVars
<1>2. Shown = Parts(o) /\ Shown' = Parts(u) /\ o \in Seq(Pieces)
  BY ShownIsParts DEF TypeOK, Response
<1>3. \/ /\ phase' = "completed"
         /\ o # <<>> \/ files.made \/ files.lost \/ failure
         /\ Parts(u) = Parts(o) \union NotesOf(o)
      \/ /\ phase' = "error"
         /\ u = <<>> /\ o = <<>>
         /\ ~files.made /\ ~files.lost /\ ~failure
  BY RespondOutput
<1> HIDE DEF o, u
<1>4. o = <<>> <=> Parts(o) = {}
  <2>1. CASE o = <<>>
    BY <2>1 DEF Parts
  <2>2. CASE o # <<>>
    <3>1. 1 \in 1..Len(o)
      BY <1>2, <2>2
    <3> QED
      BY <2>2, <3>1 DEF Parts
  <2> QED
    BY <2>1, <2>2
<1>5. files.made \in BOOLEAN /\ files.lost \in BOOLEAN
  BY DEF TypeOK
<1>6. /\ \A p \in Notes : p \notin Parts(o)
      /\ \A p \in Notes : p \notin Blank
  BY <1>1, <1>2, NotesAreNoSpeech, StreamAssumption DEF Notes, Ready, Manifest, Explanation,
     ProfileNote
<1>blank. IsBlank(o) <=> Parts(o) \subseteq Blank
  BY DEF IsBlank, Parts
<1>7. CASE /\ phase' = "completed"
           /\ o # <<>> \/ files.made \/ files.lost \/ failure
           /\ Parts(u) = Parts(o) \union NotesOf(o)
  <2>1. Speech' = Shown
    BY <1>1, <1>2, <1>7, NotesAreNoSpeech DEF Speech, NotesOf, FileNotes, Notes
  <2>2. /\ Ready \in Shown' <=> files.made /\ IsBlank(o)
        /\ Manifest \in Shown' <=> files.made \/ files.lost
        /\ Explanation \in Shown' <=> o = <<>> /\ ~files.made /\ ~files.lost
        /\ ProfileNote \in Shown' /\ Shown \subseteq Shown'
    BY <1>2, <1>6, <1>7, NotesAreNoSpeech DEF NotesOf, FileNotes, Notes
  <2>3. ASSUME ~OnlyBlank'
        PROVE  o = <<>> \/ ~IsBlank(o) \/ files.made \/ files.lost
    BY <1>1, <1>2, <1>4, <1>blank, <2>1, <2>3 DEF OnlyBlank
  <2>4. ASSUME ~OnlyBlank'
        PROVE  NotSilent'
    <3>1. CASE ~IsBlank(o)
      <4>1. PICK p \in Shown : p \notin Blank /\ IsSpeech(p)
        BY <1>1, <1>2, <1>blank, <3>1
      <4> QED
        BY <2>2, <4>1, NotesAreNoSpeech DEF NotSilent, Notes
    <3>2. CASE IsBlank(o)
      <4>1. Manifest \in Shown' \/ Explanation \in Shown'
        BY <2>2, <2>3, <2>4, <3>2
      <4> QED
        BY <1>6, <4>1, NotesAreNoSpeech DEF NotSilent, Notes
    <3> QED
      BY <3>1, <3>2
  <2>5. ASSUME ~OnlyBlank'
        PROVE  ChannelsAgree'
    <3>1. CASE ~IsBlank(o)
      <4>1. TeamsAnswer(Speech)' = "speech" /\ o # <<>>
        BY <1>2, <1>4, <1>blank, <2>1, <3>1 DEF TeamsAnswer
      <4> QED
        BY <1>7, <2>2, <3>1, <4>1 DEF ChannelsAgree
    <3>2. CASE IsBlank(o) /\ files.made
      <4>1. TeamsAnswer(Speech)' = "files"
        BY <1>1, <1>2, <1>blank, <2>1, <3>2 DEF TeamsAnswer
      <4> QED
        BY <1>7, <2>2, <3>2, <4>1 DEF ChannelsAgree
    <3>3. CASE IsBlank(o) /\ ~files.made /\ files.lost
      <4>1. TeamsAnswer(Speech)' = "unpublished"
        BY <1>1, <1>2, <1>blank, <2>1, <3>3 DEF TeamsAnswer
      <4> QED
        BY <1>7, <2>2, <3>3, <4>1 DEF ChannelsAgree
    <3>4. CASE IsBlank(o) /\ ~files.made /\ ~files.lost
      <4>0. o = <<>>
        BY <2>3, <2>5, <3>4
      <4>1. TeamsAnswer(Speech)' = "explanation"
        BY <1>1, <1>2, <1>4, <1>7, <2>1, <3>4, <4>0 DEF TeamsAnswer
      <4> QED
        BY <1>7, <2>2, <3>4, <4>0, <4>1 DEF ChannelsAgree
    <3> QED
      BY <1>5, <3>1, <3>2, <3>3, <3>4
  <2> QED
    BY <1>1, <1>7, <2>4, <2>5 DEF AnswerInv, AnswersAlike
<1>8. CASE /\ phase' = "error"
           /\ u = <<>> /\ o = <<>>
           /\ ~files.made /\ ~files.lost /\ ~failure
  <2>1. Shown' = {} /\ Speech' = {}
    BY <1>2, <1>4, <1>8 DEF Speech
  <2>2. TeamsAnswer(Speech)' = "error"
    BY <1>1, <1>8, <2>1 DEF TeamsAnswer
  <2>3. ChannelsAgree'
    BY <1>8, <2>1, <2>2 DEF ChannelsAgree
  <2>4. NotSilent'
    BY <1>8 DEF NotSilent
  <2> QED
    BY <1>1, <1>8, <2>3, <2>4 DEF AnswerInv, AnswersAlike
<1> QED
  BY <1>3, <1>7, <1>8

(* Every step keeps the answers alike.                                     *)
LEMMA AnswerStep ==
  ASSUME Inv, AnswerInv, [Next]_vars
  PROVE  AnswerInv'
<1>1. TypeOK /\ (phase # "completed" => WellFormed(resp))
  BY DEF Inv
<1>2. CASE Begin \/ End
  <2>1. resp' = resp /\ Shown' = Shown
    BY <1>2 DEF Begin, End, TurnSucceeds, TurnFails, TurnRetried, TurnBreaks, Publish, Shown
  <2>2. \/ phase' = "running" /\ turn' = "running"
        \/ phase' = "error" /\ turn' \in {"running", "failed"}
        \/ phase' \in {"publishing", "concluding"} /\ turn' \in {"ok", "cancelled"}
    BY <1>1, <1>2 DEF AnswerInv, Begin, End, TurnSucceeds, TurnFails, TurnRetried, TurnBreaks,
                      Publish, engineVars
  <2>3. phase' \in {"running", "publishing", "concluding"} => phase \notin {"completed", "error"}
    BY <1>2 DEF Begin, End, TurnSucceeds, TurnFails, TurnRetried, TurnBreaks, Publish
  <2>4. AnswersAlike'
    BY <2>2 DEF AnswersAlike, NotSilent, ChannelsAgree
  <2> QED
    BY <2>1, <2>2, <2>3, <2>4 DEF AnswerInv
<1>3. CASE Event
  <2>1. Hears
    BY <1>3 DEF Event, ItemStarted, ReasoningDelta, MessageDelta, ReasoningCompleted,
                MessageCompleted, ToolStarted, ToolCompleted, TurnError
  <2>2. Hearing /\ phase' = "running" /\ turn' = "running"
    BY <1>1, <2>1 DEF Hears, Hearing, AnswerInv
  <2>3. \A p \in Shown' : IsSpeech(p)
    BY <1>3, <2>2, EventSpeaks DEF AnswerInv, Hearing
  <2>4. AnswersAlike'
    BY <2>2 DEF AnswersAlike, NotSilent, ChannelsAgree
  <2> QED
    BY <2>2, <2>3, <2>4 DEF AnswerInv
<1>4. CASE Respond
  BY <1>1, <1>4, RespondAnswers DEF Respond
<1>5. CASE UNCHANGED vars
  <2>1. resp' = resp /\ phase' = phase /\ turn' = turn /\ files' = files /\ failure' = failure
    BY <1>5 DEF vars, engineVars
  <2>2. Shown' = Shown /\ Speech' = Speech /\ OnlyBlank' = OnlyBlank
    BY <2>1 DEF Shown, Speech, OnlyBlank
  <2>3. TeamsAnswer(Speech)' = TeamsAnswer(Speech)
    BY <2>1, <2>2 DEF TeamsAnswer
  <2>4. AnswersAlike'
    BY <2>1, <2>2, <2>3 DEF AnswerInv, AnswersAlike, NotSilent, ChannelsAgree
  <2> QED
    BY <2>1, <2>2, <2>4 DEF AnswerInv
<1> QED
  BY <1>2, <1>3, <1>4, <1>5 DEF Next

(* Nothing is shown at first.                                              *)
LEMMA InitSpeech == Init => SpeechInv /\ AnswerInv
<1> SUFFICES ASSUME Init
             PROVE  SpeechInv /\ AnswerInv
  OBVIOUS
<1>1. Shown = {} /\ Speech = {} /\ Len(resp.output) = 0
  BY DEF Init, Empty, Shown, Speech
<1>2. Len(kinds) = 0 /\ current = 0 /\ \A i \in Items : streamed[i] = 0
  BY DEF Init
<1>3. SpeechIntact
  BY <1>1, <1>2 DEF SpeechIntact
<1>4. SpeechInv
  BY <1>1, <1>2, <1>3 DEF SpeechInv
<1>5. phase = "new" /\ turn = "running"
  BY DEF Init
<1>6. AnswersAlike
  BY <1>5 DEF AnswersAlike, NotSilent, ChannelsAgree
<1> QED
  BY <1>1, <1>4, <1>5, <1>6 DEF AnswerInv

-----------------------------------------------------------------------------
(* Theorems                                                                *)

(* The invariant holds of every behaviour.                                 *)
THEOREM InvHolds == Spec => []Inv
<1>1. Inv /\ [Next]_vars => Inv'
  BY InvStep
<1> QED
  BY <1>1, InitInv, PTL DEF Spec

(* A completed response has closed all its items and holds one message,    *)
(* whose text is the announced text, after any events (main.py 670-728).   *)
THEOREM CompletionIsClosed == Spec => []CompletionIsWhole
<1>1. Inv => CompletionIsWhole
  BY DEF Inv, CompletionIsWhole
<1> QED
  BY <1>1, InvHolds, PTL

(* What was streamed to a caller is never taken back (main.py 520-728).    *)
THEOREM NothingTakenBack == Spec => ItemsOnlyGrow
<1>1. Inv /\ [Next]_vars =>
      [\A i \in 1..Len(resp.out) :
         /\ i <= Len(resp'.out)
         /\ resp'.out[i].kind = resp.out[i].kind
         /\ IsPrefixOf(resp.out[i].text, resp'.out[i].text)
         /\ ~resp.out[i].open => resp'.out[i] = resp.out[i]]_vars
  BY InvStep DEF Grows
<1> QED
  BY <1>1, InvHolds, PTL DEF Spec, ItemsOnlyGrow

(* The answer holds every piece of the messages the engine streamed, in    *)
(* order and without gaps, although each message is reported twice, and    *)
(* whatever reasoning, tools, files and retries come between (main.py      *)
(* 598-661, 683-728).                                                      *)
THEOREM SpeechHolds == Spec => []SpeechIntact
<1>1. Inv /\ SpeechInv /\ [Next]_vars => SpeechInv'
  BY SpeechStep
<1>2. SpeechInv => SpeechIntact
  BY DEF SpeechInv
<1> QED
  BY <1>1, <1>2, InitSpeech, InvHolds, PTL DEF Spec

(* Whatever pieces are whitespace: every response that completes says      *)
(* something besides its profile, and the console and Teams answer the     *)
(* same turn with the same kind of answer (main.py 330-373, 683-728),      *)
(* except for a turn that said only whitespace and left no files, which    *)
(* the console completes and Teams explains (main.py 362, 702).            *)
THEOREM AnswersHold == Spec => []AnswersAlike
<1>1. Inv /\ AnswerInv /\ [Next]_vars => AnswerInv'
  BY AnswerStep
<1>2. AnswerInv => AnswersAlike
  BY DEF AnswerInv
<1> QED
  BY <1>1, <1>2, InitSpeech, InvHolds, PTL DEF Spec
=============================================================================
