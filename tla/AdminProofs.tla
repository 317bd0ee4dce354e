---------------------------- MODULE AdminProofs -----------------------------
(***************************************************************************)
(* Theorems about AdminSession, for any calls, answers, cap on a line and  *)
(* number of calls, wherever a future is dropped or the stream ends.       *)
(***************************************************************************)
EXTENDS AdminSession, Numbers

-----------------------------------------------------------------------------
(* Letters and lines.                                                      *)

Letters == STRING \cup Calls \cup {CR, LF, SP, "ERR", "u", "t"}

LEMMA CallIsNoLineEnd == \A c \in Calls : c \notin {CR, LF} /\ c # NoCall
  BY AdminAssumption DEF Known, Lists, Values, Acks, CR, LF, NoCall

\* Where the last, or the first, element of a kind is.
LEMMA LastIn ==
    ASSUME NEW n \in Nat, NEW T \in SUBSET (1 .. n), T # {}
    PROVE  Max(T) \in T /\ \A i \in T : i <= Max(T)
  <1>1. \E g \in T : \A m \in T : m <= g
    <2>1. T \in SUBSET (0 .. n)
      OBVIOUS
    <2> QED
      BY <2>1, GreatestNumber
  <1>2. \E g \in T : \A m \in T : g >= m
    BY <1>1
  <1>3. Max(T) \in T /\ \A m \in T : Max(T) >= m
    BY <1>2 DEF Max
  <1> QED
    BY <1>3

LEMMA FirstIn ==
    ASSUME NEW n \in Nat, NEW T \in SUBSET (1 .. n), T # {}
    PROVE  Min(T) \in T /\ \A i \in T : Min(T) <= i
  <1>1. T \in SUBSET Nat
    OBVIOUS
  <1>2. \E g \in T : \A m \in T : g =< m
    BY <1>1, LeastNumber
  <1> QED
    BY <1>2 DEF Min

\* The letters of text that are no line's end.
Inner(text) == {i \in 1 .. Len(text) : text[i] \notin {CR, LF}}

LEMMA TrimmedTo ==
    ASSUME NEW S, NEW text \in Seq(S)
    PROVE  \E last \in 0 .. Len(text) :
              /\ Trimmed(text) = SubSeq(text, 1, last)
              /\ last # 0 => text[last] \notin {CR, LF}
              /\ \A i \in last + 1 .. Len(text) : text[i] \in {CR, LF}
  <1>1. Len(text) \in Nat /\ Inner(text) \in SUBSET (1 .. Len(text))
    BY DEF Inner
  <1> DEFINE last == IF Inner(text) # {} THEN Max(Inner(text)) ELSE 0
  <1>2. Trimmed(text) = SubSeq(text, 1, last)
    BY DEF Trimmed, SelectLastInSeq, Inner
  <1>3. CASE Inner(text) = {}
    <2>1. last = 0 /\ \A i \in 1 .. Len(text) : text[i] \in {CR, LF}
      BY <1>3 DEF Inner
    <2> QED
      BY <1>1, <1>2, <2>1
  <1>4. CASE Inner(text) # {}
    <2>1. last \in Inner(text) /\ \A i \in Inner(text) : i <= last
      BY <1>1, <1>4, LastIn
    <2>2. last \in 1 .. Len(text) /\ text[last] \notin {CR, LF}
      BY <2>1 DEF Inner
    <2> HIDE DEF last
    <2>3. ASSUME NEW i \in last + 1 .. Len(text) PROVE text[i] \in {CR, LF}
      <3>1. i \in 1 .. Len(text) /\ ~(i <= last)
        BY <1>1, <2>2
      <3> QED
        BY <2>1, <3>1 DEF Inner
    <2> QED
      BY <1>2, <2>2, <2>3
  <1> QED
    BY <1>3, <1>4

\* A line loses its end and nothing else at the front.
LEMMA TrimmedFacts ==
    ASSUME NEW S, NEW text \in Seq(S)
    PROVE  /\ Trimmed(text) \in Seq(S) /\ Len(Trimmed(text)) <= Len(text)
           /\ Trimmed(text) # <<>> => text # <<>> /\ Head(Trimmed(text)) = text[1]
  <1>1. PICK last \in 0 .. Len(text) : Trimmed(text) = SubSeq(text, 1, last)
    BY TrimmedTo
  <1> QED
    BY <1>1

LEMMA TrimmedLine ==
    ASSUME NEW S, NEW text \in Seq(S), LF \in S
    PROVE  Trimmed(Append(text, LF)) \in Seq(S) /\ Len(Trimmed(Append(text, LF))) <= Len(text)
  <1> DEFINE t == Append(text, LF)
  <1>1. t \in Seq(S) /\ Len(t) = Len(text) + 1 /\ t[Len(text) + 1] = LF /\ Len(text) \in Nat
    OBVIOUS
  <1> HIDE DEF t
  <1>2. PICK last \in 0 .. Len(t) :
           Trimmed(t) = SubSeq(t, 1, last) /\ (last # 0 => t[last] \notin {CR, LF})
    BY <1>1, TrimmedTo
  <1>3. last \in 0 .. Len(text)
    BY <1>1, <1>2
  <1>4. Trimmed(t) \in Seq(S) /\ Len(Trimmed(t)) = last
    BY <1>1, <1>2
  <1> QED
    BY <1>1, <1>3, <1>4 DEF t

\* The line of a command (send_line).
LEMMA TrimmedCommand ==
    ASSUME NEW c \in Calls
    PROVE  Trimmed(<<c, CR, LF>>) = <<c>>
  <1> DEFINE t == <<c, CR, LF>>
  <1>1. t \in Seq(Letters) /\ Len(t) = 3 /\ t[1] = c /\ t[2] = CR /\ t[3] = LF
    BY DEF Letters
  <1> HIDE DEF t
  <1>2. PICK last \in 0 .. Len(t) :
           /\ Trimmed(t) = SubSeq(t, 1, last) /\ (last # 0 => t[last] \notin {CR, LF})
           /\ \A i \in last + 1 .. Len(t) : t[i] \in {CR, LF}
    BY <1>1, TrimmedTo
  <1>3. last = 1
    <2>1. last \in 0 .. 3 /\ last # 2 /\ last # 3
      BY <1>1, <1>2
    <2>2. last # 0
      BY <1>1, <1>2, CallIsNoLineEnd
    <2> QED
      BY <2>1, <2>2
  <1>4. Trimmed(t) \in Seq(Letters) /\ Len(Trimmed(t)) = 1 /\ Trimmed(t)[1] = c
    BY <1>1, <1>2, <1>3
  <1> QED
    BY <1>4 DEF t

\* Where the first line of a text ends, if it does.
LineEnd(text) == SelectInSeq(text, LAMBDA x : x = LF)

LEMMA FirstLineEnd ==
    ASSUME NEW S, NEW text \in Seq(S)
    PROVE  /\ LineEnd(text) \in 0 .. Len(text)
           /\ LineEnd(text) = 0 <=> \A i \in 1 .. Len(text) : text[i] # LF
           /\ LineEnd(text) # 0 => /\ text[LineEnd(text)] = LF
                                   /\ \A i \in 1 .. LineEnd(text) - 1 : text[i] # LF
  <1> DEFINE T == {i \in 1 .. Len(text) : text[i] = LF}
  <1>1. LineEnd(text) = IF T # {} THEN Min(T) ELSE 0
    BY DEF LineEnd, SelectInSeq
  <1>2. Len(text) \in Nat /\ T \in SUBSET (1 .. Len(text))
    OBVIOUS
  <1>3. CASE T = {}
    BY <1>1, <1>2, <1>3
  <1>4. CASE T # {}
    <2>1. LineEnd(text) \in T /\ \A i \in T : LineEnd(text) <= i
      BY <1>1, <1>2, <1>4, FirstIn
    <2>2. LineEnd(text) \in 1 .. Len(text) /\ text[LineEnd(text)] = LF
      BY <2>1
    <2>3. ASSUME NEW i \in 1 .. LineEnd(text) - 1 PROVE text[i] # LF
      <3>1. i \in 1 .. Len(text) /\ ~(LineEnd(text) <= i)
        BY <1>2, <2>2
      <3> QED
        BY <2>1, <3>1
    <2> QED
      BY <1>2, <2>2, <2>3
  <1> QED
    BY <1>3, <1>4

-----------------------------------------------------------------------------
(* What the server writes: lines, each with its end.                       *)

\* Line k of lines ends at end[k] of the text.
Laid(lns, text, end) ==
    /\ end \in [0 .. Len(lns) -> Nat]
    /\ end[0] = 0 /\ end[Len(lns)] = Len(text)
    /\ \A k \in 1 .. Len(lns) :
          /\ end[k] = end[k - 1] + Len(lns[k]) + 1
          /\ end[k] <= Len(text)
          /\ text[end[k]] = LF
          /\ \A i \in 1 .. Len(lns[k]) : text[end[k - 1] + i] = lns[k][i]

WithEnds(lns) == [i \in DOMAIN lns |-> lns[i] \o <<LF>>]

\* f joins the first n of lines, as the function in FlattenSeq does.
Joins(f, lns, n) == f = [i \in 1 .. n |-> IF i = 1 THEN lns[i] ELSE f[i - 1] \o lns[i]]

LEMMA SomeJoins == \A lns : \A n \in Nat : \E f : Joins(f, lns, n)
  <1> SUFFICES ASSUME NEW lns PROVE \A n \in Nat : \E f : Joins(f, lns, n)
    OBVIOUS
  <1> DEFINE T == {n \in Nat : \E f : Joins(f, lns, n)}
  <1>1. 0 \in T
    <2> DEFINE f == [i \in 1 .. 0 |-> <<>>]
    <2>1. Joins(f, lns, 0)
      BY DEF Joins
    <2> QED
      BY <2>1
  <1>2. ASSUME NEW n \in Nat, n \in T PROVE n + 1 \in T
    <2>1. PICK f : Joins(f, lns, n)
      BY <1>2
    <2>2. \A i \in 1 .. n : f[i] = IF i = 1 THEN lns[i] ELSE f[i - 1] \o lns[i]
      BY <2>1 DEF Joins
    <2> DEFINE h == [i \in 1 .. n + 1 |-> IF i <= n THEN f[i]
                                          ELSE IF n = 0 THEN lns[1] ELSE f[n] \o lns[n + 1]]
    <2>3. ASSUME NEW i \in 1 .. n + 1
          PROVE  h[i] = IF i = 1 THEN lns[i] ELSE h[i - 1] \o lns[i]
      <3>1. CASE i = n + 1
        BY <3>1
      <3>2. CASE i <= n
        BY <2>2, <3>2
      <3> QED
        BY <3>1, <3>2
    <2>4. Joins(h, lns, n + 1)
      BY <2>3 DEF Joins
    <2> QED
      BY <2>4
  <1> HIDE DEF T
  <1>3. \A n \in Nat : n \in T
    BY <1>1, <1>2, SetInduction
  <1> QED
    BY <1>3 DEF T

LEMMA FlattenJoins ==
    ASSUME NEW S, NEW lns \in Seq(Seq(S)), lns # <<>>
    PROVE  \E f : Joins(f, lns, Len(lns)) /\ FlattenSeq(lns) = f[Len(lns)]
  <1> DEFINE f == CHOOSE f : Joins(f, lns, Len(lns))
  <1>1. Len(lns) \in Nat /\ Len(lns) # 0
    OBVIOUS
  <1>2. \E g : Joins(g, lns, Len(lns))
    BY <1>1, SomeJoins
  <1>3. Joins(f, lns, Len(lns))
    BY <1>2, Zenon
  <1>4. FlattenSeq(lns) = f[Len(lns)]
    BY <1>1 DEF FlattenSeq, Joins
  <1> QED
    BY <1>3, <1>4

\* The text t begins with s.
Begins(s, t) == Len(s) <= Len(t) /\ \A k \in 1 .. Len(s) : t[k] = s[k]

\* Each of the joined texts begins with those before it.
LEMMA JoinsGrow ==
    ASSUME NEW S, NEW lns \in Seq(Seq(S)), NEW f, Joins(f, lns, Len(lns))
    PROVE  /\ \A i \in 1 .. Len(lns) : f[i] \in Seq(S)
           /\ \A i \in 1 .. Len(lns) : f[i] = IF i = 1 THEN lns[i] ELSE f[i - 1] \o lns[i]
           /\ \A i, j \in 1 .. Len(lns) : i <= j => Begins(f[i], f[j])
  <1> DEFINE n == Len(lns)
  <1>1. n \in Nat /\ \A i \in 1 .. n : lns[i] \in Seq(S)
    OBVIOUS
  <1>2. \A i \in 1 .. n : f[i] = IF i = 1 THEN lns[i] ELSE f[i - 1] \o lns[i]
    BY <1>1 DEF Joins
  <1> HIDE DEF n
  <1>3. \A i \in 1 .. n : f[i] \in Seq(S)
    <2> DEFINE T == {i \in Nat : i \in 1 .. n => f[i] \in Seq(S)}
    <2>1. 0 \in T
      OBVIOUS
    <2>2. ASSUME NEW i \in Nat, i \in T, i + 1 \in 1 .. n PROVE f[i + 1] \in Seq(S)
      <3>1. CASE i = 0
        BY <1>1, <1>2, <2>2, <3>1
      <3>2. CASE i # 0
        <4>1. i \in 1 .. n /\ i + 1 # 1 /\ (i + 1) - 1 = i
          BY <1>1, <2>2, <3>2
        <4>2. f[i + 1] = f[i] \o lns[i + 1]
          BY <1>2, <2>2, <4>1
        <4>3. f[i] \in Seq(S) /\ lns[i + 1] \in Seq(S)
          BY <1>1, <2>2, <4>1
        <4> QED
          BY <4>2, <4>3
      <3> QED
        BY <3>1, <3>2
    <2>3. \A i \in Nat : i \in T => i + 1 \in T
      BY <2>2
    <2> HIDE DEF T
    <2>4. \A i \in Nat : i \in T
      BY <2>1, <2>3, SetInduction
    <2> QED
      BY <1>1, <2>4 DEF T
  <1>4. ASSUME NEW i \in 1 .. n, NEW j \in 1 .. n, i <= j
        PROVE  Begins(f[i], f[j])
    <2> DEFINE T == {x \in Nat : i + x <= n => Begins(f[i], f[i + x])}
    <2>1. 0 \in T
      BY <1>1, <1>3 DEF Begins
    <2>2. ASSUME NEW x \in Nat, x \in T, i + (x + 1) <= n PROVE Begins(f[i], f[i + (x + 1)])
      <3> DEFINE a == f[i + x]  b == f[i + (x + 1)]  t == lns[i + (x + 1)]
      <3>1. /\ i + x \in 1 .. n /\ i + (x + 1) \in 1 .. n
            /\ i + (x + 1) # 1 /\ (i + (x + 1)) - 1 = i + x
        BY <1>1, <2>2
      <3>2. b = a \o t
        BY <1>2, <3>1
      <3>3. a \in Seq(S) /\ t \in Seq(S) /\ f[i] \in Seq(S)
        BY <1>1, <1>3, <3>1
      <3>4. Begins(f[i], a)
        BY <2>2, <3>1
      <3> HIDE DEF a, b, t
      <3>5. Len(a) <= Len(b) /\ \A k \in 1 .. Len(a) : b[k] = a[k]
        BY <3>2, <3>3
      <3>6. Len(f[i]) <= Len(a) /\ \A k \in 1 .. Len(f[i]) : a[k] = f[i][k]
        BY <3>4 DEF Begins
      <3>7. Len(f[i]) \in Nat /\ Len(a) \in Nat /\ Len(b) \in Nat
        BY <3>2, <3>3
      <3>8. Len(f[i]) <= Len(b) /\ \A k \in 1 .. Len(f[i]) : b[k] = f[i][k]
        BY <3>5, <3>6, <3>7
      <3> QED
        BY <3>8 DEF b, Begins
    <2>3. \A x \in Nat : x \in T => x + 1 \in T
      BY <2>2
    <2> HIDE DEF T
    <2>4. \A x \in Nat : x \in T
      BY <2>1, <2>3, SetInduction
    <2>5. j - i \in Nat /\ i + (j - i) = j /\ j <= n
      BY <1>1, <1>4
    <2>6. j - i \in T
      BY <2>4, <2>5
    <2> QED
      BY <2>5, <2>6 DEF T
  <1> QED
    BY <1>2, <1>3, <1>4 DEF n

LEMMA FlattenTyped ==
    ASSUME NEW S, NEW lns \in Seq(Seq(S))
    PROVE  FlattenSeq(lns) \in Seq(S)
  <1>1. CASE lns = <<>>
    BY <1>1 DEF FlattenSeq
  <1>2. CASE lns # <<>>
    <2>1. PICK f : Joins(f, lns, Len(lns)) /\ FlattenSeq(lns) = f[Len(lns)]
      BY <1>2, FlattenJoins
    <2>2. Len(lns) \in 1 .. Len(lns)
      BY <1>2
    <2> QED
      BY <2>1, <2>2, JoinsGrow
  <1> QED
    BY <1>1, <1>2

LEMMA EndsTyped ==
    ASSUME NEW S, NEW lns \in Seq(Seq(S)), LF \in S
    PROVE  /\ WithEnds(lns) \in Seq(Seq(S)) /\ Len(WithEnds(lns)) = Len(lns)
           /\ \A k \in 1 .. Len(lns) : WithEnds(lns)[k] = lns[k] \o <<LF>>
  <1>1. Len(lns) \in Nat /\ DOMAIN lns = 1 .. Len(lns)
    OBVIOUS
  <1>2. \A k \in 1 .. Len(lns) : lns[k] \o <<LF>> \in Seq(S)
    OBVIOUS
  <1> QED
    BY <1>1, <1>2 DEF WithEnds

LEMMA FlattenIsLaid ==
    ASSUME NEW S, NEW lns \in Seq(Seq(S)), LF \in S
    PROVE  \E end : Laid(lns, FlattenSeq(WithEnds(lns)), end)
  <1> DEFINE w == WithEnds(lns)  n == Len(lns)
  <1>1. /\ w \in Seq(Seq(S)) /\ Len(w) = n /\ n \in Nat
        /\ \A k \in 1 .. n : w[k] = lns[k] \o <<LF>> /\ lns[k] \in Seq(S)
    <2>1. n \in Nat /\ \A k \in 1 .. n : lns[k] \in Seq(S)
      OBVIOUS
    <2> QED
      BY <2>1, EndsTyped
  <1> HIDE DEF w
  <1>2. CASE n = 0
    <2> DEFINE end == [k \in 0 .. 0 |-> 0]
    <2>1. FlattenSeq(w) = w /\ Len(w) = 0
      BY <1>1, <1>2 DEF FlattenSeq
    <2>2. Laid(lns, w, end)
      BY <1>2, <2>1 DEF Laid
    <2> QED
      BY <2>1, <2>2 DEF w
  <1>3. CASE n # 0
    <2>0. w # <<>>
      BY <1>1, <1>3
    <2>1. PICK f : Joins(f, w, Len(w)) /\ FlattenSeq(w) = f[n]
      <3>1. \E f : Joins(f, w, Len(w)) /\ FlattenSeq(w) = f[Len(w)]
        BY <1>1, <2>0, FlattenJoins
      <3> QED
        BY <1>1, <3>1
    <2>2. /\ \A i \in 1 .. n : f[i] \in Seq(S)
          /\ \A i \in 1 .. n : f[i] = IF i = 1 THEN w[i] ELSE f[i - 1] \o w[i]
          /\ \A i, j \in 1 .. n : i <= j => Begins(f[i], f[j])
      BY <1>1, <2>1, JoinsGrow
    <2> DEFINE end == [k \in 0 .. n |-> IF k = 0 THEN 0 ELSE Len(f[k])]
    <2>3. end \in [0 .. n -> Nat] /\ end[0] = 0 /\ end[n] = Len(f[n])
      BY <1>1, <1>3, <2>2
    <2>4. ASSUME NEW k \in 1 .. n
          PROVE  /\ end[k] = end[k - 1] + Len(lns[k]) + 1
                 /\ end[k] <= Len(f[n])
                 /\ f[n][end[k]] = LF
                 /\ \A i \in 1 .. Len(lns[k]) : f[n][end[k - 1] + i] = lns[k][i]
      <3> DEFINE a == IF k = 1 THEN <<>> ELSE f[k - 1]  b == f[k]  l == lns[k]
      <3>1. a \in Seq(S) /\ l \in Seq(S) /\ b = a \o (l \o <<LF>>)
        <4>1. CASE k = 1
          <5>1. b = l \o <<LF>> /\ l \in Seq(S) /\ a = <<>>
            BY <1>1, <2>2, <4>1
          <5>2. \A t \in Seq(S) : <<>> \o t = t
            OBVIOUS
          <5>3. l \o <<LF>> \in Seq(S)
            BY <5>1
          <5>4. <<>> \o (l \o <<LF>>) = l \o <<LF>> /\ <<>> \in Seq(S)
            BY <5>2, <5>3
          <5> HIDE DEF a, b, l
          <5> QED
            BY <5>1, <5>4
        <4>2. CASE k # 1
          <5>1. k - 1 \in 1 .. n
            BY <4>2
          <5>2. a = f[k - 1] /\ a \in Seq(S) /\ l \in Seq(S)
            BY <1>1, <2>2, <4>2, <5>1
          <5>3. b = a \o w[k] /\ w[k] = l \o <<LF>>
            BY <1>1, <2>2, <4>2, <5>2
          <5> QED
            BY <5>2, <5>3
        <4> QED
          BY <4>1, <4>2
      <3>2. end[k - 1] = Len(a) /\ end[k] = Len(b)
        BY <1>1
      <3>3. Begins(b, f[n])
        <4>1. n \in 1 .. n /\ k <= n
          BY <1>1
        <4> QED
          BY <2>2, <4>1
      <3> HIDE DEF a, b, l, end
      <3>4. Len(b) = Len(a) + Len(l) + 1 /\ b[Len(b)] = LF
        BY <3>1
      <3>5. \A i \in 1 .. Len(l) : b[Len(a) + i] = l[i]
        BY <3>1
      <3>6. Len(a) \in Nat /\ Len(l) \in Nat
        BY <3>1
      <3>7. Len(b) <= Len(f[n]) /\ \A x \in 1 .. Len(b) : f[n][x] = b[x]
        BY <3>3 DEF Begins
      <3>8. f[n][Len(b)] = LF
        BY <3>4, <3>6, <3>7
      <3>9. ASSUME NEW i \in 1 .. Len(l) PROVE f[n][Len(a) + i] = l[i]
        <4>1. Len(a) + i \in 1 .. Len(b)
          BY <3>4, <3>6
        <4> QED
          BY <3>5, <3>7, <4>1
      <3> QED
        BY <3>2, <3>4, <3>7, <3>8, <3>9 DEF l
    <2> HIDE DEF end
    <2>5. Laid(lns, f[n], end)
      BY <2>3, <2>4 DEF Laid
    <2> QED
      BY <2>1, <2>5 DEF w
  <1> QED
    BY <1>2, <1>3

LEMMA SeqOfMore == ASSUME NEW S, NEW T, S \subseteq T, NEW s \in Seq(S) PROVE s \in Seq(T)
  OBVIOUS

LEMMA Replies ==
    ASSUME NEW c \in Calls, NEW answer \in Answers[c]
    PROVE  LET text == ReplyLines(c, answer)
           IN  /\ text \in Seq(Seq(Letters)) /\ Reply(c, answer) \in Seq(Letters)
               /\ \E end : Laid(text, Reply(c, answer), end)
               /\ \A k \in 1 .. Len(text) :
                     /\ text[k] \in Seq(Letters) /\ text[k] # <<>>
                     /\ \A i \in 1 .. Len(text[k]) : text[k][i] # LF
                     /\ Trimmed(Append(text[k], LF)) = Dot => k = Len(text)
                     /\ k = Len(text) /\ text[k][1] = "." => text[k] = Dot
               /\ c \notin Lists => Len(text) = 1
  <1> DEFINE text == ReplyLines(c, answer)
  <1>1. /\ text \in Seq(Seq(STRING))
        /\ \A i \in DOMAIN text : /\ LF \notin ToSet(text[i]) /\ text[i] # <<>>
                                  /\ Trimmed(Append(text[i], LF)) = Dot => i = Len(text)
                                  /\ i = Len(text) /\ Head(text[i]) = "." => text[i] = Dot
    BY AdminAssumption
  <1>2. c \notin Lists => Len(text) = 1
    <2>1. c \notin Lists => c \in Values \cup Acks
      BY AdminAssumption DEF Known
    <2> QED
      BY <2>1 DEF ReplyLines
  <1>3. Reply(c, answer) = FlattenSeq(WithEnds(text))
    BY DEF Reply, WithEnds
  <1> HIDE DEF text
  <1>4. text \in Seq(Seq(Letters))
    <2>1. STRING \subseteq Letters
      BY DEF Letters
    <2>2. \A k \in 1 .. Len(text) : text[k] \in Seq(STRING)
      BY <1>1
    <2>3. \A x \in Seq(STRING) : x \in Seq(Letters)
      BY <2>1, SeqOfMore
    <2> QED
      BY <1>1, <2>2, <2>3
  <1>5. LF \in Letters
    BY DEF Letters
  <1>6. FlattenSeq(WithEnds(text)) \in Seq(Letters)
    <2>1. WithEnds(text) \in Seq(Seq(Letters))
      BY <1>4, <1>5, EndsTyped
    <2> QED
      BY <2>1, FlattenTyped
  <1>7. \E end : Laid(text, FlattenSeq(WithEnds(text)), end)
    BY <1>4, <1>5, FlattenIsLaid
  <1>8. ASSUME NEW k \in 1 .. Len(text)
        PROVE  /\ text[k] \in Seq(Letters) /\ text[k] # <<>>
               /\ \A i \in 1 .. Len(text[k]) : text[k][i] # LF
               /\ Trimmed(Append(text[k], LF)) = Dot => k = Len(text)
               /\ k = Len(text) /\ text[k][1] = "." => text[k] = Dot
    <2>1. /\ k \in DOMAIN text /\ text[k] \in Seq(Letters) /\ text[k] # <<>>
          /\ Head(text[k]) = text[k][1]
      BY <1>1, <1>4
    <2>2. \A i \in 1 .. Len(text[k]) : text[k][i] \in ToSet(text[k])
      BY <2>1 DEF ToSet
    <2> QED
      BY <1>1, <2>1, <2>2
  <1> QED
    BY <1>2, <1>3, <1>4, <1>6, <1>7, <1>8 DEF text

LEMMA UnknownReply == Reply("getpid", Unknown) \in Seq(Letters)
  <1> DEFINE fields == << <<"u">>, <<"t">> >>
             parts == [i \in DOMAIN fields |-> IF i = 1 THEN fields[1] ELSE <<SP>> \o fields[i]]
             line1 == <<"ERR", SP>> \o FlattenSeq(parts) \o <<CR>>
             text == << line1 >>
  <1>1. FlattenSeq(parts) \in Seq(Letters)
    <2>1. <<"u">> \in Seq(Letters) /\ <<"t">> \in Seq(Letters) /\ <<SP>> \in Seq(Letters)
      BY DEF Letters
    <2>2. DOMAIN fields = 1 .. 2 /\ fields[1] \in Seq(Letters) /\ fields[2] \in Seq(Letters)
      BY <2>1
    <2> HIDE DEF fields
    <2>3. parts \in Seq(Seq(Letters))
      <3>1. \A i \in 1 .. 2 : <<SP>> \o fields[i] \in Seq(Letters)
        BY <2>1, <2>2
      <3>2. \A i \in 1 .. 2 :
               (IF i = 1 THEN fields[1] ELSE <<SP>> \o fields[i]) \in Seq(Letters)
        BY <2>2, <3>1
      <3> QED
        BY <2>2, <3>2
    <2> HIDE DEF parts
    <2> QED
      BY <2>3, FlattenTyped
  <1>2. ReplyLines("getpid", Unknown) = text
    <2>1. Join(fields, SP) = FlattenSeq(parts)
      BY DEF Join
    <2>2. Unknown.type = "server_error" /\ Unknown.value[1] = fields
      BY DEF Unknown, Outcome
    <2> HIDE DEF fields, parts
    <2> QED
      BY <2>1, <2>2 DEF ReplyLines
  <1> HIDE DEF parts
  <1>3. text \in Seq(Seq(Letters)) /\ LF \in Letters
    <2>1. <<"ERR", SP>> \in Seq(Letters) /\ <<CR>> \in Seq(Letters)
      BY DEF Letters
    <2>2. line1 \in Seq(Letters)
      BY <1>1, <2>1
    <2> QED
      BY <2>2 DEF Letters
  <1> HIDE DEF text
  <1>4. Reply("getpid", Unknown) = FlattenSeq(WithEnds(text))
    BY <1>2 DEF Reply, WithEnds
  <1>5. WithEnds(text) \in Seq(Seq(Letters))
    BY <1>3, EndsTyped
  <1> QED
    BY <1>4, <1>5, FlattenTyped

-----------------------------------------------------------------------------
(* Types.                                                                  *)

AdminTypes ==
    /\ TypeOK
    /\ line \in Seq(Letters) /\ lines \in Seq(Seq(Letters))
    /\ to_server \in Seq(Calls \cup {CR, LF}) /\ to_client \in Seq(Letters)

LEMMA OutcomeOfParsers ==
    /\ \A c, lns : Table(c, lns).type \in {"ok", "protocol_error"}
    /\ \A c, l : Ack(c, l).type \in {"ok", "server_error", "protocol_error"}
  <1>1. \A c, lns : Table(c, lns).type \in {"ok", "protocol_error"}
    BY DEF Table, Outcome, ProtocolError
  <1>2. \A c, l : Ack(c, l).type \in {"ok", "server_error", "protocol_error"}
    BY DEF Ack, SelectInSeq, Outcome, ProtocolError
  <1> QED
    BY <1>1, <1>2

LEMMA TypesInit == Init => AdminTypes
  <1> SUFFICES ASSUME Init PROVE AdminTypes
    OBVIOUS
  <1>1. /\ line \in Seq(Letters) /\ lines \in Seq(Seq(Letters))
        /\ to_server \in Seq(Calls \cup {CR, LF}) /\ to_client \in Seq(Letters)
    BY DEF Init
  <1>2. MaxLine \in Nat \ {0} /\ MaxCalls \in Nat
    BY AdminAssumption
  <1>3. Len(line) = 0 /\ DOMAIN lines = {}
    BY DEF Init
  <1>4. result.call = NoCall /\ result.outcome.type \in OutcomeTypes /\ result.whole = TRUE
    BY DEF Init, Outcome, OutcomeTypes
  <1>5. {closed, in_step, result.whole} \subseteq BOOLEAN
    BY <1>4, Zenon DEF Init
  <1>6. TypeOK
    BY <1>2, <1>3, <1>4, <1>5 DEF Init, TypeOK
  <1> QED
    BY <1>1, <1>6 DEF AdminTypes

\* A call that ends.
LEMMA EndsTypes ==
    ASSUME AdminTypes, NEW outcome, NEW whole \in BOOLEAN, Ends(outcome, whole),
           outcome.type \in OutcomeTypes, calls' = calls, closed' \in BOOLEAN,
           in_step' \in BOOLEAN, to_server' \in Seq(Calls \cup {CR, LF}),
           to_client' \in Seq(Letters)
    PROVE  AdminTypes'
  <1>1. line' \in Seq(Letters) /\ lines' \in Seq(Seq(Letters)) /\ Len(line') = 0 /\ Len(lines') = 0
    BY DEF Ends
  <1>2. TypeOK'
    BY <1>1, AdminAssumption DEF AdminTypes, TypeOK, Ends, NoCall
  <1> QED
    BY <1>1, <1>2 DEF AdminTypes

LEMMA FailsTypes ==
    ASSUME AdminTypes, NEW type \in OutcomeTypes, Fails(type),
           calls' = calls, closed' \in BOOLEAN, in_step' \in BOOLEAN,
           to_server' \in Seq(Calls \cup {CR, LF}), to_client' \in Seq(Letters)
    PROVE  AdminTypes'
  <1>1. Ends(Outcome(type, <<>>), TRUE) /\ Outcome(type, <<>>).type = type
    BY DEF Fails, Outcome
  <1> QED
    BY <1>1, EndsTypes

LEMMA LineReadTypes ==
    ASSUME AdminTypes, pc = "reading", NEW text \in Seq(Letters), NEW whole \in BOOLEAN,
           Trimmed(text) \in Seq(Letters), Len(Trimmed(text)) < MaxLine,
           LineRead(text, whole), calls' = calls, closed' = closed,
           to_server' = to_server, to_client' \in Seq(Letters)
    PROVE  AdminTypes'
  <1>0. closed' \in BOOLEAN /\ in_step \in BOOLEAN /\ to_server' \in Seq(Calls \cup {CR, LF})
    BY DEF AdminTypes, TypeOK
  <1>1. CASE Fails("io") /\ in_step' = FALSE
    BY <1>0, <1>1, FailsTypes DEF OutcomeTypes
  <1>2. CASE in_step' = in_step /\ Ends(Ack(call, Trimmed(text)), whole)
    BY <1>0, <1>2, OutcomeOfParsers, EndsTypes DEF OutcomeTypes
  <1>3. CASE in_step' = in_step /\ Ends(Table(call, lines), whole)
    BY <1>0, <1>3, OutcomeOfParsers, EndsTypes DEF OutcomeTypes
  <1>4. CASE /\ lines' = Append(lines, Trimmed(text)) /\ line' = <<>>
             /\ UNCHANGED <<pc, call, result, in_step>>
    <2>1. line' \in Seq(Letters) /\ Len(line') = 0
      BY <1>4
    <2>2. lines' \in Seq(Seq(Letters)) /\ \A i \in DOMAIN lines' : Len(lines'[i]) < MaxLine
      BY <1>4 DEF AdminTypes, TypeOK
    <2>3. TypeOK'
      BY SMTT(30), <1>4, <2>1, <2>2, AdminAssumption DEF AdminTypes, TypeOK
    <2> QED
      BY <1>0, <2>1, <2>2, <2>3 DEF AdminTypes
  <1> QED
    BY <1>1, <1>2, <1>3, <1>4 DEF LineRead

LEMMA TypesStep ==
    ASSUME AdminTypes, [Next]_vars
    PROVE  AdminTypes'
  <1> USE DEF AdminTypes
  <1>0. /\ closed \in BOOLEAN /\ in_step \in BOOLEAN
        /\ MaxLine \in Nat \ {0} /\ MaxCalls \in Nat /\ calls \in 0 .. MaxCalls
        /\ LF \in Letters /\ CR \in Letters
    BY AdminAssumption DEF TypeOK, Letters
  <1>1. ASSUME NEW c \in Calls, Begin(c) PROVE AdminTypes'
    <2>1. calls' \in 0 .. MaxCalls
      BY <1>0, <1>1 DEF Begin
    <2>2. c # NoCall
      BY CallIsNoLineEnd
    <2> QED
      BY <1>1, <2>1, <2>2 DEF Begin, TypeOK, stream
  <1>2. ASSUME NEW letters \in Seq(Calls \cup {CR, LF}), Writes(letters)
        PROVE  to_server' \in Seq(Calls \cup {CR, LF})
    BY <1>2 DEF Writes
  <1>3. CASE WriteCommand
    <2>1. call \in Calls
      BY <1>3 DEF WriteCommand, TypeOK
    <2>2. <<call>> \in Seq(Calls \cup {CR, LF})
      BY <2>1
    <2>3. to_server' \in Seq(Calls \cup {CR, LF})
      BY <1>2, <1>3, <2>2 DEF WriteCommand
    <2> QED
      BY <1>3, <2>3 DEF WriteCommand, TypeOK
  <1>4. CASE WriteNewline
    <2>1. <<CR, LF>> \in Seq(Calls \cup {CR, LF})
      OBVIOUS
    <2>2. to_server' \in Seq(Calls \cup {CR, LF})
      BY <1>2, <1>4, <2>1 DEF WriteNewline
    <2> QED
      BY <1>4, <2>2 DEF WriteNewline, TypeOK
  <1>5. CASE IoFails
    <2>1. "io" \in OutcomeTypes
      BY DEF OutcomeTypes
    <2> QED
      BY <1>0, <1>5, <2>1, FailsTypes DEF IoFails, stream
  <1>6. CASE Drop
    <2>1. "dropped" \in OutcomeTypes
      BY DEF OutcomeTypes
    <2>2. in_step' \in BOOLEAN
      BY <1>0, <1>6 DEF Drop
    <2> QED
      BY <1>0, <1>6, <2>1, <2>2, FailsTypes DEF Drop, stream
  <1>7. CASE ReadLetter
    <2>1. line' = Append(line, Head(to_client)) /\ ~(Len(line') >= MaxLine)
      BY <1>7 DEF ReadLetter, OverCap
    <2>2. line' \in Seq(Letters) /\ to_client' \in Seq(Letters) /\ Len(line') < MaxLine
      BY <1>0, <1>7, <2>1 DEF ReadLetter
    <2> QED
      BY <1>7, <2>2 DEF ReadLetter, TypeOK
  <1>8. CASE ReadTooMuch
    <2>1. PICK type \in {"io", "too_long"} : Fails(type)
      BY <1>8 DEF ReadTooMuch
    <2>2. type \in OutcomeTypes
      BY DEF OutcomeTypes
    <2>3. to_client' \in Seq(Letters)
      BY <1>8 DEF ReadTooMuch
    <2> QED
      BY <1>0, <1>8, <2>1, <2>2, <2>3, FailsTypes DEF ReadTooMuch
  <1>9. CASE ReadNewline
    <2>1. Append(line, LF) \in Seq(Letters) /\ to_client' \in Seq(Letters)
      BY <1>0, <1>9 DEF ReadNewline
    <2>2. /\ Trimmed(Append(line, LF)) \in Seq(Letters)
          /\ Len(Trimmed(Append(line, LF))) < MaxLine
      BY <1>0, TrimmedLine DEF TypeOK
    <2> QED
      BY <1>9, <2>1, <2>2, LineReadTypes DEF ReadNewline
  <1>10. CASE ReadEnd
    <2>1. "closed" \in OutcomeTypes
      BY DEF OutcomeTypes
    <2>2. Trimmed(line) \in Seq(Letters) /\ Len(Trimmed(line)) < MaxLine
      BY <1>0, TrimmedFacts DEF TypeOK
    <2>3. CASE Fails("closed") /\ in_step' = in_step
      BY <1>0, <1>10, <2>1, <2>3, FailsTypes DEF ReadEnd, stream
    <2>4. CASE LineRead(line, FALSE)
      BY <1>0, <1>10, <2>2, <2>4, LineReadTypes DEF ReadEnd, stream
    <2> QED
      BY <1>10, <2>3, <2>4 DEF ReadEnd
  <1>11. CASE Answer
    <2> DEFINE end == LineEnd(to_server)  asked == Trimmed(SubSeq(to_server, 1, end))
    <2>1. /\ to_server' = SubSeq(to_server, end + 1, Len(to_server))
          /\ IF Len(asked) = 1
             THEN \E answer \in Answers[asked[1]] :
                     to_client' = to_client \o Reply(asked[1], answer)
             ELSE to_client' = to_client \o Reply("getpid", Unknown)
          /\ UNCHANGED <<client, closed, calls, in_step>>
      BY <1>11 DEF Answer, LineEnd, SelectInSeq
    <2>2. end \in 0 .. Len(to_server)
      BY FirstLineEnd
    <2> HIDE DEF end
    <2>3. to_server' \in Seq(Calls \cup {CR, LF})
      BY <2>1, <2>2
    <2>4. Len(asked) = 1 => asked[1] \in Calls
      <3> DEFINE part == SubSeq(to_server, 1, end)
      <3>1. part \in Seq(Calls \cup {CR, LF})
        BY <2>2
      <3> HIDE DEF part
      <3>2. PICK last \in 0 .. Len(part) :
               Trimmed(part) = SubSeq(part, 1, last) /\ (last # 0 => part[last] \notin {CR, LF})
        BY <3>1, TrimmedTo
      <3>3. Trimmed(part) \in Seq(Calls \cup {CR, LF}) /\ Len(Trimmed(part)) = last
        BY <3>1, <3>2
      <3>4. Len(Trimmed(part)) = 1 => Trimmed(part)[1] = part[last] /\ last # 0
        BY <3>1, <3>2, <3>3
      <3>5. last # 0 => part[last] \in Calls \cup {CR, LF}
        BY <3>1, <3>2
      <3>6. Len(Trimmed(part)) = 1 => Trimmed(part)[1] \in Calls
        BY <3>2, <3>4, <3>5
      <3> QED
        BY <3>6 DEF part
    <2> HIDE DEF asked
    <2>5. \A t \in Seq(Letters) : to_client \o t \in Seq(Letters)
      OBVIOUS
    <2>6. to_client' \in Seq(Letters)
      <3>1. CASE Len(asked) = 1
        <4>1. PICK answer \in Answers[asked[1]] :
                 to_client' = to_client \o Reply(asked[1], answer)
          BY <2>1, <3>1
        <4>2. Reply(asked[1], answer) \in Seq(Letters)
          BY <2>4, <3>1, Replies
        <4> QED
          BY <2>5, <4>1, <4>2
      <3>2. CASE Len(asked) # 1
        BY <2>1, <2>5, <3>2, UnknownReply
      <3> QED
        BY <3>1, <3>2
    <2> QED
      BY <2>1, <2>3, <2>6 DEF TypeOK, client
  <1>12. CASE Close
    <2>1. PICK n \in 0 .. Len(to_client) : to_client' = SubSeq(to_client, 1, n)
      BY <1>12 DEF Close
    <2>2. to_client' \in Seq(Letters) /\ to_server' \in Seq(Calls \cup {CR, LF})
      BY <1>12, <2>1 DEF Close
    <2> QED
      BY <1>12, <2>2 DEF Close, TypeOK, client
  <1>13. CASE UNCHANGED vars
    BY <1>13 DEF vars, client, stream, TypeOK
  <1> QED
    BY <1>1, <1>3, <1>4, <1>5, <1>6, <1>7, <1>8, <1>9, <1>10, <1>11, <1>12, <1>13
    DEF Next, Reading

-----------------------------------------------------------------------------
(* A reader's place in a reply.                                            *)

LEMMA SameSequence ==
    ASSUME NEW S, NEW s \in Seq(S), NEW t \in Seq(S), Len(s) = Len(t),
           \A i \in 1 .. Len(s) : s[i] = t[i]
    PROVE  s = t
  OBVIOUS

\* The letter after p is in the line l, which lies after at, and ends at to.
InLine(l, reply, at, to, p) ==
    /\ p - at \in 0 .. Len(l) /\ p < Len(reply)
    /\ SubSeq(reply, at + 1, p) = SubSeq(l, 1, p - at)
    /\ reply[p + 1] = LF => p + 1 = to /\ p - at = Len(l)
    /\ reply[p + 1] # LF => p + 1 < to /\ p + 1 - at <= Len(l)

LEMMA EndsAreNumbers ==
    ASSUME NEW text, NEW reply, NEW end, Laid(text, reply, end)
    PROVE  \A k \in 0 .. Len(text) : end[k] \in Nat
  BY DEF Laid

LEMMA PlaceInLine ==
    ASSUME NEW l \in Seq(Letters), NEW reply \in Seq(Letters), NEW at \in Nat, NEW to \in Nat,
           to = at + Len(l) + 1, to <= Len(reply), reply[to] = LF,
           \A i \in 1 .. Len(l) : reply[at + i] = l[i] /\ l[i] # LF,
           NEW p \in Nat, at <= p, p < to
    PROVE  InLine(l, reply, at, to, p)
  <1>1. Len(l) \in Nat /\ Len(reply) \in Nat
    OBVIOUS
  <1>2. p - at \in 0 .. Len(l) /\ p < Len(reply)
    BY <1>1
  <1>3. SubSeq(reply, at + 1, p) = SubSeq(l, 1, p - at)
    <2>1. /\ SubSeq(reply, at + 1, p) \in Seq(Letters) /\ Len(SubSeq(reply, at + 1, p)) = p - at
          /\ \A i \in 1 .. p - at : SubSeq(reply, at + 1, p)[i] = reply[at + i]
      BY <1>1, <1>2
    <2>2. /\ SubSeq(l, 1, p - at) \in Seq(Letters) /\ Len(SubSeq(l, 1, p - at)) = p - at
          /\ \A i \in 1 .. p - at : SubSeq(l, 1, p - at)[i] = l[i]
      BY <1>2
    <2>3. \A i \in 1 .. p - at : reply[at + i] = l[i]
      BY <1>2
    <2> QED
      BY <2>1, <2>2, <2>3, SameSequence
  <1>4. CASE p + 1 = to
    <2>1. reply[p + 1] = LF /\ p - at = Len(l)
      BY <1>1, <1>4
    <2> QED
      BY <1>2, <1>3, <1>4, <2>1 DEF InLine
  <1>5. CASE p + 1 # to
    <2>1. p + 1 - at \in 1 .. Len(l) /\ p + 1 = at + (p + 1 - at) /\ p + 1 < to
      BY <1>1, <1>5
    <2>2. reply[p + 1] # LF
      BY <2>1
    <2>3. p + 1 - at <= Len(l)
      BY <1>1, <2>1
    <2> QED
      BY <1>2, <1>3, <2>1, <2>2, <2>3 DEF InLine
  <1> QED
    BY <1>4, <1>5

\* The reader has lines 1 .. n of the reply, and the letters up to p.
LEMMA PlaceInReply ==
    ASSUME NEW text \in Seq(Seq(Letters)), NEW reply \in Seq(Letters), NEW end,
           Laid(text, reply, end), NEW n \in 0 .. Len(text), NEW p \in Nat,
           \A k \in 1 .. Len(text) : \A i \in 1 .. Len(text[k]) : text[k][i] # LF,
           end[n] <= p, n < Len(text) => p < end[n + 1]
    PROVE  /\ n = Len(text) => p >= Len(reply)
           /\ n < Len(text) => InLine(text[n + 1], reply, end[n], end[n + 1], p)
  <1>1. Len(text) \in Nat /\ Len(reply) \in Nat /\ \A k \in 0 .. Len(text) : end[k] \in Nat
    BY EndsAreNumbers
  <1>2. n = Len(text) => p >= Len(reply)
    BY DEF Laid
  <1>3. \A k \in 1 .. Len(text) : text[k] \in Seq(Letters)
    OBVIOUS
  <1>4. ASSUME n < Len(text) PROVE InLine(text[n + 1], reply, end[n], end[n + 1], p)
    <2>1. n + 1 \in 1 .. Len(text) /\ n + 1 \in 0 .. Len(text) /\ (n + 1) - 1 = n
      BY <1>1, <1>4
    <2>2. /\ end[n + 1] = end[n] + Len(text[n + 1]) + 1 /\ end[n + 1] <= Len(reply)
          /\ reply[end[n + 1]] = LF
          /\ \A i \in 1 .. Len(text[n + 1]) : reply[end[n] + i] = text[n + 1][i]
      BY <2>1 DEF Laid
    <2>3. text[n + 1] \in Seq(Letters) /\ end[n] \in Nat /\ end[n + 1] \in Nat
      BY <1>1, <1>3, <2>1
    <2>4. \A i \in 1 .. Len(text[n + 1]) : text[n + 1][i] # LF
      BY <2>1
    <2> QED
      BY <1>4, <2>2, <2>3, <2>4, PlaceInLine
  <1> QED
    BY <1>2, <1>4

-----------------------------------------------------------------------------
(* Lines that read_line gives up on.                                       *)

LEMMA SeenOf ==
    ASSUME NEW text \in Seq(Letters)
    PROVE  /\ Len(text) < MaxLine => Seen(text) = text
           /\ Len(text) >= MaxLine => Seen(text) = SubSeq(text, 1, MaxLine)
  <1>1. MaxLine \in Nat /\ Len(text) \in Nat
    BY AdminAssumption
  <1>2. ASSUME NEW a \in Nat, NEW b \in Nat PROVE Min({a, b}) = IF a <= b THEN a ELSE b
    <2> DEFINE m == IF a <= b THEN a ELSE b
    <2>1. m \in {a, b} /\ \A x \in {a, b} : m <= x
      OBVIOUS
    <2>2. \A x \in {a, b} : (\A y \in {a, b} : x <= y) => x = m
      OBVIOUS
    <2> HIDE DEF m
    <2> QED
      BY <2>1, <2>2 DEF Min
  <1>3. SubSeq(text, 1, Len(text)) = text
    OBVIOUS
  <1>4. CASE Len(text) < MaxLine
    <2>1. Min({MaxLine, Len(text)}) = Len(text)
      BY <1>1, <1>2, <1>4
    <2> QED
      BY <1>1, <1>3, <1>4, <2>1 DEF Seen
  <1>5. CASE Len(text) >= MaxLine
    <2>1. Min({MaxLine, Len(text)}) = MaxLine
      BY <1>1, <1>2, <1>5
    <2>2. Seen(text) = SubSeq(text, 1, MaxLine)
      BY <2>1 DEF Seen
    <2> QED
      BY <1>1, <1>5, <2>2
  <1> QED
    BY <1>1, <1>4, <1>5

LEMMA PassesWhole ==
    ASSUME NEW text \in Seq(Letters), Len(text) < MaxLine, IsUtf8(text)
    PROVE  ~Bad(text)
  <1>1. MaxLine \in Nat /\ Len(text) \in Nat
    BY AdminAssumption
  <1> QED
    BY <1>1, SeenOf DEF Bad

\* What is UTF-8 with a line's end is so without it.
LEMMA Utf8Line ==
    ASSUME NEW text \in Seq(Letters), IsUtf8(Append(text, LF))
    PROVE  IsUtf8(text)
  <1> DEFINE t == Append(text, LF)
  <1>1. /\ Len(text) \in Nat /\ Len(t) = Len(text) + 1 /\ t[Len(text) + 1] = LF
        /\ DOMAIN text = 1 .. Len(text) /\ DOMAIN t = 1 .. Len(text) + 1
        /\ \A i \in 1 .. Len(text) : t[i] = text[i]
    OBVIOUS
  <1>2. /\ \A i \in DOMAIN t : t[i] # NotUtf8
        /\ \A i \in DOMAIN t : t[i] = Lead => i < Len(t) /\ t[i + 1] = Trail
    BY DEF IsUtf8, ToSet
  <1> HIDE DEF t
  <1>3. NotUtf8 \notin ToSet(text)
    <2>1. \A i \in 1 .. Len(text) : text[i] # NotUtf8
      BY <1>1, <1>2
    <2> QED
      BY <1>1, <2>1 DEF ToSet
  <1>4. ASSUME NEW i \in 1 .. Len(text), text[i] = Lead
        PROVE  i < Len(text) /\ text[i + 1] = Trail
    <2>1. t[i] = Lead /\ i \in DOMAIN t
      BY <1>1, <1>4
    <2>2. t[i + 1] = Trail
      BY <1>2, <2>1
    <2>3. i # Len(text)
      BY <1>1, <2>2 DEF LF, Trail
    <2>4. i < Len(text) /\ i + 1 \in 1 .. Len(text)
      <3>1. Len(text) \in Nat
        OBVIOUS
      <3> QED
        BY <2>3, <3>1
    <2> QED
      BY <1>1, <2>2, <2>4
  <1> QED
    BY <1>1, <1>3, <1>4 DEF IsUtf8

\* The first line that does not pass.
LEMMA FirstBadIs ==
    ASSUME NEW c, NEW answer, NEW n \in Nat,
           n <= Len(ReplyLines(c, answer)), Len(ReplyLines(c, answer)) \in Nat,
           \A i \in 1 .. n : ~Bad(ReplyLines(c, answer)[i])
    PROVE  /\ n = Len(ReplyLines(c, answer)) => FirstBad(c, answer) = 0
           /\ n < Len(ReplyLines(c, answer)) /\ Bad(ReplyLines(c, answer)[n + 1])
              => FirstBad(c, answer) = n + 1
  <1> DEFINE text == ReplyLines(c, answer)  T == {i \in 1 .. Len(text) : Bad(text[i])}
  <1>1. FirstBad(c, answer) = IF T # {} THEN Min(T) ELSE 0
    BY DEF FirstBad, SelectInSeq
  <1> HIDE DEF text
  <1>2. CASE n = Len(text)
    <2>1. T = {}
      BY <1>2 DEF text
    <2> QED
      BY <1>1, <1>2, <2>1 DEF text
  <1>3. CASE n < Len(text) /\ Bad(text[n + 1])
    <2>1. n + 1 \in T /\ T \in SUBSET (1 .. Len(text)) /\ Len(text) \in Nat
      BY <1>3 DEF text
    <2>2. Min(T) \in T /\ Min(T) <= n + 1
      BY <2>1, FirstIn
    <2>3. \A i \in T : ~(i <= n)
      BY DEF text
    <2> HIDE DEF T
    <2> DEFINE m == Min(T)
    <2>4. m \in T /\ m <= n + 1
      BY <2>2
    <2> HIDE DEF m
    <2>5. m = n + 1
      BY <2>1, <2>3, <2>4
    <2> QED
      BY <1>1, <1>3, <2>1, <2>5 DEF text, m
  <1> QED
    BY <1>2, <1>3 DEF text

-----------------------------------------------------------------------------
(* A call in step.                                                         *)

\* The client has read lines 1 .. n of its reply and the letters up to p; those up
\* to q are still under way, and the rest is lost, if the connection has ended.
ReadTo(end, n, p, q) ==
    LET text == ReplyLines(call, meant)
        reply == Reply(call, meant)
    IN  /\ Laid(text, reply, end)
        /\ n \in 0 .. Len(text) /\ p \in Nat /\ q \in p .. Len(reply)
        /\ end[n] <= p
        /\ n < Len(text) => p < end[n + 1]
        /\ line = SubSeq(reply, end[n] + 1, p)
        /\ to_client = SubSeq(reply, p + 1, q)
        /\ closed \/ q = Len(reply)
        /\ lines = [i \in 1 .. n |-> Trimmed(Append(text[i], LF))]
        /\ call \notin Lists => n = 0
        /\ \A i \in 1 .. n : ~Bad(text[i])

InReply == /\ to_server = <<>> /\ meant \in Answers[call]
           /\ \E end, n, p, q : ReadTo(end, n, p, q)

Asked == ~closed /\ to_server = <<call, CR, LF>> /\ to_client = <<>> /\ line = <<>> /\ lines = <<>>

\* The end of the stream was read, if only as the end of a line that was cut off.
Lost == closed /\ to_server = <<>> /\ to_client = <<>> /\ line = <<>>

\* Where the two ends are while they are in step.
SessionInv ==
    in_step =>
      /\ pc \in {"idle", "command"} => to_server = <<>> /\ to_client = <<>>
      /\ pc = "newline" => to_server = (IF closed THEN <<>> ELSE <<call>>) /\ to_client = <<>>
      /\ pc = "reading" => Asked \/ Lost \/ InReply

\* What the parsers make of the lines that answer is laid out in.
Parsed(c, answer) ==
    LET text == ReplyLines(c, answer)
    IN  IF c \in Lists
        THEN Table(c, [i \in 1 .. Len(text) - 1 |-> Trimmed(Append(text[i], LF))])
        ELSE Ack(c, Trimmed(Append(text[1], LF)))

\* The reply is one the call can read to its end.
Whole(c, answer) ==
    LET text == ReplyLines(c, answer)
    IN  FirstBad(c, answer) = 0 /\ (c \in Lists => text[Len(text)] = Dot)

Understood(c, answer) ==
    IF FirstBad(c, answer) # 0 THEN Refused(ReplyLines(c, answer)[FirstBad(c, answer)])
    ELSE Parsed(c, answer)

\* The stream ended behind the dot that a row begins with: the call goes by the
\* lines before that row.
CutShort ==
    \E n \in DOMAIN ReplyLines(call, meant) :
        /\ CutAtDot(n) /\ ~result'.whole
        /\ result'.outcome
             = Table(call, [i \in 1 .. n - 1 |-> Trimmed(Append(ReplyLines(call, meant)[i], LF))])

\* A call in step that is answered has been answered by the lines of its own reply,
\* all of them if it is a list, unless the stream ends behind the dot of a row.
Understands ==
    LET outcome == result'.outcome
    IN  /\ pc # "idle" /\ pc' = "idle" /\ in_step
        /\ outcome.type \in Answered /\ (result'.whole \/ call \in Lists)
        => /\ meant \in Answers[call]
           /\ \/ /\ outcome = Understood(call, meant)
                 /\ FirstBad(call, meant) # 0 \/ Whole(call, meant)
              \/ CutShort

LEMMA SessionInit == Init => SessionInv
  BY DEF Init, SessionInv

LEMMA BeginSession ==
    ASSUME SessionInv, NEW c \in Calls, Begin(c)
    PROVE  SessionInv' /\ Understands
  BY DEF SessionInv, Begin, stream, Understands

LEMMA WriteSession ==
    ASSUME AdminTypes, SessionInv, WriteCommand \/ WriteNewline
    PROVE  SessionInv' /\ Understands
  <1>1. CASE WriteCommand
    <2>1. in_step => to_server' = (IF closed THEN <<>> ELSE <<call>>)
      <3>1. <<>> \o <<call>> = <<call>>
        OBVIOUS
      <3> QED
        BY <1>1, <3>1 DEF WriteCommand, Writes, SessionInv
    <2> QED
      BY <1>1, <2>1 DEF WriteCommand, SessionInv, Understands
  <1>2. CASE WriteNewline
    <2>1. line = <<>> /\ lines = <<>>
      BY <1>2 DEF WriteNewline, AdminTypes, TypeOK
    <2>2. in_step => to_server' = (IF closed THEN <<>> ELSE <<call, CR, LF>>)
      <3>1. <<call>> \o <<CR, LF>> = <<call, CR, LF>>
        <4> DEFINE s == <<call>> \o <<CR, LF>>  t == <<call, CR, LF>>  S == {call, CR, LF}
        <4>1. <<call>> \in Seq(S) /\ <<CR, LF>> \in Seq(S) /\ t \in Seq(S)
          OBVIOUS
        <4>2. s \in Seq(S) /\ Len(s) = 3 /\ Len(t) = 3
          BY <4>1
        <4>3. s[1] = t[1] /\ s[2] = t[2] /\ s[3] = t[3]
          BY <4>1
        <4> HIDE DEF s, t, S
        <4>4. s = t
          BY <4>1, <4>2, <4>3, SameSequence
        <4> QED
          BY <4>4 DEF s, t
      <3> QED
        BY <1>2, <3>1 DEF WriteNewline, Writes, SessionInv
    <2>3. in_step => Asked' \/ Lost'
      BY <1>2, <2>1, <2>2 DEF WriteNewline, SessionInv, Asked, Lost
    <2> QED
      BY <1>2, <2>3 DEF WriteNewline, SessionInv, Understands
  <1> QED
    BY <1>1, <1>2

LEMMA GiveUpSession ==
    ASSUME AdminTypes, SessionInv, IoFails \/ Drop
    PROVE  SessionInv' /\ Understands
  <1>1. CASE IoFails
    BY <1>1 DEF IoFails, Fails, Ends, Outcome, SessionInv, Understands, Answered
  <1>2. CASE Drop
    <2>1. in_step' => to_server' = <<>> /\ to_client' = <<>>
      BY <1>2 DEF Drop, stream, SessionInv, AdminTypes, TypeOK
    <2>2. pc' = "idle" /\ result'.outcome.type = "dropped"
      BY <1>2 DEF Drop, Fails, Ends, Outcome
    <2> QED
      BY <2>1, <2>2 DEF SessionInv, Understands, Answered
  <1> QED
    BY <1>1, <1>2

LEMMA CloseSession ==
    ASSUME AdminTypes, SessionInv, Close
    PROVE  SessionInv' /\ Understands
  <1>1. PICK m \in 0 .. Len(to_client) : to_client' = SubSeq(to_client, 1, m)
    BY DEF Close
  <1>2. /\ closed' /\ to_server' = <<>> /\ line' = line /\ lines' = lines /\ pc' = pc
        /\ call' = call /\ in_step' = in_step /\ meant' = meant /\ to_client \in Seq(Letters)
    BY DEF Close, client, AdminTypes
  <1>3. to_client = <<>> => to_client' = <<>>
    BY <1>1
  <1>4. ASSUME InReply, pc = "reading" PROVE InReply'
    <2>1. PICK end, n, p, q : ReadTo(end, n, p, q)
      BY <1>4 DEF InReply
    <2> DEFINE reply == Reply(call, meant)
    <2>2. reply \in Seq(Letters)
      <3>1. call \in Calls
        BY <1>4, CallIsNoLineEnd DEF InReply, AdminTypes, TypeOK
      <3> QED
        BY <1>4, <3>1, Replies DEF InReply
    <2>3. p \in Nat /\ q \in p .. Len(reply) /\ to_client = SubSeq(reply, p + 1, q)
      BY <2>1 DEF ReadTo
    <2> HIDE DEF reply
    <2>4. p + m \in p .. Len(reply) /\ to_client' = SubSeq(reply, p + 1, p + m)
      BY <1>1, <2>2, <2>3
    <2>5. ReadTo(end, n, p, p + m)'
      BY <1>2, <2>1, <2>4 DEF ReadTo, reply
    <2> QED
      BY <1>2, <1>4, <2>5 DEF InReply
  <1> QED
    BY <1>2, <1>3, <1>4 DEF SessionInv, Asked, Lost, Understands

\* The server answers a call in step when all of its line is there.
LEMMA AnswerSession ==
    ASSUME AdminTypes, SessionInv, Answer
    PROVE  SessionInv' /\ Understands
  <1> DEFINE at == LineEnd(to_server)  asked == Trimmed(SubSeq(to_server, 1, at))
  <1>1. /\ at > 0 /\ ~closed
        /\ to_server' = SubSeq(to_server, at + 1, Len(to_server))
        /\ Len(asked) = 1 => \E answer \in Answers[asked[1]] :
                               meant' = answer /\ to_client' = to_client \o Reply(asked[1], answer)
        /\ pc' = pc /\ call' = call /\ line' = line /\ lines' = lines
        /\ closed' = closed /\ in_step' = in_step
    BY DEF Answer, LineEnd, SelectInSeq, client
  <1>2. /\ at \in 0 .. Len(to_server) /\ to_server \in Seq(Calls \cup {CR, LF})
        /\ at # 0 => to_server[at] = LF
    BY FirstLineEnd DEF AdminTypes
  <1> HIDE DEF at
  <1>3. SUFFICES ASSUME in_step PROVE SessionInv'
    BY <1>1 DEF SessionInv, Understands
  <1>4. to_server # <<>>
    BY <1>1, <1>2
  <1>5. pc # "idle" /\ call \in Calls
    BY <1>3, <1>4 DEF AdminTypes, TypeOK, SessionInv
  <1>6. to_server # <<call>>
    <2>1. ASSUME to_server = <<call>> PROVE FALSE
      <3>1. Len(to_server) = 1 /\ to_server[1] = call
        BY <2>1
      <3>2. at = 1
        BY <1>1, <1>2, <3>1
      <3> QED
        BY <1>1, <1>2, <1>5, <3>1, <3>2, CallIsNoLineEnd
    <2> QED
      BY <2>1
  <1>7. pc = "reading" /\ Asked
    BY <1>3, <1>4, <1>5, <1>6 DEF SessionInv, AdminTypes, TypeOK, Lost, InReply
  <1>8. /\ Len(to_server) = 3 /\ to_server[1] = call /\ to_server[2] = CR /\ to_server[3] = LF
        /\ to_server = <<call, CR, LF>> /\ to_client = <<>> /\ line = <<>> /\ lines = <<>>
    BY <1>7 DEF Asked
  <1>9. at = 3
    BY <1>1, <1>2, <1>5, <1>8, CallIsNoLineEnd DEF CR, LF
  <1>10. to_server' = <<>> /\ SubSeq(to_server, 1, at) = to_server
    <2>1. SubSeq(to_server, 4, 3) = <<>>
      BY <1>2
    <2>2. SubSeq(to_server, 1, Len(to_server)) = to_server
      BY <1>2
    <2> QED
      BY <1>1, <1>8, <1>9, <2>1, <2>2
  <1>11. asked = <<call>>
    BY <1>5, <1>8, <1>10, TrimmedCommand
  <1> HIDE DEF asked
  <1>12. /\ meant' \in Answers[call] /\ to_client' = <<>> \o Reply(call, meant')
    <2>1. Len(asked) = 1 /\ asked[1] = call
      BY <1>11
    <2> QED
      BY <1>1, <1>8, <2>1
  <1> DEFINE text == ReplyLines(call, meant')  reply == Reply(call, meant')
  <1>13. text \in Seq(Seq(Letters)) /\ reply \in Seq(Letters) /\ \E end : Laid(text, reply, end)
    BY <1>5, <1>12, Replies
  <1>14. PICK end : Laid(text, reply, end)
    BY <1>13
  <1> HIDE DEF text, reply
  <1>15. to_client' = reply /\ SubSeq(reply, 1, Len(reply)) = reply /\ Len(reply) \in Nat
    BY <1>12, <1>13 DEF reply
  <1>16. /\ 0 \in 0 .. Len(text) /\ Len(reply) \in 0 .. Len(reply) /\ end[0] = 0
         /\ 0 < Len(text) => 0 < end[1]
    <2>1. Len(text) \in Nat /\ end[0] = 0
      BY <1>13, <1>14 DEF Laid
    <2>2. ASSUME 0 < Len(text) PROVE 0 < end[1]
      <3>1. 1 \in 1 .. Len(text) /\ text[1] \in Seq(Letters)
        BY <1>13, <2>1, <2>2
      <3>2. end[1] = end[1 - 1] + Len(text[1]) + 1
        BY <1>14, <3>1 DEF Laid
      <3>3. 1 - 1 = 0 /\ Len(text[1]) \in Nat
        BY <3>1
      <3> QED
        BY <2>1, <3>2, <3>3
    <2> QED
      BY <1>15, <2>1, <2>2
  <1>17. /\ line' = SubSeq(reply, end[0] + 1, 0)
         /\ to_client' = SubSeq(reply, 0 + 1, Len(reply))
    <2>1. SubSeq(reply, 1, 0) = <<>> /\ 0 + 1 = 1
      BY <1>13
    <2> QED
      BY <1>1, <1>8, <1>15, <1>16, <2>1
  <1>18. lines' = [i \in 1 .. 0 |-> Trimmed(Append(text[i], LF))]
    BY SMTT(30), <1>1, <1>8
  <1>19. PICK q \in Nat : q = Len(reply)
    BY <1>15
  <1>20. ReadTo(end, 0, 0, q)'
    <2>1. end[0] <= 0 /\ 0 \in Nat /\ \A i \in 1 .. 0 : ~Bad(text[i])
      BY <1>16
    <2>2. 0 < Len(text) => 0 < end[0 + 1]
      BY <1>16
    <2> QED
      BY <1>1, <1>14, <1>16, <1>17, <1>18, <1>19, <2>1, <2>2 DEF ReadTo, text, reply
  <1>21. InReply'
    BY <1>1, <1>10, <1>12, <1>20 DEF InReply
  <1> QED
    BY <1>1, <1>7, <1>21 DEF SessionInv

-----------------------------------------------------------------------------
(* Reading.                                                                *)

ItsLines == ReplyLines(call, meant)
ItsReply == Reply(call, meant)

LEMMA ReaderAt ==
    ASSUME AdminTypes, pc = "reading", meant \in Answers[call],
           NEW end, NEW n, NEW p, NEW q, ReadTo(end, n, p, q)
    PROVE  /\ call \in Calls
           /\ ItsLines \in Seq(Seq(Letters)) /\ ItsReply \in Seq(Letters)
           /\ n \in 0 .. Len(ItsLines) /\ p \in Nat /\ q \in p .. Len(ItsReply)
           /\ end[n] \in Nat /\ end[n] <= p /\ Len(line) = p - end[n]
           /\ p < q \/ line # <<>> => n < Len(ItsLines)
           /\ n < Len(ItsLines) =>
                 /\ InLine(ItsLines[n + 1], ItsReply, end[n], end[n + 1], p)
                 /\ ItsLines[n + 1] \in Seq(Letters) /\ ItsLines[n + 1] # <<>>
                 /\ Trimmed(Append(ItsLines[n + 1], LF)) = Dot => n + 1 = Len(ItsLines)
                 /\ n + 1 = Len(ItsLines) /\ ItsLines[n + 1][1] = "." => ItsLines[n + 1] = Dot
           /\ call \notin Lists => Len(ItsLines) = 1
  <1>1. call \in Calls
    BY CallIsNoLineEnd DEF AdminTypes, TypeOK
  <1>2. /\ ItsLines \in Seq(Seq(Letters)) /\ ItsReply \in Seq(Letters)
        /\ \A k \in 1 .. Len(ItsLines) :
              /\ ItsLines[k] \in Seq(Letters) /\ ItsLines[k] # <<>>
              /\ \A i \in 1 .. Len(ItsLines[k]) : ItsLines[k][i] # LF
              /\ Trimmed(Append(ItsLines[k], LF)) = Dot => k = Len(ItsLines)
              /\ k = Len(ItsLines) /\ ItsLines[k][1] = "." => ItsLines[k] = Dot
        /\ call \notin Lists => Len(ItsLines) = 1
    BY <1>1, Replies DEF ItsLines, ItsReply
  <1>3. /\ Laid(ItsLines, ItsReply, end)
        /\ n \in 0 .. Len(ItsLines) /\ p \in Nat /\ q \in p .. Len(ItsReply)
        /\ end[n] <= p /\ (n < Len(ItsLines) => p < end[n + 1])
        /\ line = SubSeq(ItsReply, end[n] + 1, p)
    BY DEF ReadTo, ItsLines, ItsReply
  <1>4. end[n] \in Nat /\ Len(ItsLines) \in Nat /\ Len(ItsReply) \in Nat
    BY <1>2, <1>3, EndsAreNumbers
  <1>5. Len(line) = p - end[n]
    BY <1>2, <1>3, <1>4
  <1>6. /\ n = Len(ItsLines) => p >= Len(ItsReply) /\ end[n] = Len(ItsReply)
        /\ n < Len(ItsLines) => InLine(ItsLines[n + 1], ItsReply, end[n], end[n + 1], p)
    <2>1. n = Len(ItsLines) => end[n] = Len(ItsReply)
      BY <1>3 DEF Laid
    <2> QED
      BY <1>2, <1>3, <2>1, PlaceInReply
  <1>7. p < q \/ line # <<>> => n < Len(ItsLines)
    <2>1. line # <<>> => p # end[n]
      BY SMTT(30), <1>3, <1>4, <1>5 DEF AdminTypes
    <2> QED
      BY <1>3, <1>4, <1>6, <2>1
  <1>8. n < Len(ItsLines) => n + 1 \in 1 .. Len(ItsLines)
    BY <1>3, <1>4
  <1> QED
    BY <1>1, <1>2, <1>3, <1>4, <1>5, <1>6, <1>7, <1>8

\* The next letter that is under way.
LEMMA NextLetter ==
    ASSUME NEW reply \in Seq(Letters), NEW p \in Nat, NEW q \in p .. Len(reply),
           SubSeq(reply, p + 1, q) # <<>>
    PROVE  /\ p < q /\ reply[p + 1] \in Letters
           /\ Head(SubSeq(reply, p + 1, q)) = reply[p + 1]
           /\ Tail(SubSeq(reply, p + 1, q)) = SubSeq(reply, (p + 1) + 1, q)
  <1> DEFINE rest == SubSeq(reply, p + 1, q)  less == SubSeq(reply, (p + 1) + 1, q)
  <1>1. Len(reply) \in Nat /\ q \in Nat /\ p <= q /\ q <= Len(reply)
    OBVIOUS
  <1>2. /\ rest \in Seq(Letters) /\ Len(rest) = q - p
        /\ \A i \in 1 .. q - p : rest[i] = reply[p + i]
    BY <1>1
  <1>3. p < q
    BY <1>1, <1>2
  <1>4. /\ less \in Seq(Letters) /\ Len(less) = q - p - 1
        /\ \A i \in 1 .. q - p - 1 : less[i] = reply[p + 1 + i]
    BY <1>1, <1>3
  <1> HIDE DEF rest, less
  <1>5. /\ Tail(rest) \in Seq(Letters) /\ Len(Tail(rest)) = q - p - 1
        /\ \A i \in 1 .. q - p - 1 : Tail(rest)[i] = rest[i + 1]
    BY <1>1, <1>2, <1>3
  <1>6. ASSUME NEW i \in 1 .. q - p - 1 PROVE rest[i + 1] = reply[p + 1 + i]
    <2>1. i + 1 \in 1 .. q - p /\ p + (i + 1) = p + 1 + i
      BY <1>1
    <2> QED
      BY <1>2, <2>1
  <1>7. Tail(rest) = less
    BY <1>4, <1>5, <1>6, SameSequence
  <1>8. Head(rest) = rest[1] /\ rest[1] = reply[p + 1] /\ reply[p + 1] \in Letters
    BY <1>1, <1>2, <1>3
  <1> QED
    BY <1>3, <1>7, <1>8 DEF rest, less

LEMMA OneMoreLetter ==
    ASSUME NEW reply \in Seq(Letters), NEW at \in Nat, NEW p \in Nat, at <= p, p < Len(reply)
    PROVE  Append(SubSeq(reply, at + 1, p), reply[p + 1]) = SubSeq(reply, at + 1, p + 1)
  <1> DEFINE s == Append(SubSeq(reply, at + 1, p), reply[p + 1])
             t == SubSeq(reply, at + 1, p + 1)
  <1>1. Len(reply) \in Nat /\ reply[p + 1] \in Letters
    OBVIOUS
  <1>2. /\ t \in Seq(Letters) /\ Len(t) = p + 1 - at
        /\ \A i \in 1 .. p + 1 - at : t[i] = reply[at + i]
    BY <1>1
  <1>3. /\ SubSeq(reply, at + 1, p) \in Seq(Letters) /\ Len(SubSeq(reply, at + 1, p)) = p - at
        /\ \A i \in 1 .. p - at : SubSeq(reply, at + 1, p)[i] = reply[at + i]
    BY <1>1
  <1>4. /\ s \in Seq(Letters) /\ Len(s) = p + 1 - at /\ s[p + 1 - at] = reply[p + 1]
        /\ \A i \in 1 .. p - at : s[i] = SubSeq(reply, at + 1, p)[i]
    BY <1>1, <1>3
  <1>5. at + (p + 1 - at) = p + 1 /\ p + 1 - at \in Nat
    OBVIOUS
  <1> HIDE DEF s, t
  <1>6. ASSUME NEW i \in 1 .. p + 1 - at PROVE s[i] = t[i]
    <2>1. CASE i = p + 1 - at
      BY <1>2, <1>4, <1>5, <2>1
    <2>2. CASE i # p + 1 - at
      <3>1. i \in 1 .. p - at
        BY <2>2
      <3> QED
        BY <1>2, <1>3, <1>4, <3>1
    <2> QED
      BY <2>1, <2>2
  <1>7. s = t
    BY <1>2, <1>4, <1>6, SameSequence
  <1> QED
    BY <1>7 DEF s, t

\* A letter is read of a reply that is under way.
LEMMA LetterFrom ==
    ASSUME AdminTypes, SessionInv, in_step, pc = "reading", to_client # <<>>
    PROVE  /\ InReply
           /\ \A end, n, p, q : ReadTo(end, n, p, q) =>
                 /\ p < q /\ Head(to_client) = ItsReply[p + 1]
                 /\ Tail(to_client) = SubSeq(ItsReply, (p + 1) + 1, q)
                 /\ n < Len(ItsLines)
  <1>1. InReply
    BY DEF SessionInv, Asked, Lost
  <1>2. ASSUME NEW end, NEW n, NEW p, NEW q, ReadTo(end, n, p, q)
        PROVE  /\ p < q /\ Head(to_client) = ItsReply[p + 1]
               /\ Tail(to_client) = SubSeq(ItsReply, (p + 1) + 1, q)
               /\ n < Len(ItsLines)
    <2>1. /\ ItsReply \in Seq(Letters) /\ p \in Nat /\ q \in p .. Len(ItsReply)
          /\ p < q \/ line # <<>> => n < Len(ItsLines)
      BY <1>1, <1>2, ReaderAt DEF InReply
    <2>2. to_client = SubSeq(ItsReply, p + 1, q)
      BY <1>2 DEF ReadTo, ItsReply
    <2>3. SubSeq(ItsReply, p + 1, q) # <<>>
      BY <2>2
    <2> QED
      BY <2>1, <2>2, <2>3, NextLetter
  <1> QED
    BY <1>1, <1>2

LEMMA ReadLetterSession ==
    ASSUME AdminTypes, SessionInv, ReadLetter
    PROVE  SessionInv' /\ Understands
  <1>1. /\ pc = "reading" /\ to_client # <<>> /\ Head(to_client) # LF
        /\ line' = Append(line, Head(to_client)) /\ to_client' = Tail(to_client)
        /\ UNCHANGED <<pc, call, lines, to_server, closed, in_step, meant>>
    BY DEF ReadLetter
  <1>2. ASSUME in_step PROVE InReply'
    <2>1. InReply
      BY <1>1, <1>2, LetterFrom
    <2>2. PICK end, n, p, q : ReadTo(end, n, p, q)
      BY <2>1 DEF InReply
    <2>3. /\ p < q /\ Head(to_client) = ItsReply[p + 1]
          /\ Tail(to_client) = SubSeq(ItsReply, (p + 1) + 1, q) /\ n < Len(ItsLines)
      BY <1>1, <1>2, <2>2, LetterFrom
    <2>4. /\ ItsReply \in Seq(Letters) /\ p \in Nat /\ q \in p .. Len(ItsReply)
          /\ end[n] \in Nat /\ end[n] <= p
          /\ InLine(ItsLines[n + 1], ItsReply, end[n], end[n + 1], p)
      BY <1>1, <2>1, <2>2, <2>3, ReaderAt DEF InReply
    <2>5. p + 1 < end[n + 1]
      BY <1>1, <2>3, <2>4 DEF InLine
    <2>6. p + 1 \in Nat /\ q \in p + 1 .. Len(ItsReply) /\ end[n] <= p + 1 /\ p < Len(ItsReply)
      BY <2>3, <2>4
    <2>7. line' = SubSeq(ItsReply, end[n] + 1, p + 1)
      <3>1. line = SubSeq(ItsReply, end[n] + 1, p)
        BY <2>2 DEF ReadTo, ItsReply
      <3> QED
        BY <1>1, <2>3, <2>4, <2>6, <3>1, OneMoreLetter
    <2>8. ReadTo(end, n, p + 1, q)'
      BY <1>1, <2>2, <2>3, <2>5, <2>6, <2>7 DEF ReadTo, ItsReply, ItsLines
    <2> QED
      BY <1>1, <2>1, <2>8 DEF InReply
  <1> QED
    BY <1>1, <1>2 DEF SessionInv, Understands

LEMMA ReadTooMuchSession ==
    ASSUME AdminTypes, SessionInv, ReadTooMuch
    PROVE  SessionInv' /\ Understands
  <1> DEFINE text == Append(line, Head(to_client))
  <1>1. /\ pc = "reading" /\ to_client # <<>> /\ Head(to_client) # LF
        /\ Len(text) >= MaxLine /\ in_step' = FALSE
        /\ result'.outcome = Outcome(IF IsUtf8(text) THEN "too_long" ELSE "io", <<>>)
    BY DEF ReadTooMuch, OverCap, Fails, Ends
  <1> HIDE DEF text
  <1>2. ASSUME in_step
        PROVE  /\ meant \in Answers[call] /\ FirstBad(call, meant) # 0
               /\ result'.outcome = Understood(call, meant)
    <2>1. InReply
      BY <1>1, <1>2, LetterFrom
    <2>2. PICK end, n, p, q : ReadTo(end, n, p, q)
      BY <2>1 DEF InReply
    <2>3. p < q /\ Head(to_client) = ItsReply[p + 1] /\ n < Len(ItsLines)
      BY <1>1, <1>2, <2>2, LetterFrom
    <2>4. /\ ItsReply \in Seq(Letters) /\ p \in Nat /\ q \in p .. Len(ItsReply)
          /\ end[n] \in Nat /\ end[n] <= p /\ n \in 0 .. Len(ItsLines)
          /\ InLine(ItsLines[n + 1], ItsReply, end[n], end[n + 1], p)
          /\ Len(line) = p - end[n] /\ ItsLines[n + 1] \in Seq(Letters)
          /\ ItsLines \in Seq(Seq(Letters))
      BY <1>1, <2>1, <2>2, <2>3, ReaderAt DEF InReply
    <2> DEFINE l == ItsLines[n + 1]  size == p + 1 - end[n]
    <2>5. size <= Len(l) /\ size \in Nat /\ p + 1 < end[n + 1]
      <3>1. ItsReply[p + 1] # LF /\ InLine(l, ItsReply, end[n], end[n + 1], p)
        BY <1>1, <2>3, <2>4
      <3>2. p + 1 < end[n + 1] /\ p + 1 - end[n] <= Len(l)
        BY <3>1 DEF InLine
      <3>3. size \in Nat
        BY <2>4
      <3> QED
        BY <3>2, <3>3
    <2>6. text = SubSeq(l, 1, size)
      <3>1. line = SubSeq(l, 1, p - end[n])
        <4>1. line = SubSeq(ItsReply, end[n] + 1, p)
          BY <2>2 DEF ReadTo, ItsReply
        <4> QED
          BY <2>4, <4>1 DEF InLine
      <3>2. ItsReply[p + 1] = l[size]
        <4>1. p + 1 = end[n] + size /\ size \in 1 .. Len(l)
          <5>1. p + 1 = end[n] + size /\ size >= 1
            BY <2>4
          <5>2. Len(l) \in Nat
            BY <2>4
          <5> QED
            BY <2>5, <5>1, <5>2
        <4>2. n + 1 \in 1 .. Len(ItsLines) /\ (n + 1) - 1 = n
          BY <2>3, <2>4
        <4>3. \A i \in 1 .. Len(l) : ItsReply[end[n] + i] = l[i]
          <5>1. Laid(ItsLines, ItsReply, end)
            BY <2>2 DEF ReadTo, ItsReply, ItsLines
          <5> QED
            BY <4>2, <5>1 DEF Laid
        <4> QED
          BY <4>1, <4>3
      <3>3. l \in Seq(Letters) /\ p - end[n] \in Nat /\ size = (p - end[n]) + 1
        BY <2>4
      <3> HIDE DEF l, size
      <3>4. p - end[n] < Len(l)
        BY <2>5, <3>3
      <3>5. Append(SubSeq(l, 0 + 1, p - end[n]), l[(p - end[n]) + 1])
            = SubSeq(l, 0 + 1, (p - end[n]) + 1)
        BY <3>3, <3>4, OneMoreLetter
      <3> QED
        BY <2>3, <3>1, <3>2, <3>3, <3>5 DEF text
    <2>7. size = MaxLine
      <3>1. Len(line) < MaxLine /\ MaxLine \in Nat
        BY AdminAssumption DEF AdminTypes, TypeOK
      <3>2. Len(text) = size
        BY SMTT(30), <2>4, <2>5, <2>6
      <3> QED
        BY <1>1, <2>4, <3>1, <3>2
    <2>8. Bad(l) /\ Seen(l) = text
      <3>1. Len(l) >= MaxLine
        BY <2>5, <2>7
      <3> QED
        BY <2>4, <2>6, <2>7, <3>1, SeenOf DEF Bad
    <2>9. FirstBad(call, meant) = n + 1
      <3>1. \A i \in 1 .. n : ~Bad(ReplyLines(call, meant)[i])
        BY <2>2 DEF ReadTo
      <3>2. n \in Nat /\ n <= Len(ItsLines) /\ Len(ItsLines) \in Nat
        BY <2>4
      <3> QED
        BY <2>3, <2>8, <3>1, <3>2, FirstBadIs DEF ItsLines
    <2>10. result'.outcome = Refused(l)
      BY <1>1, <2>8 DEF Refused
    <2>11. n + 1 # 0
      BY <2>4
    <2> QED
      BY <2>1, <2>9, <2>10, <2>11 DEF Understood, InReply, ItsLines
  <1> QED
    BY <1>1, <1>2 DEF SessionInv, Understands

\* What is written of a line's end is no part of what a parser takes from its front.
LEMMA StartsWithDot ==
    ASSUME NEW text \in Seq(Letters), Trimmed(text) = Dot
    PROVE  text # <<>> /\ text[1] = "."
  <1>1. Trimmed(text) # <<>> /\ Head(Trimmed(text)) = "."
    BY DEF Dot
  <1> QED
    BY <1>1, TrimmedFacts

\* A list that is read to its dot is read whole.
LEMMA DotIsLast ==
    ASSUME AdminTypes, pc = "reading", meant \in Answers[call],
           NEW end, NEW n, NEW p, NEW q, ReadTo(end, n, p, q), n < Len(ItsLines),
           n + 1 = Len(ItsLines), call \in Lists, ItsLines[n + 1][1] = ".",
           ~Bad(ItsLines[n + 1])
    PROVE  /\ Whole(call, meant)
           /\ Table(call, lines) = Understood(call, meant)
  <1>1. /\ n + 1 = Len(ItsLines) /\ ItsLines[n + 1] = Dot /\ n \in Nat
        /\ Len(ItsLines) \in Nat
    BY ReaderAt
  <1>2. \A i \in 1 .. n : ~Bad(ReplyLines(call, meant)[i])
    BY DEF ReadTo
  <1>3. \A i \in 1 .. n + 1 : ~Bad(ReplyLines(call, meant)[i])
    BY <1>1, <1>2 DEF ItsLines
  <1>4. FirstBad(call, meant) = 0
    <2>1. n + 1 \in Nat /\ n + 1 <= Len(ItsLines)
      BY <1>1
    <2> QED
      BY <1>1, <1>3, <2>1, FirstBadIs DEF ItsLines
  <1>5. lines = [i \in 1 .. Len(ItsLines) - 1 |-> Trimmed(Append(ItsLines[i], LF))]
    <2>1. lines = [i \in 1 .. n |-> Trimmed(Append(ItsLines[i], LF))]
      BY DEF ReadTo, ItsLines
    <2>2. Len(ItsLines) - 1 = n
      BY <1>1
    <2> QED
      BY <2>1, <2>2
  <1>6. Parsed(call, meant) = Table(call, lines)
    BY <1>5 DEF Parsed, ItsLines
  <1> QED
    BY <1>1, <1>4, <1>6 DEF Whole, Understood, ItsLines

LEMMA ReadNewlineSession ==
    ASSUME AdminTypes, SessionInv, ReadNewline
    PROVE  SessionInv' /\ Understands
  <1> DEFINE text == Append(line, LF)
  <1>1. /\ pc = "reading" /\ to_client # <<>> /\ Head(to_client) = LF
        /\ to_client' = Tail(to_client) /\ LineRead(text, TRUE)
        /\ UNCHANGED <<to_server, closed, meant>>
    BY DEF ReadNewline
  <1>2. CASE Fails("io") /\ in_step' = FALSE
    BY <1>2 DEF Fails, Ends, Outcome, SessionInv, Understands, Answered
  <1>3. CASE ~in_step /\ in_step' = in_step
    BY <1>3 DEF SessionInv, Understands
  <1>4. ASSUME in_step, in_step' = in_step, IsUtf8(text),
               IF call \notin Lists THEN Ends(Ack(call, Trimmed(text)), TRUE)
               ELSE IF Trimmed(text) = Dot THEN Ends(Table(call, lines), TRUE)
               ELSE /\ lines' = Append(lines, Trimmed(text)) /\ line' = <<>>
                    /\ UNCHANGED <<pc, call, result>>
        PROVE  SessionInv' /\ Understands
    <2>1. InReply /\ to_server = <<>> /\ meant \in Answers[call]
      BY <1>1, <1>4, LetterFrom DEF InReply
    <2>2. PICK end, n, p, q : ReadTo(end, n, p, q)
      BY <2>1 DEF InReply
    <2>3. /\ p < q /\ ItsReply[p + 1] = LF /\ n < Len(ItsLines)
          /\ to_client' = SubSeq(ItsReply, (p + 1) + 1, q)
      BY <1>1, <1>4, <2>2, LetterFrom
    <2> DEFINE l == ItsLines[n + 1]
    <2>4. /\ ItsReply \in Seq(Letters) /\ p \in Nat /\ q \in p .. Len(ItsReply)
          /\ end[n] \in Nat /\ n \in 0 .. Len(ItsLines) /\ ItsLines \in Seq(Seq(Letters))
          /\ InLine(l, ItsReply, end[n], end[n + 1], p)
          /\ l \in Seq(Letters) /\ l # <<>>
          /\ Trimmed(Append(l, LF)) = Dot => n + 1 = Len(ItsLines)
          /\ call \notin Lists => Len(ItsLines) = 1
      BY <1>1, <2>1, <2>2, <2>3, ReaderAt
    <2>5. Len(ItsLines) \in Nat /\ Len(ItsReply) \in Nat /\ n \in Nat
      BY <2>4
    <2>6. p + 1 = end[n + 1] /\ p - end[n] = Len(l)
      BY <2>3, <2>4 DEF InLine
    <2>7. line = l
      <3>1. line = SubSeq(ItsReply, end[n] + 1, p)
        BY <2>2 DEF ReadTo, ItsReply
      <3>2. line = SubSeq(l, 1, Len(l))
        BY <2>4, <2>6, <3>1 DEF InLine
      <3>3. SubSeq(l, 1, Len(l)) = l
        BY <2>4
      <3> QED
        BY <3>2, <3>3
    <2>8. ~Bad(l)
      <3>1. Len(l) < MaxLine
        BY <2>7 DEF AdminTypes, TypeOK
      <3>2. IsUtf8(l)
        BY <1>4, <2>4, <2>7, Utf8Line
      <3> QED
        BY <2>4, <3>1, <3>2, PassesWhole
    <2>9. Laid(ItsLines, ItsReply, end)
      BY <2>2 DEF ReadTo, ItsLines, ItsReply
    \* The last line read leaves nothing under way.
    <2>10. ASSUME n + 1 = Len(ItsLines) PROVE to_client' = <<>>
      <3>1. end[n + 1] = Len(ItsReply)
        BY <2>9, <2>10 DEF Laid
      <3>2. q <= p + 1 /\ q \in Nat
        BY <2>4, <2>5, <2>6, <3>1
      <3> QED
        BY <2>3, <2>4, <3>2
    <2>11. CASE call \notin Lists
      <3>1. n = 0 /\ n + 1 = Len(ItsLines)
        <4>1. n = 0
          BY <2>2, <2>11 DEF ReadTo
        <4> QED
          BY <2>4, <2>11, <4>1
      <3>2. /\ pc' = "idle" /\ result'.outcome = Ack(call, Trimmed(text))
        BY <1>4, <2>11 DEF Ends
      <3>3. SessionInv'
        BY <1>1, <2>1, <2>10, <3>1, <3>2 DEF SessionInv
      <3>4. FirstBad(call, meant) = 0
        <4>1. 1 \in Nat /\ 1 <= Len(ItsLines) /\ \A i \in 1 .. 1 : ~Bad(ReplyLines(call, meant)[i])
          BY <2>5, <2>8, <3>1 DEF ItsLines
        <4>2. 1 = Len(ItsLines)
          BY <3>1
        <4> QED
          BY <2>5, <4>1, <4>2, FirstBadIs DEF ItsLines
      <3>5. result'.outcome = Understood(call, meant) /\ Whole(call, meant)
        <4>1. text = Append(ReplyLines(call, meant)[1], LF)
          BY <2>7, <3>1 DEF ItsLines
        <4> QED
          BY <2>11, <3>2, <3>4, <4>1 DEF Understood, Parsed, Whole
      <3> QED
        BY <2>1, <3>3, <3>5 DEF Understands
    <2>12. CASE call \in Lists /\ Trimmed(text) = Dot
      <3>1. l[1] = "."
        <4>1. text \in Seq(Letters) /\ text[1] = l[1]
          BY <2>4, <2>7 DEF Letters
        <4> QED
          BY <2>12, <4>1, StartsWithDot
      <3>2. /\ n + 1 = Len(ItsLines) /\ Whole(call, meant)
            /\ Table(call, lines) = Understood(call, meant)
        <4>1. n + 1 = Len(ItsLines)
          BY <2>4, <2>7, <2>12
        <4> QED
          BY <1>1, <2>1, <2>2, <2>3, <2>8, <2>12, <3>1, <4>1, DotIsLast
      <3>3. /\ pc' = "idle" /\ result'.outcome = Table(call, lines)
        BY <1>4, <2>12 DEF Ends
      <3>4. SessionInv'
        BY <1>1, <2>1, <2>10, <3>2, <3>3 DEF SessionInv
      <3> QED
        BY <2>1, <3>2, <3>3, <3>4 DEF Understands
    <2>13. CASE call \in Lists /\ Trimmed(text) # Dot
      <3>1. /\ lines' = Append(lines, Trimmed(text)) /\ line' = <<>>
            /\ UNCHANGED <<pc, call, result>>
        BY <1>4, <2>13
      <3>2. /\ n + 1 \in 0 .. Len(ItsLines) /\ p + 1 \in Nat /\ q \in p + 1 .. Len(ItsReply)
            /\ end[n + 1] <= p + 1 /\ end[n + 1] \in Nat
        BY SMTT(30), <2>3, <2>4, <2>5, <2>6
      <3>3. ASSUME n + 1 < Len(ItsLines) PROVE p + 1 < end[(n + 1) + 1]
        <4>1. /\ n + 2 \in 1 .. Len(ItsLines) /\ (n + 2) - 1 = n + 1 /\ (n + 1) + 1 = n + 2
          BY <2>5, <3>3
        <4>2. ItsLines[n + 2] \in Seq(Letters)
          BY <2>4, <4>1
        <4>3. end[n + 2] = end[n + 1] + Len(ItsLines[n + 2]) + 1
          BY <2>9, <4>1 DEF Laid
        <4>4. Len(ItsLines[n + 2]) \in Nat
          BY <4>2
        <4> QED
          BY SMTT(30), <2>4, <2>6, <4>1, <4>3, <4>4
      <3>4. line' = SubSeq(ItsReply, end[n + 1] + 1, p + 1)
        BY SMTT(30), <2>4, <2>6, <3>1
      <3>5. lines' = [i \in 1 .. n + 1 |-> Trimmed(Append(ItsLines[i], LF))]
        <4> DEFINE f == [i \in 1 .. n + 1 |-> Trimmed(Append(ItsLines[i], LF))]
        <4>1. lines = [i \in 1 .. n |-> Trimmed(Append(ItsLines[i], LF))]
          BY <2>2 DEF ReadTo, ItsLines
        <4>2. lines = [i \in 1 .. n |-> f[i]]
          BY <2>5, <4>1
        <4>3. Trimmed(text) = f[n + 1] /\ f = [i \in 1 .. n + 1 |-> f[i]]
          BY <2>5, <2>7
        <4> HIDE DEF f
        <4>4. Append(lines, f[n + 1]) = f
          BY <2>5, <4>2, <4>3
        <4> QED
          BY <3>1, <4>3, <4>4 DEF f
      <3>6. \A i \in 1 .. n + 1 : ~Bad(ItsLines[i])
        <4>1. \A i \in 1 .. n : ~Bad(ItsLines[i])
          BY <2>2 DEF ReadTo, ItsLines
        <4> QED
          BY <2>5, <2>8, <4>1
      <3>7. closed \/ q = Len(ItsReply)
        BY <2>2 DEF ReadTo, ItsReply
      <3>8. ReadTo(end, n + 1, p + 1, q)'
        BY <1>1, <2>3, <2>9, <2>13, <3>1, <3>2, <3>3, <3>4, <3>5, <3>6, <3>7
        DEF ReadTo, ItsLines, ItsReply
      <3>9. InReply'
        BY <1>1, <2>1, <3>1, <3>8 DEF InReply
      <3> QED
        BY <1>1, <3>1, <3>9 DEF SessionInv, Understands
    <2> QED
      BY <2>11, <2>12, <2>13
  <1> QED
    BY <1>1, <1>2, <1>3, <1>4 DEF LineRead

LEMMA ReadEndSession ==
    ASSUME AdminTypes, SessionInv, ReadEnd
    PROVE  SessionInv' /\ Understands
  <1>1. /\ pc = "reading" /\ to_client = <<>> /\ closed
        /\ UNCHANGED <<to_server, to_client, closed, meant>>
        /\ (Fails("closed") /\ in_step' = in_step) \/ (line # <<>> /\ LineRead(line, FALSE))
    BY DEF ReadEnd, stream
  <1>2. ASSUME in_step
        PROVE  /\ to_server = <<>>
               /\ line # <<>> => InReply
    BY <1>1, <1>2 DEF SessionInv, Asked, Lost, InReply
  <1>3. CASE Fails("closed") /\ in_step' = in_step
    BY <1>1, <1>2, <1>3 DEF Fails, Ends, Outcome, SessionInv, Understands, Answered
  <1>4. CASE Fails("io") /\ in_step' = FALSE
    BY <1>4 DEF Fails, Ends, Outcome, SessionInv, Understands, Answered
  <1>5. CASE ~in_step /\ in_step' = in_step
    BY <1>5 DEF SessionInv, Understands
  <1>6. ASSUME in_step, in_step' = in_step, line # <<>>, IsUtf8(line),
               IF call \notin Lists THEN Ends(Ack(call, Trimmed(line)), FALSE)
               ELSE IF Trimmed(line) = Dot THEN Ends(Table(call, lines), FALSE)
               ELSE /\ lines' = Append(lines, Trimmed(line)) /\ line' = <<>>
                    /\ UNCHANGED <<pc, call, result>>
        PROVE  SessionInv' /\ Understands
    <2>1. CASE call \notin Lists
      BY <1>1, <1>2, <1>6, <2>1 DEF Ends, SessionInv, Understands
    <2>2. CASE call \in Lists /\ Trimmed(line) = Dot
      <3>1. InReply /\ meant \in Answers[call]
        BY <1>2, <1>6 DEF InReply
      <3>2. PICK end, n, p, q : ReadTo(end, n, p, q)
        BY <3>1 DEF InReply
      <3> DEFINE l == ItsLines[n + 1]
      <3>3. /\ n < Len(ItsLines) /\ InLine(l, ItsReply, end[n], end[n + 1], p)
            /\ l \in Seq(Letters) /\ l # <<>> /\ end[n] \in Nat /\ p \in Nat
            /\ n + 1 = Len(ItsLines) /\ l[1] = "." => l = Dot
            /\ Len(line) = p - end[n]
        BY <1>1, <1>6, <3>1, <3>2, ReaderAt
      <3>4. line \in Seq(Letters) /\ Len(line) < MaxLine /\ MaxLine \in Nat /\ Len(line) >= 1
        BY <1>6, AdminAssumption DEF AdminTypes, TypeOK
      <3>5. l[1] = "."
        <4>1. line = SubSeq(ItsReply, end[n] + 1, p)
          BY <3>2 DEF ReadTo, ItsReply
        <4>2. line = SubSeq(l, 1, p - end[n]) /\ p - end[n] <= Len(l) /\ p - end[n] >= 1
          BY SMTT(30), <3>3, <3>4, <4>1 DEF InLine
        <4> HIDE DEF l
        <4>3. line[1] = l[1]
          BY <3>3, <4>2
        <4> QED
          BY <2>2, <3>4, <4>3, StartsWithDot
      <3>6. /\ pc' = "idle" /\ result'.outcome = Table(call, lines) /\ ~result'.whole
            /\ SessionInv'
        BY <1>1, <1>2, <1>6, <2>2 DEF Ends, SessionInv
      <3>7. CASE n + 1 = Len(ItsLines)
        <4>1. ~Bad(l)
          <5>1. l = <<".">>
            BY <3>3, <3>5, <3>7 DEF Dot
          <5> HIDE DEF l
          <5>2. Len(l) = 1 /\ DOMAIN l = {1} /\ l[1] = "."
            BY <5>1
          <5>3. IsUtf8(l)
            BY <5>2 DEF IsUtf8, ToSet, NotUtf8, Lead
          <5>4. l \in Seq(Letters) /\ Len(line) >= 1 /\ Len(line) <= Len(l)
            BY <3>3, <3>4 DEF InLine
          <5>5. Len(l) < MaxLine
            BY SMTT(30), <3>4, <5>2, <5>4
          <5> QED
            BY <5>3, <5>4, <5>5, PassesWhole
        <4>2. Whole(call, meant) /\ Table(call, lines) = Understood(call, meant)
          BY <1>1, <2>2, <3>1, <3>2, <3>3, <3>5, <3>7, <4>1, DotIsLast
        <4> QED
          BY <3>1, <3>6, <4>2 DEF Understands
      <3>8. CASE n + 1 < Len(ItsLines)
        <4>1. n + 1 \in DOMAIN ItsLines /\ Head(l) = l[1] /\ (n + 1) - 1 = n
          <5>1. ItsLines \in Seq(Seq(Letters)) /\ n \in 0 .. Len(ItsLines)
            BY <1>1, <3>1, <3>2, ReaderAt
          <5>2. DOMAIN ItsLines = 1 .. Len(ItsLines) /\ Len(ItsLines) \in Nat /\ n \in Nat
            BY <5>1
          <5>3. l \in Seq(Letters) /\ l # <<>>
            BY <3>3
          <5> HIDE DEF l
          <5>4. Head(l) = l[1]
            BY <5>3
          <5> QED
            BY <3>8, <5>2, <5>4
        <4>2. CutAtDot(n + 1)
          BY <1>1, <2>2, <3>5, <3>8, <4>1 DEF CutAtDot, ItsLines
        <4>3. lines = [i \in 1 .. (n + 1) - 1 |-> Trimmed(Append(ItsLines[i], LF))]
          BY <3>2, <4>1 DEF ReadTo, ItsLines
        <4>4. CutShort
          BY <3>6, <4>1, <4>2, <4>3 DEF CutShort, ItsLines
        <4> QED
          BY <3>1, <3>6, <4>4 DEF Understands
      <3>9. ItsLines \in Seq(Seq(Letters)) /\ n \in 0 .. Len(ItsLines) /\ n < Len(ItsLines)
        BY <1>1, <3>1, <3>2, <3>3, ReaderAt
      <3>10. n \in Nat /\ Len(ItsLines) \in Nat
        BY <3>9
      <3> QED
        BY <3>7, <3>8, <3>9, <3>10
    <2>3. CASE call \in Lists /\ Trimmed(line) # Dot
      BY <1>1, <1>2, <1>6, <2>3 DEF SessionInv, Lost, Understands
    <2> QED
      BY <2>1, <2>2, <2>3
  <1> QED
    BY <1>1, <1>3, <1>4, <1>5, <1>6 DEF LineRead

LEMMA SessionStep ==
    ASSUME AdminTypes, SessionInv, Next
    PROVE  SessionInv' /\ Understands
  BY BeginSession, WriteSession, GiveUpSession, CloseSession, AnswerSession, ReadLetterSession,
     ReadTooMuchSession, ReadNewlineSession, ReadEndSession DEF Next, Reading

LEMMA SessionStutters == SessionInv /\ UNCHANGED vars => SessionInv'
  <1> SUFFICES ASSUME SessionInv, UNCHANGED vars PROVE SessionInv'
    OBVIOUS
  <1>1. UNCHANGED <<pc, call, line, lines, to_server, to_client, closed, in_step, meant>>
    BY DEF vars, client, stream
  <1>2. ASSUME NEW end, NEW n, NEW p, NEW q, ReadTo(end, n, p, q) PROVE ReadTo(end, n, p, q)'
    BY <1>1, <1>2 DEF ReadTo
  <1>3. InReply => InReply'
    BY <1>1, <1>2 DEF InReply
  <1> QED
    BY <1>1, <1>3 DEF SessionInv, Asked, Lost

-----------------------------------------------------------------------------
(* The theorems.                                                           *)

\* A call that is in step has no more than its own reply before it.
THEOREM SessionInvariant == Spec => [](AdminTypes /\ SessionInv)
  <1>1. Init => AdminTypes /\ SessionInv
    BY TypesInit, SessionInit
  <1>2. AdminTypes /\ SessionInv /\ [Next]_vars => (AdminTypes /\ SessionInv)'
    BY TypesStep, SessionStep, SessionStutters
  <1> QED
    BY <1>1, <1>2, PTL DEF Spec

\* Every variable has its type and no line outgrows MAX_ADMIN_LINE_LEN (read_line).
THEOREM TypeCorrect == Spec => []TypeOK
  <1>1. AdminTypes => TypeOK
    BY DEF AdminTypes
  <1> QED
    BY <1>1, SessionInvariant, PTL

\* A call that was not dropped half way, and did not give up inside its reply,
\* leaves nothing on the stream for the next (send_line, read_line, read_ack).
THEOREM StaysInStep == Spec => []InStep
  <1>1. SessionInv => InStep
    BY DEF SessionInv, InStep
  <1> QED
    BY <1>1, SessionInvariant, PTL

\* What a call in step returns is made of the lines of its own reply, in their order
\* and at the cap; for a list it is all of them, unless the stream ends right behind
\* a dot that begins a row, and then those before that row (read_dot_terminated).
THEOREM ReadsItsReply == Spec => [][Understands]_vars
  <1>1. AdminTypes /\ SessionInv /\ [Next]_vars => [Understands]_vars
    BY SessionStep
  <1> QED
    BY <1>1, SessionInvariant, PTL DEF Spec

-----------------------------------------------------------------------------
(* What the caller gets, if the parsers read back what gearmand lays out.  *)

\* Laid out and parsed again, an answer is what it was, or the error for a row whose
\* layout is ambiguous, and a row of a list is itself or malformed. It is a matter of
\* the parsers alone, for the answers given.
RepliesReadBack ==
    \A c \in Calls : \A answer \in Answers[c] :
        LET text == ReplyLines(c, answer)
        IN  /\ Whole(c, answer) => Parsed(c, answer) = Expected(c, answer)
            /\ c \in Lists => \A i \in 1 .. Len(text) - 1 :
                 Row(c, Trimmed(Append(text[i], LF))) \subseteq {answer.value[i]}

LEMMA UnderstoodIsExpected ==
    ASSUME RepliesReadBack, NEW c \in Calls, NEW answer \in Answers[c],
           FirstBad(c, answer) # 0 \/ Whole(c, answer)
    PROVE  Understood(c, answer) = Expected(c, answer)
  <1>1. CASE FirstBad(c, answer) # 0
    BY <1>1 DEF Understood, Expected
  <1>2. CASE FirstBad(c, answer) = 0 /\ Whole(c, answer)
    BY <1>2 DEF Understood, RepliesReadBack
  <1> QED
    BY <1>1, <1>2

LEMMA AnsweredStep ==
    ASSUME RepliesReadBack, AdminTypes, SessionInv, Next,
           pc # "idle", pc' = "idle", in_step,
           result'.outcome.type \in Answered, result'.whole \/ call \in Lists
    PROVE  /\ call \in Calls /\ meant \in Answers[call]
           /\ result'.outcome = Expected(call, meant) \/ CutShort
  <1>1. /\ meant \in Answers[call]
        /\ \/ /\ result'.outcome = Understood(call, meant)
              /\ FirstBad(call, meant) # 0 \/ Whole(call, meant)
           \/ CutShort
    BY SessionStep DEF Understands
  <1>2. call \in Calls
    BY CallIsNoLineEnd DEF AdminTypes, TypeOK
  <1> QED
    BY <1>1, <1>2, UnderstoodIsExpected

\* If the parsers read replies back, a call in step returns what the server means,
\* or the error its reply calls for (every AdminClient method, by its parser).
THEOREM CallsAreAnswered ==
    ASSUME RepliesReadBack
    PROVE  Spec => AnswersItsCall
  <1>1. ASSUME AdminTypes, SessionInv, [Next]_vars
        PROVE  [LET outcome == result'.outcome
                IN  pc # "idle" /\ pc' = "idle" /\ in_step /\ result'.whole
                    /\ outcome.type \in Answered => outcome = Expected(call, meant)]_vars
    BY <1>1, AnsweredStep DEF CutShort
  <1> QED
    BY <1>1, SessionInvariant, PTL DEF Spec, AnswersItsCall

\* The rows before the one that is cut are read as what they are.
LEMMA RowsBefore ==
    ASSUME RepliesReadBack, NEW c \in Calls \cap Lists, NEW answer \in Answers[c],
           NEW n \in 1 .. Len(ReplyLines(c, answer)), n < Len(ReplyLines(c, answer)),
           Len(ReplyLines(c, answer)) \in Nat
    PROVE  LET rows == [i \in 1 .. n - 1 |-> Trimmed(Append(ReplyLines(c, answer)[i], LF))]
           IN  Table(c, rows).type = "ok"
               => Table(c, rows).value = [i \in 1 .. n - 1 |-> answer.value[i]]
  <1> DEFINE row(i) == Row(c, Trimmed(Append(ReplyLines(c, answer)[i], LF)))
             rows == [i \in 1 .. n - 1 |-> Trimmed(Append(ReplyLines(c, answer)[i], LF))]
  <1>1. SUFFICES ASSUME Table(c, rows).type = "ok"
                 PROVE  Table(c, rows).value = [i \in 1 .. n - 1 |-> answer.value[i]]
    OBVIOUS
  <1>2. DOMAIN rows = 1 .. n - 1 /\ \A i \in 1 .. n - 1 : Row(c, rows[i]) = row(i)
    OBVIOUS
  <1>3. \A i \in 1 .. n - 1 : row(i) \subseteq {answer.value[i]}
    <2>1. \A i \in 1 .. n - 1 : i \in 1 .. Len(ReplyLines(c, answer)) - 1
      OBVIOUS
    <2> QED
      BY <2>1 DEF RepliesReadBack
  <1> HIDE DEF rows, row
  <1>4. /\ \A i \in DOMAIN rows : Row(c, rows[i]) # {}
        /\ Table(c, rows).value
             = [i \in DOMAIN rows |-> CHOOSE r \in Row(c, rows[i]) : TRUE]
    BY <1>1 DEF Table, ProtocolError, Outcome
  <1>5. \A i \in 1 .. n - 1 : (CHOOSE r \in Row(c, rows[i]) : TRUE) = answer.value[i]
    BY <1>2, <1>3, <1>4
  <1> QED
    BY <1>2, <1>4, <1>5

\* And a list is returned with all its rows: the end of the stream passes for the end
\* of the list nowhere but right behind a dot that begins a row, and then the rows
\* before that one are returned (read_line, read_dot_terminated).
THEOREM ListsAreWhole ==
    ASSUME RepliesReadBack
    PROVE  Spec => NoShortList
  <1>1. ASSUME AdminTypes, SessionInv, [Next]_vars
        PROVE  [pc # "idle" /\ pc' = "idle" /\ in_step /\ call \in Lists
                /\ result'.outcome.type = "ok"
                => \/ result'.outcome.value = meant.value
                   \/ \E n \in DOMAIN ReplyLines(call, meant) :
                         /\ CutAtDot(n) /\ ~result'.whole
                         /\ result'.outcome.value = [i \in 1 .. n - 1 |-> meant.value[i]]]_vars
    <2>1. SUFFICES ASSUME Next, pc # "idle", pc' = "idle", in_step, call \in Lists,
                          result'.outcome.type = "ok", result'.outcome.value # meant.value
                   PROVE  \E n \in DOMAIN ReplyLines(call, meant) :
                             /\ CutAtDot(n) /\ ~result'.whole
                             /\ result'.outcome.value = [i \in 1 .. n - 1 |-> meant.value[i]]
      BY <1>1
    <2>2. /\ call \in Calls /\ meant \in Answers[call]
          /\ result'.outcome = Expected(call, meant) \/ CutShort
      BY <1>1, <2>1, AnsweredStep DEF Answered
    <2>3. Expected(call, meant).type = "ok" => Expected(call, meant) = meant
      BY DEF Expected, Refused, ProtocolError, Outcome
    <2>4. CutShort
      BY <2>1, <2>2, <2>3
    <2>5. ReplyLines(call, meant) \in Seq(Seq(STRING))
      BY <2>2, AdminAssumption
    <2>6. PICK n \in DOMAIN ReplyLines(call, meant) :
             /\ CutAtDot(n) /\ ~result'.whole
             /\ result'.outcome
                  = Table(call, [i \in 1 .. n - 1 |-> Trimmed(Append(ReplyLines(call, meant)[i], LF))])
      BY <2>4 DEF CutShort
    <2>7. n \in 1 .. Len(ReplyLines(call, meant)) /\ Len(ReplyLines(call, meant)) \in Nat
      BY <2>5
    <2>8. n < Len(ReplyLines(call, meant))
      BY <2>6 DEF CutAtDot
    <2>9. result'.outcome.value = [i \in 1 .. n - 1 |-> meant.value[i]]
      BY <2>1, <2>2, <2>6, <2>7, <2>8, RowsBefore
    <2> QED
      BY <2>6, <2>9
  <1> QED
    BY <1>1, SessionInvariant, PTL DEF Spec, NoShortList

=============================================================================
