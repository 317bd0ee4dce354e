---------------------------- MODULE CodecProofs -----------------------------
(***************************************************************************)
(* Theorems about Codec, for any packet types, packets, caps and pieces:   *)
(* what one end encodes the other decodes, however the stream is cut.      *)
(*                                                                         *)
(* The arguments of a packet are any number, so the encoding of each is    *)
(* found by induction over them: a set of numbers that has 0 and with n    *)
(* also n + 1 has them all.                                                *)
(***************************************************************************)
EXTENDS Codec, Numbers, FiniteSetTheorems, SequenceTheorems

-----------------------------------------------------------------------------
(* Sequences.                                                              *)

\* Two sequences, one after the other.
LEMMA Concatenation ==
    ASSUME NEW s \in Seq(Nat), NEW t \in Seq(Nat)
    PROVE  /\ Len(s \o t) = Len(s) + Len(t)
           /\ \A i \in 1 .. Len(s) : (s \o t)[i] = s[i]
           /\ \A i \in 1 .. Len(t) : (s \o t)[Len(s) + i] = t[i]
  OBVIOUS

\* The parts of a sequence that is cut.
LEMMA CutParts ==
    ASSUME NEW s \in Seq(Nat), NEW n \in Nat
    PROVE  /\ SubSeq(s, n + 1, Len(s)) \in Seq(Nat)
           /\ n <= Len(s) => SubSeq(s, 1, n) \in Seq(Nat)
  OBVIOUS

\* A part of a sequence.
LEMMA PartOf ==
    ASSUME NEW s \in Seq(Nat), NEW before \in Nat, NEW n \in Nat, before + n <= Len(s)
    PROVE  LET t == SubSeq(s, before + 1, before + n)
           IN  t \in Seq(Nat) /\ Len(t) = n /\ \A i \in 1 .. n : t[i] = s[before + i]
  OBVIOUS

-----------------------------------------------------------------------------
(* The encoder: where the arguments are in a payload.                      *)

Separator(i) == IF i = 1 THEN <<>> ELSE <<NUL>>

\* g joins the first n arguments, as the function in Body does.
Joins(g, args, n) ==
    g = [i \in 0 .. n |-> IF i = 0 THEN <<>> ELSE g[i - 1] \o Separator(i) \o args[i]]

LEMMA SomeJoins == \A args : \A n \in Nat : \E g : Joins(g, args, n)
  <1> SUFFICES ASSUME NEW args PROVE \A n \in Nat : \E g : Joins(g, args, n)
    OBVIOUS
  <1> DEFINE T == {n \in Nat : \E g : Joins(g, args, n)}
  <1>1. 0 \in T
    <2> DEFINE g == [i \in 0 .. 0 |-> <<>>]
    <2>1. Joins(g, args, 0)
      BY DEF Joins
    <2> QED
      BY <2>1
  <1>2. ASSUME NEW n \in Nat, n \in T PROVE n + 1 \in T
    <2>1. PICK g : Joins(g, args, n)
      BY <1>2
    <2>2. \A i \in 0 .. n : g[i] = IF i = 0 THEN <<>> ELSE g[i - 1] \o Separator(i) \o args[i]
      BY <2>1 DEF Joins
    <2> DEFINE h == [i \in 0 .. n + 1 |->
                        IF i <= n THEN g[i] ELSE g[n] \o Separator(n + 1) \o args[n + 1]]
    <2>3. ASSUME NEW i \in 0 .. n + 1
          PROVE  h[i] = IF i = 0 THEN <<>> ELSE h[i - 1] \o Separator(i) \o args[i]
      <3>1. CASE i = n + 1
        BY <3>1
      <3>2. CASE i <= n
        BY <2>2, <3>2
      <3> QED
        BY <3>1, <3>2
    <2>4. Joins(h, args, n + 1)
      BY <2>3 DEF Joins
    <2> QED
      BY <2>4
  <1> HIDE DEF T
  <1>3. \A n \in Nat : n \in T
    BY <1>1, <1>2, SetInduction
  <1> QED
    BY <1>3 DEF T

LEMMA BodyJoins ==
    ASSUME NEW args \in Seq(Seq(Nat))
    PROVE  \E g : Joins(g, args, Len(args)) /\ Body(args) = g[Len(args)]
  <1> DEFINE g == CHOOSE g : Joins(g, args, Len(args))
  <1>1. Joins(g, args, Len(args))
    <2>1. Len(args) \in Nat
      OBVIOUS
    <2>2. \E f : Joins(f, args, Len(args))
      BY <2>1, SomeJoins
    <2> QED
      BY <2>2, Zenon
  <1>2. Body(args) = g[Len(args)]
    BY DEF Body, Joins, Separator
  <1> QED
    BY <1>1, <1>2

\* The string t begins with s.
Begins(s, t) == Len(s) <= Len(t) /\ \A k \in 1 .. Len(s) : t[k] = s[k]

\* Each of the joined strings begins with those before it.
LEMMA JoinsGrow ==
    ASSUME NEW args \in Seq(Seq(Nat)), NEW g, Joins(g, args, Len(args))
    PROVE  /\ g[0] = <<>>
           /\ \A i \in 0 .. Len(args) : g[i] \in Seq(Nat)
           /\ \A i \in 1 .. Len(args) : g[i] = g[i - 1] \o Separator(i) \o args[i]
           /\ \A i, j \in 0 .. Len(args) : i <= j => Begins(g[i], g[j])
  <1> DEFINE n == Len(args)
  <1>1. n \in Nat
    OBVIOUS
  <1>2. \A i \in 0 .. n : g[i] = IF i = 0 THEN <<>> ELSE g[i - 1] \o Separator(i) \o args[i]
    BY <1>1 DEF Joins
  <1>3. g[0] = <<>>
    BY <1>1, <1>2
  <1>4. ASSUME NEW i \in 1 .. n PROVE g[i] = g[i - 1] \o Separator(i) \o args[i]
    <2>1. i \in 0 .. n /\ i # 0
      BY <1>1
    <2> QED
      BY <1>2, <2>1
  <1>5. \A i \in 1 .. n : args[i] \in Seq(Nat)
    OBVIOUS
  <1>6. \A i : Separator(i) \in Seq(Nat)
    BY DEF Separator, NUL
  <1> HIDE DEF n
  <1>7. \A i \in 0 .. n : g[i] \in Seq(Nat)
    <2> DEFINE T == {i \in Nat : i <= n => g[i] \in Seq(Nat)}
    <2>0. g[0] \in Seq(Nat)
      BY <1>3
    <2>1. 0 \in T
      BY <2>0
    <2>2. ASSUME NEW i \in Nat, i \in T, i + 1 <= n PROVE g[i + 1] \in Seq(Nat)
      <3>1. g[i + 1] = g[i] \o Separator(i + 1) \o args[i + 1]
        <4>1. i + 1 \in 1 .. n /\ (i + 1) - 1 = i
          BY <1>1, <2>2
        <4>2. g[i + 1] = g[(i + 1) - 1] \o Separator(i + 1) \o args[i + 1]
          BY <1>4, <4>1
        <4> QED
          BY <4>1, <4>2
      <3>2. g[i] \in Seq(Nat) /\ args[i + 1] \in Seq(Nat) /\ Separator(i + 1) \in Seq(Nat)
        BY <1>1, <1>5, <1>6, <2>2
      <3> QED
        BY <3>1, <3>2
    <2>3. \A i \in Nat : i \in T => i + 1 \in T
      BY <2>2
    <2> HIDE DEF T
    <2>4. \A i \in Nat : i \in T
      BY <2>1, <2>3, SetInduction
    <2> QED
      BY <1>1, <2>4 DEF T
  <1>8. ASSUME NEW i \in 0 .. n, NEW j \in 0 .. n, i <= j
        PROVE  Begins(g[i], g[j])
    <2> DEFINE T == {x \in Nat : i + x <= n => Begins(g[i], g[i + x])}
    <2>1. 0 \in T
      BY <1>1, <1>7 DEF Begins
    <2>2. ASSUME NEW x \in Nat, x \in T, i + (x + 1) <= n PROVE Begins(g[i], g[i + (x + 1)])
      <3> DEFINE a == g[i + x]  b == g[i + (x + 1)]
                 s == Separator(i + (x + 1))  t == args[i + (x + 1)]
      <3>1. i + x \in 0 .. n /\ i + (x + 1) \in 1 .. n /\ (i + (x + 1)) - 1 = i + x
        BY <1>1, <2>2
      <3>2. b = a \o s \o t
        BY <1>4, <3>1
      <3>3. a \in Seq(Nat) /\ s \in Seq(Nat) /\ t \in Seq(Nat) /\ g[i] \in Seq(Nat)
        BY <1>5, <1>6, <1>7, <3>1
      <3>4. Begins(g[i], a)
        BY <2>2, <3>1
      <3> HIDE DEF a, b, s, t
      <3>5. Len(a) <= Len(b) /\ \A k \in 1 .. Len(a) : b[k] = a[k]
        BY <3>2, <3>3
      <3>6. Len(g[i]) <= Len(a) /\ \A k \in 1 .. Len(g[i]) : a[k] = g[i][k]
        BY <3>4 DEF Begins
      <3>7. Len(g[i]) \in Nat /\ Len(a) \in Nat /\ Len(b) \in Nat
        BY <3>2, <3>3
      <3>8. Len(g[i]) <= Len(b) /\ \A k \in 1 .. Len(g[i]) : b[k] = g[i][k]
        BY <3>5, <3>6, <3>7
      <3> QED
        BY <3>8 DEF b, Begins
    <2>3. \A x \in Nat : x \in T => x + 1 \in T
      BY <2>2
    <2> HIDE DEF T
    <2>4. \A x \in Nat : x \in T
      BY <2>1, <2>3, SetInduction
    <2>5. j - i \in Nat /\ i + (j - i) = j
      BY <1>1, <1>8
    <2>6. j - i \in T
      BY <2>4, <2>5
    <2> QED
      BY <1>1, <2>5, <2>6 DEF T
  <1> QED
    BY <1>3, <1>4, <1>7, <1>8 DEF n


\* Where the separators are: at[k] is the place of the k-th, at[0] the one before
\* the payload, at[n] the one after it. The k-th argument lies between two of them.
LaidOut(args, payload, at) ==
    /\ at \in [0 .. Len(args) -> Nat]
    /\ at[0] = 0
    /\ args = <<>> => payload = <<>>
    /\ args # <<>> => at[Len(args)] = Len(payload) + 1
    /\ \A k \in 1 .. Len(args) :
          /\ at[k] = at[k - 1] + Len(args[k]) + 1
          /\ \A i \in 1 .. Len(args[k]) : payload[at[k - 1] + i] = args[k][i]
          /\ k < Len(args) => payload[at[k]] = NUL

LEMMA BodyIsLaidOut ==
    ASSUME NEW args \in Seq(Seq(Nat))
    PROVE  Body(args) \in Seq(Nat) /\ \E at : LaidOut(args, Body(args), at)
  <1> DEFINE n == Len(args)
  <1>1. PICK g : Joins(g, args, n) /\ Body(args) = g[n]
    BY BodyJoins
  <1>2. n \in Nat /\ \A k \in 1 .. n : args[k] \in Seq(Nat)
    OBVIOUS
  <1>3. /\ g[0] = <<>>
        /\ \A i \in 0 .. n : g[i] \in Seq(Nat)
        /\ \A i \in 1 .. n : g[i] = g[i - 1] \o Separator(i) \o args[i]
    BY <1>1, JoinsGrow
  <1>4. ASSUME NEW i \in 0 .. n
        PROVE  Len(g[i]) <= Len(g[n]) /\ \A k \in 1 .. Len(g[i]) : g[n][k] = g[i][k]
    <2>1. n \in 0 .. n /\ i <= n
      BY <1>2
    <2>2. \A x, y \in 0 .. n : x <= y => Begins(g[x], g[y])
      BY <1>1, JoinsGrow
    <2> HIDE DEF n
    <2> QED
      BY <2>1, <2>2 DEF Begins
  <1> DEFINE at == [k \in 0 .. n |-> IF k = 0 THEN 0 ELSE Len(g[k]) + 1]
  <1>5. args = <<>> <=> n = 0
    OBVIOUS
  <1> HIDE DEF n
  <1>6. at \in [0 .. n -> Nat] /\ at[0] = 0
    BY <1>2, <1>3
  <1>7. ASSUME NEW k \in 1 .. n
        PROVE  /\ at[k] = at[k - 1] + Len(args[k]) + 1
               /\ \A i \in 1 .. Len(args[k]) : g[n][at[k - 1] + i] = args[k][i]
               /\ k < n => g[n][at[k]] = NUL
    <2> DEFINE a == g[k - 1]  s == Separator(k)  t == args[k]  b == g[k]
    <2>1. k \in 0 .. n /\ k - 1 \in 0 .. n
      BY <1>2
    <2>2. b = a \o s \o t /\ a \in Seq(Nat) /\ t \in Seq(Nat) /\ b \in Seq(Nat)
      BY <1>2, <1>3, <2>1
    <2>3. s = IF k = 1 THEN <<>> ELSE <<NUL>>
      BY DEF Separator
    <2>4. k = 1 => a = <<>>
      BY <1>3
    <2>5. /\ at[k] = Len(b) + 1
          /\ at[k - 1] = IF k = 1 THEN 0 ELSE Len(a) + 1
      BY <2>1
    <2> HIDE DEF a, s, t, b, at
    <2>6. /\ Len(b) = at[k - 1] + Len(t)
          /\ \A i \in 1 .. Len(t) : b[at[k - 1] + i] = t[i]
      <3>1. CASE k = 1
        <4>1. b = t
          BY <2>2, <2>3, <2>4, <3>1
        <4> QED
          BY <2>2, <2>5, <3>1, <4>1
      <3>2. CASE k # 1
        <4>1. b = a \o <<NUL>> \o t
          BY <2>2, <2>3, <3>2
        <4> QED
          BY <2>2, <2>5, <3>2, <4>1 DEF NUL
      <3> QED
        BY <3>1, <3>2
    <2>7. at[k] = at[k - 1] + Len(t) + 1
      BY <2>5, <2>6
    <2>8. ASSUME NEW i \in 1 .. Len(t) PROVE g[n][at[k - 1] + i] = t[i]
      <3>1. at[k - 1] + i \in 1 .. Len(b)
        BY <2>2, <2>5, <2>6
      <3>2. g[n][at[k - 1] + i] = b[at[k - 1] + i]
        BY <1>4, <2>1, <3>1 DEF b
      <3> QED
        BY <2>6, <3>2
    <2>9. ASSUME k < n PROVE g[n][at[k]] = NUL
      <3>1. k + 1 \in 1 .. n /\ k + 1 # 1 /\ (k + 1) - 1 = k /\ k + 1 \in 0 .. n
        BY <1>2, <2>9
      <3>2. g[k + 1] = b \o <<NUL>> \o args[k + 1]
        BY <1>3, <3>1 DEF Separator, b
      <3>3. args[k + 1] \in Seq(Nat) /\ g[k + 1] \in Seq(Nat)
        BY <1>2, <1>3, <3>1
      <3> DEFINE c == g[k + 1]  u == args[k + 1]
      <3>4. at[k] \in 1 .. Len(c) /\ c[at[k]] = NUL
        <4>1. c = b \o <<NUL>> \o u /\ b \in Seq(Nat) /\ u \in Seq(Nat) /\ at[k] = Len(b) + 1
          BY <2>2, <2>5, <3>2, <3>3
        <4> HIDE DEF c, u
        <4> QED
          BY <4>1 DEF NUL
      <3>5. g[n][at[k]] = g[k + 1][at[k]]
        BY <1>4, <3>1, <3>4
      <3> QED
        BY <3>4, <3>5
    <2> QED
      BY <2>7, <2>8, <2>9 DEF t
  <1>8. n = 0 => g[n] = <<>>
    BY <1>3
  <1>9. n # 0 => at[n] = Len(g[n]) + 1
    BY <1>2
  <1>10. LaidOut(args, g[n], at)
    <2> HIDE DEF at
    <2> QED
      BY <1>5, <1>6, <1>7, <1>8, <1>9 DEF LaidOut, n
  <1>11. g[n] \in Seq(Nat)
    BY <1>2, <1>3
  <1> QED
    BY <1>1, <1>10, <1>11 DEF n

-----------------------------------------------------------------------------
(* The decoder: the separators are found again.                            *)

Nuls(payload, i) == {j \in 1 .. i : payload[j] = NUL}

LEMMA NulsGrow ==
    ASSUME NEW payload, NEW i \in Nat, NEW j \in Nat, i <= j
    PROVE  /\ IsFiniteSet(Nuls(payload, i))
           /\ Cardinality(Nuls(payload, i)) \in Nat
           /\ Cardinality(Nuls(payload, i)) <= Cardinality(Nuls(payload, j))
           /\ i < j /\ payload[j] = NUL
                 => Cardinality(Nuls(payload, i)) < Cardinality(Nuls(payload, j))
  <1>1. \A k \in Nat : IsFiniteSet(Nuls(payload, k)) /\ Cardinality(Nuls(payload, k)) \in Nat
    <2> SUFFICES ASSUME NEW k \in Nat
                 PROVE  IsFiniteSet(Nuls(payload, k)) /\ Cardinality(Nuls(payload, k)) \in Nat
      OBVIOUS
    <2>1. IsFiniteSet(1 .. k)
      BY FS_Interval
    <2>2. Nuls(payload, k) \subseteq 1 .. k
      BY DEF Nuls
    <2> QED
      BY <2>1, <2>2, FS_Subset, FS_CardinalityType
  <1>2. Nuls(payload, i) \subseteq Nuls(payload, j)
    BY DEF Nuls
  <1>3. Cardinality(Nuls(payload, i)) <= Cardinality(Nuls(payload, j))
    BY <1>1, <1>2, FS_Subset
  <1>4. ASSUME i < j, payload[j] = NUL
        PROVE  Cardinality(Nuls(payload, i)) # Cardinality(Nuls(payload, j))
    <2>1. j \in Nuls(payload, j) /\ j \notin Nuls(payload, i)
      BY <1>4 DEF Nuls
    <2> QED
      BY <1>1, <1>2, <2>1, FS_Subset
  <1> QED
    BY <1>1, <1>3, <1>4

NulsInLastOnly(args) == \A i \in 1 .. Len(args) - 1 : \A k \in DOMAIN args[i] : args[i][k] # NUL

\* at[k] is the place of the k-th NUL.
Counted(args, payload, at) ==
    /\ \A k \in 1 .. Len(args) : at[k - 1] < at[k] /\ at[k] <= Len(payload) + 1
    /\ \A k \in 1 .. Len(args) - 1 : /\ at[k] \in 1 .. Len(payload)
                                     /\ Cardinality(Nuls(payload, at[k])) = k

\* The k-th separator is the k-th NUL, if no argument but the last holds one.
LEMMA NulsAreSeparators ==
    ASSUME NEW args \in Seq(Seq(Nat)), NEW payload \in Seq(Nat), NEW at, LaidOut(args, payload, at),
           NulsInLastOnly(args)
    PROVE  Counted(args, payload, at)
  <1> DEFINE n == Len(args)
  <1>1. n \in Nat /\ (args = <<>> <=> n = 0)
    OBVIOUS
  <1>2. \A k \in 1 .. n : args[k] \in Seq(Nat)
    OBVIOUS
  <1>3. Len(payload) \in Nat /\ DOMAIN payload = 1 .. Len(payload)
    OBVIOUS
  <1>4. /\ at \in [0 .. n -> Nat] /\ at[0] = 0
        /\ n # 0 => at[n] = Len(payload) + 1
        /\ \A k \in 1 .. n : /\ at[k] = at[k - 1] + Len(args[k]) + 1
                             /\ \A i \in 1 .. Len(args[k]) : payload[at[k - 1] + i] = args[k][i]
                             /\ k < n => payload[at[k]] = NUL
    BY <1>1 DEF LaidOut
  <1>5. \A i \in 1 .. n - 1 : \A k \in 1 .. Len(args[i]) : args[i][k] # NUL
    <2> SUFFICES ASSUME NEW i \in 1 .. n - 1 PROVE \A k \in 1 .. Len(args[i]) : args[i][k] # NUL
      OBVIOUS
    <2>1. DOMAIN args[i] = 1 .. Len(args[i])
      BY <1>1, <1>2
    <2> QED
      BY <2>1 DEF NulsInLastOnly
  <1> HIDE DEF n
  <1>6. \A k \in 1 .. n : k - 1 \in 0 .. n /\ Len(args[k]) \in Nat /\ at[k - 1] \in Nat /\ at[k] \in Nat
    BY <1>1, <1>2, <1>4
  <1>7. ASSUME NEW k \in 1 .. n PROVE at[k - 1] < at[k]
    <2>1. at[k] = at[k - 1] + Len(args[k]) + 1
      BY <1>4
    <2> QED
      BY <1>6, <2>1
  <1>8. \A k \in 1 .. n : at[k] <= Len(payload) + 1
    <2> DEFINE T == {x \in Nat : x < n => at[n - x] <= Len(payload) + 1}
    <2>1. 0 \in T
      BY <1>1, <1>3, <1>4
    <2>2. ASSUME NEW x \in Nat, x \in T, x + 1 < n PROVE at[n - (x + 1)] <= Len(payload) + 1
      <3>1. n - x \in 1 .. n /\ (n - x) - 1 = n - (x + 1) /\ x < n
        BY <1>1, <2>2
      <3>3. at[n - x] <= Len(payload) + 1
        BY <2>2, <3>1
      <3>2. at[n - (x + 1)] < at[n - x] /\ at[n - (x + 1)] \in Nat /\ at[n - x] \in Nat
        BY <1>6, <1>7, <3>1
      <3> HIDE DEF T
      <3> QED
        BY <1>3, <3>2, <3>3
    <2>3. \A x \in Nat : x \in T => x + 1 \in T
      BY <2>2
    <2> HIDE DEF T
    <2>4. \A x \in Nat : x \in T
      BY <2>1, <2>3, SetInduction
    <2> TAKE k \in 1 .. n
    <2>5. n - k \in Nat /\ n - k < n /\ n - (n - k) = k
      BY <1>1
    <2>6. n - k \in T
      BY <2>4, <2>5
    <2> QED
      BY <2>5, <2>6 DEF T
  <1>9. \A k \in 1 .. n - 1 : at[k] \in 1 .. Len(payload)
    <2> TAKE k \in 1 .. n - 1
    <2>1. k \in 1 .. n /\ k + 1 \in 1 .. n /\ (k + 1) - 1 = k
      BY <1>1
    <2>2. at[k] < at[k + 1] /\ at[k + 1] <= Len(payload) + 1 /\ at[k - 1] < at[k]
      BY <1>7, <1>8, <2>1
    <2> QED
      BY <1>3, <1>6, <2>1, <2>2
  <1>10. \A k \in 1 .. n - 1 : Cardinality(Nuls(payload, at[k])) = k
    <2> DEFINE T == {x \in Nat : x < n => Cardinality(Nuls(payload, at[x])) = x}
    <2>1. 0 \in T
      <3>1. Nuls(payload, 0) = {}
        BY DEF Nuls
      <3> QED
        BY <1>4, <3>1, FS_EmptySet
    <2>2. ASSUME NEW x \in Nat, x \in T, x + 1 < n
          PROVE  Cardinality(Nuls(payload, at[x + 1])) = x + 1
      <3> DEFINE a == at[x]  b == at[x + 1]
      <3>1. x + 1 \in 1 .. n /\ x + 1 \in 1 .. n - 1 /\ (x + 1) - 1 = x
        BY <1>1, <2>2
      <3>2. a \in Nat /\ b \in Nat /\ b = a + Len(args[x + 1]) + 1 /\ payload[b] = NUL
        BY <1>4, <1>6, <2>2, <3>1
      <3>3. ASSUME NEW i \in 1 .. Len(args[x + 1]) PROVE payload[a + i] # NUL
        <4>1. payload[at[(x + 1) - 1] + i] = args[x + 1][i]
          BY <1>4, <3>1
        <4>2. args[x + 1][i] # NUL
          BY <1>5, <3>1
        <4> QED
          BY <3>1, <4>1, <4>2
      <3>4. Len(args[x + 1]) \in Nat
        BY <1>6, <3>1
      <3> HIDE DEF a, b
      <3>5. Nuls(payload, b) = Nuls(payload, a) \cup {b}
        <4>1. ASSUME NEW j \in 1 .. b, payload[j] = NUL PROVE j \in 1 .. a \/ j = b
          <5>1. CASE j > a /\ j < b
            <6>1. j - a \in 1 .. Len(args[x + 1]) /\ a + (j - a) = j
              BY <3>2, <3>4, <5>1
            <6> QED
              BY <3>3, <4>1, <6>1
          <5> QED
            BY <3>2, <5>1
        <4> QED
          BY SMTT(30), <3>2, <3>4, <4>1 DEF Nuls
      <3>6. b \notin Nuls(payload, a)
        BY <3>2, <3>4 DEF Nuls
      <3>7. IsFiniteSet(Nuls(payload, a)) /\ Cardinality(Nuls(payload, a)) = x
        BY <1>1, <2>2, <3>2, NulsGrow DEF a
      <3>8. Cardinality(Nuls(payload, b)) = x + 1
        BY <3>5, <3>6, <3>7, FS_AddElement
      <3> QED
        BY <3>8 DEF b
    <2>3. \A x \in Nat : x \in T => x + 1 \in T
      BY <2>2
    <2> HIDE DEF T
    <2>4. \A x \in Nat : x \in T
      BY <2>1, <2>3, SetInduction
    <2> QED
      BY <1>1, <2>4 DEF T
  <1> QED
    BY <1>7, <1>8, <1>9, <1>10 DEF n, Counted

\* What encode makes of the arguments of a packet, split_args splits into them again.
LEMMA SplitsBody ==
    ASSUME NEW args \in Seq(Seq(Nat)), NEW ptype \in Types, Len(args) = ArgCount[ptype],
           NulsInLastOnly(args)
    PROVE  /\ Body(args) \in Seq(Nat)
           /\ ~Malformed(ptype, Body(args))
           /\ SplitArgs(ptype, Body(args)) = args
  <1> DEFINE payload == Body(args)  n == Len(args)
             Nth(k, i) == payload[i] = NUL /\ Cardinality(Nuls(payload, i)) = k
  <1>1. payload \in Seq(Nat) /\ \E at : LaidOut(args, payload, at)
    BY BodyIsLaidOut
  <1> HIDE DEF payload
  <1>2. PICK at : LaidOut(args, payload, at)
    BY <1>1
  <1>3. n \in Nat /\ (args = <<>> <=> n = 0) /\ Len(payload) \in Nat /\ DOMAIN payload = 1 .. Len(payload)
    BY <1>1
  <1>4. /\ at \in [0 .. n -> Nat] /\ at[0] = 0
        /\ n = 0 => payload = <<>>
        /\ n # 0 => at[n] = Len(payload) + 1
        /\ \A k \in 1 .. n : /\ at[k] = at[k - 1] + Len(args[k]) + 1
                             /\ \A i \in 1 .. Len(args[k]) : payload[at[k - 1] + i] = args[k][i]
                             /\ k < n => payload[at[k]] = NUL
    BY <1>2, <1>3 DEF LaidOut
  <1>5. /\ \A k \in 1 .. n : at[k - 1] < at[k] /\ at[k] <= Len(payload) + 1
        /\ \A k \in 1 .. n - 1 : /\ at[k] \in 1 .. Len(payload)
                                 /\ Cardinality(Nuls(payload, at[k])) = k
    <2>1. Counted(args, payload, at)
      BY <1>1, <1>2, NulsAreSeparators
    <2> QED
      BY <2>1 DEF Counted
  <1>6. \A k \in 1 .. n : args[k] \in Seq(Nat)
    OBVIOUS
  <1>7. ArgCount[ptype] = n
    OBVIOUS
  <1> HIDE DEF n
  <1>8. \A k \in 0 .. n - 1 : NulAt(payload, k) = at[k]
    <2> TAKE k \in 0 .. n - 1
    <2>1. CASE k = 0
      BY <1>4, <2>1 DEF NulAt
    <2>2. CASE k # 0
      <3>1. k \in 1 .. n - 1 /\ k \in 1 .. n /\ k < n
        BY <1>3, <2>2
      <3>2. at[k] \in 1 .. Len(payload) /\ Nth(k, at[k])
        BY <1>4, <1>5, <3>1
      <3>3. ASSUME NEW i \in 1 .. Len(payload), Nth(k, i) PROVE i = at[k]
        <4> DEFINE a == at[k]
        <4>1. a \in Nat /\ i \in Nat /\ Nth(k, a)
          BY <3>2
        <4> HIDE DEF a
        <4>2. ~(i < a) /\ ~(a < i)
          BY <3>3, <4>1, NulsGrow
        <4> QED
          BY <4>1, <4>2 DEF a
      <3>4. NulAt(payload, k) = CHOOSE i \in DOMAIN payload : Nth(k, i)
        BY <2>2 DEF NulAt, Nuls
      <3> HIDE DEF Nth
      <3> QED
        BY <1>3, <3>2, <3>3, <3>4
    <2> QED
      BY <2>1, <2>2
  <1>9. ASSUME NEW k \in 1 .. n
        PROVE  args[k] = SubSeq(payload, NulAt(payload, k - 1) + 1,
                                IF k < n THEN NulAt(payload, k) - 1 ELSE Len(payload))
    <2> DEFINE from == at[k - 1] + 1  to == at[k] - 1  s == SubSeq(payload, from, to)  t == args[k]
    <2>1. from = NulAt(payload, k - 1) + 1
      BY <1>3, <1>8
    <2>2. to = IF k < n THEN NulAt(payload, k) - 1 ELSE Len(payload)
      <3>1. CASE k < n
        <4>1. k \in 0 .. n - 1
          BY <1>3, <3>1
        <4> QED
          BY <1>8, <3>1, <4>1
      <3>2. CASE k = n
        BY <1>3, <1>4, <3>2
      <3> QED
        BY <1>3, <3>1, <3>2
    <2> DEFINE before == at[k - 1]
    <2>3. k - 1 \in 0 .. n /\ k \in 0 .. n
      BY <1>3
    <2>4. /\ before \in Nat /\ at[k] \in Nat /\ t \in Seq(Nat)
          /\ at[k] = before + Len(t) + 1
          /\ at[k] <= Len(payload) + 1
          /\ \A i \in 1 .. Len(t) : payload[before + i] = t[i]
      BY <1>4, <1>5, <1>6, <2>3
    <2>5. s = t
      <3>1. s = SubSeq(payload, before + 1, at[k] - 1)
        OBVIOUS
      <3> HIDE DEF s, t, before, from, to
      <3> DEFINE l == Len(t)
      <3>2. /\ l \in Nat /\ before \in Nat /\ at[k] \in Nat /\ Len(payload) \in Nat
            /\ at[k] = before + l + 1 /\ at[k] <= Len(payload) + 1
        BY <1>3, <2>4
      <3> HIDE DEF l
      <3>3. at[k] - 1 = before + l /\ before + l <= Len(payload)
        BY <3>2
      <3>4. LET part == SubSeq(payload, before + 1, before + l)
            IN  part \in Seq(Nat) /\ Len(part) = l /\ \A i \in 1 .. l : part[i] = payload[before + i]
        BY <1>1, <3>2, <3>3, PartOf
      <3>5. s \in Seq(Nat) /\ Len(s) = Len(t) /\ \A i \in 1 .. Len(t) : s[i] = payload[before + i]
        BY <3>1, <3>3, <3>4 DEF l
      <3>6. \A i \in 1 .. Len(t) : s[i] = t[i]
        BY <2>4, <3>5
      <3> QED
        BY <2>4, <3>5, <3>6, SeqEqual
    <2> QED
      BY <2>1, <2>2, <2>5
  <1>10. SplitArgs(ptype, payload) = args
    <2>1. args = [k \in 1 .. n |-> args[k]]
      BY <1>3 DEF n
    <2>2. SplitArgs(ptype, payload) = [k \in 1 .. n |-> args[k]]
      BY <1>7, <1>9 DEF SplitArgs
    <2> QED
      BY <2>1, <2>2
  <1>11. ~Malformed(ptype, payload)
    <2>1. CASE n = 0
      BY <1>4, <1>7, <2>1 DEF Malformed
    <2>2. CASE n # 0
      <3>1. {i \in DOMAIN payload : payload[i] = NUL} = Nuls(payload, Len(payload))
        BY <1>3 DEF Nuls
      <3>2. Cardinality(Nuls(payload, Len(payload))) \in Nat
        BY <1>3, NulsGrow
      <3>3. Cardinality(Nuls(payload, Len(payload))) >= n - 1
        <4>1. CASE n = 1
          BY <3>2, <4>1
        <4>2. CASE n # 1
          <5>1. n - 1 \in 1 .. n - 1
            BY <1>3, <2>2, <4>2
          <5>2. at[n - 1] \in 1 .. Len(payload) /\ Cardinality(Nuls(payload, at[n - 1])) = n - 1
            BY <1>5, <5>1
          <5> QED
            BY <1>3, <5>2, <3>2, NulsGrow
        <4> QED
          BY <4>1, <4>2
      <3> QED
        <4> DEFINE c == Cardinality(Nuls(payload, Len(payload)))
        <4>0. c \in Nat /\ c >= n - 1 => ~(c < n - 1)
          BY <1>3
        <4>1. ~(Cardinality({i \in DOMAIN payload : payload[i] = NUL}) < ArgCount[ptype] - 1)
          BY <1>7, <3>1, <3>2, <3>3, <4>0
        <4> QED
          BY <1>7, <2>2, <4>1 DEF Malformed
    <2> QED
      BY <2>1, <2>2
  <1> QED
    BY <1>1, <1>10, <1>11 DEF payload

-----------------------------------------------------------------------------
(* Frames.                                                                 *)

LEMMA PacketFields ==
    ASSUME NEW p \in Packets
    PROVE  /\ p = [magic |-> p.magic, ptype |-> p.ptype, args |-> p.args]
           /\ p.magic \in {Req, Res} /\ p.ptype \in Types /\ p.args \in Seq(Seq(Nat))
           /\ p.magic \in Nat /\ p.ptype \in Nat /\ ArgCount[p.ptype] \in Nat
           /\ NulsInLastOnly(p.args)
  <1>1. p \in [magic : {Req, Res}, ptype : Types, args : Seq(Seq(Nat))]
    BY CodecAssumption
  <1>2. NulsInLastOnly(p.args)
    BY CodecAssumption DEF NulsInLastOnly
  <1>3. p.ptype \in Types /\ p.magic \in {Req, Res}
    BY <1>1
  <1>4. p.ptype \in Nat /\ ArgCount[p.ptype] \in Nat /\ p.magic \in Nat
    <2>1. Types \subseteq Nat /\ \A t \in Types : ArgCount[t] \in Nat
      BY CodecAssumption
    <2>2. p.magic \in Nat
      BY <1>3 DEF Req, Res
    <2> QED
      BY <1>3, <2>1, <2>2
  <1>5. p = [magic |-> p.magic, ptype |-> p.ptype, args |-> p.args] /\ p.args \in Seq(Seq(Nat))
    BY <1>1
  <1> QED
    BY <1>2, <1>3, <1>4, <1>5

LEMMA FrameOf ==
    ASSUME NEW p \in Packets
    PROVE  /\ Body(p.args) \in Seq(Nat) /\ Encoded(p) \in Seq(Nat)
           /\ Len(Encoded(p)) = HeaderLen + Len(Body(p.args))
           /\ Encoded(p)[1] = p.magic /\ Encoded(p)[2] = p.ptype /\ Encoded(p)[3] = Len(Body(p.args))
           /\ \A i \in 1 .. Len(Body(p.args)) : Encoded(p)[HeaderLen + i] = Body(p.args)[i]
  <1> DEFINE b == Body(p.args)  m == p.magic  t == p.ptype  n == Len(b)
  <1>1. b \in Seq(Nat) /\ m \in Nat /\ t \in Nat
    BY PacketFields, BodyIsLaidOut
  <1>2. Encoded(p) = <<m, t, n>> \o b
    BY DEF Encoded
  <1> HIDE DEF b, m, t
  <1>3. n \in Nat
    BY <1>1
  <1> QED
    BY <1>1, <1>2, <1>3 DEF HeaderLen, b, m, t

\* A header of a known type within the cap passes.
LEMMA SoundHeader ==
    ASSUME NEW src, src[1] \in {Req, Res}, src[2] \in Types, src[3] \in Nat, src[3] <= MaxPayload
    PROVE  HeaderError(src) = "none"
  <1>1. ~(src[3] > MaxPayload)
    BY CodecAssumption
  <1> QED
    BY <1>1 DEF HeaderError

\* A part of a packet too short to be one is no error, and no packet.
LEMMA WaitsForTheRest ==
    ASSUME NEW p \in Packets, ~Refuses(p), NEW src \in Seq(Nat),
           Begins(src, Encoded(p)), Len(src) < Len(Encoded(p))
    PROVE  HeaderError(src) = "none" /\ ~Complete(src)
  <1> DEFINE e == Encoded(p)  n == Len(Body(p.args))
  <1>1. /\ e \in Seq(Nat) /\ Len(e) = 3 + n /\ n \in Nat
        /\ e[1] = p.magic /\ e[2] = p.ptype /\ e[3] = n
    BY FrameOf DEF HeaderLen
  <1>2. p.magic \in {Req, Res} /\ p.ptype \in Types
    BY PacketFields
  <1>3. n <= MaxPayload /\ MaxPayload \in Nat
    BY <1>1, CodecAssumption DEF Refuses
  <1> HIDE DEF e, n
  <1>4. Len(src) \in Nat /\ Len(src) < 3 + n /\ \A k \in 1 .. Len(src) : src[k] = e[k]
    BY <1>1 DEF Begins, e
  <1>5. CASE Len(src) < 3
    BY <1>4, <1>5 DEF HeaderError, Complete, HeaderLen
  <1>6. CASE Len(src) >= 3
    <2>1. 1 \in 1 .. Len(src) /\ 2 \in 1 .. Len(src) /\ 3 \in 1 .. Len(src)
      BY <1>4, <1>6
    <2>2. src[1] = p.magic /\ src[2] = p.ptype /\ src[3] = n
      BY <1>1, <1>4, <2>1
    <2>3. src[1] \in {Req, Res} /\ src[2] \in Types /\ src[3] \in Nat /\ src[3] <= MaxPayload
      BY <1>1, <1>2, <1>3, <2>2
    <2>4. HeaderError(src) = "none"
      BY <2>3, SoundHeader
    <2>5. ~(Len(src) >= 3 + n)
      BY <1>1, <1>4
    <2>6. ~Complete(src)
      BY <2>2, <2>5 DEF Complete, HeaderLen
    <2> QED
      BY <2>4, <2>6
  <1> QED
    BY <1>4, <1>5, <1>6

\* decode takes from a buffer that begins with an encoded packet that very packet,
\* argument by argument, and leaves what follows it (GearmanCodec, split_args).
THEOREM DecodesTheEncoded ==
    ASSUME NEW p \in Packets, ~Refuses(p), NEW src \in Seq(Nat), Begins(Encoded(p), src)
    PROVE  /\ HeaderError(src) = "none" /\ Complete(src)
           /\ ~Malformed(src[2], Payload(src))
           /\ [magic |-> src[1], ptype |-> src[2], args |-> SplitArgs(src[2], Payload(src))] = p
           /\ Rest(src) = SubSeq(src, Len(Encoded(p)) + 1, Len(src))
  <1> DEFINE e == Encoded(p)  b == Body(p.args)  n == Len(b)
  <1>1. /\ e \in Seq(Nat) /\ Len(e) = 3 + n /\ n \in Nat /\ b \in Seq(Nat)
        /\ e[1] = p.magic /\ e[2] = p.ptype /\ e[3] = n
        /\ \A i \in 1 .. n : e[3 + i] = b[i]
    BY SMTT(30), FrameOf DEF HeaderLen
  <1>2. p.magic \in {Req, Res} /\ p.ptype \in Types
    BY PacketFields
  <1>3. n <= MaxPayload /\ MaxPayload \in Nat /\ Len(p.args) = ArgCount[p.ptype]
    BY <1>1, CodecAssumption DEF Refuses
  <1>4. ~Malformed(p.ptype, b) /\ SplitArgs(p.ptype, b) = p.args
    BY <1>2, <1>3, PacketFields, SplitsBody
  <1> HIDE DEF e, b
  <1>5. Len(src) \in Nat /\ 3 + n <= Len(src) /\ \A k \in 1 .. 3 + n : src[k] = e[k]
    BY SMTT(30), <1>1 DEF Begins, e
  <1>6. src[1] = p.magic /\ src[2] = p.ptype /\ src[3] = n
    <2>1. 1 \in 1 .. 3 + n /\ 2 \in 1 .. 3 + n /\ 3 \in 1 .. 3 + n
      BY <1>1
    <2> QED
      BY <1>1, <1>5, <2>1
  <1>7. Payload(src) = b
    <2> DEFINE s == SubSeq(src, 3 + 1, 3 + n)
    <2>1. s \in Seq(Nat) /\ Len(s) = n /\ \A i \in 1 .. n : s[i] = src[3 + i]
      BY SMTT(30), <1>1, <1>5, PartOf
    <2>2. Payload(src) = s
      BY <1>6 DEF Payload, HeaderLen
    <2> HIDE DEF s
    <2>3. ASSUME NEW i \in 1 .. n PROVE s[i] = b[i]
      <3>1. 3 + i \in 1 .. 3 + n
        BY <1>1
      <3> QED
        BY <1>1, <1>5, <2>1, <3>1
    <2> QED
      BY <1>1, <2>1, <2>2, <2>3, SeqEqual
  <1>8. HeaderError(src) = "none" /\ Complete(src)
    <2>1. src[1] \in {Req, Res} /\ src[2] \in Types /\ src[3] \in Nat /\ src[3] <= MaxPayload
      BY <1>1, <1>2, <1>3, <1>6
    <2>2. HeaderError(src) = "none"
      BY <2>1, SoundHeader
    <2>3. Len(src) >= 3 /\ Len(src) >= 3 + n
      BY <1>1, <1>5
    <2>4. Complete(src)
      BY <1>6, <2>3 DEF Complete, HeaderLen
    <2> QED
      BY <2>2, <2>4
  <1>9. [magic |-> src[1], ptype |-> src[2], args |-> SplitArgs(src[2], Payload(src))] = p
    BY <1>4, <1>6, <1>7, PacketFields
  <1>10. Rest(src) = SubSeq(src, Len(Encoded(p)) + 1, Len(src))
    BY <1>1, <1>6 DEF Rest, HeaderLen, e
  <1> QED
    BY <1>4, <1>6, <1>7, <1>8, <1>9, <1>10

\* A part of what an alien peer sends yields no packet: an error at the latest when
\* all of it is there.
LEMMA AlienYieldsNone ==
    ASSUME NEW bytes \in Alien, NEW src \in Seq(Nat), Begins(src, bytes),
           HeaderError(src) = "none", Complete(src)
    PROVE  Malformed(src[2], Payload(src))
  <1>1. bytes \in Seq(Nat)
    BY CodecAssumption
  <1>2. Len(src) >= 3 /\ Len(src) >= 3 + src[3] /\ src[3] \in Nat
    BY DEF Complete, HeaderLen
  <1>3. Len(src) \in Nat /\ Len(bytes) \in Nat /\ Len(src) <= Len(bytes)
    BY <1>1 DEF Begins
  <1>4. \A k \in 1 .. Len(src) : bytes[k] = src[k]
    BY DEF Begins
  <1>5. bytes[1] = src[1] /\ bytes[2] = src[2] /\ bytes[3] = src[3]
    BY <1>2, <1>3, <1>4
  <1>6. HeaderError(bytes) = "none"
    BY <1>2, <1>3, <1>5 DEF HeaderError, HeaderLen
  <1>7. Malformed(bytes[2], Payload(bytes))
    BY <1>6, AlienAssumption
  <1>8. Payload(bytes) = Payload(src)
    <2> DEFINE n == src[3]  s == SubSeq(src, 3 + 1, 3 + n)  t == SubSeq(bytes, 3 + 1, 3 + n)
    <2>1. n \in Nat
      BY <1>2
    <2>2. Payload(src) = s /\ Payload(bytes) = t
      BY <1>5 DEF Payload, HeaderLen
    <2>3. 3 + n <= Len(src) /\ 3 + n <= Len(bytes)
      BY <1>2, <1>3
    <2> HIDE DEF n
    <2>4. s \in Seq(Nat) /\ Len(s) = n /\ \A i \in 1 .. n : s[i] = src[3 + i]
      BY <2>1, <2>3, PartOf
    <2>5. t \in Seq(Nat) /\ Len(t) = n /\ \A i \in 1 .. n : t[i] = bytes[3 + i]
      BY ZenonT(30), <1>1, <2>1, <2>3, PartOf
    <2> HIDE DEF s, t
    <2>6. \A i \in 1 .. n : 3 + i \in 1 .. Len(src)
      BY <1>3, <2>1, <2>3
    <2>7. \A i \in 1 .. Len(s) : s[i] = t[i]
      BY <1>4, <2>4, <2>5, <2>6
    <2> QED
      BY <2>2, <2>4, <2>5, <2>7, SeqEqual
  <1> QED
    BY <1>5, <1>7, <1>8

-----------------------------------------------------------------------------
(* The stream.                                                             *)

\* The part stands in s, after its first `before` numbers.
StandsAt(part, s, before) ==
    /\ before + Len(part) <= Len(s)
    /\ \A i \in 1 .. Len(part) : s[before + i] = part[i]

\* All that was ever written: the packets accepted, the k-th up to end[k], and what
\* an alien peer sent. The receiver has taken the packets it got; what it has read
\* since and what is still under way stand there one after the other.
Streams(written, end) ==
    /\ written \in Seq(Nat) /\ end \in [0 .. Len(accepted) -> Nat]
    /\ end[0] = 0
    /\ \A k \in 1 .. Len(accepted) :
          /\ end[k] = end[k - 1] + Len(Encoded(accepted[k]))
          /\ StandsAt(Encoded(accepted[k]), written, end[k - 1])
    /\ IF spoilt
       THEN \E bytes \in Alien : /\ StandsAt(bytes, written, end[Len(accepted)])
                                 /\ Len(written) = end[Len(accepted)] + Len(bytes)
       ELSE Len(written) = end[Len(accepted)]
    /\ status = "open" =>
          /\ StandsAt(buffer, written, end[Len(got)])
          /\ StandsAt(wire, written, end[Len(got)] + Len(buffer))
          /\ ~closed => end[Len(got)] + Len(buffer) + Len(wire) = Len(written)

StreamTypes ==
    /\ wire \in Seq(Nat) /\ buffer \in Seq(Nat)
    /\ closed \in BOOLEAN /\ spoilt \in BOOLEAN
    /\ status \in {"open", "ended", "io_error", "bad_magic", "unknown_packet_type",
                   "payload_too_large", "malformed_body"}
    /\ accepted \in Seq(Packets) /\ got \in Seq(Packets)
    /\ \A k \in 1 .. Len(accepted) : ~Refuses(accepted[k])

StreamInv ==
    /\ StreamTypes
    /\ ReceivedAsSent
    /\ ErrorsAreForeign
    /\ \E written, end : Streams(written, end)

\* What the receiver finds at the front of the buffer.
LEMMA NextFrame ==
    ASSUME StreamTypes, ReceivedAsSent, status = "open", NEW written, NEW end, Streams(written, end)
    PROVE  /\ Len(got) < Len(accepted) =>
                 LET frame == Encoded(accepted[Len(got) + 1])
                 IN  \/ Begins(frame, buffer)
                     \/ Begins(buffer, frame) /\ Len(buffer) < Len(frame)
           /\ Len(got) = Len(accepted) =>
                 IF spoilt THEN \E bytes \in Alien : Begins(buffer, bytes) ELSE buffer = <<>>
  <1> DEFINE g == Len(got)  m == Len(accepted)
  <1>1. g \in Nat /\ m \in Nat /\ g <= m /\ buffer \in Seq(Nat) /\ Len(buffer) \in Nat
    BY DEF StreamTypes, ReceivedAsSent
  <1>2. /\ written \in Seq(Nat) /\ Len(written) \in Nat /\ end \in [0 .. m -> Nat]
        /\ end[g] \in Nat
        /\ end[g] + Len(buffer) <= Len(written)
        /\ \A i \in 1 .. Len(buffer) : written[end[g] + i] = buffer[i]
    BY <1>1 DEF Streams, StandsAt
  <1>3. ASSUME g < m
        PROVE  LET frame == Encoded(accepted[g + 1])
               IN  \/ Begins(frame, buffer)
                   \/ Begins(buffer, frame) /\ Len(buffer) < Len(frame)
    <2> DEFINE frame == Encoded(accepted[g + 1])
    <2>1. g + 1 \in 1 .. m /\ (g + 1) - 1 = g
      BY <1>1, <1>3
    <2>2. accepted[g + 1] \in Packets
      BY <2>1 DEF StreamTypes
    <2>3. frame \in Seq(Nat) /\ Len(frame) \in Nat
      BY <2>2, FrameOf
    <2>4. StandsAt(frame, written, end[g])
      BY <2>1 DEF Streams
    <2> HIDE DEF frame, g, m
    <2>5. \A i \in 1 .. Len(frame) : written[end[g] + i] = frame[i]
      BY <2>4 DEF StandsAt
    <2>6. CASE Len(frame) <= Len(buffer)
      <3>1. \A i \in 1 .. Len(frame) : i \in 1 .. Len(buffer)
        BY <1>1, <2>3, <2>6
      <3> QED
        BY <1>2, <2>5, <2>6, <3>1 DEF Begins, frame
    <2>7. CASE Len(buffer) < Len(frame)
      <3>1. \A i \in 1 .. Len(buffer) : i \in 1 .. Len(frame)
        BY <1>1, <2>3, <2>7
      <3>2. Len(buffer) <= Len(frame)
        BY <1>1, <2>3, <2>7
      <3> QED
        BY <1>2, <2>5, <2>7, <3>1, <3>2 DEF Begins, frame
    <2> QED
      BY <1>1, <2>3, <2>6, <2>7
  <1>4. ASSUME g = m, spoilt PROVE \E bytes \in Alien : Begins(buffer, bytes)
    <2>1. PICK bytes \in Alien : /\ StandsAt(bytes, written, end[m])
                                 /\ Len(written) = end[m] + Len(bytes)
      BY <1>4 DEF Streams
    <2>2. bytes \in Seq(Nat) /\ Len(bytes) \in Nat
      BY CodecAssumption
    <2>3. \A i \in 1 .. Len(bytes) : written[end[g] + i] = bytes[i]
      BY <1>4, <2>1 DEF StandsAt
    <2> HIDE DEF g, m
    <2>4. Len(buffer) <= Len(bytes)
      BY <1>1, <1>2, <1>4, <2>1, <2>2
    <2>5. \A i \in 1 .. Len(buffer) : i \in 1 .. Len(bytes)
      BY <1>1, <2>2, <2>4
    <2> QED
      BY <1>2, <2>3, <2>4, <2>5 DEF Begins
  <1>5. ASSUME g = m, ~spoilt PROVE buffer = <<>>
    <2>1. Len(written) = end[m]
      BY <1>5 DEF Streams
    <2>2. Len(buffer) = 0
      <3> HIDE DEF g, m
      <3> QED
        BY <1>1, <1>2, <1>5, <2>1
    <2> QED
      BY <1>1, <2>2
  <1> QED
    BY <1>3, <1>4, <1>5

\* A packet decoded is the next of those accepted.
LEMMA DecodesTheNext ==
    ASSUME StreamTypes, ReceivedAsSent, NEW written, NEW end, Streams(written, end), Decode
    PROVE  /\ Len(got) < Len(accepted)
           /\ Begins(Encoded(accepted[Len(got) + 1]), buffer)
           /\ got' = Append(got, accepted[Len(got) + 1])
           /\ buffer' = SubSeq(buffer, Len(Encoded(accepted[Len(got) + 1])) + 1, Len(buffer))
  <1> DEFINE g == Len(got)  m == Len(accepted)  p == accepted[g + 1]
  <1>1. g \in Nat /\ m \in Nat /\ g <= m /\ buffer \in Seq(Nat)
    BY DEF StreamTypes, ReceivedAsSent
  <1>2. /\ status = "open" /\ HeaderError(buffer) = "none" /\ Complete(buffer)
        /\ ~Malformed(buffer[2], Payload(buffer))
    BY DEF Decode
  <1>3. g # m
    <2> SUFFICES ASSUME g = m PROVE FALSE
      OBVIOUS
    <2>1. CASE spoilt
      <3>1. PICK bytes \in Alien : Begins(buffer, bytes)
        BY <1>2, <2>1, NextFrame
      <3> QED
        BY <1>1, <1>2, <3>1, AlienYieldsNone
    <2>2. CASE ~spoilt
      <3>1. buffer = <<>>
        BY <1>2, <2>2, NextFrame
      <3> QED
        BY <1>2, <3>1 DEF Complete, HeaderLen
    <2> QED
      BY <2>1, <2>2
  <1>4. g < m /\ g + 1 \in 1 .. m
    BY <1>1, <1>3
  <1>5. p \in Packets /\ ~Refuses(p)
    BY <1>4 DEF StreamTypes
  <1>6. Begins(Encoded(p), buffer) \/ (Begins(buffer, Encoded(p)) /\ Len(buffer) < Len(Encoded(p)))
    BY <1>2, <1>4, NextFrame
  <1> HIDE DEF g, m, p
  <1>7. Begins(Encoded(p), buffer)
    BY <1>1, <1>2, <1>5, <1>6, WaitsForTheRest
  <1>8. /\ [magic |-> buffer[1], ptype |-> buffer[2],
            args |-> SplitArgs(buffer[2], Payload(buffer))] = p
        /\ Rest(buffer) = SubSeq(buffer, Len(Encoded(p)) + 1, Len(buffer))
    BY <1>1, <1>5, <1>7, DecodesTheEncoded
  <1> QED
    BY <1>4, <1>7, <1>8 DEF Decode, g, m, p

\* An error is about what an alien peer sent.
LEMMA FailsOnAlien ==
    ASSUME StreamTypes, ReceivedAsSent, NEW written, NEW end, Streams(written, end), DecodeFails
    PROVE  spoilt
  <1> DEFINE g == Len(got)  m == Len(accepted)  p == accepted[g + 1]
  <1>1. g \in Nat /\ m \in Nat /\ g <= m /\ buffer \in Seq(Nat)
    BY DEF StreamTypes, ReceivedAsSent
  <1>2. /\ status = "open"
        /\ \/ HeaderError(buffer) # "none"
           \/ Complete(buffer) /\ Malformed(buffer[2], Payload(buffer))
    BY DEF DecodeFails
  <1>3. CASE g < m
    <2>1. g + 1 \in 1 .. m
      BY <1>1, <1>3
    <2>2. p \in Packets /\ ~Refuses(p)
      BY <2>1 DEF StreamTypes
    <2>3. Begins(Encoded(p), buffer) \/ (Begins(buffer, Encoded(p)) /\ Len(buffer) < Len(Encoded(p)))
      BY <1>2, <1>3, NextFrame
    <2> HIDE DEF p
    <2> QED
      BY <1>1, <1>2, <2>2, <2>3, DecodesTheEncoded, WaitsForTheRest
  <1>4. CASE g = m /\ ~spoilt
    <2>1. buffer = <<>>
      BY <1>2, <1>4, NextFrame
    <2> QED
      BY <1>2, <2>1 DEF HeaderError, Complete, HeaderLen
  <1> QED
    BY <1>1, <1>3, <1>4

\* Parts of what was written, put together or cut.
LEMMA StandingWritten ==
    ASSUME NEW s \in Seq(Nat), NEW t \in Seq(Nat), NEW w \in Seq(Nat), NEW n \in Nat
    PROVE  /\ StandsAt(t, w, n) => StandsAt(t, w \o s, n)
           /\ StandsAt(t, w \o t, Len(w))
           /\ StandsAt(t, w, n) /\ n + Len(t) = Len(w) => StandsAt(t \o s, w \o s, n)
  <1> DEFINE ts == t \o s  ws == w \o s  wt == w \o t
             a == Len(s)  b == Len(t)  m == Len(w)
  <1>1. a \in Nat /\ b \in Nat /\ m \in Nat
    OBVIOUS
  <1>2. /\ Len(ws) = m + a /\ Len(wt) = m + b /\ Len(ts) = b + a
        /\ \A i \in 1 .. m : ws[i] = w[i]
        /\ \A i \in 1 .. a : ws[m + i] = s[i]
    BY Concatenation
  <1>3. /\ \A i \in 1 .. b : ts[i] = t[i] /\ wt[m + i] = t[i]
        /\ \A i \in 1 .. a : ts[b + i] = s[i]
    BY Concatenation
  <1> HIDE DEF ts, ws, wt, a, b, m
  <1>4. ASSUME StandsAt(t, w, n) PROVE StandsAt(t, ws, n)
    <2>1. n + b <= m /\ \A i \in 1 .. b : w[n + i] = t[i]
      BY <1>4 DEF StandsAt, b, m
    <2>2. n + b <= Len(ws) /\ \A i \in 1 .. b : n + i \in 1 .. m
      BY <1>1, <1>2, <2>1
    <2> QED
      BY <1>2, <2>1, <2>2 DEF StandsAt, b
  <1>5. StandsAt(t, wt, m)
    <2>1. m + b <= Len(wt) /\ \A i \in 1 .. b : wt[m + i] = t[i]
      BY <1>1, <1>2, <1>3
    <2> QED
      BY <2>1 DEF StandsAt, b
  <1>6. ASSUME StandsAt(t, w, n), n + b = m PROVE StandsAt(ts, ws, n)
    <2>1. n + Len(ts) <= Len(ws)
      BY <1>1, <1>2, <1>6
    <2>2. ASSUME NEW k \in 1 .. Len(ts), k <= b PROVE ws[n + k] = ts[k]
      <3>1. k \in 1 .. b /\ n + k \in 1 .. m
        BY <1>1, <1>6, <2>2
      <3>2. w[n + k] = t[k]
        BY <1>6, <3>1 DEF StandsAt, b
      <3> QED
        BY <1>2, <1>3, <3>1, <3>2
    <2>3. ASSUME NEW k \in 1 .. Len(ts), k > b PROVE ws[n + k] = ts[k]
      <3> DEFINE i == k - b
      <3>1. i \in 1 .. a /\ k = b + i /\ n + k = m + i
        BY <1>1, <1>2, <1>6, <2>3
      <3> HIDE DEF i
      <3> QED
        BY <1>2, <1>3, <3>1
    <2>4. \A k \in 1 .. Len(ts) : k <= b \/ k > b
      BY <1>1
    <2> QED
      BY <2>1, <2>2, <2>3, <2>4 DEF StandsAt
  <1> QED
    BY <1>4, <1>5, <1>6 DEF ts, ws, wt, b, m

LEMMA StandingPart ==
    ASSUME NEW t \in Seq(Nat), NEW w \in Seq(Nat), NEW n \in Nat, NEW k \in 0 .. Len(t),
           StandsAt(t, w, n)
    PROVE  LET a == SubSeq(t, 1, k)
               b == SubSeq(t, k + 1, Len(t))
           IN  /\ a \in Seq(Nat) /\ Len(a) = k /\ StandsAt(a, w, n)
               /\ b \in Seq(Nat) /\ Len(b) = Len(t) - k /\ StandsAt(b, w, n + k)
  <1> DEFINE a == SubSeq(t, 1, k)  b == SubSeq(t, k + 1, Len(t))  m == Len(t) - k
  <1>1. Len(t) \in Nat /\ Len(w) \in Nat /\ k \in Nat /\ k <= Len(t) /\ m \in Nat /\ k + m = Len(t)
    OBVIOUS
  <1>2. n + Len(t) <= Len(w) /\ \A i \in 1 .. Len(t) : w[n + i] = t[i]
    BY DEF StandsAt
  <1>3. a \in Seq(Nat) /\ Len(a) = k /\ \A i \in 1 .. k : a[i] = t[i]
    BY <1>1
  <1>4. b \in Seq(Nat) /\ Len(b) = m /\ \A i \in 1 .. m : b[i] = t[k + i]
    <2> HIDE DEF m
    <2>1. b = SubSeq(t, k + 1, k + m)
      BY <1>1
    <2> QED
      BY <1>1, <2>1, PartOf
  <1> HIDE DEF a, b, m
  <1>5. StandsAt(a, w, n)
    <2>1. \A i \in 1 .. k : i \in 1 .. Len(t)
      BY <1>1
    <2>2. \A i \in 1 .. k : w[n + i] = a[i]
      BY <1>2, <1>3, <2>1
    <2>3. n + k <= Len(w)
      BY <1>1, <1>2
    <2> QED
      BY <1>3, <2>2, <2>3 DEF StandsAt
  <1>6. ASSUME NEW i \in 1 .. m PROVE w[(n + k) + i] = b[i]
    <2>1. k + i \in 1 .. Len(t) /\ (n + k) + i = n + (k + i)
      BY <1>1
    <2>2. w[n + (k + i)] = t[k + i]
      BY <1>2, <2>1
    <2> QED
      BY <1>4, <2>1, <2>2
  <1>7. StandsAt(b, w, n + k)
    BY <1>1, <1>2, <1>4, <1>6 DEF StandsAt
  <1> QED
    BY <1>3, <1>4, <1>5, <1>7 DEF a, b, m

LEMMA StandingTogether ==
    ASSUME NEW s \in Seq(Nat), NEW t \in Seq(Nat), NEW w \in Seq(Nat), NEW n \in Nat,
           StandsAt(s, w, n), StandsAt(t, w, n + Len(s))
    PROVE  StandsAt(s \o t, w, n)
  <1> DEFINE c == s \o t
  <1>1. /\ Len(s) \in Nat /\ Len(t) \in Nat /\ Len(w) \in Nat
        /\ c \in Seq(Nat) /\ Len(c) = Len(s) + Len(t)
        /\ \A i \in 1 .. Len(c) : c[i] = IF i <= Len(s) THEN s[i] ELSE t[i - Len(s)]
    OBVIOUS
  <1> HIDE DEF c
  <1>2. /\ (n + Len(s)) + Len(t) <= Len(w)
        /\ \A i \in 1 .. Len(s) : w[n + i] = s[i]
        /\ \A i \in 1 .. Len(t) : w[(n + Len(s)) + i] = t[i]
    BY DEF StandsAt
  <1>3. ASSUME NEW i \in 1 .. Len(c) PROVE w[n + i] = c[i]
    <2>0. c[i] = IF i <= Len(s) THEN s[i] ELSE t[i - Len(s)]
      BY <1>1
    <2>1. CASE i <= Len(s)
      <3>1. i \in 1 .. Len(s)
        BY <1>1, <2>1
      <3> QED
        BY <1>2, <2>0, <2>1, <3>1
    <2>2. CASE i > Len(s)
      <3>1. i - Len(s) \in 1 .. Len(t) /\ (n + Len(s)) + (i - Len(s)) = n + i /\ ~(i <= Len(s))
        BY <1>1, <2>2
      <3> QED
        BY <1>2, <2>0, <3>1
    <2> QED
      BY <1>1, <2>1, <2>2
  <1>4. StandsAt(c, w, n)
    BY <1>1, <1>2, <1>3 DEF StandsAt
  <1> QED
    BY <1>4 DEF c

-----------------------------------------------------------------------------
(* The steps.                                                              *)

LEMMA StreamInit == Init => StreamInv
  <1> SUFFICES ASSUME Init PROVE StreamInv
    OBVIOUS
  <1> USE DEF Init
  <1>1. StreamTypes
    <2>1. accepted \in Seq(Packets) /\ got \in Seq(Packets) /\ wire \in Seq(Nat) /\ buffer \in Seq(Nat)
      OBVIOUS
    <2>2. \A k \in 1 .. Len(accepted) : ~Refuses(accepted[k])
      OBVIOUS
    <2> QED
      BY <2>1, <2>2 DEF StreamTypes
  <1>2. ReceivedAsSent /\ ErrorsAreForeign
    BY DEF ReceivedAsSent, ErrorsAreForeign
  <1>3. Streams(<<>>, [k \in 0 .. 0 |-> 0])
    BY DEF Streams, StandsAt
  <1> QED
    BY <1>1, <1>2, <1>3 DEF StreamInv

\* What a sender does: the stream grows at its end.
LEMMA SendStreams ==
    ASSUME StreamTypes, ReceivedAsSent, NEW written, NEW end, Streams(written, end),
           NEW p \in Packets, Send(p)
    PROVE  \E w, e : Streams(w, e)'
  <1> DEFINE g == Len(got)  m == Len(accepted)
  <1>1. PICK frame : frame = Encoded(p)
    OBVIOUS
  <1>2. frame \in Seq(Nat) /\ Len(frame) \in Nat
    BY <1>1, FrameOf
  <1>3. PICK w : w = written \o frame
    OBVIOUS
  <1>4. PICK e : e = [k \in 0 .. m + 1 |-> IF k = m + 1 THEN Len(w) ELSE end[k]]
    OBVIOUS
  <1>5. /\ ~closed /\ ~spoilt /\ wire' = wire \o frame /\ accepted' = Append(accepted, p)
        /\ UNCHANGED <<closed, buffer, got, status, spoilt>>
    BY <1>1 DEF Send
  <1>6. /\ g \in Nat /\ m \in Nat /\ g <= m
        /\ accepted \in Seq(Packets) /\ buffer \in Seq(Nat) /\ wire \in Seq(Nat)
    BY DEF StreamTypes, ReceivedAsSent
  <1>7. /\ written \in Seq(Nat) /\ end \in [0 .. m -> Nat] /\ end[0] = 0
        /\ Len(written) = end[m]
        /\ \A k \in 1 .. m : /\ end[k] = end[k - 1] + Len(Encoded(accepted[k]))
                             /\ StandsAt(Encoded(accepted[k]), written, end[k - 1])
    BY <1>5 DEF Streams
  <1>8. /\ Len(accepted') = m + 1 /\ accepted'[m + 1] = p
        /\ \A k \in 1 .. m : accepted'[k] = accepted[k]
    BY <1>5, <1>6
  <1>9. status = "open" =>
          /\ StandsAt(buffer, written, end[g])
          /\ StandsAt(wire, written, end[g] + Len(buffer))
          /\ end[g] + Len(buffer) + Len(wire) = Len(written)
    BY <1>5 DEF Streams
  <1> HIDE DEF g, m
  <1>10. w \in Seq(Nat) /\ Len(w) = Len(written) + Len(frame)
    <2>1. written \in Seq(Nat)
      BY <1>7
    <2> QED
      BY <1>2, <1>3, <2>1
  <1>11. Len(w) \in Nat /\ Len(written) \in Nat
    BY <1>7, <1>10
  <1>12. /\ e \in [0 .. m + 1 -> Nat]
         /\ e[m + 1] = Len(w)
         /\ \A k \in 0 .. m : e[k] = end[k]
    BY <1>4, <1>6, <1>7, <1>11
  <1>13. ASSUME NEW k \in 1 .. m + 1
         PROVE  /\ e[k] = e[k - 1] + Len(Encoded(accepted'[k]))
                /\ StandsAt(Encoded(accepted'[k]), w, e[k - 1])
    <2>1. CASE k = m + 1
      <3>1. accepted'[k] = p /\ k - 1 = m /\ m \in 0 .. m
        BY <1>6, <1>8, <2>1
      <3>2. e[k - 1] = Len(written) /\ e[k] = Len(written) + Len(frame)
        BY <1>7, <1>10, <1>12, <2>1, <3>1
      <3>3. StandsAt(frame, w, Len(written))
        BY <1>2, <1>3, <1>7, StandingWritten
      <3> QED
        BY <1>1, <3>1, <3>2, <3>3
    <2>2. CASE k # m + 1
      <3>1. k \in 1 .. m /\ k \in 0 .. m /\ k - 1 \in 0 .. m
        BY <1>6, <2>2
      <3>2. accepted'[k] = accepted[k] /\ accepted[k] \in Packets
        BY <1>6, <1>8, <3>1 DEF m
      <3>3. e[k] = end[k] /\ e[k - 1] = end[k - 1] /\ end[k - 1] \in Nat
        BY <1>7, <1>12, <3>1
      <3>4. Encoded(accepted[k]) \in Seq(Nat)
        BY <3>2, FrameOf
      <3>5. StandsAt(Encoded(accepted[k]), written, end[k - 1])
        BY <1>7, <3>1
      <3>6. StandsAt(Encoded(accepted[k]), w, end[k - 1])
        BY <1>2, <1>3, <1>7, <3>3, <3>4, <3>5, StandingWritten
      <3>7. end[k] = end[k - 1] + Len(Encoded(accepted[k]))
        BY <1>7, <3>1
      <3> QED
        BY <3>2, <3>3, <3>6, <3>7
    <2> QED
      BY <2>1, <2>2
  <1>14. ASSUME status = "open"
         PROVE  /\ StandsAt(buffer, w, e[g])
                /\ StandsAt(wire', w, e[g] + Len(buffer))
                /\ e[g] + Len(buffer) + Len(wire') = Len(w)
    <2>1. e[g] = end[g] /\ end[g] \in Nat /\ Len(buffer) \in Nat /\ Len(wire) \in Nat
      BY <1>6, <1>7, <1>12
    <2>2. StandsAt(buffer, w, end[g])
      BY <1>2, <1>3, <1>6, <1>7, <1>9, <1>14, <2>1, StandingWritten
    <2>3. end[g] + Len(buffer) \in Nat
      BY <2>1
    <2>4. StandsAt(wire', w, end[g] + Len(buffer))
      BY <1>2, <1>3, <1>5, <1>6, <1>7, <1>9, <1>14, <2>3, StandingWritten
    <2>5. Len(wire') = Len(wire) + Len(frame)
      BY <1>2, <1>5, <1>6
    <2>6. end[g] + Len(buffer) + Len(wire') = Len(w)
      <3>1. end[g] + Len(buffer) + Len(wire) = Len(written)
        BY <1>9, <1>14
      <3> QED
        <4> DEFINE a == end[g]  b == Len(buffer)  c == Len(wire)  f == Len(frame)
                   x == Len(written)  y == Len(w)  z == Len(wire')
        <4>1. a \in Nat /\ b \in Nat /\ c \in Nat /\ f \in Nat /\ x \in Nat
          BY <1>2, <1>11, <2>1
        <4>2. a + b + c = x /\ y = x + f /\ z = c + f
          BY <1>10, <2>5, <3>1
        <4> HIDE DEF a, b, c, f, x, y, z
        <4>3. a + b + z = y
          BY <4>1, <4>2
        <4> QED
          BY <4>3 DEF a, b, y, z
    <2> QED
      BY <2>1, <2>2, <2>4, <2>6
  <1>15. e[0] = 0
    BY <1>6, <1>7, <1>12
  <1>16. Streams(w, e)'
    BY <1>5, <1>8, <1>10, <1>12, <1>13, <1>14, <1>15 DEF Streams, g
  <1> QED
    BY <1>16

LEMMA AlienStreams ==
    ASSUME StreamTypes, ReceivedAsSent, NEW written, NEW end, Streams(written, end),
           NEW bytes \in Alien, SendAlien(bytes)
    PROVE  \E w, e : Streams(w, e)'
  <1> DEFINE g == Len(got)  m == Len(accepted)
  <1>1. bytes \in Seq(Nat) /\ Len(bytes) \in Nat
    BY CodecAssumption
  <1>2. PICK w : w = written \o bytes
    OBVIOUS
  <1>3. /\ ~closed /\ ~spoilt /\ wire' = wire \o bytes /\ spoilt' = TRUE
        /\ UNCHANGED <<closed, buffer, got, status, accepted>>
    BY DEF SendAlien
  <1>4. /\ g \in Nat /\ m \in Nat /\ g <= m /\ accepted \in Seq(Packets)
        /\ buffer \in Seq(Nat) /\ wire \in Seq(Nat)
    BY DEF StreamTypes, ReceivedAsSent
  <1>5. /\ written \in Seq(Nat) /\ end \in [0 .. m -> Nat] /\ end[0] = 0
        /\ Len(written) = end[m]
        /\ \A k \in 1 .. m : /\ end[k] = end[k - 1] + Len(Encoded(accepted[k]))
                             /\ StandsAt(Encoded(accepted[k]), written, end[k - 1])
    BY <1>3 DEF Streams
  <1>6. status = "open" =>
          /\ StandsAt(buffer, written, end[g])
          /\ StandsAt(wire, written, end[g] + Len(buffer))
          /\ end[g] + Len(buffer) + Len(wire) = Len(written)
    BY <1>3 DEF Streams
  <1> HIDE DEF g, m
  <1>7. w \in Seq(Nat) /\ Len(w) = Len(written) + Len(bytes)
    <2>1. written \in Seq(Nat)
      BY <1>5
    <2> QED
      BY <1>1, <1>2, <2>1
  <1>8. StandsAt(bytes, w, end[m])
    <2>1. StandsAt(bytes, w, Len(written))
      BY <1>1, <1>2, <1>5, StandingWritten
    <2> QED
      BY <1>5, <2>1
  <1>9. ASSUME NEW k \in 1 .. m PROVE StandsAt(Encoded(accepted[k]), w, end[k - 1])
    <2>1. accepted[k] \in Packets /\ k - 1 \in 0 .. m
      BY <1>4 DEF m
    <2>2. Encoded(accepted[k]) \in Seq(Nat) /\ end[k - 1] \in Nat
      BY <1>5, <2>1, FrameOf
    <2> QED
      BY <1>1, <1>2, <1>5, <2>2, StandingWritten
  <1>10. ASSUME status = "open"
         PROVE  /\ StandsAt(buffer, w, end[g])
                /\ StandsAt(wire', w, end[g] + Len(buffer))
                /\ end[g] + Len(buffer) + Len(wire') = Len(w)
    <2>1. end[g] \in Nat /\ Len(buffer) \in Nat /\ Len(wire) \in Nat /\ Len(written) \in Nat
      BY <1>4, <1>5
    <2>2. StandsAt(buffer, w, end[g])
      BY <1>1, <1>2, <1>4, <1>5, <1>6, <1>10, <2>1, StandingWritten
    <2>3. end[g] + Len(buffer) \in Nat
      BY <2>1
    <2>4. StandsAt(wire', w, end[g] + Len(buffer))
      BY <1>1, <1>2, <1>3, <1>4, <1>5, <1>6, <1>10, <2>3, StandingWritten
    <2>5. Len(wire') = Len(wire) + Len(bytes)
      BY <1>1, <1>3, <1>4
    <2>6. end[g] + Len(buffer) + Len(wire') = Len(w)
      <3> DEFINE a == end[g]  b == Len(buffer)  c == Len(wire)  f == Len(bytes)
                 x == Len(written)  y == Len(w)  z == Len(wire')
      <3>1. a \in Nat /\ b \in Nat /\ c \in Nat /\ f \in Nat /\ x \in Nat
        BY <1>1, <2>1
      <3>2. a + b + c = x /\ y = x + f /\ z = c + f
        BY <1>6, <1>7, <1>10, <2>5
      <3> HIDE DEF a, b, c, f, x, y, z
      <3>3. a + b + z = y
        BY <3>1, <3>2
      <3> QED
        BY <3>3 DEF a, b, y, z
    <2> QED
      BY <2>2, <2>4, <2>6
  <1>11. Len(w) = end[m] + Len(bytes)
    BY <1>5, <1>7
  <1>12. \A k \in 1 .. m : end[k] = end[k - 1] + Len(Encoded(accepted[k]))
    BY <1>5
  <1>13. Streams(w, end)'
    BY <1>3, <1>5, <1>7, <1>8, <1>9, <1>10, <1>11, <1>12 DEF Streams, g, m
  <1> QED
    BY <1>13

\* What the receiver and the network do: nothing more is written.
LEMMA ReceiveStreams ==
    ASSUME StreamTypes, ReceivedAsSent, NEW written, NEW end, Streams(written, end),
           Close \/ Read \/ ReadEnd \/ Decode \/ DecodeFails
    PROVE  Streams(written, end)'
  <1> DEFINE g == Len(got)  m == Len(accepted)
  <1>1. UNCHANGED <<accepted, spoilt>>
    BY DEF Close, Read, ReadEnd, Decode, DecodeFails
  <1>2. /\ g \in Nat /\ m \in Nat /\ g <= m /\ accepted \in Seq(Packets)
        /\ buffer \in Seq(Nat) /\ wire \in Seq(Nat)
    BY DEF StreamTypes, ReceivedAsSent
  <1>3. /\ written \in Seq(Nat) /\ end \in [0 .. m -> Nat] /\ end[0] = 0
        /\ \A k \in 1 .. m : /\ end[k] = end[k - 1] + Len(Encoded(accepted[k]))
                             /\ StandsAt(Encoded(accepted[k]), written, end[k - 1])
        /\ IF spoilt
           THEN \E bytes \in Alien : /\ StandsAt(bytes, written, end[m])
                                     /\ Len(written) = end[m] + Len(bytes)
           ELSE Len(written) = end[m]
    BY DEF Streams
  <1>4. SUFFICES ASSUME status' = "open"
                 PROVE  /\ StandsAt(buffer', written, end[Len(got')])
                        /\ StandsAt(wire', written, end[Len(got')] + Len(buffer'))
                        /\ ~closed' => end[Len(got')] + Len(buffer') + Len(wire') = Len(written)
    <2> HIDE DEF g, m
    <2> QED
      BY <1>1, <1>3 DEF Streams, m
  <1>5. ASSUME status = "open"
        PROVE  /\ StandsAt(buffer, written, end[g])
               /\ StandsAt(wire, written, end[g] + Len(buffer))
               /\ ~closed => end[g] + Len(buffer) + Len(wire) = Len(written)
    BY <1>5 DEF Streams
  <1>6. end[g] \in Nat /\ Len(buffer) \in Nat /\ Len(wire) \in Nat /\ Len(written) \in Nat
    BY <1>2, <1>3
  <1>7. end[g] + Len(buffer) \in Nat
    BY <1>6
  <1>8. CASE Close
    <2>1. status = "open" /\ closed' = TRUE /\ UNCHANGED <<buffer, got>>
      BY <1>4, <1>8 DEF Close
    <2>2. PICK n \in 0 .. Len(wire) : wire' = SubSeq(wire, 1, n)
      BY <1>8 DEF Close
    <2>3. StandsAt(wire', written, end[g] + Len(buffer))
      <3>1. written \in Seq(Nat) /\ StandsAt(wire, written, end[g] + Len(buffer))
        BY <1>3, <1>5, <2>1
      <3> QED
        BY <1>2, <1>7, <2>2, <3>1, StandingPart
    <2> QED
      BY <1>5, <2>1, <2>3
  <1>9. CASE Read
    <2>1. status = "open" /\ UNCHANGED <<closed, got>>
      BY <1>9 DEF Read
    <2>2. PICK n \in 1 .. Len(wire) : /\ buffer' = buffer \o SubSeq(wire, 1, n)
                                      /\ wire' = SubSeq(wire, n + 1, Len(wire))
      BY <1>9 DEF Read
    <2> DEFINE a == SubSeq(wire, 1, n)  b == SubSeq(wire, n + 1, Len(wire))
               from == end[g] + Len(buffer)
    <2>3. StandsAt(buffer, written, end[g]) /\ StandsAt(wire, written, from) /\ written \in Seq(Nat)
      BY <1>3, <1>5, <2>1
    <2>4. n \in 0 .. Len(wire) /\ n \in Nat
      BY <1>6
    <2>5. /\ a \in Seq(Nat) /\ Len(a) = n /\ StandsAt(a, written, from)
          /\ b \in Seq(Nat) /\ Len(b) = Len(wire) - n /\ StandsAt(b, written, from + n)
      BY <1>2, <1>7, <2>3, <2>4, StandingPart
    <2> HIDE DEF a, b
    <2>6. StandsAt(buffer \o a, written, end[g])
      BY <1>2, <1>6, <2>3, <2>5, StandingTogether
    <2>7. Len(buffer \o a) = Len(buffer) + n
      BY <1>2, <2>5, ConcatProperties
    <2>8. buffer' = buffer \o a /\ wire' = b
      BY <2>2 DEF a, b
    <2>9. end[g] + Len(buffer') = from + n
      BY <1>6, <2>4, <2>7, <2>8
    <2>10. ~closed => end[g] + Len(buffer') + Len(wire') = Len(written)
      <3>1. ~closed => end[g] + Len(buffer) + Len(wire) = Len(written)
        BY <1>5, <2>1
      <3> DEFINE x == end[g]  y == Len(buffer)  z == Len(wire)
      <3>2. x \in Nat /\ y \in Nat /\ z \in Nat /\ Len(buffer') = y + n /\ Len(wire') = z - n
        BY <1>6, <2>5, <2>7, <2>8
      <3> HIDE DEF x, y, z
      <3>3. x + (y + n) + (z - n) = x + y + z
        BY <2>4, <3>2
      <3> QED
        BY <3>1, <3>2, <3>3 DEF x, y, z
    <2> QED
      BY <2>1, <2>5, <2>6, <2>8, <2>9, <2>10
  <1>10. CASE ReadEnd
    BY <1>4, <1>10 DEF ReadEnd
  <1>11. CASE Decode
    <2> DEFINE frame == Encoded(accepted[g + 1])  n == Len(frame)
    <2>1. status = "open" /\ UNCHANGED <<wire, closed>>
      BY <1>11 DEF Decode
    <2>2. /\ g < m /\ Begins(frame, buffer)
          /\ got' = Append(got, accepted[g + 1])
          /\ buffer' = SubSeq(buffer, n + 1, Len(buffer))
      BY <1>11, DecodesTheNext
    <2>3. Len(got') = g + 1
      BY <2>2 DEF StreamTypes
    <2>4. g + 1 \in 1 .. m /\ (g + 1) - 1 = g
      BY <1>2, <2>2
    <2>5. accepted[g + 1] \in Packets
      BY <1>2, <2>4
    <2>6. frame \in Seq(Nat) /\ n \in Nat
      BY <2>5, FrameOf
    <2>7. n \in 0 .. Len(buffer)
      BY <1>6, <2>2, <2>6 DEF Begins
    <2>8. end[g + 1] = end[g] + n
      BY <1>3, <2>4
    <2>9. StandsAt(buffer, written, end[g]) /\ written \in Seq(Nat)
      BY <1>3, <1>5, <2>1
    <2> HIDE DEF frame, n, g, m
    <2>10. Len(buffer') = Len(buffer) - n /\ StandsAt(buffer', written, end[g] + n)
      <3> DEFINE rest == SubSeq(buffer, n + 1, Len(buffer))
      <3>1. Len(rest) = Len(buffer) - n /\ StandsAt(rest, written, end[g] + n)
        BY <1>2, <1>6, <2>7, <2>9, StandingPart
      <3> QED
        BY <2>2, <3>1
    <2>11. end[g + 1] + Len(buffer') = end[g] + Len(buffer)
      BY <1>6, <2>6, <2>8, <2>10
    <2> QED
      BY <1>5, <2>1, <2>3, <2>8, <2>10, <2>11
  <1>12. CASE DecodeFails
    <2>1. status' # "open"
      BY <1>12 DEF DecodeFails, HeaderError
    <2> QED
      BY <1>4, <2>1
  <1> QED
    BY <1>8, <1>9, <1>10, <1>11, <1>12

LEMMA StreamStep ==
    ASSUME StreamInv, [Next]_vars
    PROVE  StreamInv'
  <1>1. StreamTypes /\ ReceivedAsSent /\ ErrorsAreForeign
    BY DEF StreamInv
  <1>2. PICK written, end : Streams(written, end)
    BY DEF StreamInv
  <1>3. ASSUME NEW p \in Packets, Send(p) PROVE StreamInv'
    <2>1. /\ ~Refuses(p) /\ wire' = wire \o Encoded(p) /\ accepted' = Append(accepted, p)
          /\ UNCHANGED <<closed, buffer, got, status, spoilt>>
      BY <1>3 DEF Send
    <2>2. Encoded(p) \in Seq(Nat)
      BY FrameOf
    <2>3. accepted \in Seq(Packets) /\ Len(accepted) \in Nat /\ wire \in Seq(Nat)
      BY <1>1 DEF StreamTypes
    <2>4. /\ accepted' \in Seq(Packets) /\ Len(accepted') = Len(accepted) + 1
          /\ accepted'[Len(accepted) + 1] = p
          /\ \A k \in 1 .. Len(accepted) : accepted'[k] = accepted[k]
      BY <2>1, <2>3
    <2>5. wire' \in Seq(Nat)
      BY <2>1, <2>2, <2>3
    <2>6. StreamTypes'
      <3>1. \A k \in 1 .. Len(accepted') : k \in 1 .. Len(accepted) \/ k = Len(accepted) + 1
        BY <2>3, <2>4
      <3>2. \A k \in 1 .. Len(accepted') : ~Refuses(accepted'[k])
        BY <1>1, <2>1, <2>4, <3>1 DEF StreamTypes
      <3> QED
        BY <1>1, <2>1, <2>4, <2>5, <3>2 DEF StreamTypes
    <2>7. ReceivedAsSent'
      <3>1. Len(got) \in Nat /\ Len(got) <= Len(accepted) /\ DOMAIN got = 1 .. Len(got)
        BY <1>1 DEF StreamTypes, ReceivedAsSent
      <3>2. \A i \in DOMAIN got : i \in 1 .. Len(accepted)
        BY <2>3, <3>1
      <3>3. Len(got) <= Len(accepted')
        BY <2>3, <2>4, <3>1
      <3> QED
        BY <1>1, <2>1, <2>4, <3>2, <3>3 DEF ReceivedAsSent
    <2>8. ErrorsAreForeign'
      BY <1>1, <2>1 DEF ErrorsAreForeign
    <2> QED
      BY <1>1, <1>2, <1>3, <2>6, <2>7, <2>8, SendStreams DEF StreamInv
  <1>4. ASSUME NEW bytes \in Alien, SendAlien(bytes) PROVE StreamInv'
    <2>1. /\ spoilt' = TRUE /\ wire' = wire \o bytes
          /\ UNCHANGED <<closed, buffer, got, status, accepted>>
      BY <1>4 DEF SendAlien
    <2>2. bytes \in Seq(Nat)
      BY CodecAssumption
    <2>3. wire' \in Seq(Nat)
      BY <1>1, <2>1, <2>2 DEF StreamTypes
    <2>4. StreamTypes'
      BY <1>1, <2>1, <2>3 DEF StreamTypes
    <2>5. ReceivedAsSent' /\ ErrorsAreForeign'
      BY <1>1, <2>1 DEF ReceivedAsSent, ErrorsAreForeign
    <2> QED
      BY <1>1, <1>2, <1>4, <2>4, <2>5, AlienStreams DEF StreamInv
  <1>5. ASSUME Close \/ Read \/ ReadEnd \/ Decode \/ DecodeFails,
               StreamTypes', ReceivedAsSent', ErrorsAreForeign'
        PROVE  StreamInv'
    <2>1. Streams(written, end)'
      BY <1>1, <1>2, <1>5, ReceiveStreams
    <2> QED
      BY <1>5, <2>1 DEF StreamInv
  <1>6. CASE Close
    <2>1. PICK n \in 0 .. Len(wire) : wire' = SubSeq(wire, 1, n)
      BY <1>6 DEF Close
    <2>2. wire' \in Seq(Nat)
      BY <1>1, <2>1 DEF StreamTypes
    <2>3. closed' = TRUE /\ UNCHANGED <<buffer, got, status, accepted, spoilt>>
      BY <1>6 DEF Close
    <2> QED
      BY <1>1, <1>5, <1>6, <2>2, <2>3 DEF StreamTypes, ReceivedAsSent, ErrorsAreForeign
  <1>7. CASE Read
    <2>1. PICK n \in 1 .. Len(wire) : /\ buffer' = buffer \o SubSeq(wire, 1, n)
                                      /\ wire' = SubSeq(wire, n + 1, Len(wire))
      BY <1>7 DEF Read
    <2>2. wire \in Seq(Nat) /\ buffer \in Seq(Nat)
      BY <1>1 DEF StreamTypes
    <2>3. wire' \in Seq(Nat) /\ buffer' \in Seq(Nat)
      BY <2>1, <2>2, CutParts
    <2>4. UNCHANGED <<closed, got, status, accepted, spoilt>>
      BY <1>7 DEF Read
    <2> QED
      BY <1>1, <1>5, <1>7, <2>3, <2>4 DEF StreamTypes, ReceivedAsSent, ErrorsAreForeign
  <1>8. CASE ReadEnd
    <2>1. /\ closed /\ status' \in {"ended", "io_error"}
          /\ UNCHANGED <<wire, closed, buffer, got, accepted, spoilt>>
      BY <1>8 DEF ReadEnd
    <2> QED
      BY <1>1, <1>5, <1>8, <2>1 DEF StreamTypes, ReceivedAsSent, ErrorsAreForeign
  <1>9. CASE Decode
    <2> DEFINE g == Len(got)  p == accepted[g + 1]
    <2>1. UNCHANGED <<wire, closed, status, accepted, spoilt>>
      BY <1>9 DEF Decode
    <2>2. /\ g < Len(accepted) /\ got' = Append(got, p)
          /\ buffer' = SubSeq(buffer, Len(Encoded(p)) + 1, Len(buffer))
      BY <1>1, <1>2, <1>9, DecodesTheNext
    <2>3. g \in Nat /\ Len(accepted) \in Nat /\ got \in Seq(Packets) /\ buffer \in Seq(Nat)
      BY <1>1 DEF StreamTypes
    <2>4. g + 1 \in 1 .. Len(accepted) /\ p \in Packets
      BY <1>1, <2>2, <2>3 DEF StreamTypes
    <2>5. /\ got' \in Seq(Packets) /\ Len(got') = g + 1 /\ DOMAIN got' = 1 .. g + 1
          /\ got'[g + 1] = p /\ \A i \in 1 .. g : got'[i] = got[i]
      BY <2>2, <2>3, <2>4
    <2>6. buffer' \in Seq(Nat)
      <3>1. Encoded(p) \in Seq(Nat)
        BY <2>4, FrameOf
      <3>2. Len(Encoded(p)) \in Nat
        BY <3>1
      <3> HIDE DEF p
      <3> QED
        BY <2>2, <2>3, <3>2, CutParts
    <2>7. StreamTypes'
      BY <1>1, <2>1, <2>5, <2>6 DEF StreamTypes
    <2>8. ReceivedAsSent'
      <3>1. \A i \in 1 .. g + 1 : i \in 1 .. g \/ i = g + 1
        BY <2>3
      <3>2. \A i \in 1 .. g : got[i] = accepted[i]
        BY <1>1, <2>3 DEF ReceivedAsSent
      <3>3. \A i \in 1 .. g + 1 : got'[i] = accepted[i]
        BY <2>5, <3>1, <3>2
      <3>4. g + 1 <= Len(accepted)
        BY <2>4
      <3> QED
        BY <2>1, <2>5, <3>3, <3>4 DEF ReceivedAsSent
    <2>9. ErrorsAreForeign'
      BY <1>1, <2>1 DEF ErrorsAreForeign
    <2> QED
      BY <1>5, <1>9, <2>7, <2>8, <2>9
  <1>10. CASE DecodeFails
    <2>1. spoilt
      BY <1>1, <1>2, <1>10, FailsOnAlien
    <2>2. UNCHANGED <<wire, closed, got, accepted, spoilt>>
      BY <1>10 DEF DecodeFails
    <2>3. /\ status' \in {"bad_magic", "unknown_packet_type", "payload_too_large", "malformed_body"}
          /\ buffer' = buffer \/ (Complete(buffer) /\ buffer' = Rest(buffer))
      BY <1>10 DEF DecodeFails, HeaderError
    <2>4. buffer' \in Seq(Nat)
      <3>1. buffer \in Seq(Nat)
        BY <1>1 DEF StreamTypes
      <3>2. CASE buffer' = buffer
        BY <3>1, <3>2
      <3>3. CASE Complete(buffer) /\ buffer' = Rest(buffer)
        <4> DEFINE n == buffer[3]
        <4>1. n \in Nat
          BY <3>1, <3>3 DEF Complete, HeaderLen
        <4>2. buffer' = SubSeq(buffer, 3 + n + 1, Len(buffer))
          BY <3>3 DEF Rest, HeaderLen
        <4> HIDE DEF n
        <4> QED
          BY <3>1, <4>1, <4>2
      <3> QED
        BY <2>3, <3>2, <3>3
    <2>5. StreamTypes' /\ ReceivedAsSent' /\ ErrorsAreForeign'
      BY <1>1, <2>1, <2>2, <2>3, <2>4 DEF StreamTypes, ReceivedAsSent, ErrorsAreForeign
    <2> QED
      BY <1>5, <1>10, <2>5
  <1>11. CASE UNCHANGED vars
    BY <1>1, <1>2, <1>11 DEF vars, StreamInv, StreamTypes, ReceivedAsSent, ErrorsAreForeign, Streams
  <1> QED
    BY <1>3, <1>4, <1>6, <1>7, <1>8, <1>9, <1>10, <1>11 DEF Next

\* The inductive invariant of the stream: all that was written, in which the packets
\* accepted stand one after the other, and the receiver's place in it.
THEOREM StreamInvariant == Spec => []StreamInv
  <1> QED
    BY StreamInit, StreamStep, PTL DEF Spec

\* Every variable holds a value of its kind, and each packet received has the number
\* of arguments of its type (split_args).
THEOREM TypeCorrect == Spec => []TypeOK
  <1>1. StreamInv => TypeOK
    <2> SUFFICES ASSUME StreamInv PROVE TypeOK
      OBVIOUS
    <2>1. StreamTypes /\ ReceivedAsSent
      BY DEF StreamInv
    <2>2. ASSUME NEW i \in DOMAIN got
          PROVE  got[i].args \in [1 .. ArgCount[got[i].ptype] -> Seq(Nat)]
      <3> DEFINE p == got[i]
      <3>1. i \in 1 .. Len(accepted) /\ p = accepted[i] /\ p \in Packets
        BY <2>1 DEF StreamTypes, ReceivedAsSent
      <3>2. ~Refuses(p)
        BY <2>1, <3>1 DEF StreamTypes
      <3> HIDE DEF p
      <3>3. p.args \in Seq(Seq(Nat)) /\ Len(p.args) = ArgCount[p.ptype]
        BY <3>1, <3>2, PacketFields DEF Refuses
      <3>4. p.args \in [1 .. ArgCount[p.ptype] -> Seq(Nat)]
        BY <3>3
      <3> QED
        BY <3>4 DEF p
    <2> QED
      BY <2>1, <2>2 DEF TypeOK, StreamTypes
  <1> QED
    BY <1>1, StreamInvariant, PTL

\* What is received is what was sent, packet by packet and argument by argument,
\* however the stream was cut and whatever follows (encode, decode, split_args).
THEOREM PacketsArriveUnchanged == Spec => []ReceivedAsSent
  <1>1. StreamInv => ReceivedAsSent
    BY DEF StreamInv
  <1> QED
    BY <1>1, StreamInvariant, PTL

\* The decoder refuses nothing that the encoder took: an error is the work of an
\* alien peer, or of a connection cut within a packet (decode, encode's cap).
THEOREM EncodedIsNeverRefused == Spec => []ErrorsAreForeign
  <1>1. StreamInv => ErrorsAreForeign
    BY DEF StreamInv
  <1> QED
    BY <1>1, StreamInvariant, PTL

=============================================================================
