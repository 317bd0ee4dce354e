-------------------------- MODULE ServerPoolProofs --------------------------
(***************************************************************************)
(* Theorems about ServerPool and the ring of Ketama, for any number of     *)
(* servers, any ring over them and any tasks that submit.                  *)
(***************************************************************************)
EXTENDS ServerPool, Numbers, FiniteSetTheorems

-----------------------------------------------------------------------------
(* The ring: what is tested, and in which order.                           *)

LEMMA LeastIsIn ==
    ASSUME NEW T \in SUBSET Nat, T # {}
    PROVE  Least(T) \in T
  BY LeastNumber DEF Least

LEMMA RingFacts ==
    ASSUME NEW r \in Rings
    PROVE  /\ r \in Seq(Servers) /\ Len(r) \in Nat \ {0} /\ DOMAIN r = 1 .. Len(r)
           /\ \A s \in Servers : \E i \in 1 .. Len(r) : r[i] = s
  <1>1. r \in Seq(Servers) /\ {r[i] : i \in DOMAIN r} = Servers
    BY PoolAssumption
  <1>2. DOMAIN r = 1 .. Len(r) /\ Len(r) \in Nat
    BY <1>1
  <1>3. \A s \in Servers : \E i \in 1 .. Len(r) : r[i] = s
    BY <1>1, <1>2
  <1>4. 0 \in Servers
    BY PoolAssumption DEF Servers
  <1>5. Len(r) # 0
    BY <1>2, <1>3, <1>4
  <1> QED
    BY <1>1, <1>2, <1>3, <1>5

LEMMA AtIsServer ==
    ASSUME NEW r \in Rings, NEW i \in Nat \ {0}
    PROVE  At(r, i) \in Servers
  <1> DEFINE n == Len(r)
  <1>1. r \in Seq(Servers) /\ n \in Nat \ {0}
    BY RingFacts
  <1>2. (i - 1) % n \in 0 .. n - 1
    <2>1. i - 1 \in Nat
      OBVIOUS
    <2> QED
      BY <1>1, <2>1, Remainder
  <1>3. ((i - 1) % n) + 1 \in 1 .. n
    BY <1>1, <1>2
  <1> QED
    BY <1>1, <1>3 DEF At

\* The walk from any point on comes to every server (the last resort of Ring::select).
LEMMA WalkFindsAll ==
    ASSUME NEW r \in Rings, NEW h \in DOMAIN r, NEW s \in Servers
    PROVE  \E i \in DOMAIN r : At(r, h + i - 1) = s
  <1> DEFINE n == Len(r)
  <1>1. n \in Nat \ {0} /\ DOMAIN r = 1 .. n
    BY RingFacts
  <1>2. PICK j \in 1 .. n : r[j] = s
    BY RingFacts
  <1>3. h \in 1 .. n
    BY <1>1
  <1> HIDE DEF n
  <1>4. (j - 1) % n = j - 1 /\ ((j - 1) + n) % n = j - 1
    <2>1. j - 1 \in Nat /\ j - 1 < n
      BY <1>1, <1>2
    <2> QED
      BY <1>1, <2>1, RemainderBelow
  <1>5. CASE h <= j
    <2> DEFINE i == j - h + 1
    <2>1. i \in 1 .. n /\ (h + i - 1) - 1 = j - 1
      BY <1>1, <1>2, <1>3, <1>5
    <2>2. At(r, h + i - 1) = r[(j - 1) + 1]
      BY <1>4, <2>1 DEF At, n
    <2> QED
      BY <1>1, <1>2, <2>1, <2>2
  <1>6. CASE h > j
    <2> DEFINE i == j - h + 1 + n
    <2>1. i \in 1 .. n /\ (h + i - 1) - 1 = (j - 1) + n
      BY <1>1, <1>2, <1>3, <1>6
    <2>2. At(r, h + i - 1) = r[(j - 1) + 1]
      BY <1>4, <2>1 DEF At, n
    <2> QED
      BY <1>1, <1>2, <2>1, <2>2
  <1> QED
    BY <1>2, <1>3, <1>5, <1>6

LEMMA NextIsServers ==
    ASSUME NEW r \in Rings, NEW failed \in Servers
    PROVE  NextAfter(r, failed) \subseteq Servers
  <1> DEFINE points == {i \in DOMAIN r : r[i] = failed}
             first == Least(points)
             others == {k \in DOMAIN r : At(r, first + k) # failed}
  <1>1. DOMAIN r \subseteq Nat \ {0}
    BY RingFacts
  <1>2. points # {}
    BY RingFacts
  <1>3. first \in Nat \ {0}
    BY <1>1, <1>2, LeastIsIn
  <1>4. ASSUME others # {} PROVE At(r, first + Least(others)) \in Servers
    <2>1. Least(others) \in others
      BY <1>1, <1>4, LeastIsIn
    <2>2. Least(others) \in Nat \ {0}
      BY <1>1, <2>1
    <2> HIDE DEF first, others
    <2>3. first + Least(others) \in Nat \ {0}
      BY <1>3, <2>2
    <2> QED
      BY <2>3, AtIsServer
  <1> QED
    BY <1>4 DEF NextAfter

\* The next server of the chain is added to it, as the function in Chain does.
Longer(r, before) ==
    LET next == NextAfter(r, before[Len(before)]) \ Tried(before)
    IN  IF next = {} THEN before ELSE Append(before, CHOOSE s \in next : TRUE)

\* g holds the first n + 1 stages of the chain.
Chains(g, r, h, n) ==
    g = [k \in 0 .. n |-> IF k = 0 THEN <<At(r, h)>> ELSE Longer(r, g[k - 1])]

LEMMA SomeChains == \A r, h : \A n \in Nat : \E g : Chains(g, r, h, n)
  <1> SUFFICES ASSUME NEW r, NEW h PROVE \A n \in Nat : \E g : Chains(g, r, h, n)
    OBVIOUS
  <1> DEFINE T == {n \in Nat : \E g : Chains(g, r, h, n)}
  <1>1. 0 \in T
    <2> DEFINE g == [k \in 0 .. 0 |-> <<At(r, h)>>]
    <2>1. Chains(g, r, h, 0)
      BY DEF Chains
    <2> QED
      BY <2>1
  <1>2. ASSUME NEW n \in Nat, n \in T PROVE n + 1 \in T
    <2>1. PICK g : Chains(g, r, h, n)
      BY <1>2
    <2>2. \A k \in 0 .. n : g[k] = IF k = 0 THEN <<At(r, h)>> ELSE Longer(r, g[k - 1])
      BY <2>1 DEF Chains
    <2> DEFINE f == [k \in 0 .. n + 1 |-> IF k <= n THEN g[k] ELSE Longer(r, g[n])]
    <2>3. ASSUME NEW k \in 0 .. n + 1
          PROVE  f[k] = IF k = 0 THEN <<At(r, h)>> ELSE Longer(r, f[k - 1])
      <3>1. CASE k = n + 1
        BY <3>1
      <3>2. CASE k <= n
        BY <2>2, <3>2
      <3> QED
        BY <3>1, <3>2
    <2>4. Chains(f, r, h, n + 1)
      BY <2>3 DEF Chains
    <2> QED
      BY <2>4
  <1> HIDE DEF T
  <1>3. \A n \in Nat : n \in T
    BY <1>1, <1>2, SetInduction
  <1> QED
    BY <1>3 DEF T

\* A chain of servers that begins with the owner of the point h.
ChainFrom(t, r, h) == t \in Seq(Servers) /\ t # <<>> /\ t[1] = At(r, h)

LEMMA LongerIsChain ==
    ASSUME NEW r \in Rings, NEW h \in DOMAIN r, NEW t, ChainFrom(t, r, h)
    PROVE  ChainFrom(Longer(r, t), r, h)
  <1> DEFINE next == NextAfter(r, t[Len(t)]) \ Tried(t)
  <1>1. t \in Seq(Servers) /\ Len(t) \in Nat \ {0} /\ t[1] = At(r, h)
    BY DEF ChainFrom
  <1>2. t[Len(t)] \in Servers
    BY <1>1
  <1>3. next \subseteq Servers
    BY <1>2, NextIsServers
  <1>4. CASE next = {}
    BY <1>4 DEF Longer
  <1>5. CASE next # {}
    <2> DEFINE s == CHOOSE s \in next : TRUE
    <2>1. s \in Servers
      BY <1>3, <1>5
    <2>2. Longer(r, t) = Append(t, s)
      BY <1>5 DEF Longer
    <2> HIDE DEF s
    <2> QED
      BY <1>1, <2>1, <2>2 DEF ChainFrom
  <1> QED
    BY <1>4, <1>5

LEMMA ChainIsChain ==
    ASSUME NEW r \in Rings, NEW h \in DOMAIN r
    PROVE  ChainFrom(Chain(r, h), r, h)
  <1> DEFINE n == Len(r)  g == CHOOSE g : Chains(g, r, h, n)
  <1>1. n \in Nat /\ h \in Nat \ {0}
    BY RingFacts
  <1>2. Chains(g, r, h, n)
    <2>1. \E f : Chains(f, r, h, n)
      BY <1>1, SomeChains
    <2> QED
      BY <2>1, Zenon
  <1>3. Chain(r, h) = g[n]
    BY DEF Chain, Chains, Longer
  <1> HIDE DEF n, g
  <1>4. \A k \in 0 .. n : g[k] = IF k = 0 THEN <<At(r, h)>> ELSE Longer(r, g[k - 1])
    BY <1>2 DEF Chains
  <1> DEFINE T == {k \in Nat : k <= n => ChainFrom(g[k], r, h)}
  <1>5. 0 \in T
    <2>1. g[0] = <<At(r, h)>>
      BY <1>1, <1>4
    <2>2. At(r, h) \in Servers
      BY <1>1, AtIsServer
    <2>3. ChainFrom(<<At(r, h)>>, r, h)
      BY <2>2 DEF ChainFrom
    <2> QED
      BY <2>1, <2>3
  <1>6. ASSUME NEW k \in Nat, k \in T PROVE k + 1 \in T
    <2>1. SUFFICES ASSUME k + 1 <= n PROVE ChainFrom(g[k + 1], r, h)
      OBVIOUS
    <2>2. ChainFrom(g[k], r, h)
      BY <1>1, <1>6, <2>1
    <2>3. g[k + 1] = Longer(r, g[k])
      BY <1>1, <1>4, <2>1
    <2> QED
      BY <2>2, <2>3, LongerIsChain
  <1> HIDE DEF T
  <1>7. \A k \in Nat : k \in T
    BY <1>5, <1>6, SetInduction
  <1>8. n \in T
    BY <1>1, <1>7
  <1> QED
    BY <1>1, <1>3, <1>8 DEF T

\* The order in which Ring::select tests the servers begins with the owner of the
\* hash and leaves no server out, whatever the chain does.
LEMMA RingOrderFindsAll ==
    ASSUME NEW r \in Rings, NEW h \in DOMAIN r
    PROVE  LET order == RingOrder(r, h)
           IN  /\ order \in Seq(Servers) /\ order # <<>> /\ Head(order) = At(r, h)
               /\ Tried(order) = Servers
  <1> DEFINE t == Chain(r, h)
             walk == [i \in DOMAIN r |-> At(r, h + i - 1)]
             order == t \o walk
  <1>1. t \in Seq(Servers) /\ t # <<>> /\ t[1] = At(r, h)
    BY ChainIsChain DEF ChainFrom
  <1>2. Len(r) \in Nat /\ DOMAIN r = 1 .. Len(r) /\ h \in Nat \ {0}
    BY RingFacts
  <1>3. walk \in Seq(Servers) /\ Len(walk) = Len(r)
    <2>1. ASSUME NEW i \in DOMAIN r PROVE At(r, h + i - 1) \in Servers
      <3>1. h + i - 1 \in Nat \ {0}
        BY <1>2
      <3> QED
        BY <3>1, AtIsServer
    <2> QED
      BY <1>2, <2>1
  <1>4. ASSUME NEW s \in Servers PROVE \E k \in DOMAIN order : order[k] = s
    <2>1. PICK i \in DOMAIN r : walk[i] = s
      BY WalkFindsAll
    <2> HIDE DEF t, walk
    <2>2. Len(t) + i \in DOMAIN order /\ order[Len(t) + i] = s
      BY <1>1, <1>2, <1>3, <2>1
    <2> QED
      BY <2>2
  <1>5. RingOrder(r, h) = order
    BY DEF RingOrder
  <1> HIDE DEF t, walk
  <1>6. order \in Seq(Servers) /\ order # <<>> /\ Head(order) = t[1]
    BY <1>1, <1>3
  <1> HIDE DEF order
  <1>7. Tried(order) = Servers
    BY <1>4, <1>6 DEF Tried
  <1> QED
    BY <1>1, <1>5, <1>6, <1>7

\* Round robin tests every server, wherever the cursor stands (next_healthy).
LEMMA RotationFindsAll ==
    ASSUME cursor \in Nat
    PROVE  Rotation \in Seq(Servers) /\ Tried(Rotation) = Servers
  <1> DEFINE n == ServerCount  q == cursor % n  d == cursor \div n
  <1>1. n \in Nat \ {0}
    BY PoolAssumption
  <1>2. q \in 0 .. n - 1 /\ d \in Nat /\ cursor = n * d + q
    BY <1>1, Remainder, Quotient
  <1>3. ASSUME NEW i \in 1 .. n PROVE (cursor + i - 1) % n \in Servers
    <2>1. cursor + i - 1 \in Nat
      BY <1>1
    <2> QED
      BY <1>1, <2>1, Remainder DEF Servers
  <1>4. Rotation \in [1 .. n -> Servers]
    BY <1>3 DEF Rotation
  <1>5. Rotation \in Seq(Servers) /\ DOMAIN Rotation = 1 .. n
    BY <1>1, <1>4
  <1> HIDE DEF q, d
  <1>6. ASSUME NEW s \in Servers PROVE \E i \in 1 .. n : (cursor + i - 1) % n = s
    <2>1. s \in 0 .. n - 1
      BY DEF Servers
    <2>2. CASE q <= s
      <3> DEFINE i == s - q + 1
      <3>1. i \in 1 .. n /\ cursor + i - 1 = cursor + (s - q)
        BY <1>1, <1>2, <2>1, <2>2
      <3>2. cursor + (s - q) = n * d + s
        BY <1>1, <1>2, <2>1
      <3>3. (n * d + s) % n = s
        BY <1>1, <1>2, <2>1, RemainderOf
      <3> QED
        BY <3>1, <3>2, <3>3
    <2>3. CASE q > s
      <3> DEFINE i == s - q + 1 + n
      <3>1. i \in 1 .. n /\ cursor + i - 1 = cursor + (s - q + n)
        BY <1>1, <1>2, <2>1, <2>3
      <3>2. cursor + (s - q + n) = n * (d + 1) + s
        BY <1>1, <1>2, <2>1
      <3>3. d + 1 \in Nat
        BY <1>2
      <3>4. (n * (d + 1) + s) % n = s
        BY <1>1, <2>1, <3>3, RemainderOf
      <3> QED
        BY <3>1, <3>2, <3>4
    <2> QED
      BY <1>2, <2>1, <2>2, <2>3
  <1>7. \A s \in Servers : \E i \in DOMAIN Rotation : Rotation[i] = s
    BY <1>5, <1>6 DEF Rotation
  <1> QED
    BY <1>4, <1>5, <1>7 DEF Tried
-----------------------------------------------------------------------------
(* Types.                                                                  *)

\* With the ring, and where each unique id is on it.
PoolTypes ==
    /\ TypeOK
    /\ selection = "by_unique" => ring \in Rings /\ home \in [Uniques -> DOMAIN ring]

\* What a call is to test: every server, the owner of the hash first if the unique
\* id decides (select_for_submit).
LEMMA SelectFindsAll ==
    ASSUME PoolTypes, NEW c \in Callers, NEW u, Select(c, u)
    PROVE  /\ u \in Uniques \cup {NoUnique} /\ cursor' \in 0 .. CursorSize - 1
           /\ \E order \in Seq(Servers) :
                /\ todo' = [todo EXCEPT ![c] = order]
                /\ Tried(order) = Servers
                /\ ByRing(u) => order # <<>> /\ Head(order) = At(ring, home[u])
  <1>1. u \in Uniques \cup {NoUnique}
    BY PoolAssumption DEF Select, PoolTypes, TypeOK
  <1>2. CursorSize \in Nat \ {0} /\ cursor \in Nat /\ cursor \in 0 .. CursorSize - 1
    BY PoolAssumption DEF PoolTypes, TypeOK
  <1>3. CASE ByRing(u)
    <2>1. u \in Uniques /\ ring \in Rings /\ home[u] \in DOMAIN ring
      BY <1>1, <1>3 DEF ByRing, PoolTypes
    <2> DEFINE order == RingOrder(ring, home[u])
    <2>2. todo' = [todo EXCEPT ![c] = order] /\ cursor' = cursor
      BY <1>3 DEF Select
    <2>3. /\ order \in Seq(Servers) /\ order # <<>> /\ Head(order) = At(ring, home[u])
          /\ Tried(order) = Servers
      BY <2>1, RingOrderFindsAll
    <2> QED
      BY <1>1, <1>2, <2>2, <2>3
  <1>4. CASE ~ByRing(u)
    <2>1. todo' = [todo EXCEPT ![c] = Rotation] /\ cursor' = Advance(cursor)
      BY <1>4 DEF Select
    <2>2. Rotation \in Seq(Servers) /\ Tried(Rotation) = Servers
      BY <1>2, RotationFindsAll
    <2>3. Advance(cursor) \in 0 .. CursorSize - 1
      <3>1. cursor + 1 \in Nat
        BY <1>2
      <3> QED
        BY <1>2, <3>1, Remainder DEF Advance
    <2> QED
      BY <1>1, <1>4, <2>1, <2>2, <2>3
  <1> QED
    BY <1>3, <1>4

LEMMA TypesInit == Init => PoolTypes
  <1> SUFFICES ASSUME Init PROVE PoolTypes
    OBVIOUS
  <1>1. <<>> \in Seq(Servers) /\ 0 \in 0 .. CursorSize - 1
    BY PoolAssumption
  <1>2. selection \in Selections
        /\ (selection = "by_unique" => ring \in Rings /\ home \in [Uniques -> DOMAIN ring])
    BY DEF Init, Selections
  <1> QED
    BY <1>1, <1>2 DEF Init, PoolTypes, TypeOK

LEMMA StoresTypes ==
    ASSUME TypeOK, NEW s \in Servers, NEW state \in {"down", "storing", "up"},
           NEW x \in BOOLEAN, NEW y \in BOOLEAN, Stores(s, state, x, y)
    PROVE  /\ actor' \in [Servers -> {"down", "storing", "up"}]
           /\ connected' \in [Servers -> BOOLEAN] /\ attempted' \in [Servers -> BOOLEAN]
           /\ steady' \in [Callers -> BOOLEAN] /\ missed' \in Nat
  <1>1. /\ actor' \in [Servers -> {"down", "storing", "up"}]
        /\ connected' \in [Servers -> BOOLEAN] /\ attempted' \in [Servers -> BOOLEAN]
    BY DEF Stores, TypeOK
  <1>2. missed' \in Nat
    BY DEF Stores, TypeOK
  <1>3. steady' \in [Callers -> BOOLEAN]
    <2> DEFINE down == s = watched /\ ~x
    <2>1. steady' = [k \in Callers |-> steady[k] /\ ~down]
      BY Zenon DEF Stores
    <2>2. ASSUME NEW k \in Callers PROVE (steady[k] /\ ~down) \in BOOLEAN
      OBVIOUS
    <2> HIDE DEF down
    <2> QED
      BY <2>1, <2>2, Zenon
  <1> QED
    BY <1>1, <1>2, <1>3

LEMMA TypesStep == PoolTypes /\ [Next]_vars => PoolTypes'
  <1> SUFFICES ASSUME PoolTypes, [Next]_vars PROVE PoolTypes'
    OBVIOUS
  <1>1. TypeOK
    BY DEF PoolTypes
  <1>2. ASSUME UNCHANGED config, TypeOK' PROVE PoolTypes'
    BY <1>2 DEF PoolTypes, config
  <1>3. CASE Actors
    <2>1. PICK s \in Servers :
             FirstStore(s) \/ SecondStore(s) \/ AttemptFails(s) \/ LosesConnection(s)
      BY <1>3 DEF Actors
    <2>2. UNCHANGED <<config, phase, submissions>>
      BY <2>1 DEF FirstStore, SecondStore, AttemptFails, LosesConnection, config, submissions
    <2>3. \E state \in {"down", "storing", "up"}, x \in BOOLEAN, y \in BOOLEAN :
             Stores(s, state, x, y)
      <3>1. attempted[s] \in BOOLEAN
        BY <1>1 DEF TypeOK
      <3> QED
        BY <2>1, <3>1 DEF FirstStore, SecondStore, AttemptFails, LosesConnection
    <2>4. /\ actor' \in [Servers -> {"down", "storing", "up"}]
          /\ connected' \in [Servers -> BOOLEAN] /\ attempted' \in [Servers -> BOOLEAN]
          /\ steady' \in [Callers -> BOOLEAN] /\ missed' \in Nat
      BY <1>1, <2>3, StoresTypes
    <2>5. clean' \in BOOLEAN /\ route' \in [Uniques -> SUBSET Servers]
      BY <1>1, <2>1
      DEF TypeOK, FirstStore, SecondStore, AttemptFails, LosesConnection, Failure
    <2>6. TypeOK'
      BY <1>1, <2>2, <2>4, <2>5 DEF TypeOK, config, submissions
    <2> QED
      BY <1>2, <2>2, <2>6
  <1>4. CASE Deadline
    BY <1>1, <1>2, <1>4 DEF Deadline, TypeOK, config, actors, submissions
  <1>5. CASE Poll
    BY <1>1, <1>2, <1>5 DEF Poll, TypeOK, config, actors, submissions, history
  <1>6. ASSUME NEW c \in Callers, NEW u \in Uniques \cup {NoUnique}, Select(c, u)
        PROVE  PoolTypes'
    <2>1. u \in Uniques \cup {NoUnique} /\ cursor' \in 0 .. CursorSize - 1
          /\ \E order \in Seq(Servers) : todo' = [todo EXCEPT ![c] = order]
      BY <1>6, SelectFindsAll
    <2>2. todo' \in [Callers -> Seq(Servers)]
      BY <1>1, <2>1 DEF TypeOK
    <2>3. connected[watched] \in BOOLEAN
      BY <1>1 DEF TypeOK
    <2>4. /\ call' \in [Callers -> {"idle", "selecting", "no_servers"}]
          /\ unique' \in [Callers -> Uniques \cup {NoUnique}]
          /\ steady' \in [Callers -> BOOLEAN]
      BY <1>1, <1>6, <2>3 DEF TypeOK, Select
    <2>5. UNCHANGED <<config, actors, phase, clean, route, missed>>
      BY <1>6 DEF Select
    <2>6. TypeOK'
      BY <1>1, <2>1, <2>2, <2>4, <2>5 DEF TypeOK, config, actors
    <2> QED
      BY <1>2, <2>5, <2>6
  <1>7. ASSUME NEW c \in Callers, Test(c)
        PROVE  PoolTypes'
    <2> DEFINE s == Head(todo[c])  u == unique[c]
    <2>1. todo[c] \in Seq(Servers) /\ todo[c] # <<>> /\ u \in Uniques \cup {NoUnique}
      BY <1>1, <1>7 DEF TypeOK, Test
    <2>2. s \in Servers /\ Tail(todo[c]) \in Seq(Servers) /\ <<>> \in Seq(Servers)
      BY <2>1
    <2>3. UNCHANGED <<config, actors, phase, cursor, clean>>
      BY <1>7 DEF Test
    <2>4. CASE connected[s]
      <3>1. /\ call' = [call EXCEPT ![c] = "idle"]
            /\ todo' = [todo EXCEPT ![c] = <<>>]
            /\ unique' = [unique EXCEPT ![c] = NoUnique]
            /\ steady' = [steady EXCEPT ![c] = FALSE]
            /\ route' = route \/ route' = [route EXCEPT ![u] = @ \cup {s}]
            /\ missed' \in {missed, 0, missed + 1}
        BY <1>7, <2>4 DEF Test
      <3> HIDE DEF s, u
      <3>2. route' \in [Uniques -> SUBSET Servers]
        BY <1>1, <2>2, <3>1 DEF TypeOK
      <3>3. todo' \in [Callers -> Seq(Servers)]
        BY <1>1, <2>2, <3>1 DEF TypeOK
      <3>4. TypeOK'
        BY <1>1, <2>3, <3>1, <3>2, <3>3 DEF TypeOK, config, actors
      <3> QED
        BY <1>2, <2>3, <3>4
    <2>5. CASE ~connected[s]
      <3>1. /\ todo' = [todo EXCEPT ![c] = Tail(todo[c])]
            /\ UNCHANGED <<call, unique, route, missed, steady>>
        BY <1>7, <2>5 DEF Test
      <3>2. todo' \in [Callers -> Seq(Servers)]
        BY <1>1, <2>2, <3>1 DEF TypeOK
      <3>3. TypeOK'
        BY <1>1, <2>3, <3>1, <3>2 DEF TypeOK, config, actors
      <3> QED
        BY <1>2, <2>3, <3>3
    <2> QED
      BY <2>4, <2>5
  <1>8. ASSUME NEW c \in Callers, NoneHealthy(c)
        PROVE  PoolTypes'
    BY <1>1, <1>2, <1>8 DEF NoneHealthy, TypeOK, config, actors, history
  <1>9. CASE UNCHANGED vars
    BY <1>1, <1>2, <1>9 DEF vars, TypeOK, config, actors, submissions, history
  <1> QED
    BY <1>3, <1>4, <1>5, <1>6, <1>7, <1>8, <1>9 DEF Next, Submissions

LEMMA PoolTyped == Spec => []PoolTypes
  <1> QED
    BY TypesInit, TypesStep, PTL DEF Spec

\* Every variable of the pool holds a value of its kind: what a call has yet to test
\* are servers, and the cursor stays in its word.
THEOREM TypeCorrect == Spec => []TypeOK
  <1>1. PoolTypes => TypeOK
    BY DEF PoolTypes
  <1> QED
    BY <1>1, PoolTyped, PTL
-----------------------------------------------------------------------------
(* A submission finds a server that is up (Ring::select, next_healthy).    *)

\* A server that is up ever since a selection began is yet to be tested by it.
StillToTest ==
    \A c \in Callers :
        /\ call[c] = "selecting" /\ steady[c] => connected[watched] /\ watched \in Tried(todo[c])
        /\ call[c] = "no_servers" => ~steady[c]

\* What is not at the head is in the rest.
LEMMA TriedTail ==
    ASSUME NEW t \in Seq(Servers), t # <<>>, NEW s \in Tried(t), s # Head(t)
    PROVE  s \in Tried(Tail(t))
  <1>1. PICK i \in 1 .. Len(t) : t[i] = s
    BY DEF Tried
  <1>2. i # 1
    BY <1>1
  <1>3. i - 1 \in DOMAIN Tail(t) /\ Tail(t)[i - 1] = s
    BY <1>1, <1>2
  <1> QED
    BY <1>3 DEF Tried

LEMMA StillToTestStep == StillToTest /\ PoolTypes /\ [Next]_vars => StillToTest'
  <1> SUFFICES ASSUME StillToTest, PoolTypes, [Next]_vars PROVE StillToTest'
    OBVIOUS
  <1>1. TypeOK
    BY DEF PoolTypes
  <1>2. ASSUME UNCHANGED <<call, todo, steady, watched, connected>> PROVE StillToTest'
    BY <1>2 DEF StillToTest, Tried
  <1>3. CASE Actors
    <2>1. PICK s \in Servers :
             FirstStore(s) \/ SecondStore(s) \/ AttemptFails(s) \/ LosesConnection(s)
      BY <1>3 DEF Actors
    <2>2. UNCHANGED <<call, todo, watched>>
      BY <2>1 DEF FirstStore, SecondStore, AttemptFails, LosesConnection, config, submissions
    <2>3. PICK x \in BOOLEAN :
             /\ connected' = [connected EXCEPT ![s] = x]
             /\ steady' = [k \in Callers |-> steady[k] /\ ~(s = watched /\ ~x)]
      BY <2>1, Zenon DEF FirstStore, SecondStore, AttemptFails, LosesConnection, Stores
    <2>4. ASSUME NEW c \in Callers
          PROVE  /\ steady'[c] => steady[c]
                 /\ steady'[c] /\ connected[watched] => connected'[watched]
      <3>1. steady'[c] = (steady[c] /\ ~(s = watched /\ ~x))
        BY <2>3, Zenon
      <3>2. s # watched => connected'[watched] = connected[watched]
        BY <1>1, <2>3 DEF TypeOK
      <3>3. s = watched => connected'[watched] = x
        BY <1>1, <2>3 DEF TypeOK
      <3> QED
        BY <3>1, <3>2, <3>3
    <2> QED
      BY <2>2, <2>4 DEF StillToTest, Tried
  <1>4. CASE Deadline
    BY <1>2, <1>4 DEF Deadline, config, actors, submissions
  <1>5. CASE Poll
    BY <1>2, <1>5 DEF Poll, config, actors, submissions, history
  <1>6. ASSUME NEW c \in Callers, NEW u \in Uniques \cup {NoUnique}, Select(c, u)
        PROVE  StillToTest'
    <2>1. PICK order \in Seq(Servers) :
             todo' = [todo EXCEPT ![c] = order] /\ Tried(order) = Servers
      BY <1>6, SelectFindsAll
    <2>2. /\ call' = [call EXCEPT ![c] = "selecting"]
          /\ steady' = [steady EXCEPT ![c] = connected[watched]]
          /\ UNCHANGED <<watched, connected>>
      BY <1>6 DEF Select, config, actors
    <2>3. ASSUME NEW k \in Callers, k # c
          PROVE  call'[k] = call[k] /\ todo'[k] = todo[k] /\ steady'[k] = steady[k]
      BY <1>1, <2>1, <2>2, <2>3 DEF TypeOK
    <2>4. call'[c] = "selecting" /\ todo'[c] = order /\ steady'[c] = connected[watched]
      BY <1>1, <2>1, <2>2 DEF TypeOK
    <2>5. watched \in Tried(todo'[c])
      BY <1>1, <2>1, <2>4 DEF TypeOK
    <2> QED
      BY <2>2, <2>3, <2>4, <2>5 DEF StillToTest, Tried
  <1>7. ASSUME NEW c \in Callers, Test(c)
        PROVE  StillToTest'
    <2> DEFINE s == Head(todo[c])
    <2>1. todo[c] \in Seq(Servers) /\ todo[c] # <<>> /\ call[c] = "selecting"
      BY <1>1, <1>7 DEF TypeOK, Test
    <2>2. UNCHANGED <<watched, connected>>
      BY <1>7 DEF Test, config, actors
    <2>3. CASE connected[s]
      <3>1. /\ call' = [call EXCEPT ![c] = "idle"]
            /\ todo' = [todo EXCEPT ![c] = <<>>]
            /\ steady' = [steady EXCEPT ![c] = FALSE]
        BY <1>7, <2>3 DEF Test
      <3>2. ASSUME NEW k \in Callers, k # c
            PROVE  call'[k] = call[k] /\ todo'[k] = todo[k] /\ steady'[k] = steady[k]
        BY <1>1, <3>1, <3>2 DEF TypeOK
      <3>3. call'[c] = "idle"
        BY <1>1, <3>1 DEF TypeOK
      <3> QED
        BY <2>2, <3>2, <3>3 DEF StillToTest, Tried
    <2>4. CASE ~connected[s]
      <3>1. todo' = [todo EXCEPT ![c] = Tail(todo[c])] /\ UNCHANGED <<call, steady>>
        BY <1>7, <2>4 DEF Test
      <3>2. ASSUME NEW k \in Callers, k # c PROVE todo'[k] = todo[k]
        BY <1>1, <3>1, <3>2 DEF TypeOK
      <3>3. todo'[c] = Tail(todo[c])
        BY <1>1, <3>1 DEF TypeOK
      <3>4. steady[c] => watched \in Tried(Tail(todo[c]))
        BY <2>1, <2>4, TriedTail DEF StillToTest
      <3> QED
        BY <2>1, <2>2, <3>1, <3>2, <3>3, <3>4 DEF StillToTest, Tried
    <2> QED
      BY <2>3, <2>4
  <1>8. ASSUME NEW c \in Callers, NoneHealthy(c)
        PROVE  StillToTest'
    <2>1. /\ call[c] = "selecting" /\ todo[c] = <<>>
          /\ call' = [call EXCEPT ![c] = "no_servers"]
          /\ UNCHANGED <<todo, steady, watched, connected>>
      BY <1>8 DEF NoneHealthy, config, actors, history
    <2>2. ~steady[c]
      BY <2>1 DEF StillToTest, Tried
    <2>3. ASSUME NEW k \in Callers, k # c PROVE call'[k] = call[k]
      BY <1>1, <2>1, <2>3 DEF TypeOK
    <2>4. call'[c] = "no_servers"
      BY <1>1, <2>1 DEF TypeOK
    <2> QED
      BY <2>1, <2>2, <2>3, <2>4 DEF StillToTest, Tried
  <1>9. CASE UNCHANGED vars
    BY <1>2, <1>9 DEF vars, config, actors, submissions, history
  <1> QED
    BY <1>3, <1>4, <1>5, <1>6, <1>7, <1>8, <1>9 DEF Next, Submissions

\* A submission fails with NoServersAvailable only if every server looked down at some
\* moment of its selection, for any server watched, whatever the flags do meanwhile
\* and though the chain may cycle (Ring::select, next_healthy).
THEOREM NoServersMeansNone == Spec => []FindsServer
  <1>1. Init => StillToTest
    BY DEF Init, StillToTest
  <1>2. StillToTest => FindsServer
    BY DEF StillToTest, FindsServer
  <1> QED
    BY <1>1, <1>2, StillToTestStep, PoolTyped, PTL DEF Spec

-----------------------------------------------------------------------------
(* One server for a unique id.                                             *)

\* Where stores show in program order and nothing failed, a server known to be
\* attempted is known to be connected; under ByUnique connect therefore returns with
\* every one connected, and a call finds the owner of its hash up.
AllUp ==
    /\ phase = "overdue" => ~clean
    /\ \A c \in Callers : call[c] = "selecting" => phase = "ready"
    /\ in_order /\ clean =>
         /\ \A s \in Servers : attempted[s] => connected[s]
         /\ phase = "ready" /\ selection = "by_unique" => \A s \in Servers : connected[s]
         /\ \A c \in Callers : call[c] = "selecting" /\ ByRing(unique[c]) =>
              todo[c] # <<>> /\ Head(todo[c]) = At(ring, home[unique[c]])
    /\ in_order => \A u \in Uniques : route[u] \subseteq {At(ring, home[u])}

LEMMA AllUpStep == AllUp /\ PoolTypes /\ [Next]_vars => AllUp'
  <1> SUFFICES ASSUME AllUp, PoolTypes, [Next]_vars PROVE AllUp'
    OBVIOUS
  <1>1. TypeOK
    BY DEF PoolTypes
  <1>2. CASE Actors
    <2>1. PICK s \in Servers :
             FirstStore(s) \/ SecondStore(s) \/ AttemptFails(s) \/ LosesConnection(s)
      BY <1>2 DEF Actors
    <2>2. UNCHANGED <<in_order, selection, ring, home, phase, call, todo, unique>>
      BY <2>1 DEF FirstStore, SecondStore, AttemptFails, LosesConnection, config, submissions
    <2>3. CASE AttemptFails(s) \/ LosesConnection(s)
      <3>1. clean' = FALSE /\ route' = [u \in Uniques |-> {}]
        BY <2>3 DEF AttemptFails, LosesConnection, Failure
      <3> QED
        BY <2>2, <3>1 DEF AllUp
    <2>4. CASE FirstStore(s) \/ SecondStore(s)
      <3>1. UNCHANGED <<clean, route>>
        BY <2>4 DEF FirstStore, SecondStore
      <3>2. ASSUME in_order, clean
            PROVE  \A k \in Servers : /\ connected[k] => connected'[k]
                                      /\ attempted'[k] => connected'[k]
        <4>1. PICK y \in BOOLEAN : /\ connected' = [connected EXCEPT ![s] = TRUE]
                                   /\ attempted' = [attempted EXCEPT ![s] = y]
          <5>1. attempted[s] \in BOOLEAN
            BY <1>1 DEF TypeOK
          <5> QED
            BY <2>4, <3>2, <5>1 DEF FirstStore, SecondStore, Stores
        <4>2. \A k \in Servers : attempted[k] => connected[k]
          BY <3>2 DEF AllUp
        <4>3. connected'[s] = TRUE
          BY <1>1, <4>1 DEF TypeOK
        <4>4. \A k \in Servers \ {s} : connected'[k] = connected[k] /\ attempted'[k] = attempted[k]
          BY <1>1, <4>1 DEF TypeOK
        <4> QED
          BY <4>2, <4>3, <4>4
      <3> QED
        BY <2>2, <3>1, <3>2 DEF AllUp, ByRing
    <2> QED
      BY <2>1, <2>3, <2>4
  <1>3. CASE Deadline
    <2>1. phase = "waiting" /\ phase' = "overdue" /\ clean' = FALSE
          /\ UNCHANGED <<config, actors, submissions, route>>
      BY <1>3 DEF Deadline
    <2>2. \A c \in Callers : call[c] # "selecting"
      BY <2>1 DEF AllUp
    <2> QED
      BY <2>1, <2>2 DEF AllUp, config, actors, submissions
  <1>4. CASE Poll
    <2>1. UNCHANGED <<config, actors, submissions, history>>
      BY <1>4 DEF Poll
    <2>2. \A c \in Callers : call[c] # "selecting"
      BY <1>4 DEF AllUp, Poll
    <2>3. phase' \in {"ready", "failed"}
      BY <1>4 DEF Poll
    <2>4. ASSUME in_order, clean, selection = "by_unique" PROVE \A s \in Servers : connected[s]
      <3>1. phase = "waiting" /\ ~Waits
        BY <1>4, <2>4 DEF AllUp, Poll
      <3> QED
        BY <2>4, <3>1 DEF AllUp, Waits, all_attempted
    <2> QED
      BY <2>1, <2>2, <2>3, <2>4 DEF AllUp, config, actors, submissions, history
  <1>5. ASSUME NEW c \in Callers, NEW u \in Uniques \cup {NoUnique}, Select(c, u)
        PROVE  AllUp'
    <2>1. PICK order \in Seq(Servers) :
             /\ todo' = [todo EXCEPT ![c] = order]
             /\ ByRing(u) => order # <<>> /\ Head(order) = At(ring, home[u])
      BY <1>5, SelectFindsAll
    <2>2. /\ call' = [call EXCEPT ![c] = "selecting"] /\ unique' = [unique EXCEPT ![c] = u]
          /\ phase = "ready"
          /\ UNCHANGED <<in_order, selection, ring, home, connected, attempted, phase, clean,
                         route>>
      BY <1>5 DEF Select, config, actors
    <2>3. ASSUME NEW k \in Callers, k # c
          PROVE  call'[k] = call[k] /\ todo'[k] = todo[k] /\ unique'[k] = unique[k]
      BY <1>1, <2>1, <2>2, <2>3 DEF TypeOK
    <2>4. todo'[c] = order /\ unique'[c] = u
      BY <1>1, <2>1, <2>2 DEF TypeOK
    <2>5. ASSUME in_order, clean, NEW k \in Callers, call'[k] = "selecting", ByRing(unique'[k])
          PROVE  todo'[k] # <<>> /\ Head(todo'[k]) = At(ring, home[unique'[k]])
      <3>1. CASE k = c
        BY <2>1, <2>4, <2>5, <3>1
      <3>2. CASE k # c
        BY <2>3, <2>5, <3>2 DEF AllUp
      <3> QED
        BY <3>1, <3>2
    <2>6. \A k \in Callers : call'[k] = "selecting" => phase' = "ready"
      BY <2>2
    <2> QED
      BY <2>2, <2>5, <2>6 DEF AllUp, ByRing
  <1>6. ASSUME NEW c \in Callers, Test(c)
        PROVE  AllUp'
    <2> DEFINE s == Head(todo[c])  u == unique[c]
    <2>1. /\ todo[c] \in Seq(Servers) /\ todo[c] # <<>> /\ call[c] = "selecting"
          /\ u \in Uniques \cup {NoUnique}
      BY <1>1, <1>6 DEF TypeOK, Test
    <2>2. UNCHANGED <<in_order, selection, ring, home, connected, attempted, phase, clean>>
      BY <1>6 DEF Test, config, actors
    <2>3. in_order /\ clean /\ ByRing(u) => s = At(ring, home[u]) /\ connected[s]
      <3>1. s \in Servers
        BY <2>1
      <3> QED
        BY <2>1, <3>1 DEF AllUp, ByRing
    <2>4. CASE connected[s]
      <3>1. /\ call' = [call EXCEPT ![c] = "idle"]
            /\ todo' = [todo EXCEPT ![c] = <<>>]
            /\ unique' = [unique EXCEPT ![c] = NoUnique]
            /\ route' = IF ByRing(u) /\ clean THEN [route EXCEPT ![u] = @ \cup {s}] ELSE route
        BY <1>6, <2>4 DEF Test
      <3>2. ASSUME NEW k \in Callers, k # c
            PROVE  call'[k] = call[k] /\ todo'[k] = todo[k] /\ unique'[k] = unique[k]
        BY <1>1, <3>1, <3>2 DEF TypeOK
      <3>3. call'[c] = "idle"
        BY <1>1, <3>1 DEF TypeOK
      <3>4. ASSUME in_order, NEW v \in Uniques PROVE route'[v] \subseteq {At(ring, home[v])}
        <4>1. route[v] \subseteq {At(ring, home[v])}
          BY <3>4 DEF AllUp
        <4>2. CASE ByRing(u) /\ clean /\ u = v
          <5>1. route'[v] = route[v] \cup {s}
            BY <1>1, <3>1, <4>2 DEF TypeOK
          <5> QED
            BY <2>3, <3>4, <4>1, <4>2, <5>1
        <4>3. CASE ~(ByRing(u) /\ clean /\ u = v)
          <5>1. route'[v] = route[v]
            BY <1>1, <3>1, <4>3 DEF TypeOK
          <5> QED
            BY <4>1, <5>1
        <4> QED
          BY <4>2, <4>3
      <3>5. \A k \in Callers : call'[k] = "selecting" =>
               k # c /\ call[k] = "selecting" /\ todo'[k] = todo[k] /\ unique'[k] = unique[k]
        BY <3>2, <3>3
      <3> QED
        BY <2>2, <3>4, <3>5 DEF AllUp, ByRing
    <2>5. CASE ~connected[s]
      <3>1. todo' = [todo EXCEPT ![c] = Tail(todo[c])] /\ UNCHANGED <<call, unique, route>>
        BY <1>6, <2>5 DEF Test
      <3>2. ASSUME NEW k \in Callers, k # c PROVE todo'[k] = todo[k]
        BY <1>1, <3>1, <3>2 DEF TypeOK
      <3>3. ~(in_order /\ clean /\ ByRing(u))
        BY <2>3, <2>5
      <3> QED
        BY <2>2, <3>1, <3>2, <3>3 DEF AllUp, ByRing
    <2> QED
      BY <2>4, <2>5
  <1>7. ASSUME NEW c \in Callers, NoneHealthy(c)
        PROVE  AllUp'
    <2>1. /\ call' = [call EXCEPT ![c] = "no_servers"]
          /\ UNCHANGED <<in_order, selection, ring, home, connected, attempted, phase, clean,
                         route, todo, unique>>
      BY <1>7 DEF NoneHealthy, config, actors, history
    <2>2. \A k \in Callers : call'[k] = "selecting" => call[k] = "selecting"
      BY <1>1, <2>1 DEF TypeOK
    <2> QED
      BY <2>1, <2>2 DEF AllUp, ByRing
  <1>8. CASE UNCHANGED vars
    BY <1>8 DEF vars, AllUp, ByRing, config, actors, submissions, history
  <1> QED
    BY <1>2, <1>3, <1>4, <1>5, <1>6, <1>7, <1>8 DEF Next, Submissions

\* As long as no server has failed and connect kept its deadline, a unique id goes to
\* one server, whatever the tasks submit, where a task's stores show in program order
\* (connect's wait for every attempt, run_server_actor's order of stores).
THEOREM UniqueIdsKeepTheirServer == Spec => []OneServerPerUniqueInOrder
  <1>1. Init => AllUp
    BY DEF Init, AllUp
  <1>2. AllUp /\ PoolTypes => OneServerPerUniqueInOrder
    <2> SUFFICES ASSUME AllUp, PoolTypes, in_order, NEW u \in Uniques
                 PROVE  Cardinality(route[u]) <= 1
      BY DEF OneServerPerUniqueInOrder, OneServerPerUnique
    <2> DEFINE T == {At(ring, home[u])}
    <2>1. route[u] \subseteq T
      BY DEF AllUp
    <2>2. IsFiniteSet(T) /\ Cardinality(T) = 1
      BY FS_Singleton
    <2>3. Cardinality(route[u]) <= Cardinality(T)
      BY <2>1, <2>2, FS_Subset
    <2> QED
      BY <2>2, <2>3
  <1> QED
    BY <1>1, <1>2, AllUpStep, PoolTyped, PTL DEF Spec

=============================================================================
