---------------------- MODULE WebSocketHandshake_proofs ----------------------
(***************************************************************************)
(* Proofs about WebSocketHandshake, for every set of names and headers,    *)
(* every peer and every number of connections and requests.                *)
(*                                                                         *)
(* Lists of names may be as long as they like. What is computed from a     *)
(* list is proved by induction: a set of numbers, or of sequences, that    *)
(* holds the first and the next of each holds all (Induction and           *)
(* SequenceInduction). The library's theorems of induction take an         *)
(* operator, which no prover can instantiate; a set does as well.          *)
(***************************************************************************)
EXTENDS WebSocketHandshake, SequenceTheorems, WellFoundedInduction, TLAPS

-----------------------------------------------------------------------------
(* Induction over numbers, without an operator as parameter, from a        *)
(* smallest counterexample.                                                *)
LEMMA Smallest ==
  ASSUME NEW T, T \subseteq Nat, T # {}
  PROVE  \E x \in T : \A y \in T : x <= y
<1> DEFINE R == OpToRel(<, Nat)
<1>1. IsWellFoundedOn(R, Nat)
  BY NatLessThanWellFounded, Zenon
<1>2. \A i, j \in Nat : i < j => <<i, j>> \in R
  BY DEF OpToRel
<1> HIDE DEF R
<1>3. PICK x \in T : \A y \in T : ~ (<<y, x>> \in R)
  BY <1>1, WFMin, Zenon
<1>4. \A y \in T : ~(y < x)
  BY <1>2, <1>3
<1> QED BY <1>4

LEMMA Induction ==
  ASSUME NEW S, 0 \in S, \A n \in Nat : n \in S => n + 1 \in S
  PROVE  Nat \subseteq S
<1> SUFFICES ASSUME Nat \ S # {} PROVE FALSE
  OBVIOUS
<1>1. PICK x \in Nat \ S : \A y \in Nat \ S : x <= y
  BY Smallest
<1>2. x - 1 \in Nat /\ x - 1 \in S
  BY <1>1
<1> QED BY <1>1, <1>2

-----------------------------------------------------------------------------
(* What FlattenSeq() computes.                                             *)

Flattens(f, ss, n) == f = [i \in 1 .. n |-> IF i = 1 THEN ss[i] ELSE f[i-1] \o ss[i]]

LEMMA FlattenExists ==
  ASSUME NEW ss, NEW n \in Nat
  PROVE  \E f : Flattens(f, ss, n)
<1> DEFINE S == {m \in Nat : \E f : Flattens(f, ss, m)}
<1>1. 0 \in S
  <2>1. Flattens([i \in 1 .. 0 |-> 0], ss, 0)
    BY DEF Flattens
  <2> QED BY <2>1
<1>2. ASSUME NEW m \in Nat, m \in S PROVE m + 1 \in S
  <2>1. PICK f : Flattens(f, ss, m)
    BY <1>2
  <2> DEFINE last == IF m + 1 = 1 THEN ss[m + 1] ELSE f[m] \o ss[m + 1]
             g == [i \in 1 .. m + 1 |-> IF i = m + 1 THEN last ELSE f[i]]
  <2>2. \A i \in 1 .. m : g[i] = f[i]
    BY Z3
  <2>3. g[m + 1] = last
    OBVIOUS
  <2>4. \A i \in 1 .. m : f[i] = IF i = 1 THEN ss[i] ELSE f[i-1] \o ss[i]
    BY <2>1 DEF Flattens
  <2>5. ASSUME NEW i \in 1 .. m + 1
        PROVE  g[i] = IF i = 1 THEN ss[i] ELSE g[i-1] \o ss[i]
    <3> HIDE DEF g
    <3>1. CASE i = m + 1
      <4>1. i # 1 => i - 1 = m /\ m \in 1 .. m
        BY <3>1
      <4> QED BY <3>1, <4>1, <2>2, <2>3
    <3>2. CASE i # m + 1
      <4>1. i \in 1 .. m /\ (i # 1 => i - 1 \in 1 .. m)
        BY <3>2
      <4> QED BY <4>1, <2>2, <2>4
    <3> QED BY <3>1, <3>2
  <2>6. Flattens(g, ss, m + 1)
    <3>1. g = [i \in 1 .. m + 1 |-> g[i]]
      OBVIOUS
    <3> HIDE DEF g
    <3> QED BY <3>1, <2>5 DEF Flattens
  <2> QED BY <2>6
<1> HIDE DEF S
<1>3. Nat \subseteq S
  BY <1>1, <1>2, Induction
<1> QED BY <1>3 DEF S

LEMMA FlattenUnique ==
  ASSUME NEW ss, NEW n \in Nat, NEW f, NEW g, Flattens(f, ss, n), Flattens(g, ss, n)
  PROVE  f = g
<1> DEFINE S == {m \in Nat : m \in 1 .. n => f[m] = g[m]}
<1>0. /\ \A i \in 1 .. n : f[i] = IF i = 1 THEN ss[i] ELSE f[i-1] \o ss[i]
      /\ \A i \in 1 .. n : g[i] = IF i = 1 THEN ss[i] ELSE g[i-1] \o ss[i]
  BY DEF Flattens
<1>1. 0 \in S
  OBVIOUS
<1>2. ASSUME NEW m \in Nat, m \in S PROVE m + 1 \in S
  <2> SUFFICES ASSUME m + 1 \in 1 .. n PROVE f[m + 1] = g[m + 1]
    OBVIOUS
  <2>1. CASE m = 0
    BY <2>1, <1>0
  <2>2. CASE m # 0
    <3>1. m + 1 # 1 /\ (m + 1) - 1 = m /\ m \in 1 .. n
      BY <2>2
    <3> QED BY <3>1, <1>0, <1>2
  <2> QED BY <2>1, <2>2
<1> HIDE DEF S
<1>3. Nat \subseteq S
  BY <1>1, <1>2, Induction
<1>4. \A m \in 1 .. n : f[m] = g[m]
  BY <1>3 DEF S
<1> QED BY <1>4 DEF Flattens

LEMMA FlattenIs ==
  ASSUME NEW ss, Len(ss) \in Nat, Len(ss) # 0, NEW f, Flattens(f, ss, Len(ss))
  PROVE  FlattenSeq(ss) = f[Len(ss)]
<1> DEFINE n == Len(ss)
           h == CHOOSE g : Flattens(g, ss, n)
<1>1. Flattens(h, ss, n)
  BY Zenon
<1> HIDE DEF h
<1>2. h = f
  BY <1>1, FlattenUnique
<1>3. FlattenSeq(ss) = h[n]
  BY DEF FlattenSeq, h, Flattens
<1> QED BY <1>2, <1>3

LEMMA FlattenEmpty == FlattenSeq(<<>>) = <<>>
BY DEF FlattenSeq

LEMMA FlattenAppend ==
  ASSUME NEW V, NEW ss \in Seq(Seq(V)), NEW x \in Seq(V)
  PROVE  FlattenSeq(Append(ss, x)) = FlattenSeq(ss) \o x
<1> DEFINE n == Len(ss)
           tt == Append(ss, x)
<1>1. n \in Nat /\ Len(tt) = n + 1 /\ tt[n + 1] = x /\ \A i \in 1 .. n : tt[i] = ss[i]
  OBVIOUS
<1> HIDE DEF tt
<1>2. PICK f : Flattens(f, tt, n + 1)
  <2>1. n + 1 \in Nat
    BY <1>1
  <2> QED BY <2>1, FlattenExists, Zenon
<1>3. FlattenSeq(tt) = f[n + 1]
  BY <1>1, <1>2, FlattenIs
<1>4. \A i \in 1 .. n + 1 : f[i] = IF i = 1 THEN tt[i] ELSE f[i-1] \o tt[i]
  BY <1>2 DEF Flattens
<1>5. CASE n = 0
  <2>1. f[1] = x
    BY <1>1, <1>4, <1>5
  <2>2. ss = <<>>
    BY <1>5
  <2>3. <<>> \o x = x
    OBVIOUS
  <2> QED BY <1>3, <1>5, <2>1, <2>2, <2>3, FlattenEmpty DEF tt
<1>6. CASE n # 0
  <2> DEFINE g == [i \in 1 .. n |-> f[i]]
  <2>1. \A i \in 1 .. n : g[i] = f[i] /\ (i # 1 => i - 1 \in 1 .. n)
    BY <1>1
  <2>2. ASSUME NEW i \in 1 .. n
        PROVE  g[i] = IF i = 1 THEN ss[i] ELSE g[i-1] \o ss[i]
    <3>1. i \in 1 .. n + 1
      BY <1>1
    <3>2. f[i] = IF i = 1 THEN ss[i] ELSE f[i-1] \o ss[i]
      BY <3>1, <1>1, <1>4
    <3> HIDE DEF g
    <3> QED BY <2>1, <3>2
  <2>3. Flattens(g, ss, n)
    <3>1. g = [i \in 1 .. n |-> g[i]]
      OBVIOUS
    <3> HIDE DEF g
    <3> QED BY <3>1, <2>2 DEF Flattens
  <2>4. FlattenSeq(ss) = g[n] /\ g[n] = f[n]
    <3> HIDE DEF g
    <3> QED BY <2>1, <2>3, <1>1, <1>6, FlattenIs
  <2>5. n + 1 # 1 /\ (n + 1) - 1 = n
    BY <1>1, <1>6
  <2>6. f[n + 1] = f[n] \o x
    <3>1. n + 1 \in 1 .. n + 1
      BY <1>1
    <3>2. f[n + 1] = IF n + 1 = 1 THEN tt[n + 1] ELSE f[(n + 1) - 1] \o tt[n + 1]
      BY <3>1, <1>4, Zenon
    <3> QED BY <1>1, <2>5, <3>2, Zenon
  <2> HIDE DEF g
  <2> QED BY <1>3, <2>4, <2>6 DEF tt
<1> QED BY <1>5, <1>6

LEMMA SequenceInduction ==
  ASSUME NEW V, NEW P, <<>> \in P, \A s \in Seq(V), x \in V : s \in P => Append(s, x) \in P
  PROVE  Seq(V) \subseteq P
<1> DEFINE S == {n \in Nat : \A s \in Seq(V) : Len(s) = n => s \in P}
<1>1. 0 \in S
  BY EmptySeq
<1>2. ASSUME NEW n \in Nat, n \in S PROVE n + 1 \in S
  <2> SUFFICES ASSUME NEW s \in Seq(V), Len(s) = n + 1 PROVE s \in P
    OBVIOUS
  <2> DEFINE t == SubSeq(s, 1, n)
             x == s[n + 1]
  <2>1. t \in Seq(V) /\ Len(t) = n /\ x \in V /\ \A i \in 1 .. n : t[i] = s[i]
    OBVIOUS
  <2>2. t \in P
    BY <1>2, <2>1
  <2>3. Append(t, x) \in Seq(V) /\ Len(Append(t, x)) = n + 1
        /\ \A i \in 1 .. n + 1 : Append(t, x)[i] = IF i = n + 1 THEN x ELSE t[i]
    <3> HIDE DEF t, x
    <3> QED BY <2>1, AppendProperties
  <2>4. \A i \in 1 .. n + 1 : Append(t, x)[i] = s[i]
    BY <2>1, <2>3
  <2>5. Append(t, x) = s
    <3> HIDE DEF t, x
    <3> QED BY <2>3, <2>4, SeqEqual
  <2>6. Append(t, x) \in P
    <3> HIDE DEF t, x
    <3> QED BY <2>1, <2>2
  <2> QED BY <2>5, <2>6
<1> HIDE DEF S
<1>3. Nat \subseteq S
  BY <1>1, <1>2, Induction
<1> QED BY <1>3, LenProperties DEF S

LEMMA FlattenType ==
  ASSUME NEW V, NEW ss \in Seq(Seq(V))
  PROVE  FlattenSeq(ss) \in Seq(V)
<1> DEFINE P == {tt \in Seq(Seq(V)) : FlattenSeq(tt) \in Seq(V)}
<1>1. <<>> \in P
  <2>1. <<>> \in Seq(Seq(V)) /\ <<>> \in Seq(V)
    OBVIOUS
  <2> QED BY <2>1, FlattenEmpty
<1>2. ASSUME NEW tt \in Seq(Seq(V)), NEW x \in Seq(V), tt \in P
      PROVE  Append(tt, x) \in P
  <2>1. FlattenSeq(Append(tt, x)) = FlattenSeq(tt) \o x
    BY FlattenAppend
  <2>2. FlattenSeq(tt) \in Seq(V)
    BY <1>2
  <2>3. FlattenSeq(tt) \o x \in Seq(V)
    BY <2>2, ConcatProperties
  <2>4. Append(tt, x) \in Seq(Seq(V))
    BY AppendProperties
  <2> QED BY <2>1, <2>3, <2>4, Zenon
<1> HIDE DEF P
<1>3. Seq(Seq(V)) \subseteq P
  BY <1>1, <1>2, SequenceInduction
<1> QED BY <1>3 DEF P

LEMMA ConcatElements ==
  ASSUME NEW V, NEW s \in Seq(V), NEW t \in Seq(V), NEW x
  PROVE  x \in ToSet(s \o t) <=> x \in ToSet(s) \/ x \in ToSet(t)
<1> DEFINE u == s \o t
<1>1. /\ Len(s) \in Nat /\ Len(t) \in Nat /\ Len(u) = Len(s) + Len(t)
      /\ DOMAIN s = 1 .. Len(s) /\ DOMAIN t = 1 .. Len(t) /\ DOMAIN u = 1 .. Len(u)
      /\ \A i \in 1 .. Len(u) : u[i] = IF i <= Len(s) THEN s[i] ELSE t[i - Len(s)]
  BY ConcatProperties, LenProperties
<1> HIDE DEF u
<1>2. ASSUME x \in ToSet(u) PROVE x \in ToSet(s) \/ x \in ToSet(t)
  <2>1. PICK i \in 1 .. Len(u) : x = u[i]
    BY <1>1, <1>2 DEF ToSet
  <2>2. CASE i <= Len(s)
    <3>1. i \in 1 .. Len(s) /\ x = s[i]
      BY <1>1, <2>1, <2>2
    <3> QED BY <1>1, <3>1 DEF ToSet
  <2>3. CASE ~(i <= Len(s))
    <3>1. i - Len(s) \in 1 .. Len(t) /\ x = t[i - Len(s)]
      BY <1>1, <2>1, <2>3
    <3> QED BY <1>1, <3>1 DEF ToSet
  <2> QED BY <2>2, <2>3
<1>3. ASSUME x \in ToSet(s) PROVE x \in ToSet(u)
  <2>1. PICK i \in 1 .. Len(s) : x = s[i]
    BY <1>1, <1>3 DEF ToSet
  <2>2. i \in 1 .. Len(u) /\ u[i] = x
    BY <1>1, <2>1
  <2> QED BY <1>1, <2>2 DEF ToSet
<1>4. ASSUME x \in ToSet(t) PROVE x \in ToSet(u)
  <2>1. PICK i \in 1 .. Len(t) : x = t[i]
    BY <1>1, <1>4 DEF ToSet
  <2>2. i + Len(s) \in 1 .. Len(u) /\ u[i + Len(s)] = t[(i + Len(s)) - Len(s)]
        /\ (i + Len(s)) - Len(s) = i
    BY <1>1, <2>1
  <2> QED BY <1>1, <2>1, <2>2 DEF ToSet
<1> QED BY <1>2, <1>3, <1>4 DEF u

LEMMA FlattenElements ==
  ASSUME NEW V, NEW ss \in Seq(Seq(V)), NEW x
  PROVE  x \in ToSet(FlattenSeq(ss)) <=> \E i \in DOMAIN ss : x \in ToSet(ss[i])
<1> DEFINE Has(tt) == \E i \in DOMAIN tt : x \in ToSet(tt[i])
           P == {tt \in Seq(Seq(V)) : x \in ToSet(FlattenSeq(tt)) <=> Has(tt)}
<1>1. <<>> \in P
  <2>1. <<>> \in Seq(Seq(V)) /\ DOMAIN <<>> = {}
    OBVIOUS
  <2>2. ~Has(<<>>) /\ x \notin ToSet(FlattenSeq(<<>>))
    BY <2>1, FlattenEmpty DEF ToSet
  <2> QED BY <2>1, <2>2
<1>2. ASSUME NEW tt \in Seq(Seq(V)), NEW y \in Seq(V), tt \in P
      PROVE  Append(tt, y) \in P
  <2>1. FlattenSeq(Append(tt, y)) = FlattenSeq(tt) \o y
    BY FlattenAppend
  <2>2. x \in ToSet(FlattenSeq(Append(tt, y))) <=> Has(tt) \/ x \in ToSet(y)
    <3>1. FlattenSeq(tt) \in Seq(V)
      BY FlattenType
    <3>2. x \in ToSet(FlattenSeq(tt) \o y) <=> x \in ToSet(FlattenSeq(tt)) \/ x \in ToSet(y)
      BY <3>1, ConcatElements
    <3>3. x \in ToSet(FlattenSeq(tt)) <=> Has(tt)
      BY <1>2
    <3> HIDE DEF Has
    <3> QED BY <2>1, <3>2, <3>3
  <2> DEFINE uu == Append(tt, y)
  <2>3. /\ Len(tt) \in Nat /\ DOMAIN tt = 1 .. Len(tt) /\ DOMAIN uu = 1 .. Len(tt) + 1
        /\ uu[Len(tt) + 1] = y /\ \A i \in 1 .. Len(tt) : uu[i] = tt[i]
        /\ uu \in Seq(Seq(V))
    BY AppendProperties, LenProperties
  <2> HIDE DEF uu
  <2>4. ASSUME Has(uu) PROVE Has(tt) \/ x \in ToSet(y)
    <3>1. PICK i \in 1 .. Len(tt) + 1 : x \in ToSet(uu[i])
      BY <2>3, <2>4
    <3>2. CASE i = Len(tt) + 1
      BY <2>3, <3>1, <3>2
    <3>3. CASE i # Len(tt) + 1
      <4>1. i \in 1 .. Len(tt)
        BY <2>3, <3>3
      <4> QED BY <2>3, <3>1, <4>1
    <3> QED BY <3>2, <3>3
  <2>5. Has(tt) => Has(uu)
    BY <2>3
  <2>6. x \in ToSet(y) => Has(uu)
    <3>1. Len(tt) + 1 \in DOMAIN uu
      BY <2>3
    <3> QED BY <2>3, <3>1
  <2>7. Has(uu) <=> Has(tt) \/ x \in ToSet(y)
    <3> HIDE DEF Has
    <3> QED BY <2>4, <2>5, <2>6
  <2> HIDE DEF Has
  <2> QED BY <2>2, <2>3, <2>7 DEF uu
<1> HIDE DEF P
<1>3. Seq(Seq(V)) \subseteq P
  BY <1>1, <1>2, SequenceInduction
<1> QED BY <1>3 DEF P

-----------------------------------------------------------------------------
(* What Among() computes.                                                  *)

Selects(f, s, S, n) ==
  f = [i \in 0 .. n |-> IF i = 0 THEN <<>>
                        ELSE IF s[i] \in S THEN Append(f[i-1], s[i]) ELSE f[i-1]]

LEMMA SelectsExists ==
  ASSUME NEW s, NEW S, NEW n \in Nat
  PROVE  \E f : Selects(f, s, S, n)
<1> DEFINE N == {m \in Nat : \E f : Selects(f, s, S, m)}
<1>1. 0 \in N
  <2> DEFINE f == [i \in 0 .. 0 |-> <<>>]
  <2>1. \A i \in 0 .. 0 : i = 0
    OBVIOUS
  <2>2. f = [i \in 0 .. 0 |-> IF i = 0 THEN <<>>
                              ELSE IF s[i] \in S THEN Append(f[i-1], s[i]) ELSE f[i-1]]
    BY <2>1
  <2>3. Selects(f, s, S, 0)
    BY <2>2 DEF Selects
  <2> QED BY <2>3
<1>2. ASSUME NEW m \in Nat, m \in N PROVE m + 1 \in N
  <2>1. PICK f : Selects(f, s, S, m)
    BY <1>2
  <2> DEFINE last == IF s[m + 1] \in S THEN Append(f[m], s[m + 1]) ELSE f[m]
             g == [i \in 0 .. m + 1 |-> IF i = m + 1 THEN last ELSE f[i]]
  <2>2. \A i \in 0 .. m : g[i] = f[i]
    BY Z3
  <2>3. g[m + 1] = last
    OBVIOUS
  <2>4. \A i \in 0 .. m : f[i] = IF i = 0 THEN <<>>
                                 ELSE IF s[i] \in S THEN Append(f[i-1], s[i]) ELSE f[i-1]
    BY <2>1 DEF Selects
  <2>5. ASSUME NEW i \in 0 .. m + 1
        PROVE  g[i] = IF i = 0 THEN <<>>
                      ELSE IF s[i] \in S THEN Append(g[i-1], s[i]) ELSE g[i-1]
    <3> HIDE DEF g
    <3>1. CASE i = m + 1
      <4>1. i # 0 /\ i - 1 = m /\ m \in 0 .. m
        BY <3>1
      <4> QED BY <3>1, <4>1, <2>2, <2>3
    <3>2. CASE i # m + 1
      <4>1. i \in 0 .. m /\ (i # 0 => i - 1 \in 0 .. m)
        BY <3>2
      <4> QED BY <4>1, <2>2, <2>4
    <3> QED BY <3>1, <3>2
  <2>6. Selects(g, s, S, m + 1)
    <3>1. g = [i \in 0 .. m + 1 |-> g[i]]
      OBVIOUS
    <3> HIDE DEF g
    <3> QED BY <3>1, <2>5 DEF Selects
  <2> QED BY <2>6
<1> HIDE DEF N
<1>3. Nat \subseteq N
  BY <1>1, <1>2, Induction
<1> QED BY <1>3 DEF N

LEMMA SelectsUnique ==
  ASSUME NEW s, NEW S, NEW n \in Nat, NEW f, NEW g, Selects(f, s, S, n), Selects(g, s, S, n)
  PROVE  f = g
<1> DEFINE N == {m \in Nat : m \in 0 .. n => f[m] = g[m]}
<1>0. /\ \A i \in 0 .. n : f[i] = IF i = 0 THEN <<>>
                                ELSE IF s[i] \in S THEN Append(f[i-1], s[i]) ELSE f[i-1]
      /\ \A i \in 0 .. n : g[i] = IF i = 0 THEN <<>>
                                ELSE IF s[i] \in S THEN Append(g[i-1], s[i]) ELSE g[i-1]
  BY DEF Selects
<1>1. 0 \in N
  BY <1>0
<1>2. ASSUME NEW m \in Nat, m \in N PROVE m + 1 \in N
  <2> SUFFICES ASSUME m + 1 \in 0 .. n PROVE f[m + 1] = g[m + 1]
    OBVIOUS
  <2>1. m + 1 # 0 /\ (m + 1) - 1 = m /\ m \in 0 .. n
    OBVIOUS
  <2> QED BY <2>1, <1>0, <1>2
<1> HIDE DEF N
<1>3. Nat \subseteq N
  BY <1>1, <1>2, Induction
<1>4. \A m \in 0 .. n : f[m] = g[m]
  BY <1>3 DEF N
<1> QED BY <1>4 DEF Selects

LEMMA AmongIs ==
  ASSUME NEW s, NEW S, Len(s) \in Nat, NEW f, Selects(f, s, S, Len(s))
  PROVE  Among(s, S) = f[Len(s)]
<1> DEFINE n == Len(s)
           h == CHOOSE g : Selects(g, s, S, n)
<1>1. Selects(h, s, S, n)
  BY Zenon
<1> HIDE DEF h
<1>2. h = f
  BY <1>1, SelectsUnique
<1>3. Among(s, S) = h[n]
  BY DEF Among, h, Selects
<1> QED BY <1>2, <1>3

LEMMA AmongEmpty == \A S : Among(<<>>, S) = <<>>
<1> TAKE S
<1>1. PICK f : Selects(f, <<>>, S, 0)
  BY SelectsExists
<1>2. Len(<<>>) = 0
  OBVIOUS
<1>3. Among(<<>>, S) = f[0]
  BY <1>1, <1>2, AmongIs
<1> QED BY <1>1, <1>3 DEF Selects

LEMMA AmongAppend ==
  ASSUME NEW V, NEW s \in Seq(V), NEW x \in V, NEW S
  PROVE  Among(Append(s, x), S) = IF x \in S THEN Append(Among(s, S), x) ELSE Among(s, S)
<1> DEFINE n == Len(s)
           t == Append(s, x)
<1>1. n \in Nat /\ Len(t) = n + 1 /\ t[n + 1] = x /\ \A i \in 1 .. n : t[i] = s[i]
  OBVIOUS
<1> HIDE DEF t
<1>2. PICK f : Selects(f, t, S, n + 1)
  <2>1. n + 1 \in Nat
    BY <1>1
  <2> QED BY <2>1, SelectsExists, Zenon
<1>3. Among(t, S) = f[n + 1]
  BY <1>1, <1>2, AmongIs
<1>4. \A i \in 0 .. n + 1 : f[i] = IF i = 0 THEN <<>>
                                ELSE IF t[i] \in S THEN Append(f[i-1], t[i]) ELSE f[i-1]
  BY <1>2 DEF Selects
<1> DEFINE g == [i \in 0 .. n |-> f[i]]
<1>5. \A i \in 0 .. n : g[i] = f[i] /\ (i # 0 => i - 1 \in 0 .. n /\ i \in 1 .. n)
  BY <1>1
<1>6. ASSUME NEW i \in 0 .. n
      PROVE  g[i] = IF i = 0 THEN <<>>
                    ELSE IF s[i] \in S THEN Append(g[i-1], s[i]) ELSE g[i-1]
  <2>1. i \in 0 .. n + 1
    BY <1>1
  <2>2. f[i] = IF i = 0 THEN <<>> ELSE IF t[i] \in S THEN Append(f[i-1], t[i]) ELSE f[i-1]
    BY <2>1, <1>4
  <2> HIDE DEF g
  <2> QED BY <1>1, <1>5, <2>2
<1>7. Selects(g, s, S, n)
  <2>1. g = [i \in 0 .. n |-> g[i]]
    OBVIOUS
  <2> HIDE DEF g
  <2> QED BY <2>1, <1>6 DEF Selects
<1>8. Among(s, S) = g[n] /\ g[n] = f[n]
  <2> HIDE DEF g
  <2> QED BY <1>1, <1>5, <1>7, AmongIs
<1>9. f[n + 1] = IF x \in S THEN Append(f[n], x) ELSE f[n]
  <2>1. n + 1 \in 0 .. n + 1 /\ n + 1 # 0 /\ (n + 1) - 1 = n
    BY <1>1
  <2>2. f[n + 1] = IF n + 1 = 0 THEN <<>>
                   ELSE IF t[n + 1] \in S THEN Append(f[(n + 1) - 1], t[n + 1])
                   ELSE f[(n + 1) - 1]
    BY <2>1, <1>4, Zenon
  <2> QED BY <1>1, <2>1, <2>2, Zenon
<1> HIDE DEF g
<1> QED BY <1>3, <1>8, <1>9 DEF t

LEMMA AmongType ==
  ASSUME NEW V, NEW s \in Seq(V), NEW S
  PROVE  Among(s, S) \in Seq(V \cap S)
<1> DEFINE P == {t \in Seq(V) : Among(t, S) \in Seq(V \cap S)}
<1>1. <<>> \in P
  <2>1. <<>> \in Seq(V) /\ <<>> \in Seq(V \cap S)
    OBVIOUS
  <2> QED BY <2>1, AmongEmpty
<1>2. ASSUME NEW t \in Seq(V), NEW x \in V, t \in P
      PROVE  Append(t, x) \in P
  <2> DEFINE a == Among(t, S)
             b == Among(Append(t, x), S)
  <2>1. b = IF x \in S THEN Append(a, x) ELSE a
    BY AmongAppend
  <2>2. a \in Seq(V \cap S)
    BY <1>2
  <2> HIDE DEF a, b
  <2>3. x \in S => Append(a, x) \in Seq(V \cap S)
    BY <2>2, AppendProperties
  <2>4. b \in Seq(V \cap S)
    BY <2>1, <2>2, <2>3, Zenon
  <2>5. Append(t, x) \in Seq(V)
    BY AppendProperties
  <2> QED BY <2>4, <2>5 DEF b
<1> HIDE DEF P
<1>3. Seq(V) \subseteq P
  BY <1>1, <1>2, SequenceInduction
<1> QED BY <1>3 DEF P

LEMMA AmongSeq ==
  ASSUME NEW V, NEW s \in Seq(V), NEW S
  PROVE  Among(s, S) \in Seq(V)
<1>1. Among(s, S) \in Seq(V \cap S)
  BY AmongType
<1>2. Seq(V \cap S) \subseteq Seq(V)
  <2>1. V \cap S \subseteq V
    OBVIOUS
  <2> QED BY <2>1, SeqMonotonic, Zenon
<1> QED BY <1>1, <1>2

LEMMA AppendElements ==
  ASSUME NEW V, NEW s \in Seq(V), NEW x \in V, NEW y
  PROVE  y \in ToSet(Append(s, x)) <=> y \in ToSet(s) \/ y = x
<1> DEFINE t == Append(s, x)
<1>1. /\ Len(s) \in Nat /\ DOMAIN s = 1 .. Len(s) /\ DOMAIN t = 1 .. Len(s) + 1
      /\ t[Len(s) + 1] = x /\ \A i \in 1 .. Len(s) : t[i] = s[i]
  BY AppendProperties, LenProperties
<1> HIDE DEF t
<1>2. ASSUME y \in ToSet(t) PROVE y \in ToSet(s) \/ y = x
  <2>1. PICK i \in 1 .. Len(s) + 1 : y = t[i]
    BY <1>1, <1>2 DEF ToSet
  <2>2. i = Len(s) + 1 \/ i \in 1 .. Len(s)
    BY <1>1
  <2> QED BY <1>1, <2>1, <2>2 DEF ToSet
<1>3. ASSUME y \in ToSet(s) PROVE y \in ToSet(t)
  <2>1. PICK i \in 1 .. Len(s) : y = s[i]
    BY <1>1, <1>3 DEF ToSet
  <2>2. i \in 1 .. Len(s) + 1 /\ t[i] = y
    BY <1>1, <2>1
  <2> QED BY <1>1, <2>2 DEF ToSet
<1>4. ASSUME y = x PROVE y \in ToSet(t)
  <2>1. Len(s) + 1 \in DOMAIN t
    BY <1>1
  <2> QED BY <1>1, <1>4, <2>1 DEF ToSet
<1> QED BY <1>2, <1>3, <1>4 DEF t

LEMMA AmongElements ==
  ASSUME NEW V, NEW s \in Seq(V), NEW S, NEW x
  PROVE  x \in ToSet(Among(s, S)) <=> x \in ToSet(s) /\ x \in S
<1> DEFINE P == {t \in Seq(V) : x \in ToSet(Among(t, S)) <=> x \in ToSet(t) /\ x \in S}
<1>1. <<>> \in P
  <2>1. <<>> \in Seq(V) /\ DOMAIN <<>> = {}
    OBVIOUS
  <2> QED BY <2>1, AmongEmpty DEF ToSet
<1>2. ASSUME NEW t \in Seq(V), NEW y \in V, t \in P
      PROVE  Append(t, y) \in P
  <2> DEFINE a == Among(t, S)
             b == Among(Append(t, y), S)
  <2>1. b = IF y \in S THEN Append(a, y) ELSE a
    BY AmongAppend
  <2>2. a \in Seq(V \cap S) /\ (x \in ToSet(a) <=> x \in ToSet(t) /\ x \in S)
    BY <1>2, AmongType
  <2>3. x \in ToSet(Append(t, y)) <=> x \in ToSet(t) \/ x = y
    BY AppendElements
  <2> HIDE DEF a, b
  <2>4. y \in S => (x \in ToSet(Append(a, y)) <=> x \in ToSet(a) \/ x = y)
    BY <2>2, AppendElements
  <2>5. x \in ToSet(b) <=> x \in ToSet(Append(t, y)) /\ x \in S
    <3>1. CASE y \in S
      BY <3>1, <2>1, <2>2, <2>3, <2>4, Zenon
    <3>2. CASE y \notin S
      BY <3>2, <2>1, <2>2, <2>3, Zenon
    <3> QED BY <3>1, <3>2
  <2>6. Append(t, y) \in Seq(V)
    BY AppendProperties
  <2> QED BY <2>5, <2>6 DEF b
<1> HIDE DEF P
<1>3. Seq(V) \subseteq P
  BY <1>1, <1>2, SequenceInduction
<1> QED BY <1>3 DEF P

LEMMA ConcatAppend ==
  ASSUME NEW V, NEW s \in Seq(V), NEW t \in Seq(V), NEW x \in V
  PROVE  s \o Append(t, x) = Append(s \o t, x)
OBVIOUS

LEMMA AmongConcat ==
  ASSUME NEW V, NEW s \in Seq(V), NEW t \in Seq(V), NEW S
  PROVE  Among(s \o t, S) = Among(s, S) \o Among(t, S)
<1> DEFINE P == {u \in Seq(V) : Among(s \o u, S) = Among(s, S) \o Among(u, S)}
           a == Among(s, S)
<1>0. a \in Seq(V)
  BY AmongSeq
<1>1. <<>> \in P
  <2>1. s \o <<>> = s /\ <<>> \in Seq(V)
    BY ConcatEmptySeq
  <2>2. a \o <<>> = a
    BY <1>0, ConcatEmptySeq
  <2> QED BY <2>1, <2>2, AmongEmpty
<1>2. ASSUME NEW u \in Seq(V), NEW x \in V, u \in P
      PROVE  Append(u, x) \in P
  <2> DEFINE b == Among(u, S)
             c == Among(s \o u, S)
             d == Among(Append(u, x), S)
             e == Among(s \o Append(u, x), S)
  <2>1. d = IF x \in S THEN Append(b, x) ELSE b
    BY AmongAppend
  <2>2. b \in Seq(V) /\ c = a \o b
    BY <1>2, AmongSeq
  <2>3. e = IF x \in S THEN Append(c, x) ELSE c
    <3>1. s \o u \in Seq(V)
      BY ConcatProperties
    <3>2. Among(Append(s \o u, x), S) = IF x \in S THEN Append(c, x) ELSE c
      BY <3>1, AmongAppend
    <3>3. s \o Append(u, x) = Append(s \o u, x)
      BY ConcatAppend
    <3> QED BY <3>2, <3>3, Zenon
  <2>4. Append(u, x) \in Seq(V)
    BY AppendProperties
  <2>5. e = a \o d
    <3> HIDE DEF a, b, c, d, e
    <3>1. a \o Append(b, x) = Append(a \o b, x)
      BY <1>0, <2>2, ConcatAppend
    <3> QED BY <2>1, <2>2, <2>3, <3>1, Zenon
  <2> QED BY <2>4, <2>5
<1> HIDE DEF P
<1>3. Seq(V) \subseteq P
  BY <1>1, <1>2, SequenceInduction
<1> QED BY <1>3 DEF P

LEMMA AmongOfConcat ==
  \A V, T : \A s, t \in Seq(V) : Among(s \o t, T) = Among(s, T) \o Among(t, T)
BY AmongConcat

LEMMA AmongAmong ==
  ASSUME NEW V, NEW s \in Seq(V), NEW S, NEW T
  PROVE  Among(Among(s, S), T) = Among(s, S \cap T)
<1> DEFINE P == {t \in Seq(V) : Among(Among(t, S), T) = Among(t, S \cap T)}
<1>1. <<>> \in P
  BY AmongEmpty, EmptySeq
<1>2. ASSUME NEW t \in Seq(V), NEW x \in V, t \in P
      PROVE  Append(t, x) \in P
  <2> DEFINE a == Among(t, S)
             u == Append(t, x)
  <2>1. Among(u, S) = IF x \in S THEN Append(a, x) ELSE a
    BY AmongAppend
  <2>2. Among(u, S \cap T) = IF x \in S \cap T THEN Append(Among(t, S \cap T), x)
                             ELSE Among(t, S \cap T)
    BY AmongAppend
  <2>3. Among(a, T) = Among(t, S \cap T) /\ a \in Seq(V)
    BY <1>2, AmongSeq
  <2>4. u \in Seq(V)
    BY AppendProperties
  <2> HIDE DEF a, u
  <2>5. Among(Append(a, x), T) = IF x \in T THEN Append(Among(a, T), x) ELSE Among(a, T)
    BY <2>3, AmongAppend
  <2>6. Among(Among(u, S), T) = Among(u, S \cap T)
    <3>1. CASE x \notin S
      BY <3>1, <2>1, <2>2, <2>3, Zenon
    <3>2. CASE x \in S
      <4>1. x \in S \cap T <=> x \in T
        BY <3>2
      <4>2. Among(Among(u, S), T) = IF x \in T THEN Append(Among(a, T), x) ELSE Among(a, T)
        BY <3>2, <2>1, <2>5, Zenon
      <4> QED BY <4>1, <4>2, <2>2, <2>3, Zenon
    <3> QED BY <3>1, <3>2
  <2> QED BY <2>4, <2>6 DEF u
<1> HIDE DEF P
<1>3. Seq(V) \subseteq P
  BY <1>1, <1>2, SequenceInduction
<1> QED BY <1>3 DEF P

LEMMA Prefix ==
  ASSUME NEW V, NEW s \in Seq(V), NEW n \in Nat, n + 1 <= Len(s)
  PROVE  /\ SubSeq(s, 1, n) \in Seq(V) /\ Len(SubSeq(s, 1, n)) = n
         /\ \A i \in 1 .. n : SubSeq(s, 1, n)[i] = s[i]
         /\ s[n + 1] \in V
         /\ SubSeq(s, 1, n + 1) = Append(SubSeq(s, 1, n), s[n + 1])
<1> DEFINE t == SubSeq(s, 1, n)
           u == SubSeq(s, 1, n + 1)
<1>1. /\ t \in Seq(V) /\ Len(t) = n /\ \A i \in 1 .. n : t[i] = s[i]
      /\ u \in Seq(V) /\ Len(u) = n + 1 /\ \A i \in 1 .. n + 1 : u[i] = s[i]
      /\ s[n + 1] \in V
  OBVIOUS
<1>2. u = Append(t, s[n + 1])
  <2> HIDE DEF t, u
  <2>1. /\ Append(t, s[n + 1]) \in Seq(V) /\ Len(Append(t, s[n + 1])) = n + 1
        /\ Append(t, s[n + 1])[n + 1] = s[n + 1]
        /\ \A i \in 1 .. n : Append(t, s[n + 1])[i] = t[i]
    BY <1>1, AppendProperties
  <2>2. \A i \in 1 .. n + 1 : i = n + 1 \/ i \in 1 .. n
    OBVIOUS
  <2>3. \A i \in 1 .. n + 1 : u[i] = Append(t, s[n + 1])[i]
    BY <1>1, <2>1, <2>2
  <2> QED BY <1>1, <2>1, <2>3, SeqEqual
<1> QED BY <1>1, <1>2

LEMMA AmongFlatten ==
  ASSUME NEW V, NEW names \in Seq(V), NEW parts \in Seq(Seq(V)), Len(parts) = Len(names), NEW S,
         \A i \in 1 .. Len(names) :
           Among(parts[i], S) = IF names[i] \in S THEN <<names[i]>> ELSE <<>>
  PROVE  Among(FlattenSeq(parts), S) = Among(names, S)
<1> DEFINE Equal(n) == Among(FlattenSeq(SubSeq(parts, 1, n)), S) = Among(SubSeq(names, 1, n), S)
           N == {n \in Nat : n <= Len(names) => Equal(n)}
<1>0. Len(names) \in Nat
  BY LenProperties
<1>1. 0 \in N
  <2>1. SubSeq(parts, 1, 0) = <<>> /\ SubSeq(names, 1, 0) = <<>>
    BY <1>0
  <2> QED BY <2>1, FlattenEmpty
<1>2. ASSUME NEW n \in Nat, n \in N PROVE n + 1 \in N
  <2> SUFFICES ASSUME n + 1 <= Len(names) PROVE Equal(n + 1)
    OBVIOUS
  <2> DEFINE p == SubSeq(parts, 1, n)
             q == SubSeq(names, 1, n)
             x == names[n + 1]
             y == parts[n + 1]
  <2>1. p \in Seq(Seq(V)) /\ y \in Seq(V) /\ SubSeq(parts, 1, n + 1) = Append(p, y)
    BY Prefix
  <2>2. q \in Seq(V) /\ x \in V /\ SubSeq(names, 1, n + 1) = Append(q, x)
    BY Prefix
  <2>3. Equal(n)
    BY <1>0, <1>2
  <2>4. Among(y, S) = IF x \in S THEN <<x>> ELSE <<>>
    BY <1>0
  <2>5. FlattenSeq(p) \in Seq(V)
    <3> HIDE DEF p
    <3> QED BY <2>1, FlattenType
  <2> HIDE DEF p, q, x, y
  <2>6. Among(FlattenSeq(Append(p, y)), S) = Among(FlattenSeq(p), S) \o Among(y, S)
    <3> DEFINE f == FlattenSeq(p)
               g == FlattenSeq(Append(p, y))
    <3>1. g = f \o y
      BY <2>1, FlattenAppend
    <3>5. \A a, b \in Seq(V) : Among(a \o b, S) = Among(a, S) \o Among(b, S)
      BY ONLY AmongConcat
    <3>4. f \in Seq(V) /\ y \in Seq(V)
      BY <2>1, <2>5
    <3> HIDE DEF f, g
    <3>2. Among(f \o y, S) = Among(f, S) \o Among(y, S)
      BY <3>4, <3>5
    <3>3. Among(g, S) = Among(f, S) \o Among(y, S)
      BY <3>1, <3>2
    <3> QED BY <3>3 DEF f, g
  <2>7. Among(Append(q, x), S) = IF x \in S THEN Append(Among(q, S), x) ELSE Among(q, S)
    BY <2>2, AmongAppend
  <2>8. Among(FlattenSeq(p), S) = Among(q, S)
    BY <2>3 DEF p, q
  <2>9. Among(q, S) \in Seq(V)
    BY <2>2, AmongSeq
  <2>10. Among(q, S) \o Among(y, S) = Among(Append(q, x), S)
    <3> DEFINE a == Among(q, S)
    <3>1. a \o <<x>> = Append(a, x) /\ a \o <<>> = a
      <4> HIDE DEF a
      <4> QED BY <2>9, <2>2, AppendIsConcat, ConcatEmptySeq DEF a
    <3> QED BY <2>4, <2>7, <3>1, Zenon
  <2> QED BY <2>1, <2>2, <2>6, <2>8, <2>10, Zenon
<1> HIDE DEF N
<1>3. Nat \subseteq N
  BY <1>1, <1>2, Induction
<1>4. Equal(Len(names))
  BY <1>0, <1>3 DEF N
<1>5. SubSeq(parts, 1, Len(names)) = parts /\ SubSeq(names, 1, Len(names)) = names
  BY SubSeqFull
<1> QED BY <1>4, <1>5

-----------------------------------------------------------------------------
(* The first name that is supported.                                       *)

LEMMA FirstOfNames ==
  ASSUME NEW V, NEW s \in Seq(V), NEW p, p = FirstSupported(s)
  PROVE  \/ p = "" /\ ToSet(s) \cap m_supportedSubprotocols = {}
         \/ \E i \in 1 .. Len(s) : /\ s[i] = p /\ p \in m_supportedSubprotocols
                                   /\ \A j \in 1 .. i - 1 : s[j] \notin m_supportedSubprotocols
<1> DEFINE I == {i \in 1 .. Len(s) : s[i] \in m_supportedSubprotocols}
           k == SelectInSeq(s, LAMBDA q : q \in m_supportedSubprotocols)
<1>0. Len(s) \in Nat /\ DOMAIN s = 1 .. Len(s)
  BY LenProperties
<1>1. k = IF I # {} THEN Min(I) ELSE 0
  BY DEF SelectInSeq
<1>2. p = IF k = 0 THEN "" ELSE s[k]
  BY DEF FirstSupported
<1> HIDE DEF k
<1>3. CASE I = {}
  <2>1. ToSet(s) \cap m_supportedSubprotocols = {}
    BY <1>0, <1>3 DEF ToSet
  <2> QED BY <1>1, <1>2, <1>3, <2>1
<1>4. CASE I # {}
  <2>1. \E i \in I : \A j \in I : i <= j
    <3>1. I \subseteq Nat
      BY <1>0
    <3> HIDE DEF I
    <3> QED BY <1>4, <3>1, Smallest
  <2>2. Min(I) \in I /\ \A j \in I : Min(I) <= j
    BY <2>1, Zenon DEF Min
  <2>3. k \in I /\ \A j \in I : k <= j
    <3> HIDE DEF I
    <3> QED BY <1>1, <1>4, <2>2
  <2>4. k \in 1 .. Len(s) /\ s[k] \in m_supportedSubprotocols /\ k # 0
    BY <1>0, <2>3
  <2>6. p = s[k]
    BY <1>2, <2>4, Zenon
  <2>5. \A j \in 1 .. k - 1 : s[j] \notin m_supportedSubprotocols
    BY <1>0, <2>3, <2>4
  <2> QED BY <2>4, <2>5, <2>6
<1> QED BY <1>3, <1>4

-----------------------------------------------------------------------------
(* What the client asks for, and what the server reads of it.              *)

IsRaw(raw) ==
  /\ \A h \in {"host", "upgrade", "origin"} : raw[h] \in Seq(STRING)
  /\ raw["connection"] \in Seq(SUBSET STRING) /\ raw["key"] \in Seq(Nat)
  /\ raw["version"] \in Seq(Seq(Int)) /\ raw["protocol"] \in Seq(Seq(STRING))

LEMMA RawTyped ==
  ASSUME NEW raw \in RawHeaders \cup {NoHeaders(RequestHeaders)}
  PROVE  IsRaw(raw)
<1>1. CASE raw \in RawHeaders
  BY <1>1, HandshakeAssumption DEF IsRaw
<1>2. CASE raw = NoHeaders(RequestHeaders)
  <2>1. \A h \in RequestHeaders : raw[h] = <<>>
    BY <1>2 DEF NoHeaders
  <2>2. /\ <<>> \in Seq(STRING) /\ <<>> \in Seq(SUBSET STRING) /\ <<>> \in Seq(Nat)
        /\ <<>> \in Seq(Seq(Int)) /\ <<>> \in Seq(Seq(STRING))
    OBVIOUS
  <2> QED BY <2>1, <2>2 DEF IsRaw, RequestHeaders
<1> QED BY <1>1, <1>2

PartsOf(names) ==
  [i \in DOMAIN names |->
    CASE names[i] \in DOMAIN ListNames -> ListNames[names[i]]
      [] names[i] = "" /\ i \in {1, Len(names)} -> <<>>
      [] OTHER -> <<names[i]>>]

LEMMA PartsTyped ==
  ASSUME NEW names \in Seq(STRING)
  PROVE  /\ PartsOf(names) \in Seq(Seq(STRING)) /\ Len(PartsOf(names)) = Len(names)
         /\ \A i \in 1 .. Len(names) :
              PartsOf(names)[i] = CASE names[i] \in DOMAIN ListNames -> ListNames[names[i]]
                                    [] names[i] = "" /\ i \in {1, Len(names)} -> <<>>
                                    [] OTHER -> <<names[i]>>
<1> DEFINE part(i) == CASE names[i] \in DOMAIN ListNames -> ListNames[names[i]]
                        [] names[i] = "" /\ i \in {1, Len(names)} -> <<>>
                        [] OTHER -> <<names[i]>>
           parts == [i \in 1 .. Len(names) |-> part(i)]
<1>1. Len(names) \in Nat /\ DOMAIN names = 1 .. Len(names)
  BY LenProperties
<1>2. \A i \in 1 .. Len(names) : part(i) \in Seq(STRING)
  <2> TAKE i \in 1 .. Len(names)
  <2>1. names[i] \in STRING
    BY <1>1, ElementOfSeq
  <2>2. CASE names[i] \in DOMAIN ListNames
    <3>0. names[i] # ""
      BY <2>2, HandshakeAssumption
    <3>1. part(i) = ListNames[names[i]]
      BY <2>2, <3>0, Zenon
    <3>2. ListNames[names[i]] \in Seq(STRING)
      BY <2>2, HandshakeAssumption
    <3> QED BY <3>1, <3>2, Zenon
  <2>3. CASE names[i] \notin DOMAIN ListNames /\ names[i] = "" /\ i \in {1, Len(names)}
    <3>1. part(i) = <<>>
      BY <2>3, Zenon
    <3>2. <<>> \in Seq(STRING)
      OBVIOUS
    <3> QED BY <3>1, <3>2, Zenon
  <2>4. CASE names[i] \notin DOMAIN ListNames /\ ~(names[i] = "" /\ i \in {1, Len(names)})
    <3>1. part(i) = <<names[i]>>
      BY <2>4, Zenon
    <3>2. <<names[i]>> \in Seq(STRING)
      BY <2>1
    <3> QED BY <3>1, <3>2, Zenon
  <2> QED BY <2>2, <2>3, <2>4
<1>3. PartsOf(names) = parts
  BY <1>1 DEF PartsOf
<1> HIDE DEF part
<1>4. parts \in Seq(Seq(STRING)) /\ Len(parts) = Len(names)
  <2>1. DOMAIN parts = 1 .. Len(names) /\ parts \in [1 .. Len(names) -> Seq(STRING)]
    BY <1>2
  <2> QED BY <1>1, <2>1
<1>5. \A i \in 1 .. Len(names) : parts[i] = part(i)
  BY <1>1
<1> QED BY <1>3, <1>4, <1>5 DEF part

LEMMA ReadBackTyped ==
  ASSUME NEW names \in Seq(STRING)
  PROVE  ReadBack(names) = FlattenSeq(PartsOf(names)) /\ ReadBack(names) \in Seq(STRING)
<1>1. ReadBack(names) = FlattenSeq(PartsOf(names))
  BY DEF ReadBack, PartsOf
<1>2. PartsOf(names) \in Seq(Seq(STRING))
  BY PartsTyped
<1>3. FlattenSeq(PartsOf(names)) \in Seq(STRING)
  BY <1>2, FlattenType
<1> QED BY <1>1, <1>3

LEMMA AmongOne ==
  ASSUME NEW V, NEW x \in V, NEW S
  PROVE  Among(<<x>>, S) = IF x \in S THEN <<x>> ELSE <<>>
<1>1. <<>> \in Seq(V) /\ Append(<<>>, x) = <<x>>
  OBVIOUS
<1>2. Among(Append(<<>>, x), S) = IF x \in S THEN Append(Among(<<>>, S), x) ELSE Among(<<>>, S)
  BY <1>1, AmongAppend
<1> QED BY <1>1, <1>2, AmongEmpty, Zenon

(* Valid names are read back as they were written, the empty ones aside.   *)
LEMMA ReadBackValid ==
  ASSUME NEW names \in Seq(STRING), ToSet(names) \subseteq ValidSubProtocolNames
  PROVE  Among(ReadBack(names), STRING \ {""}) = Among(names, STRING \ {""})
<1> DEFINE parts == PartsOf(names)
           S == STRING \ {""}
<1>1. /\ parts \in Seq(Seq(STRING)) /\ Len(parts) = Len(names)
      /\ \A i \in 1 .. Len(names) :
           parts[i] = CASE names[i] \in DOMAIN ListNames -> ListNames[names[i]]
                        [] names[i] = "" /\ i \in {1, Len(names)} -> <<>>
                        [] OTHER -> <<names[i]>>
  BY PartsTyped
<1> HIDE DEF parts
<1>2. ASSUME NEW i \in 1 .. Len(names)
      PROVE  Among(parts[i], S) = IF names[i] \in S THEN <<names[i]>> ELSE <<>>
  <2>1. names[i] \in STRING /\ names[i] \in ToSet(names)
    BY ElementOfSeq, LenProperties DEF ToSet
  <2>2. names[i] \in ValidNames \cup {""} /\ names[i] \notin DOMAIN ListNames
    BY <2>1, HandshakeAssumption DEF ValidSubProtocolNames
  <2>3. parts[i] = <<names[i]>> \/ (parts[i] = <<>> /\ names[i] = "")
    <3>1. CASE names[i] = "" /\ i \in {1, Len(names)}
      BY <1>1, <2>2, <3>1, Zenon
    <3>2. CASE ~(names[i] = "" /\ i \in {1, Len(names)})
      BY <1>1, <2>2, <3>2, Zenon
    <3> QED BY <3>1, <3>2
  <2>4. CASE parts[i] = <<names[i]>>
    <3>1. Among(<<names[i]>>, S) = IF names[i] \in S THEN <<names[i]>> ELSE <<>>
      <4> DEFINE x == names[i]
      <4>1. x \in STRING
        BY <2>1
      <4> HIDE DEF x, S
      <4>2. Among(<<x>>, S) = IF x \in S THEN <<x>> ELSE <<>>
        BY <4>1, AmongOne
      <4> QED BY <4>2 DEF x
    <3> QED BY <3>1, <2>4, Zenon
  <2>5. CASE parts[i] = <<>> /\ names[i] = ""
    <3>1. names[i] \notin S
      BY <2>5
    <3> QED BY <3>1, <2>5, AmongEmpty
  <2> QED BY <2>3, <2>4, <2>5
<1> HIDE DEF S
<1>3. Among(FlattenSeq(parts), S) = Among(names, S)
  <2>1. parts \in Seq(Seq(STRING)) /\ Len(parts) = Len(names)
    BY <1>1
  <2> QED BY ONLY <1>2, <2>1, names \in Seq(STRING), AmongFlatten
<1>4. ReadBack(names) = FlattenSeq(parts)
  BY ReadBackTyped DEF parts
<1> QED BY <1>3, <1>4 DEF S

LEMMA RequestedTyped ==
  ASSUME NEW raw, IsRaw(raw), NEW options \in Seq(STRING)
  PROVE  requestedSubProtocols(raw, options) \in Seq(STRING)
<1> DEFINE line == firstHeaderField([headers |-> raw], "protocol", <<>>)
           entries == ReadBack(line)
           new == Among(entries, STRING \ (ToSet(options) \cup {""}))
<1>1. line \in Seq(STRING)
  <2>1. line = IF raw["protocol"] = <<>> THEN <<>> ELSE raw["protocol"][1]
    BY DEF firstHeaderField
  <2>2. raw["protocol"] \in Seq(Seq(STRING))
    BY DEF IsRaw
  <2> QED BY <2>1, <2>2
<1>2. entries \in Seq(STRING)
  <2> HIDE DEF line
  <2> QED BY <1>1, ReadBackTyped
<1>3. new \in Seq(STRING)
  <2> HIDE DEF entries
  <2> QED BY <1>2, AmongSeq
<1>4. requestedSubProtocols(raw, options) = options \o new
  BY DEF requestedSubProtocols
<1> HIDE DEF new
<1> QED BY <1>3, <1>4, ConcatProperties

ValidProtocols == Among(requestedSubProtocols(m_request, m_options), ValidSubProtocolNames)

LEMMA OwnHeaders ==
  ASSUME NEW key, NEW m, m = createHandShakeRequest(key)
  PROVE  /\ m.line = "complete" /\ m.verb = "GET" /\ m.http = 11 /\ m.resource = "relative"
         /\ m.wellFormed = TRUE
         /\ m.headers["host"] = <<"host">> \o m_request["host"]
         /\ m.headers["upgrade"] = <<"websocket">> \o m_request["upgrade"]
         /\ m.headers["connection"] = <<{"upgrade"}>> \o m_request["connection"]
         /\ m.headers["key"] = <<key>> \o m_request["key"]
         /\ m.headers["version"] = << <<currentVersion>> >> \o m_request["version"]
         /\ m.headers["protocol"] = IF ValidProtocols = <<>> THEN <<>> ELSE <<ValidProtocols>>
<1> DEFINE origin == IF m_origin = "" THEN <<>> ELSE <<m_origin>>
           names == IF ValidProtocols = <<>> THEN <<>> ELSE <<ValidProtocols>>
           x1 == <<"host">>
           x2 == <<"websocket">>
           x3 == <<{"upgrade"}>>
           x4 == <<key>>
           x5 == << <<currentVersion>> >>
           ours == [NoHeaders(RequestHeaders) EXCEPT
                      !["host"] = x1, !["upgrade"] = x2, !["connection"] = x3, !["key"] = x4,
                      !["origin"] = origin, !["version"] = x5]
           lines == [h \in RequestHeaders |-> Lines(ours[h], m_request[h])]
           headers == [lines EXCEPT !["protocol"] = names]
<1>1. m = [line |-> "complete", verb |-> "GET", http |-> 11, resource |-> "relative",
           wellFormed |-> TRUE, headers |-> headers]
  BY Zenon DEF createHandShakeRequest, ValidProtocols
<1>2. /\ ours["host"] = x1 /\ ours["upgrade"] = x2 /\ ours["connection"] = x3
      /\ ours["key"] = x4 /\ ours["version"] = x5
  <2> HIDE DEF x1, x2, x3, x4, x5, origin
  <2> QED BY DEF NoHeaders, RequestHeaders
<1> HIDE DEF ours, names
<1>3. \A h \in RequestHeaders \ {"protocol"} : headers[h] = ours[h] \o m_request[h]
  BY DEF Lines
<1>4. headers["protocol"] = names
  BY DEF RequestHeaders
<1> HIDE DEF headers, lines, x1, x2, x3, x4, x5
<1>5. /\ m.line = "complete" /\ m.verb = "GET" /\ m.http = 11 /\ m.resource = "relative"
      /\ m.wellFormed = TRUE /\ m.headers = headers
  BY <1>1
<1>6. /\ headers["host"] = x1 \o m_request["host"]
      /\ headers["upgrade"] = x2 \o m_request["upgrade"]
      /\ headers["connection"] = x3 \o m_request["connection"]
      /\ headers["key"] = x4 \o m_request["key"]
      /\ headers["version"] = x5 \o m_request["version"]
  BY <1>2, <1>3 DEF RequestHeaders
<1> QED BY <1>4, <1>5, <1>6, Zenon DEF names, x1, x2, x3, x4, x5

LEMMA FirstLine ==
  ASSUME NEW V, NEW m, NEW h, NEW default, NEW x, NEW s \in Seq(V), m.headers[h] = <<x>> \o s
  PROVE  firstHeaderField(m, h, default) = x
<1> DEFINE W == V \cup {x}
<1>1. x \in W /\ s \in Seq(W)
  <2>1. V \subseteq W
    OBVIOUS
  <2> HIDE DEF W
  <2> QED BY <2>1, SeqMonotonic DEF W
<1> HIDE DEF W
<1>2. (<<x>> \o s)[1] = x /\ <<x>> \o s # <<>>
  BY <1>1
<1> QED BY <1>2 DEF firstHeaderField

LEMMA OneList ==
  ASSUME NEW V, NEW x \in Seq(V)
  PROVE  FlattenSeq(<<x>>) = x
<1>1. <<>> \in Seq(Seq(V)) /\ Append(<<>>, x) = <<x>> /\ <<>> \o x = x
  OBVIOUS
<1>2. FlattenSeq(Append(<<>>, x)) = FlattenSeq(<<>>) \o x
  BY <1>1, FlattenAppend
<1> QED BY <1>1, <1>2, FlattenEmpty, Zenon

(* The names that the server reads in a request of the library.            *)
LEMMA OwnProtocols ==
  ASSUME IsRaw(m_request), m_options \in Seq(STRING), NEW key, NEW m, m = createHandShakeRequest(key),
         NEW protocols,
         protocols = FlattenSeq([i \in DOMAIN m.headers["protocol"] |->
                                   ReadBack(m.headers["protocol"][i])])
  PROVE  protocols \in Seq(STRING) /\ Among(protocols, STRING \ {""}) = Asked
<1> DEFINE requested == requestedSubProtocols(m_request, m_options)
           valid == ValidProtocols
           lines == m.headers["protocol"]
           S == STRING \ {""}
<1>1. requested \in Seq(STRING)
  BY RequestedTyped
<1>2. lines = IF valid = <<>> THEN <<>> ELSE <<valid>>
  BY OwnHeaders
<1>3. valid \in Seq(STRING) /\ ToSet(valid) \subseteq ValidSubProtocolNames
  <2> HIDE DEF requested
  <2>1. Among(requested, ValidSubProtocolNames) \in Seq(STRING)
    BY <1>1, AmongSeq
  <2>2. \A x : x \in ToSet(Among(requested, ValidSubProtocolNames)) => x \in ValidSubProtocolNames
    BY <1>1, AmongElements
  <2> QED BY <2>1, <2>2 DEF requested, ValidProtocols
<1>4. Among(valid, S) = Asked
  <2>1. Among(Among(requested, ValidSubProtocolNames), S)
          = Among(requested, ValidSubProtocolNames \cap S)
    <3> HIDE DEF requested, S
    <3> QED BY <1>1, AmongAmong
  <2>2. ValidSubProtocolNames \cap S = ValidNames
    BY HandshakeAssumption DEF ValidSubProtocolNames
  <2> HIDE DEF S
  <2> QED BY <2>1, <2>2, Zenon DEF ValidProtocols, Asked
<1> HIDE DEF requested, valid, lines
<1>5. CASE valid = <<>>
  <2>1. [i \in DOMAIN lines |-> ReadBack(lines[i])] = <<>>
    BY <1>2, <1>5
  <2>2. protocols = <<>>
    BY <2>1, FlattenEmpty, Zenon DEF lines
  <2>3. <<>> \in Seq(STRING)
    OBVIOUS
  <2> QED BY <2>2, <2>3, <1>4, <1>5, Zenon
<1>6. CASE valid # <<>>
  <2> DEFINE read == ReadBack(valid)
  <2>1. [i \in DOMAIN lines |-> ReadBack(lines[i])] = <<read>>
    <3>1. lines = <<valid>>
      BY <1>2, <1>6
    <3>2. DOMAIN lines = 1 .. 1 /\ lines[1] = valid
      BY <3>1
    <3>3. \A i \in 1 .. 1 : i = 1
      OBVIOUS
    <3>4. [i \in DOMAIN lines |-> ReadBack(lines[i])] = [i \in 1 .. 1 |-> ReadBack(valid)]
      BY <3>2, <3>3
    <3> HIDE DEF read
    <3>5. [i \in 1 .. 1 |-> read] = <<read>>
      OBVIOUS
    <3> QED BY <3>4, <3>5 DEF read
  <2>2. read \in Seq(STRING)
    BY <1>3, ReadBackTyped
  <2>3. Among(read, S) = Among(valid, S)
    BY <1>3, ReadBackValid
  <2> HIDE DEF read
  <2>4. FlattenSeq(<<read>>) = read
    BY <2>2, OneList
  <2>5. protocols = read
    BY <2>1, <2>4, Zenon DEF lines
  <2> HIDE DEF S
  <2> QED BY <2>2, <2>3, <2>5, <1>4 DEF S
<1> QED BY <1>5, <1>6

LEMMA OwnVersions ==
  ASSUME IsRaw(m_request), NEW key, NEW m, m = createHandShakeRequest(key),
         NEW versions, versions = FlattenSeq(m.headers["version"])
  PROVE  /\ versions # <<>>
         /\ currentVersion \in ToSet(versions)
         /\ \A i \in DOMAIN versions :
              versions[i] = NotANumber =>
                \E j \in DOMAIN m_request["version"] : NotANumber \in ToSet(m_request["version"][j])
<1> DEFINE raw == m_request["version"]
           own == <<currentVersion>>
           lines == <<own>> \o raw
<1>1. m.headers["version"] = lines
  BY OwnHeaders
<1>2. raw \in Seq(Seq(Int)) /\ own \in Seq(Int) /\ currentVersion # NotANumber
      /\ own[1] = currentVersion /\ DOMAIN own = {1}
  BY DEF IsRaw, currentVersion, NotANumber
<1>3. ToSet(own) = {currentVersion}
  BY <1>2 DEF ToSet
<1> HIDE DEF raw, own
<1>4. /\ lines \in Seq(Seq(Int)) /\ Len(raw) \in Nat /\ DOMAIN lines = 1 .. Len(raw) + 1
      /\ DOMAIN raw = 1 .. Len(raw)
      /\ lines[1] = own /\ \A j \in 2 .. Len(raw) + 1 : lines[j] = raw[j - 1]
  BY <1>2
<1> HIDE DEF lines
<1>5. \A x : x \in ToSet(versions) <=> \E j \in DOMAIN lines : x \in ToSet(lines[j])
  BY <1>1, <1>4, FlattenElements
<1>6. versions \in Seq(Int)
  BY <1>1, <1>4, FlattenType
<1>7. currentVersion \in ToSet(versions)
  <2>1. 1 \in DOMAIN lines /\ currentVersion \in ToSet(lines[1])
    BY <1>3, <1>4
  <2> QED BY <2>1, <1>5, Zenon
<1>8. versions # <<>>
  <2>1. ToSet(<<>>) = {}
    BY DEF ToSet
  <2> QED BY <1>7, <2>1
<1>9. ASSUME NEW i \in DOMAIN versions, versions[i] = NotANumber
      PROVE  \E j \in DOMAIN raw : NotANumber \in ToSet(raw[j])
  <2>1. NotANumber \in ToSet(versions)
    BY <1>9 DEF ToSet
  <2>2. PICK j \in DOMAIN lines : NotANumber \in ToSet(lines[j])
    BY <2>1, <1>5, Zenon
  <2>3. j # 1
    BY <2>2, <1>2, <1>3, <1>4
  <2>4. j - 1 \in DOMAIN raw /\ lines[j] = raw[j - 1]
    BY <2>3, <1>4
  <2> QED BY <2>2, <2>4
<1> QED BY <1>6, <1>7, <1>8, <1>9 DEF raw

(* What the server makes of a request of the library: it is valid, unless  *)
(* the application has put a version that is none into it.                 *)
LEMMA OwnRequest ==
  ASSUME IsRaw(m_request), m_options \in Seq(STRING), NEW key \in Nat \ {0},
         NEW r, r = readHandshake(createHandShakeRequest(key))
  PROVE  /\ r.m_isValid =>
              /\ r.m_key = key /\ currentVersion \in r.m_versions
              /\ r.m_protocols \in Seq(STRING)
              /\ Among(r.m_protocols, STRING \ {""}) = Asked
         /\ ~r.m_isValid =>
              \E i \in DOMAIN m_request["version"] : NotANumber \in ToSet(m_request["version"][i])
<1> DEFINE m == createHandShakeRequest(key)
           versions == FlattenSeq(m.headers["version"])
           protocols == FlattenSeq([i \in DOMAIN m.headers["protocol"] |->
                                      ReadBack(m.headers["protocol"][i])])
           numbers == \A i \in DOMAIN versions : versions[i] # NotANumber
           known == {versionFromString(v) : v \in ToSet(versions)}
           isValid ==
             /\ m.line = "complete" /\ m.wellFormed
             /\ RequestHost(m) \notin {"", "user@host"}
             /\ numbers
             /\ versions # <<>>
             /\ firstHeaderField(m, "key", 0) # 0
             /\ m.verb = "GET" /\ m.http >= 11
             /\ firstHeaderField(m, "upgrade", "") = "websocket"
             /\ "upgrade" \in firstHeaderField(m, "connection", {})
<1>1. r = IF ~isValid THEN ClearedRequest
          ELSE [m_isValid |-> TRUE, m_versions |-> known,
                m_key |-> firstHeaderField(m, "key", 0), m_protocols |-> protocols]
  BY Zenon DEF readHandshake
<1>2. /\ m.line = "complete" /\ m.verb = "GET" /\ m.http = 11 /\ m.resource = "relative"
      /\ m.wellFormed = TRUE
      /\ m.headers["host"] = <<"host">> \o m_request["host"]
      /\ m.headers["upgrade"] = <<"websocket">> \o m_request["upgrade"]
      /\ m.headers["connection"] = <<{"upgrade"}>> \o m_request["connection"]
      /\ m.headers["key"] = <<key>> \o m_request["key"]
  BY OwnHeaders
<1>3. protocols \in Seq(STRING) /\ Among(protocols, STRING \ {""}) = Asked
  BY OwnProtocols
<1>4. /\ versions # <<>> /\ currentVersion \in ToSet(versions)
      /\ ~numbers =>
           \E j \in DOMAIN m_request["version"] : NotANumber \in ToSet(m_request["version"][j])
  BY OwnVersions
<1> HIDE DEF m, versions, protocols, numbers, known
<1>5. firstHeaderField(m, "key", 0) = key
  <2> DEFINE more == m_request["key"]
  <2>1. key \in Nat /\ more \in Seq(Nat) /\ m.headers["key"] = <<key>> \o more
    BY <1>2 DEF IsRaw
  <2> HIDE DEF more
  <2> QED BY ONLY <2>1, FirstLine
<1>6. firstHeaderField(m, "host", "") = "host" /\ firstHeaderField(m, "upgrade", "") = "websocket"
  <2> DEFINE hosts == m_request["host"]
             upgrades == m_request["upgrade"]
  <2>1. hosts \in Seq(STRING) /\ m.headers["host"] = <<"host">> \o hosts
    BY <1>2 DEF IsRaw
  <2>2. upgrades \in Seq(STRING) /\ m.headers["upgrade"] = <<"websocket">> \o upgrades
    BY <1>2 DEF IsRaw
  <2> HIDE DEF hosts, upgrades
  <2>3. firstHeaderField(m, "host", "") = "host"
    BY ONLY <2>1, FirstLine
  <2>4. firstHeaderField(m, "upgrade", "") = "websocket"
    BY ONLY <2>2, FirstLine
  <2> QED BY <2>3, <2>4
<1>7. firstHeaderField(m, "connection", {}) = {"upgrade"}
  <2> DEFINE more == m_request["connection"]
             own == {"upgrade"}
  <2>1. more \in Seq(SUBSET STRING) /\ m.headers["connection"] = <<own>> \o more
    BY <1>2, Zenon DEF IsRaw
  <2> HIDE DEF more, own
  <2>2. firstHeaderField(m, "connection", {}) = own
    BY ONLY <2>1, FirstLine
  <2> QED BY <2>2 DEF own
<1>8. RequestHost(m) = "host"
  BY <1>2, <1>6 DEF RequestHost
<1>9. isValid <=> numbers
  <2>1. key # 0 /\ "upgrade" \in {"upgrade"} /\ m.http >= 11 /\ "host" \notin {"", "user@host"}
    BY <1>2
  <2> QED BY <2>1, <1>2, <1>4, <1>5, <1>6, <1>7, <1>8, Zenon
<1> HIDE DEF isValid
<1>10. CASE isValid
  <2>1. r.m_isValid /\ r.m_versions = known /\ r.m_key = key /\ r.m_protocols = protocols
    BY <1>1, <1>5, <1>10
  <2>2. currentVersion \in known
    <3>1. versionFromString(currentVersion) = currentVersion
      BY DEF versionFromString, KnownVersions, currentVersion
    <3> QED BY <1>4, <3>1 DEF known
  <2> QED BY <1>3, <2>1, <2>2
<1>11. CASE ~isValid
  <2>1. r.m_isValid = FALSE
    BY <1>1, <1>11 DEF ClearedRequest
  <2> QED BY <1>4, <1>9, <1>11, <2>1
<1> QED BY <1>10, <1>11

-----------------------------------------------------------------------------
(* What is negotiated with a server of the library.                        *)

Typed ==
  /\ m_request \in RawHeaders \cup {NoHeaders(RequestHeaders)}
  /\ m_options \in Options \cup {<<>>}
  /\ m_supportedSubprotocols \in Supported
  /\ keysMade \in Nat /\ m_key = keysMade

LEMMA TypedRequest ==
  ASSUME Typed
  PROVE  /\ IsRaw(m_request) /\ m_options \in Seq(STRING) /\ "" \notin m_supportedSubprotocols
         /\ requestedSubProtocols(m_request, m_options) \in Seq(STRING)
<1>1. IsRaw(m_request)
  BY RawTyped DEF Typed
<1>2. m_options \in Seq(STRING)
  <2>1. <<>> \in Seq(STRING)
    OBVIOUS
  <2> QED BY <2>1, HandshakeAssumption DEF Typed
<1>3. "" \notin m_supportedSubprotocols
  BY HandshakeAssumption DEF Typed
<1> QED BY <1>1, <1>2, <1>3, RequestedTyped

(* Names that are read from the client's request.                          *)
Read(protocols) == protocols \in Seq(STRING) /\ Among(protocols, STRING \ {""}) = Asked

(* The first of the names that is in S, if any is.                         *)
IsFirst(p, names, S) ==
  \/ p = "" /\ ToSet(names) \cap S = {}
  \/ \E i \in 1 .. Len(names) : /\ names[i] = p /\ p \in S
                                /\ \A j \in 1 .. i - 1 : names[j] \notin S

(* What the server makes of the request of the library that is under way.  *)
Understood(r) ==
  /\ r.m_isValid =>
       r.m_key = m_key /\ currentVersion \in r.m_versions /\ Read(r.m_protocols)
  /\ ~r.m_isValid =>
       \E i \in DOMAIN m_request["version"] : NotANumber \in ToSet(m_request["version"][i])

RequestInv ==
  request # None =>
    /\ link = "open" /\ socketState = "Connecting" /\ m_key # 0 /\ upgraded = None
    /\ Understood(readHandshake(request))

ReadInv ==
  handshake # None =>
    /\ link = "open" /\ socketState = "Connecting" /\ m_key # 0 /\ upgraded = None
    /\ handshake.m_key = m_key /\ currentVersion \in handshake.m_versions
    /\ Read(handshake.m_protocols)

UpgradedInv ==
  upgraded # None =>
    /\ Read(upgraded.subprotocols)
    /\ "" \notin upgraded.supported
    /\ IsFirst(upgraded.protocol, upgraded.subprotocols, upgraded.supported)

(* The client accepts the answer of a server that has upgraded.            *)
AnsweredInv ==
  /\ response # None => response.status # 401
  /\ link = "open" /\ upgraded # None /\ response # None =>
       socketState = "Connecting" /\ Accepted(response)
  /\ link = "open" /\ upgraded # None /\ response = None => socketState = "Connected"

OwnInv ==
  /\ Typed
  /\ peer = "own" =>
       /\ link = "connecting" => upgraded = None
       /\ RequestInv /\ ReadInv /\ UpgradedInv /\ AnsweredInv

-----------------------------------------------------------------------------
(* The inductive invariant.                                                *)

KeyInv == keysMade \in Nat /\ m_key = keysMade

(* An answer has a list of accept values, one of this library at most one. *)
AnswerInv ==
  response # None =>
    LET accept == response.headers["accept"]
    IN  accept = <<>> \/ accept = <<accept[1]>> \/ accept \in Seq(Int)

ConnectingInv ==
  link = "connecting" =>
    socketState = "Connecting" /\ request = None /\ handshake = None /\ response = None

(* Of a handshake with a server of the library one message is under way,   *)
(* and none when the client is connected.                                  *)
OneMessage ==
  peer = "own" =>
    /\ request # None => handshake = None /\ response = None
    /\ handshake # None => response = None
    /\ socketState = "Connected" => request = None /\ handshake = None /\ response = None

(* A 101 on its way to the client stands for what the server has upgraded. *)
UpgradeInv ==
  peer = "own" /\ response # None /\ response.status = 101 /\ response.wellFormed =>
    /\ upgraded # None
    /\ response.headers["accept"] = <<upgraded.key>>
    /\ response.headers["protocol"] = IF upgraded.protocol = "" THEN <<>> ELSE <<upgraded.protocol>>

HInv == /\ KeyInv /\ AnswerInv /\ ConnectingInv /\ OneMessage /\ UpgradeInv
        /\ SameConnection /\ NothingUnasked

LEMMA InitInvariant == Init => HInv
<1> SUFFICES ASSUME Init PROVE HInv
  OBVIOUS
<1>1. /\ request = None /\ response = None /\ handshake = None
      /\ link = "down" /\ socketState = "Unconnected" /\ m_key = 0 /\ keysMade = 0
  BY DEF Init
<1>2. KeyInv /\ AnswerInv
  BY <1>1 DEF KeyInv, AnswerInv
<1> QED BY <1>1, <1>2 DEF HInv, ConnectingInv, OneMessage, UpgradeInv, SameConnection,
           NothingUnasked

-----------------------------------------------------------------------------
(* Lines of a header.                                                      *)

LEMMA Singletons == \A x, y : <<x>>[1] = x /\ (<<x>> = <<y>> => x = y)
<1> TAKE x, y
<1>1. <<x>>[1] = x /\ <<y>>[1] = y
  OBVIOUS
<1> QED BY <1>1

LEMMA OneLine ==
  ASSUME NEW m, NEW h, NEW x, NEW default, NEW joined, m.headers[h] = <<x>>
  PROVE  combinedHeaderValue(m, h, default, joined) = x
<1>1. Len(<<x>>) = 1 /\ <<x>>[1] = x /\ <<x>> # <<>>
  OBVIOUS
<1> QED BY <1>1 DEF combinedHeaderValue, firstHeaderField

LEMMA NoLine ==
  ASSUME NEW m, NEW h, NEW default, NEW joined, m.headers[h] = <<>>
  PROVE  combinedHeaderValue(m, h, default, joined) = default
<1>1. Len(<<>>) = 0
  OBVIOUS
<1> QED BY <1>1 DEF combinedHeaderValue, firstHeaderField

(* What the client accepts is an answer to its key, in one line.           *)
LEMMA AcceptedKey ==
  ASSUME HInv, response # None, Accepted(response)
  PROVE  response.status = 101 /\ response.headers["accept"] = <<keysMade>>
<1> DEFINE accept == response.headers["accept"]
           value  == combinedHeaderValue(response, "accept", 0, -1)
<1>1. response.status = 101 /\ value # 0 /\ value = m_key
  BY DEF Accepted
<1>2. m_key = keysMade /\ keysMade \in Nat
  BY DEF HInv, KeyInv
<1>3. accept = <<>> \/ accept = <<accept[1]>> \/ accept \in Seq(Int)
  BY DEF HInv, AnswerInv
<1>4. accept # <<>>
  BY <1>1, NoLine
<1>5. CASE accept = <<accept[1]>>
  <2>1. value = accept[1]
    BY <1>5, OneLine
  <2> QED BY <1>1, <1>2, <1>5, <2>1
<1>6. CASE accept \in Seq(Int)
  <2>1. Len(accept) \in Nat /\ Len(accept) # 0
    BY <1>4, <1>6
  <2>2. ~(Len(accept) > 1)
    <3>1. Len(accept) > 1 => value = -1
      BY DEF combinedHeaderValue
    <3> QED BY <1>1, <1>2, <3>1
  <2>3. Len(accept) = 1
    <3> HIDE DEF accept
    <3> QED BY <2>1, <2>2
  <2>4. accept = <<accept[1]>>
    BY <1>6, <2>3
  <2> QED BY <1>5, <2>4
<1> QED BY <1>3, <1>4, <1>5, <1>6

-----------------------------------------------------------------------------
(* The steps.                                                              *)

LEMMA OpenStep ==
  ASSUME HInv, NEW raw, NEW options, open(raw, options)
  PROVE  HInv'
BY DEF open, HInv, KeyInv, AnswerInv, ConnectingInv, OneMessage, UpgradeInv, SameConnection,
       NothingUnasked

LEMMA SettingStep ==
  ASSUME HInv, NEW x, setSupportedSubprotocols(x) \/ setServerName(x)
  PROVE  HInv'
BY DEF setSupportedSubprotocols, setServerName, clientVars, wireVars, HInv, KeyInv, AnswerInv,
       ConnectingInv, OneMessage, UpgradeInv, SameConnection, NothingUnasked

(* A request, the first or one with credentials, has a key of its own.     *)
LEMMA RequestStep ==
  ASSUME HInv, Connected \/ HandshakeResent
  PROVE  HInv'
<1>1. /\ socketState = "Connecting" /\ socketState' = "Connecting"
      /\ peer = "own" => handshake = None /\ handshake' = None
      /\ response' = None /\ link' # "connecting" /\ peer' = peer
  BY DEF Connected, HandshakeResent, HInv, ConnectingInv, OneMessage, Reads, serverVars
<1>2. KeyInv'
  BY DEF Connected, HandshakeResent, SendRequest, generateKey, HInv, KeyInv
<1> QED BY <1>1, <1>2 DEF HInv, AnswerInv, ConnectingInv, OneMessage, UpgradeInv, SameConnection,
           NothingUnasked

LEMMA SucceedsStep ==
  ASSUME HInv, HandshakeSucceeds
  PROVE  HInv'
<1>1. /\ response # None /\ Accepted(response) /\ response' = None
      /\ socketState' = "Connected" /\ m_protocol' = Protocol(response)
      /\ UNCHANGED <<m_request, m_options, m_key, keysMade, link, request, handshake, upgraded, peer>>
      /\ socketState = "Connecting"
  BY DEF HandshakeSucceeds, Reads, serverVars
<1>2. KeyInv' /\ AnswerInv' /\ UpgradeInv'
  BY <1>1 DEF HInv, KeyInv, AnswerInv, UpgradeInv
<1>3. ConnectingInv' /\ OneMessage'
  BY <1>1 DEF HInv, ConnectingInv, OneMessage
<1>4. NothingUnasked'
  <2>1. ~Unreadable(response)
    BY <1>1 DEF Accepted
  <2> QED BY <1>1, <2>1 DEF NothingUnasked, Unreadable
<1>5. SameConnection'
  <2> SUFFICES ASSUME peer = "own"
               PROVE  upgraded # None /\ upgraded.key = m_key /\ upgraded.protocol = m_protocol'
    BY <1>1 DEF SameConnection
  <2>1. response.headers["accept"] = <<m_key>> /\ response.status = 101 /\ response.wellFormed
    BY <1>1, AcceptedKey DEF HInv, KeyInv, Accepted, Unreadable
  <2>2. /\ upgraded # None
        /\ response.headers["accept"] = <<upgraded.key>>
        /\ response.headers["protocol"]
             = IF upgraded.protocol = "" THEN <<>> ELSE <<upgraded.protocol>>
    BY <1>1, <2>1 DEF HInv, UpgradeInv
  <2>3. upgraded.key = m_key
    <3>1. <<upgraded.key>> = <<m_key>>
      BY <2>1, <2>2, Zenon
    <3> QED BY <3>1, Singletons, Zenon
  <2>4. Protocol(response) = upgraded.protocol
    <3>1. CASE upgraded.protocol = ""
      BY <2>2, <3>1, NoLine DEF Protocol
    <3>2. CASE upgraded.protocol # ""
      <4>1. response.headers["protocol"] = <<upgraded.protocol>>
        BY <2>2, <3>2
      <4> DEFINE p == upgraded.protocol
      <4>2. response.headers["protocol"] = <<p>>
        BY <4>1
      <4> HIDE DEF p
      <4>3. combinedHeaderValue(response, "protocol", "",
                                JoinedNames(response.headers["protocol"])) = p
        BY <4>2, OneLine, Zenon
      <4> QED BY <4>3 DEF Protocol, p
    <3> QED BY <3>1, <3>2
  <2> QED BY <1>1, <2>2, <2>3, <2>4
<1> QED BY <1>2, <1>3, <1>4, <1>5 DEF HInv

LEMMA GivesUpStep ==
  ASSUME HInv, ConnectedForNothing \/ HandshakeUnreadable \/ HandshakeFails \/ Disconnected
  PROVE  HInv'
<1>1. KeyInv'
  BY DEF ConnectedForNothing, HandshakeUnreadable, HandshakeFails, Disconnected, generateKey,
         clientVars, HInv, KeyInv
<1>2. /\ socketState' # "Connected"
      /\ response' = None \/ response' = response
      /\ UNCHANGED <<request, handshake, upgraded, peer>>
      /\ link' = "connecting" => link = "connecting" /\ socketState' = socketState
  BY DEF ConnectedForNothing, HandshakeUnreadable, HandshakeFails, Disconnected, Reads,
         clientVars, serverVars
<1> QED BY <1>1, <1>2 DEF HInv, AnswerInv, ConnectingInv, OneMessage, UpgradeInv, SameConnection,
           NothingUnasked

LEMMA ReceivedStep ==
  ASSUME HInv, handshakeReceived
  PROVE  HInv'
<1>1. /\ link = "open" /\ request # None /\ request' = None
      /\ link' \in {"open", "closing"}
      /\ UNCHANGED <<clientVars, response, upgraded, peer>>
  BY DEF handshakeReceived, CloseTcp
<1> QED BY <1>1 DEF clientVars, HInv, KeyInv, AnswerInv, ConnectingInv, OneMessage, UpgradeInv,
           SameConnection, NothingUnasked

Answers(r, h, error) ==
  /\ r.headers["accept"] \in {<<>>, <<h.m_key>>}
  /\ r.status = 101 /\ r.wellFormed =>
       /\ error = "Normal"
       /\ r.headers["accept"] = <<h.m_key>>
       /\ r.headers["protocol"] = IF FirstSupported(h.m_protocols) = "" THEN <<>>
                                  ELSE <<FirstSupported(h.m_protocols)>>

LEMMA Response ==
  ASSUME NEW h, NEW error \in {"PolicyViolated", "ProtocolError", "AbnormalDisconnection", "Normal"},
         NEW r, r = getHandshakeResponse(h, error)
  PROVE  Answers(r, h, error)
<1> DEFINE protocol == FirstSupported(h.m_protocols)
<1>1. CASE error \in {"PolicyViolated", "ProtocolError"}
  <2>1. r.status # 101
    BY <1>1 DEF getHandshakeResponse
  <2>2. r.headers = NoHeaders(ResponseHeaders)
    BY <1>1 DEF getHandshakeResponse
  <2>3. r.headers["accept"] = <<>>
    BY <2>2 DEF NoHeaders, ResponseHeaders
  <2> QED BY <2>1, <2>3 DEF Answers
<1>2. CASE error \in {"AbnormalDisconnection", "Normal"}
  <2>1. r.wellFormed => error # "AbnormalDisconnection"
    BY DEF getHandshakeResponse
  <2> DEFINE accept == <<h.m_key>>
             names  == IF protocol = "" THEN <<>> ELSE <<protocol>>
  <2>2. r.headers = [upgrade |-> <<"websocket">>, connection |-> <<{"upgrade"}>>,
                     accept |-> accept, protocol |-> names]
    BY <1>2 DEF getHandshakeResponse
  <2>3. r.headers["accept"] = accept /\ r.headers["protocol"] = names
    <3> HIDE DEF accept, names
    <3> QED BY <2>2
  <2> QED BY <1>2, <2>1, <2>3 DEF Answers
<1> QED BY <1>1, <1>2

LEMMA RespondStep ==
  ASSUME HInv, NEW allowed \in BOOLEAN, respond(allowed)
  PROVE  HInv'
<1> DEFINE error == ResponseError(handshake, allowed)
<1>1. error \in {"PolicyViolated", "ProtocolError", "AbnormalDisconnection", "Normal"}
  BY DEF ResponseError
<1>2. /\ handshake # None /\ handshake' = None
      /\ response' = getHandshakeResponse(handshake, error)
      /\ error = "Normal" => upgraded' = upgradeFrom(handshake) /\ link' = link
      /\ error # "Normal" => link' = "closing" /\ upgraded' = upgraded
      /\ UNCHANGED <<clientVars, request, peer>>
  BY DEF respond, CloseTcp
<1>3. /\ response'.headers["accept"] \in {<<>>, <<handshake.m_key>>}
      /\ response'.status = 101 /\ response'.wellFormed =>
           /\ error = "Normal"
           /\ response'.headers["accept"] = <<handshake.m_key>>
           /\ response'.headers["protocol"]
                = IF FirstSupported(handshake.m_protocols) = "" THEN <<>>
                  ELSE <<FirstSupported(handshake.m_protocols)>>
  <2> DEFINE r == response'
  <2>1. r = getHandshakeResponse(handshake, error)
    BY <1>2
  <2> HIDE DEF r, error
  <2>2. Answers(r, handshake, error)
    BY <1>1, <2>1, Response
  <2> QED BY <2>2 DEF r, Answers
<1> HIDE DEF error
<1>4. KeyInv' /\ NothingUnasked'
  BY <1>2 DEF clientVars, HInv, KeyInv, NothingUnasked
<1>5. AnswerInv'
  <2> DEFINE accept == response.headers["accept"]
  <2>1. accept' = <<>> \/ accept' = <<handshake.m_key>>
    BY <1>3
  <2>2. accept' = <<>> \/ accept' = <<accept'[1]>>
    BY <2>1, Singletons
  <2> QED BY <2>2 DEF AnswerInv
<1>6. ConnectingInv' /\ OneMessage'
  BY <1>2 DEF clientVars, HInv, ConnectingInv, OneMessage
<1>7. SameConnection'
  BY <1>2 DEF clientVars, HInv, OneMessage, SameConnection
<1>8. UpgradeInv'
  <2>1. /\ upgradeFrom(handshake) # None
        /\ upgradeFrom(handshake).key = handshake.m_key
        /\ upgradeFrom(handshake).protocol = FirstSupported(handshake.m_protocols)
    BY DEF upgradeFrom, None
  <2> SUFFICES ASSUME response'.status = 101 /\ response'.wellFormed
               PROVE  /\ upgraded' # None
                      /\ response'.headers["accept"] = <<upgraded'.key>>
                      /\ response'.headers["protocol"] = IF upgraded'.protocol = "" THEN <<>>
                                                         ELSE <<upgraded'.protocol>>
    BY DEF UpgradeInv
  <2>2. upgraded' = upgradeFrom(handshake)
    BY <1>2, <1>3, Zenon
  <2> QED BY <1>3, <2>1, <2>2, Zenon
<1> QED BY <1>4, <1>5, <1>6, <1>7, <1>8 DEF HInv

LEMMA ForeignStep ==
  ASSUME HInv, ForeignServerAnswers \/ ForeignClientAsks
  PROVE  HInv'
<1>1. /\ peer # "own" /\ peer' = peer /\ link' = "open"
      /\ UNCHANGED <<socketState, m_request, m_options, m_key, m_protocol, keysMade>>
      /\ response' = None \/ response' \in ForeignResponses
  BY DEF ForeignServerAnswers, ForeignClientAsks, clientVars
<1>2. AnswerInv'
  BY <1>1, HandshakeAssumption DEF AnswerInv
<1> QED BY <1>1, <1>2 DEF HInv, KeyInv, ConnectingInv, OneMessage, UpgradeInv, SameConnection,
           NothingUnasked

LEMMA StepInvariant == HInv /\ [Next]_vars => HInv'
<1> SUFFICES ASSUME HInv, [Next]_vars PROVE HInv'
  OBVIOUS
<1>1. CASE Application
  BY <1>1, OpenStep, SettingStep DEF Application
<1>2. CASE Client
  BY <1>2, RequestStep, SucceedsStep, GivesUpStep DEF Client
<1>3. CASE Server
  BY <1>3, ReceivedStep, RespondStep DEF Server
<1>4. CASE ForeignServerAnswers \/ ForeignClientAsks
  BY <1>4, ForeignStep
<1>5. CASE UNCHANGED vars
  BY <1>5 DEF vars, clientVars, wireVars, serverVars, HInv, KeyInv, AnswerInv, ConnectingInv,
              OneMessage, UpgradeInv, SameConnection, NothingUnasked
<1> QED BY <1>1, <1>2, <1>3, <1>4, <1>5 DEF Next

(* One message of a handshake is under way, and a 101 stands for what the  *)
(* server has upgraded.                                                    *)
THEOREM Invariant == Spec => []HInv
BY InitInvariant, StepInvariant, PTL DEF Spec

-----------------------------------------------------------------------------
(* The answer of a server of the library.                                  *)

LEMMA OwnAnswer ==
  ASSUME Typed, ReadInv, handshake # None, NEW r, r = getHandshakeResponse(handshake, "Normal")
  PROVE  Accepted(r)
<1> DEFINE p == FirstSupported(handshake.m_protocols)
           lines == IF p = "" THEN <<>> ELSE <<p>>
           key == handshake.m_key
           x1 == <<"websocket">>
           x2 == <<{"upgrade"}>>
           x3 == <<key>>
           protocols == handshake.m_protocols
           requested == requestedSubProtocols(m_request, m_options)
<1>1. key = m_key /\ m_key # 0 /\ Read(protocols)
  BY DEF ReadInv
<1>2. r = [status |-> 101, http |-> <<1, 1>>, wellFormed |-> TRUE, challenge |-> FALSE,
           headers |-> [upgrade |-> x1, connection |-> x2, accept |-> x3, protocol |-> lines]]
  <2>1. /\ "Normal" # "PolicyViolated" /\ "Normal" # "ProtocolError"
        /\ "Normal" # "AbnormalDisconnection"
        /\ "Normal" \notin {"PolicyViolated", "ProtocolError"}
    OBVIOUS
  <2>2. getHandshakeResponse(handshake, "Normal")
          = [status |-> 101, http |-> <<1, 1>>, wellFormed |-> TRUE, challenge |-> FALSE,
             headers |-> [upgrade |-> x1, connection |-> x2, accept |-> x3, protocol |-> lines]]
    BY <2>1 DEF getHandshakeResponse
  <2> QED BY <2>2
<1> HIDE DEF x1, x2, x3, lines
<1>3. /\ r.status = 101 /\ r.http = <<1, 1>> /\ r.wellFormed = TRUE
      /\ r.headers["upgrade"] = x1 /\ r.headers["connection"] = x2
      /\ r.headers["accept"] = x3 /\ r.headers["protocol"] = lines
  BY <1>2
<1>4. Protocol(r) = p
  <2> HIDE DEF p
  <2>1. CASE p = ""
    <3>1. r.headers["protocol"] = <<>>
      BY <1>3, <2>1 DEF lines
    <3> QED BY <2>1, <3>1, NoLine DEF Protocol
  <2>2. CASE p # ""
    <3>1. r.headers["protocol"] = <<p>>
      BY <1>3, <2>2, Zenon DEF lines
    <3>2. \A joined : combinedHeaderValue(r, "protocol", "", joined) = p
      BY ONLY <3>1, OneLine
    <3> QED BY <3>2 DEF Protocol
  <2> QED BY <2>1, <2>2
<1>5. p # "" => p \in ToSet(requested)
  <2> SUFFICES ASSUME p # "" PROVE p \in ToSet(requested)
    OBVIOUS
  <2>1. protocols \in Seq(STRING) /\ Among(protocols, STRING \ {""}) = Asked
    BY <1>1 DEF Read
  <2>2. requested \in Seq(STRING)
    BY TypedRequest
  <2> HIDE DEF protocols, requested
  <2>3. PICK i \in 1 .. Len(protocols) : protocols[i] = p
    <3>1. p = FirstSupported(protocols)
      BY DEF protocols
    <3> HIDE DEF p
    <3> QED BY <2>1, <3>1, FirstOfNames
  <2>4. p \in ToSet(protocols) /\ p \in STRING
    <3> HIDE DEF p
    <3> QED BY <2>1, <2>3, LenProperties, ElementOfSeq DEF ToSet
  <2>5. p \in ToSet(Asked)
    <3> HIDE DEF p
    <3>1. p \in ToSet(Among(protocols, STRING \ {""}))
      BY <2>1, <2>4, AmongElements
    <3> QED BY <3>1, <2>1
  <2> HIDE DEF p
  <2>6. p \in ToSet(Among(requested, ValidNames))
    BY <2>5, Zenon DEF Asked, requested
  <2> QED BY <2>2, <2>6, AmongElements
<1>6. combinedHeaderValue(r, "accept", 0, -1) = key
  <2>1. r.headers["accept"] = <<key>>
    BY <1>3 DEF x3
  <2> HIDE DEF key
  <2> QED BY ONLY <2>1, OneLine
<1>7. combinedHeaderValue(r, "upgrade", "", "several") = "websocket"
  <2> DEFINE w == "websocket"
  <2>1. r.headers["upgrade"] = <<w>>
    BY <1>3 DEF x1
  <2> HIDE DEF w, key
  <2>2. combinedHeaderValue(r, "upgrade", "", "several") = w
    BY ONLY <2>1, OneLine
  <2> QED BY <2>2 DEF w
<1>8. combinedHeaderValue(r, "connection", {}, {"several"}) = {"upgrade"}
  <2>1. r.headers["connection"] = <<{"upgrade"}>>
    BY <1>3 DEF x2
  <2> HIDE DEF key
  <2> QED BY ONLY <2>1, OneLine
<1>9. r.http[1] > 0 /\ r.http[2] > 0
  BY <1>3
<1> HIDE DEF p, requested
<1>10. ~Unreadable(r)
  BY <1>3, <1>4, <1>5 DEF Unreadable, requested
<1> HIDE DEF key
<1> QED BY <1>1, <1>3, <1>6, <1>7, <1>8, <1>9, <1>10 DEF Accepted

-----------------------------------------------------------------------------
(* The steps keep what is negotiated.                                      *)

LEMMA OwnInit == Init => OwnInv
<1> SUFFICES ASSUME Init PROVE OwnInv
  OBVIOUS
<1>1. Typed
  BY DEF Init, Typed
<1>2. request = None /\ response = None /\ handshake = None /\ upgraded = None /\ link = "down"
  BY DEF Init
<1> QED BY <1>1, <1>2 DEF OwnInv, RequestInv, ReadInv, UpgradedInv, AnsweredInv

LEMMA OwnSame ==
  ASSUME OwnInv, m_supportedSubprotocols' \in Supported,
         UNCHANGED <<m_request, m_options, m_origin, m_key, keysMade, socketState,
                     link, request, response, handshake, upgraded, peer>>
  PROVE  OwnInv'
<1>1. /\ Asked' = Asked
      /\ Understood(readHandshake(request))' <=> Understood(readHandshake(request))
      /\ Accepted(response)' <=> Accepted(response)
  <2>1. Asked' = Asked
    BY DEF Asked
  <2>2. readHandshake(request)' = readHandshake(request)
    OBVIOUS
  <2>3. Understood(readHandshake(request))' <=> Understood(readHandshake(request))
    BY <2>1, <2>2 DEF Understood, Read
  <2>4. Accepted(response)' <=> Accepted(response)
    BY DEF Accepted, Unreadable
  <2> QED BY <2>1, <2>3, <2>4
<1>2. Typed'
  BY DEF OwnInv, Typed
<1>3. RequestInv => RequestInv'
  BY <1>1 DEF RequestInv
<1>4. ReadInv => ReadInv'
  BY <1>1 DEF ReadInv, Read
<1>5. UpgradedInv => UpgradedInv'
  BY <1>1 DEF UpgradedInv, Read, IsFirst
<1>6. AnsweredInv => AnsweredInv'
  BY <1>1 DEF AnsweredInv
<1> QED BY <1>2, <1>3, <1>4, <1>5, <1>6 DEF OwnInv

LEMMA OwnOpen ==
  ASSUME OwnInv, NEW raw \in RawHeaders, NEW options \in Options, open(raw, options)
  PROVE  OwnInv'
<1>1. /\ request' = None /\ response' = None /\ upgraded' = None /\ handshake' = None
      /\ link' = "connecting" /\ m_request' = raw /\ m_options' = options
      /\ UNCHANGED <<m_key, keysMade, m_supportedSubprotocols>>
  BY DEF open
<1>2. Typed'
  BY <1>1 DEF OwnInv, Typed
<1> QED BY <1>1, <1>2 DEF OwnInv, RequestInv, ReadInv, UpgradedInv, AnsweredInv

LEMMA OwnConnected ==
  ASSUME HInv, OwnInv, Connected
  PROVE  OwnInv'
<1>1. /\ link = "connecting" /\ link' = "open" /\ keysMade' = keysMade + 1 /\ m_key' = keysMade + 1
      /\ request' = createHandShakeRequest(keysMade + 1)
      /\ UNCHANGED <<m_request, m_options, m_origin, socketState, response, handshake, upgraded,
                     m_supportedSubprotocols, peer>>
  BY DEF Connected, SendRequest, generateKey, serverVars
<1>2. socketState = "Connecting" /\ handshake = None /\ response = None
  BY <1>1 DEF HInv, ConnectingInv
<1>3. keysMade \in Nat
  BY DEF OwnInv, Typed
<1>4. Typed'
  BY <1>1, <1>3 DEF OwnInv, Typed
<1>5. Understood(readHandshake(request))'
  <2> DEFINE r == readHandshake(createHandShakeRequest(keysMade + 1))
  <2>1. keysMade + 1 \in Nat \ {0}
    BY <1>3
  <2>2. IsRaw(m_request) /\ m_options \in Seq(STRING)
    BY TypedRequest DEF OwnInv
  <2>3. /\ r.m_isValid =>
             /\ r.m_key = keysMade + 1 /\ currentVersion \in r.m_versions
             /\ r.m_protocols \in Seq(STRING)
             /\ Among(r.m_protocols, STRING \ {""}) = Asked
        /\ ~r.m_isValid =>
             \E i \in DOMAIN m_request["version"] : NotANumber \in ToSet(m_request["version"][i])
    BY <2>1, <2>2, OwnRequest
  <2>4. Asked' = Asked
    BY <1>1 DEF Asked
  <2>5. readHandshake(request)' = r
    BY <1>1 DEF readHandshake
  <2> HIDE DEF r
  <2> QED BY <1>1, <2>3, <2>4, <2>5 DEF Understood, Read
<1>6. CASE peer = "own"
  <2>1. upgraded = None
    BY <1>1, <1>6 DEF OwnInv
  <2>2. m_key' # 0
    BY <1>1, <1>3
  <2>3. RequestInv'
    BY <1>1, <1>2, <1>5, <2>1, <2>2 DEF RequestInv
  <2>4. ReadInv' /\ UpgradedInv' /\ AnsweredInv'
    BY <1>1, <1>2, <2>1 DEF ReadInv, UpgradedInv, AnsweredInv
  <2> QED BY <1>1, <1>4, <2>3, <2>4 DEF OwnInv
<1>7. CASE peer # "own"
  BY <1>1, <1>4, <1>7 DEF OwnInv
<1> QED BY <1>6, <1>7

(* No server of the library challenges its client.                         *)
LEMMA OwnResent ==
  ASSUME OwnInv, HandshakeResent
  PROVE  OwnInv'
<1>1. /\ response # None /\ response.status = 401 /\ keysMade' = keysMade + 1
      /\ m_key' = keysMade + 1 /\ UNCHANGED <<m_request, m_options, m_supportedSubprotocols, peer>>
  BY DEF HandshakeResent, Reads, Resent, SendRequest, generateKey, serverVars
<1>2. peer # "own"
  BY <1>1 DEF OwnInv, AnsweredInv
<1>3. keysMade \in Nat
  BY DEF OwnInv, Typed
<1>4. Typed'
  BY <1>1, <1>3 DEF OwnInv, Typed
<1> QED BY <1>1, <1>2, <1>4 DEF OwnInv

(* The client reads an answer, or finds the connection closed.             *)
LEMMA OwnReads ==
  ASSUME HInv, OwnInv,
         HandshakeSucceeds \/ HandshakeUnreadable \/ HandshakeFails
           \/ Disconnected \/ ConnectedForNothing
  PROVE  OwnInv'
<1>1. /\ UNCHANGED <<m_request, m_options, m_origin, request, handshake, upgraded,
                     m_supportedSubprotocols, peer>>
      /\ \/ keysMade' = keysMade /\ m_key' = m_key
         \/ keysMade' = generateKey /\ m_key' = generateKey
      /\ response' = None
      /\ \/ link' = "down"
         \/ socketState' = "Connected" /\ link' = link
         \/ /\ link' = link /\ Unreadable(response)
            /\ socketState' = socketState /\ socketState = "Connecting" /\ response # None
      /\ response # None \/ link \in {"closing", "connecting"}
  BY DEF HandshakeSucceeds, HandshakeUnreadable, HandshakeFails, Disconnected,
         ConnectedForNothing, Reads, clientVars, serverVars, HInv, ConnectingInv
<1>2. Typed'
  BY <1>1 DEF OwnInv, Typed, generateKey
<1>3. Asked' = Asked
  BY <1>1 DEF Asked
<1>4. CASE peer = "own"
  <2>1. request = None /\ handshake = None
    BY <1>1, <1>4 DEF HInv, OneMessage, OwnInv, RequestInv, ReadInv
  <2>2. RequestInv' /\ ReadInv'
    BY <1>1, <2>1 DEF RequestInv, ReadInv
  <2>3. UpgradedInv'
    BY <1>1, <1>3, <1>4 DEF OwnInv, UpgradedInv, Read, IsFirst
  <2>4. link' # "connecting"
    <3>1. response = None => link' = "down"
      BY DEF HandshakeSucceeds, HandshakeUnreadable, HandshakeFails, Disconnected,
             ConnectedForNothing, Reads
    <3>2. response # None => link # "connecting"
      BY DEF HInv, ConnectingInv
    <3> QED BY <1>1, <3>1, <3>2
  <2>5. AnsweredInv'
    <3> SUFFICES ASSUME link' = "open", upgraded' # None PROVE socketState' = "Connected"
      BY <1>1 DEF AnsweredInv
    <3>1. CASE link' = link /\ Unreadable(response) /\ response # None
      <4>1. Accepted(response)
        BY <1>1, <1>4, <3>1 DEF OwnInv, AnsweredInv
      <4> QED BY <3>1, <4>1 DEF Accepted
    <3> QED BY <1>1, <3>1
  <2> QED BY <1>1, <1>2, <2>2, <2>3, <2>4, <2>5 DEF OwnInv
<1>5. CASE peer # "own"
  BY <1>1, <1>2, <1>5 DEF OwnInv
<1> QED BY <1>4, <1>5

LEMMA OwnReceived ==
  ASSUME HInv, OwnInv, handshakeReceived
  PROVE  OwnInv'
<1> DEFINE r == readHandshake(request)
<1>1. /\ link = "open" /\ request # None /\ handshake = None /\ request' = None
      /\ \/ r.m_isValid /\ handshake' = r /\ link' = link
         \/ ~r.m_isValid /\ handshake' = handshake /\ link' = "closing"
      /\ UNCHANGED <<m_request, m_options, m_origin, m_key, keysMade, socketState, response,
                     upgraded, m_supportedSubprotocols, peer>>
  BY DEF handshakeReceived, CloseTcp, clientVars
<1>2. Typed'
  BY <1>1 DEF OwnInv, Typed
<1>3. Asked' = Asked
  BY <1>1 DEF Asked
<1>4. CASE peer = "own"
  <2>1. /\ socketState = "Connecting" /\ m_key # 0 /\ upgraded = None
        /\ Understood(r)
    BY <1>1, <1>4 DEF OwnInv, RequestInv
  <2>2. response = None
    BY <1>1, <1>4 DEF HInv, OneMessage
  <2> HIDE DEF r
  <2>4. ReadInv'
    BY <1>1, <1>3, <2>1 DEF ReadInv, Understood, Read
  <2>5. RequestInv' /\ UpgradedInv' /\ AnsweredInv'
    BY <1>1, <2>1, <2>2 DEF RequestInv, UpgradedInv, AnsweredInv
  <2> QED BY <1>1, <1>2, <2>1, <2>4, <2>5 DEF OwnInv
<1>5. CASE peer # "own"
  BY <1>1, <1>2, <1>5 DEF OwnInv
<1> QED BY <1>4, <1>5

LEMMA AnswerStatus ==
  ASSUME NEW h, NEW error
  PROVE  getHandshakeResponse(h, error).status \in {101, 400, 403}
<1>1. CASE error = "PolicyViolated"
  BY <1>1 DEF getHandshakeResponse
<1>2. CASE error = "ProtocolError"
  BY <1>2 DEF getHandshakeResponse
<1>3. CASE error \notin {"PolicyViolated", "ProtocolError"}
  BY <1>3 DEF getHandshakeResponse
<1> QED BY <1>1, <1>2, <1>3

LEMMA OwnRespond ==
  ASSUME HInv, OwnInv, NEW allowed \in BOOLEAN, respond(allowed)
  PROVE  OwnInv'
<1> DEFINE error == ResponseError(handshake, allowed)
<1>1. /\ handshake # None /\ handshake' = None
      /\ response' = getHandshakeResponse(handshake, error)
      /\ error = "Normal" => upgraded' = upgradeFrom(handshake) /\ link' = link
      /\ error # "Normal" => link' = "closing" /\ upgraded' = upgraded
      /\ UNCHANGED <<m_request, m_options, m_origin, m_key, keysMade, socketState, request,
                     m_supportedSubprotocols, peer>>
  BY DEF respond, CloseTcp, clientVars
<1> HIDE DEF error
<1>2. Typed'
  BY <1>1 DEF OwnInv, Typed
<1>3. Asked' = Asked
  BY <1>1 DEF Asked
<1>4. CASE peer = "own"
  <2>1. /\ link = "open" /\ socketState = "Connecting" /\ upgraded = None
        /\ Read(handshake.m_protocols)
    BY <1>1, <1>4 DEF OwnInv, ReadInv
  <2>2. request = None
    BY <1>1, <1>4 DEF HInv, OneMessage
  <2>3. RequestInv' /\ ReadInv'
    BY <1>1, <2>2 DEF RequestInv, ReadInv
  <2>4. response'.status # 401
    <3>1. response'.status \in {101, 400, 403}
      BY <1>1, AnswerStatus
    <3> QED BY <3>1
  <2>5. CASE error # "Normal"
    <3>1. UpgradedInv' /\ AnsweredInv'
      BY <1>1, <2>1, <2>4, <2>5 DEF UpgradedInv, AnsweredInv
    <3> QED BY <1>1, <1>2, <2>1, <2>3, <2>5, <3>1 DEF OwnInv
  <2>6. CASE error = "Normal"
    <3> DEFINE protocols == handshake.m_protocols
               p == FirstSupported(protocols)
    <3>1. /\ upgraded'.protocol = p /\ upgraded'.subprotocols = protocols
          /\ upgraded'.supported = m_supportedSubprotocols
      BY <1>1, <2>6 DEF upgradeFrom
    <3>2. "" \notin m_supportedSubprotocols
      BY TypedRequest DEF OwnInv
    <3>3. IsFirst(p, protocols, m_supportedSubprotocols)
      <4>1. protocols \in Seq(STRING) /\ p = FirstSupported(protocols)
        BY <2>1 DEF Read
      <4> HIDE DEF protocols, p
      <4> QED BY <4>1, FirstOfNames DEF IsFirst
    <3>4. IsFirst(upgraded.protocol, upgraded.subprotocols, upgraded.supported)'
      <4> HIDE DEF p, protocols
      <4> QED BY <3>1, <3>3 DEF IsFirst
    <3>5. Read(upgraded.subprotocols)'
      BY <1>3, <2>1, <3>1 DEF Read
    <3>6. UpgradedInv'
      BY <3>1, <3>2, <3>4, <3>5 DEF UpgradedInv
    <3>7. Accepted(response)'
      <4> DEFINE answer == getHandshakeResponse(handshake, "Normal")
      <4>1. Accepted(answer)
        BY <1>1, <1>4, OwnAnswer DEF OwnInv
      <4>2. response' = answer
        BY <1>1, <2>6
      <4> HIDE DEF answer
      <4> QED BY <1>1, <4>1, <4>2 DEF Accepted, Unreadable
    <3>8. AnsweredInv'
      <4>1. response' # None
        <5>1. "status" \notin DOMAIN None
          BY DEF None
        <5>2. "status" \in DOMAIN getHandshakeResponse(handshake, error)
          BY DEF getHandshakeResponse
        <5> QED BY <1>1, <5>1, <5>2
      <4> QED BY <1>1, <2>1, <2>4, <3>7, <4>1 DEF AnsweredInv
    <3> QED BY <1>1, <1>2, <2>1, <2>3, <2>6, <3>6, <3>8 DEF OwnInv
  <2> QED BY <2>5, <2>6
<1>5. CASE peer # "own"
  BY <1>1, <1>2, <1>5 DEF OwnInv
<1> QED BY <1>4, <1>5

LEMMA OwnStep == HInv /\ OwnInv /\ [Next]_vars => OwnInv'
<1> SUFFICES ASSUME HInv, OwnInv, [Next]_vars PROVE OwnInv'
  OBVIOUS
<1>1. CASE \E raw \in RawHeaders, options \in Options : open(raw, options)
  BY <1>1, OwnOpen
<1>2. CASE (\E s \in Supported : setSupportedSubprotocols(s))
             \/ (\E name \in {"text", "newline"} : setServerName(name)) \/ UNCHANGED vars
  <2>1. /\ m_supportedSubprotocols' \in Supported
        /\ UNCHANGED <<m_request, m_options, m_origin, m_key, keysMade, socketState,
                       link, request, response, handshake, upgraded, peer>>
    BY <1>2 DEF setSupportedSubprotocols, setServerName, vars, clientVars, wireVars, serverVars,
                OwnInv, Typed
  <2> QED BY <2>1, OwnSame
<1>3. CASE Client
  BY <1>3, OwnConnected, OwnResent, OwnReads DEF Client
<1>4. CASE Server
  BY <1>4, OwnReceived, OwnRespond DEF Server
<1>5. CASE ForeignServerAnswers \/ ForeignClientAsks
  <2>1. /\ peer # "own" /\ peer' = peer
        /\ UNCHANGED <<m_request, m_options, m_key, keysMade, m_supportedSubprotocols>>
    BY <1>5 DEF ForeignServerAnswers, ForeignClientAsks, clientVars, serverVars
  <2> QED BY <2>1 DEF OwnInv, Typed
<1> QED BY <1>1, <1>2, <1>3, <1>4, <1>5 DEF Next, Application

LEMMA OwnInvariant == Spec => []OwnInv
BY Invariant, OwnInit, OwnStep, PTL DEF Spec

-----------------------------------------------------------------------------
(* The first name that is supported is the first among the names that are  *)
(* none left out, too.                                                     *)
LEMMA OfConcat ==
  \A V : \A s, t \in Seq(V) :
    /\ s \o t \in Seq(V) /\ Len(s \o t) = Len(s) + Len(t)
    /\ \A i \in 1 .. Len(s) + Len(t) :
         (s \o t)[i] = IF i <= Len(s) THEN s[i] ELSE t[i - Len(s)]
BY ConcatProperties

LEMMA Split ==
  ASSUME NEW V, NEW s \in Seq(V), NEW i \in 1 .. Len(s)
  PROVE  \E before, after \in Seq(V) :
           /\ s = (before \o <<s[i]>>) \o after
           /\ Len(before) = i - 1 /\ \A j \in 1 .. i - 1 : before[j] = s[j]
<1> DEFINE before == SubSeq(s, 1, i - 1)
           after  == SubSeq(s, i + 1, Len(s))
           x == s[i]
           b == before \o <<x>>
<1>1. Len(s) \in Nat /\ i \in Nat /\ x \in V
  BY LenProperties, ElementOfSeq
<1>2. before \in Seq(V) /\ Len(before) = i - 1 /\ \A j \in 1 .. i - 1 : before[j] = s[j]
  BY <1>1
<1>3. after \in Seq(V) /\ Len(after) = Len(s) - i /\ \A j \in 1 .. Len(s) - i : after[j] = s[j + i]
  BY <1>1
<1> HIDE DEF before, after
<1>4. b \in Seq(V) /\ Len(b) = i /\ \A j \in 1 .. i : b[j] = s[j]
  <2>1. b = Append(before, x)
    BY <1>1, <1>2, AppendIsConcat
  <2> HIDE DEF b, x
  <2>2. b \in Seq(V) /\ Len(b) = i /\ b[i] = x /\ \A j \in 1 .. i - 1 : b[j] = before[j]
    BY <2>1, <1>1, <1>2, AppendProperties
  <2>3. \A j \in 1 .. i : j = i \/ j \in 1 .. i - 1
    BY <1>1
  <2> QED BY <1>2, <2>2, <2>3 DEF x
<1> HIDE DEF b, x
<1>5. /\ b \o after \in Seq(V) /\ Len(b \o after) = Len(s)
      /\ \A j \in 1 .. Len(s) : (b \o after)[j] = IF j <= i THEN b[j] ELSE after[j - i]
  <2>1. /\ b \o after \in Seq(V) /\ Len(b \o after) = Len(b) + Len(after)
        /\ \A j \in 1 .. Len(b) + Len(after) :
             (b \o after)[j] = IF j <= Len(b) THEN b[j] ELSE after[j - Len(b)]
    <3>1. b \in Seq(V) /\ after \in Seq(V)
      BY <1>3, <1>4
    <3> QED BY ONLY <3>1, OfConcat, Zenon
  <2>2. Len(b) + Len(after) = Len(s)
    BY <1>1, <1>3, <1>4
  <2> QED BY <1>4, <2>1, <2>2
<1>6. \A j \in 1 .. Len(s) : (b \o after)[j] = s[j]
  <2> TAKE j \in 1 .. Len(s)
  <2>1. CASE j <= i
    BY <2>1, <1>1, <1>4, <1>5
  <2>2. CASE ~(j <= i)
    <3>1. j - i \in 1 .. Len(s) - i /\ (j - i) + i = j
      BY <2>2, <1>1
    <3>2. after[j - i] = s[(j - i) + i]
      BY <3>1, <1>3
    <3> QED BY <2>2, <3>1, <3>2, <1>5
  <2> QED BY <2>1, <2>2
<1>7. s = b \o after
  <2> DEFINE c == b \o after
  <2>1. c \in Seq(V) /\ Len(c) = Len(s) /\ \A j \in 1 .. Len(s) : c[j] = s[j]
    BY <1>5, <1>6
  <2> HIDE DEF c
  <2>2. c = s
    BY <2>1, SeqEqual
  <2> QED BY <2>2 DEF c
<1> QED BY <1>2, <1>3, <1>7 DEF b, x

NoneBefore(i, s, S) == \A j \in 1 .. i - 1 : s[j] \notin S

Leads(x, s, S) == \E k \in DOMAIN s : s[k] = x /\ NoneBefore(k, s, S)

LEMMA FirstStays ==
  ASSUME NEW V, NEW s \in Seq(V), NEW S, NEW T, NEW i \in 1 .. Len(s), s[i] \in T,
         NoneBefore(i, s, S)
  PROVE  Leads(s[i], Among(s, T), S)
<1>1. PICK before, after \in Seq(V) :
        /\ s = (before \o <<s[i]>>) \o after
        /\ Len(before) = i - 1 /\ \A j \in 1 .. i - 1 : before[j] = s[j]
  BY Split
<1> DEFINE p == s[i]
           a == Among(before, T)
           c == Among(after, T)
           b == before \o <<p>>
           asked == Among(s, T)
<1>2. p \in V /\ p \in T /\ <<p>> \in Seq(V)
  BY ElementOfSeq
<1>3. a \in Seq(V) /\ c \in Seq(V)
  BY AmongSeq
<1>4. \A x : x \in ToSet(a) <=> x \in ToSet(before) /\ x \in T
  BY AmongElements
<1>5. s = b \o after
  BY <1>1
<1>6. \A u, v \in Seq(V) : Among(u \o v, T) = Among(u, T) \o Among(v, T)
  BY AmongOfConcat, Zenon
<1>7. Among(<<p>>, T) = <<p>>
  <2> HIDE DEF p
  <2>1. Among(<<p>>, T) = IF p \in T THEN <<p>> ELSE <<>>
    BY ONLY <1>2, AmongOne
  <2> QED BY <1>2, <2>1
<1>8. b \in Seq(V)
  <2> HIDE DEF p
  <2> QED BY <1>2, ConcatProperties
<1>9. asked = (a \o <<p>>) \o c
  <2>1. Among(b, T) = a \o Among(<<p>>, T)
    <3> HIDE DEF p
    <3> QED BY <1>2, <1>6
  <2>2. Among(b \o after, T) = Among(b, T) \o c
    <3> HIDE DEF b
    <3> QED BY <1>6, <1>8
  <2> HIDE DEF a, b, c, p
  <2> QED BY <1>5, <1>7, <2>1, <2>2, Zenon
<1> HIDE DEF a, b, c, p, asked
<1>10. /\ Len(a) \in Nat /\ DOMAIN a = 1 .. Len(a) /\ Len(a) + 1 \in DOMAIN asked
       /\ asked[Len(a) + 1] = p
       /\ \A j \in 1 .. Len(a) : asked[j] = a[j]
  BY <1>2, <1>3, <1>9
<1>11. ASSUME NEW j \in 1 .. (Len(a) + 1) - 1 PROVE asked[j] \notin S
  <2>1. j \in DOMAIN a /\ asked[j] = a[j]
    BY <1>10
  <2>2. a[j] \in ToSet(before)
    BY <1>4, <2>1 DEF ToSet
  <2>3. DOMAIN before = 1 .. i - 1
    BY <1>1, LenProperties
  <2>4. PICK k \in 1 .. i - 1 : a[j] = before[k]
    BY <2>2, <2>3 DEF ToSet
  <2> QED BY <1>1, <2>1, <2>4 DEF NoneBefore
<1> QED BY <1>10, <1>11 DEF asked, p, Leads, NoneBefore

IsPreferred(p, asked, S) ==
  /\ p = "" => ToSet(asked) \cap S = {}
  /\ p # "" => \E i \in DOMAIN asked :
                 /\ asked[i] = p /\ p \in S
                 /\ \A j \in 1 .. i - 1 : asked[j] \notin S

LEMMA FirstAmong ==
  ASSUME NEW names \in Seq(STRING), NEW S, "" \notin S, NEW p, IsFirst(p, names, S),
         NEW asked, asked = Among(names, STRING \ {""})
  PROVE  IsPreferred(p, asked, S)
<1> DEFINE T == STRING \ {""}
<1>1. CASE p = "" /\ ToSet(names) \cap S = {}
  <2>1. \A x : x \in ToSet(asked) => x \in ToSet(names)
    BY AmongElements
  <2> QED BY <2>1, <1>1 DEF IsPreferred
<1>2. CASE \E i \in 1 .. Len(names) : /\ names[i] = p /\ p \in S
                                      /\ \A j \in 1 .. i - 1 : names[j] \notin S
  <2>1. PICK i \in 1 .. Len(names) : /\ names[i] = p /\ p \in S
                                     /\ \A j \in 1 .. i - 1 : names[j] \notin S
    BY <1>2
  <2>2. names[i] \in STRING
    BY ElementOfSeq
  <2>3. p # "" /\ names[i] \in T
    BY <2>1, <2>2
  <2> HIDE DEF T
  <2>4. Leads(names[i], Among(names, T), S)
    <3>1. NoneBefore(i, names, S)
      BY <2>1 DEF NoneBefore
    <3> QED BY <2>3, <3>1, FirstStays
  <2>5. asked = Among(names, T)
    BY DEF T
  <2> QED BY <2>1, <2>3, <2>4, <2>5 DEF IsPreferred, Leads, NoneBefore
<1> QED BY <1>1, <1>2 DEF IsFirst

LEMMA FirstOfAsked ==
  \A names \in Seq(STRING) : \A S, p, asked :
    "" \notin S /\ IsFirst(p, names, S) /\ asked = Among(names, STRING \ {""})
    => IsPreferred(p, asked, S)
BY FirstAmong

(* The two ends never disagree, over any number of connections.            *)
THEOREM AlwaysAgree == Spec => []Agreement
<1>1. HInv /\ OwnInv => Agreement
  <2> SUFFICES ASSUME HInv, OwnInv PROVE Agreement
    OBVIOUS
  <2>1. SameConnection
    BY DEF HInv
  <2>2. ASSUME peer = "own", socketState = "Connected"
        PROVE  Among(upgraded.subprotocols, STRING \ {""}) = Asked
    <3>1. upgraded # None
      BY <2>1, <2>2 DEF SameConnection
    <3> QED BY <2>2, <3>1 DEF OwnInv, UpgradedInv, Read
  <2>3. ASSUME peer = "own", upgraded # None, response = None, link = "open"
        PROVE  socketState = "Connected"
    BY <2>3 DEF OwnInv, AnsweredInv
  <2> QED BY <2>1, <2>2, <2>3 DEF Agreement
<1> QED BY Invariant, OwnInvariant, <1>1, PTL

(* The subprotocol is the first of those asked for that the server         *)
(* supports, whatever is asked for and however it is written.              *)
THEOREM AlwaysNegotiated == Spec => []Negotiated
<1>1. HInv /\ OwnInv => Negotiated
  <2> SUFFICES ASSUME HInv, OwnInv PROVE Negotiated
    OBVIOUS
  <2>1. SameConnection /\ NothingUnasked
    BY DEF HInv
  <2>2. ASSUME socketState = "Connected", peer = "own", NEW asked, asked = Asked
        PROVE  IF m_protocol = "" THEN ToSet(asked) \cap upgraded.supported = {}
               ELSE \E i \in DOMAIN asked :
                      /\ asked[i] = m_protocol /\ m_protocol \in upgraded.supported
                      /\ \A j \in 1 .. i - 1 : asked[j] \notin upgraded.supported
    <3>1. upgraded # None /\ upgraded.protocol = m_protocol
      BY <2>1, <2>2 DEF SameConnection
    <3>2. /\ upgraded.subprotocols \in Seq(STRING)
          /\ asked = Among(upgraded.subprotocols, STRING \ {""})
          /\ "" \notin upgraded.supported
          /\ IsFirst(m_protocol, upgraded.subprotocols, upgraded.supported)
      BY <2>2, <3>1 DEF OwnInv, UpgradedInv, Read
    <3> DEFINE names == upgraded.subprotocols
               S == upgraded.supported
               p == m_protocol
    <3>3. /\ names \in Seq(STRING) /\ "" \notin S /\ IsFirst(p, names, S)
          /\ asked = Among(names, STRING \ {""})
      BY <3>2
    <3> HIDE DEF names, S, p
    <3>4. IsPreferred(p, asked, S)
      BY <3>3, FirstOfAsked, Zenon
    <3> QED BY <3>4 DEF IsPreferred, names, S, p
  <2> QED BY <2>1, <2>2 DEF Negotiated
<1> QED BY Invariant, OwnInvariant, <1>1, PTL

(* A client of the library is refused only for what its own application or *)
(* that of the server has done.                                            *)
THEOREM OwnAccepted == Spec => OwnRequestsAccepted
<1>1. HInv /\ OwnInv /\ [Next]_vars =>
        [peer = "own" /\ link = "open" /\ link' = "closing" =>
           \/ m_error' = "PolicyViolated"
           \/ m_serverName = "newline"
           \/ \E i \in DOMAIN m_request["version"] :
                NotANumber \in ToSet(m_request["version"][i])]_vars
  <2> SUFFICES ASSUME HInv, OwnInv, Next, peer = "own", link = "open", link' = "closing"
               PROVE  \/ m_error' = "PolicyViolated"
                      \/ m_serverName = "newline"
                      \/ \E i \in DOMAIN m_request["version"] :
                           NotANumber \in ToSet(m_request["version"][i])
    OBVIOUS
  <2>1. Server
    BY DEF Next, Application, Client, open, setSupportedSubprotocols, setServerName,
           Connected, ConnectedForNothing, HandshakeSucceeds, HandshakeUnreadable,
           HandshakeResent, HandshakeFails, Disconnected, ForeignServerAnswers, ForeignClientAsks,
           wireVars
  <2>2. CASE handshakeReceived
    <3>1. request # None /\ ~readHandshake(request).m_isValid
      BY <2>2 DEF handshakeReceived
    <3> QED BY <3>1 DEF OwnInv, RequestInv, Understood
  <2>3. ASSUME NEW allowed \in BOOLEAN, respond(allowed)
        PROVE  m_error' = "PolicyViolated" \/ m_serverName = "newline"
    <3> DEFINE error == ResponseError(handshake, allowed)
    <3>1. handshake # None /\ error # "Normal" /\ m_error' = error
      BY <2>3 DEF respond
    <3>2. handshake.m_versions \cap supportedVersions # {}
      BY <3>1 DEF OwnInv, ReadInv, supportedVersions
    <3> QED BY <3>1, <3>2 DEF ResponseError
  <2> QED BY <2>1, <2>2, <2>3 DEF Server
<1> QED BY Invariant, OwnInvariant, <1>1, PTL DEF Spec, OwnRequestsAccepted

(* A client connected to a server of the library has the connection that   *)
(* was upgraded for its last request, and its subprotocol.                 *)
THEOREM AlwaysSameConnection == Spec => []SameConnection
BY Invariant, PTL DEF HInv

(* The client never uses a subprotocol that was not asked for, whatever a  *)
(* server answers.                                                         *)
THEOREM NeverUnasked == Spec => []NothingUnasked
BY Invariant, PTL DEF HInv

(* The client gets connected only by an answer to the last request that it *)
(* has sent, over any number of connections and of requests on them.       *)
THEOREM OnlyLastRequest == Spec => AnswersLastRequest
<1>1. HInv /\ [Next]_vars =>
        [socketState # "Connected" /\ socketState' = "Connected" =>
           /\ response.status = 101
           /\ response.headers["accept"] = <<keysMade>>]_vars
  <2> SUFFICES ASSUME HInv, Next, socketState # "Connected", socketState' = "Connected"
               PROVE  response.status = 101 /\ response.headers["accept"] = <<keysMade>>
    OBVIOUS
  <2>1. HandshakeSucceeds
    BY DEF Next, Application, Client, Server, open, setSupportedSubprotocols, setServerName,
           Connected, ConnectedForNothing, HandshakeUnreadable, HandshakeResent, HandshakeFails,
           Disconnected, handshakeReceived, respond, ForeignServerAnswers, ForeignClientAsks,
           clientVars
  <2> QED BY <2>1, AcceptedKey DEF HandshakeSucceeds, Reads
<1> QED BY Invariant, <1>1, PTL DEF Spec, AnswersLastRequest
=============================================================================
