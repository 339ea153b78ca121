--------------------------------- MODULE Lists ---------------------------------
(****************************************************************************)
(* Lemmas about sequences and numbers that are nobody's in particular.      *)
(****************************************************************************)
EXTENDS Integers, Sequences, TLAPS, WellFoundedInduction

LX == INSTANCE SequencesExt

(* The place of an induction on Nat: a set of numbers has a least one.      *)
LEMMA LeastNatural ==
  ASSUME NEW T, T \subseteq Nat, T # {}
  PROVE  \E x \in T : \A y \in T : x <= y
<1>. DEFINE R == OpToRel(<, Nat)
<1>1. \E x \in T : \A y \in T : ~ (<<y, x>> \in R)
  BY NatLessThanWellFounded, WFMin
<1>2. \A x, y \in Nat : <<x, y>> \in R <=> x < y
  BY DEF OpToRel
<1>. HIDE DEF R
<1>3. PICK x \in T : \A y \in T : ~ (<<y, x>> \in R)
  BY <1>1
<1>4. ASSUME NEW y \in T PROVE x <= y
  <2>1. x \in Nat /\ y \in Nat
    BY <1>3, <1>4
  <2>2. ~(y < x)
    BY <1>2, <1>3, <1>4, <2>1
  <2> QED BY <2>1, <2>2
<1> QED BY <1>3, <1>4

(* What the library's FlattenSeq builds from the left.                      *)
Flattens(f, ss, n) == f = [i \in 1..n |-> IF i = 1 THEN ss[i] ELSE f[i - 1] \o ss[i]]

(* One piece more.                                                          *)
LEMMA FlattensStep ==
  ASSUME NEW ss, NEW n \in Nat, NEW f, Flattens(f, ss, n), NEW s
  PROVE  Flattens([i \in 1..(n + 1) |-> IF i <= n THEN f[i] ELSE IF n = 0 THEN ss[1] ELSE f[n] \o ss[n + 1]], ss, n + 1)
<1> DEFINE g == [i \in 1..(n + 1) |-> IF i <= n THEN f[i] ELSE IF n = 0 THEN ss[1] ELSE f[n] \o ss[n + 1]]
           h == [i \in 1..(n + 1) |-> IF i = 1 THEN ss[i] ELSE g[i - 1] \o ss[i]]
<1>1. \A i \in 1..n : f[i] = IF i = 1 THEN ss[i] ELSE f[i - 1] \o ss[i]
  BY DEF Flattens
<1>2. \A i \in 1..(n + 1) : g[i] = IF i <= n THEN f[i] ELSE IF n = 0 THEN ss[1] ELSE f[n] \o ss[n + 1]
  OBVIOUS
<1>3. ASSUME NEW i \in 1..(n + 1)
      PROVE  g[i] = IF i = 1 THEN ss[i] ELSE g[i - 1] \o ss[i]
  <2>1. CASE i = 1 /\ n = 0
    BY <1>2, <2>1
  <2>2. CASE i = 1 /\ n # 0
    BY <1>1, <1>2, <2>2
  <2>3. CASE i # 1 /\ i <= n
    <3>1. i - 1 \in 1..(n + 1) /\ i - 1 <= n /\ i \in 1..n
      BY <2>3
    <3> HIDE DEF g
    <3> QED
      BY <1>1, <1>2, <2>3, <3>1
  <2>4. CASE i # 1 /\ i = n + 1
    <3>1. i - 1 \in 1..(n + 1) /\ i - 1 <= n /\ i - 1 = n /\ n # 0 /\ ~(i <= n)
      BY <2>4
    <3> HIDE DEF g
    <3> QED
      BY <1>2, <2>4, <3>1
  <2> QED
    BY <2>1, <2>2, <2>3, <2>4
<1> HIDE DEF g
<1>4. g = h
  BY <1>3 DEF g
<1> QED
  BY <1>4 DEF Flattens, g

(* It can be built for any number of pieces.                                *)
LEMMA FlattensExist ==
  ASSUME NEW ss, NEW n \in Nat
  PROVE  \E f : Flattens(f, ss, n)
<1> DEFINE T == {m \in Nat : ~\E f : Flattens(f, ss, m)}
<1>1. SUFFICES ASSUME T # {}
               PROVE  FALSE
  OBVIOUS
<1>2. PICK m \in T : \A k \in T : m <= k
  BY <1>1, LeastNatural
<1>3. m # 0
  <2>1. Flattens(<<>>, ss, 0)
    BY DEF Flattens
  <2> QED
    BY <2>1, <1>2
<1>4. m - 1 \in Nat /\ m - 1 \notin T /\ (m - 1) + 1 = m
  BY <1>2, <1>3
<1>5. PICK f : Flattens(f, ss, m - 1)
  BY <1>4
<1>6. \E g : Flattens(g, ss, (m - 1) + 1)
  BY <1>4, <1>5, FlattensStep
<1> QED
  BY <1>2, <1>4, <1>6

(* Two that are built from the same pieces agree as far as both go.         *)
LEMMA FlattensAgree ==
  ASSUME NEW ss, NEW tt, NEW n \in Nat, NEW m \in Nat, n <= m, \A i \in 1..n : ss[i] = tt[i],
         NEW f, Flattens(f, ss, n), NEW g, Flattens(g, tt, m)
  PROVE  \A i \in 1..n : f[i] = g[i]
<1> DEFINE T == {i \in 1..n : f[i] # g[i]}
<1>1. SUFFICES ASSUME T # {}
               PROVE  FALSE
  OBVIOUS
<1>2. PICK i \in T : \A k \in T : i <= k
  <2>1. T \subseteq Nat
    OBVIOUS
  <2> QED
    BY <1>1, <2>1, LeastNatural
<1>3. /\ f[i] = IF i = 1 THEN ss[i] ELSE f[i - 1] \o ss[i]
      /\ g[i] = IF i = 1 THEN tt[i] ELSE g[i - 1] \o tt[i]
  <2>1. i \in 1..n /\ i \in 1..m
    BY <1>2
  <2>2. \A j \in 1..n : f[j] = IF j = 1 THEN ss[j] ELSE f[j - 1] \o ss[j]
    BY DEF Flattens
  <2>3. \A j \in 1..m : g[j] = IF j = 1 THEN tt[j] ELSE g[j - 1] \o tt[j]
    BY DEF Flattens
  <2> QED
    BY <2>1, <2>2, <2>3
<1>4. i # 1 => i - 1 \in 1..n /\ i - 1 \notin T
  BY <1>2
<1> QED
  BY <1>2, <1>3, <1>4

(* FlattenSeq is the last of what is built.                                 *)
LEMMA FlattenIs ==
  ASSUME NEW ss, Len(ss) \in Nat, Len(ss) # 0, NEW f, Flattens(f, ss, Len(ss))
  PROVE  LX!FlattenSeq(ss) = f[Len(ss)]
<1> DEFINE g == CHOOSE g : Flattens(g, ss, Len(ss))
<1>1. Flattens(g, ss, Len(ss))
  OBVIOUS
<1>2. LX!FlattenSeq(ss) = g[Len(ss)]
  BY DEF LX!FlattenSeq, Flattens
<1> HIDE DEF g
<1>3. g[Len(ss)] = f[Len(ss)]
  BY <1>1, FlattensAgree
<1> QED
  BY <1>2, <1>3

(* What is built of sequences over a set is a sequence over it.             *)
LEMMA FlattensTyped ==
  ASSUME NEW S, NEW ss \in Seq(Seq(S)), NEW f, Flattens(f, ss, Len(ss))
  PROVE  \A i \in 1..Len(ss) : f[i] \in Seq(S)
<1> DEFINE T == {i \in 1..Len(ss) : f[i] \notin Seq(S)}
<1>1. SUFFICES ASSUME T # {}
               PROVE  FALSE
  OBVIOUS
<1>2. PICK i \in T : \A k \in T : i <= k
  <2>1. T \subseteq Nat
    OBVIOUS
  <2> QED
    BY <1>1, <2>1, LeastNatural
<1>3. f[i] = IF i = 1 THEN ss[i] ELSE f[i - 1] \o ss[i]
  BY <1>2 DEF Flattens
<1>4. i # 1 => i - 1 \in 1..Len(ss) /\ i - 1 \notin T
  BY <1>2
<1>5. ss[i] \in Seq(S)
  BY <1>2
<1>6. i = 1 => f[i] \in Seq(S)
  BY <1>3, <1>5
<1>7. i # 1 => f[i] \in Seq(S)
  <2>1. i # 1 => f[i - 1] \in Seq(S)
    BY <1>4
  <2> QED
    BY <1>3, <1>5, <2>1
<1> QED
  BY <1>2, <1>6, <1>7

(* Flattening goes piece by piece.                                          *)
LEMMA FlattenAppend ==
  ASSUME NEW S, NEW ss \in Seq(Seq(S)), NEW s \in Seq(S)
  PROVE  /\ LX!FlattenSeq(ss) \in Seq(S)
         /\ LX!FlattenSeq(Append(ss, s)) = LX!FlattenSeq(ss) \o s
<1> DEFINE n == Len(ss)
           tt == Append(ss, s)
<1>1. /\ n \in Nat /\ tt \in Seq(Seq(S)) /\ Len(tt) = n + 1 /\ tt[n + 1] = s
      /\ \A i \in 1..n : ss[i] = tt[i]
  OBVIOUS
<1>2. PICK f : Flattens(f, ss, n)
  BY <1>1, FlattensExist
<1>0. n + 1 \in Nat
  BY <1>1
<1> HIDE DEF tt, n
<1>3. PICK g : Flattens(g, tt, n + 1)
  BY <1>0, FlattensExist
<1>4. \A i \in 1..n : f[i] = g[i] /\ f[i] \in Seq(S)
  <2>1. n \in Nat /\ n + 1 \in Nat /\ n <= n + 1 /\ \A i \in 1..n : ss[i] = tt[i]
    BY <1>1
  <2>2. \A i \in 1..n : f[i] = g[i]
    <3> DEFINE m == n + 1
    <3>1. n \in Nat /\ m \in Nat /\ n <= m
      BY <2>1
    <3>2. Flattens(g, tt, m)
      BY <1>3
    <3> HIDE DEF m
    <3> QED
      BY <1>2, <2>1, <3>1, <3>2, FlattensAgree
  <2>3. \A i \in 1..n : f[i] \in Seq(S)
    BY <1>2, FlattensTyped DEF n
  <2> QED
    BY <2>2, <2>3
<1>5. LX!FlattenSeq(tt) = g[n + 1]
  BY <1>1, <1>3, FlattenIs
<1>6. g[n + 1] = IF n + 1 = 1 THEN tt[n + 1] ELSE g[(n + 1) - 1] \o tt[n + 1]
  <2>1. \A i \in 1..(n + 1) : g[i] = IF i = 1 THEN tt[i] ELSE g[i - 1] \o tt[i]
    BY <1>3 DEF Flattens
  <2> QED
    BY <1>1, <2>1
<1>7. CASE n = 0
  <2>1. LX!FlattenSeq(ss) = <<>>
    BY <1>7 DEF LX!FlattenSeq, n
  <2>2. g[n + 1] = s
    BY <1>1, <1>6, <1>7
  <2> QED
    BY <1>5, <2>1, <2>2 DEF tt
<1>8. CASE n # 0
  <2>1. LX!FlattenSeq(ss) = f[n]
    BY <1>1, <1>2, <1>8, FlattenIs DEF n
  <2>2. g[n + 1] = g[n] \o s /\ n \in 1..n
    BY <1>1, <1>6, <1>8
  <2> QED
    BY <1>4, <1>5, <2>1, <2>2 DEF tt
<1> QED
  BY <1>7, <1>8

(* A sequence without items is the empty one.                               *)
LEMMA NothingIn ==
  ASSUME NEW S, NEW s \in Seq(S), Len(s) = 0
  PROVE  s = <<>>
<1>1. DOMAIN s = 1..0
  OBVIOUS
<1>2. s = [i \in 1..0 |-> s[i]]
  BY <1>1
<1>3. <<>> = [i \in 1..0 |-> s[i]]
  OBVIOUS
<1> QED
  BY <1>2, <1>3

(* Sequences with the same items are one.                                   *)
LEMMA SameItems ==
  ASSUME NEW S, NEW s \in Seq(S), NEW t \in Seq(S), Len(s) = Len(t),
         \A i \in 1..Len(s) : s[i] = t[i]
  PROVE  s = t
<1>1. s = [i \in 1..Len(s) |-> s[i]] /\ t = [i \in 1..Len(t) |-> t[i]]
  OBVIOUS
<1>2. [i \in 1..Len(s) |-> s[i]] = [i \in 1..Len(t) |-> t[i]]
  OBVIOUS
<1> QED
  BY <1>1, <1>2

(* A set of numbers with a bound has a greatest one.                        *)
LEMMA GreatestOf ==
  ASSUME NEW n \in Nat, NEW T, T \subseteq 1..n, T # {}
  PROVE  \E x \in T : \A y \in T : x >= y
<1> DEFINE below == {k \in Nat : \E y \in T : k = n - y}
<1>1. \A y \in T : y \in 1..n /\ n - y \in below
  OBVIOUS
<1>2. below \subseteq Nat /\ below # {}
  BY <1>1
<1>3. PICK k \in below : \A m \in below : k <= m
  BY <1>2, LeastNatural
<1>4. PICK x \in T : k = n - x
  BY <1>3
<1>5. ASSUME NEW y \in T
      PROVE  x >= y
  <2>1. k <= n - y
    BY <1>1, <1>3
  <2>2. x \in 1..n /\ y \in 1..n
    BY <1>1
  <2> QED
    BY <1>4, <2>1, <2>2
<1> QED
  BY <1>5

================================================================================
