----------------------------- MODULE ListProofs -----------------------------
(***************************************************************************)
(* What the loops over lists do, for lists of any length.  The library's   *)
(* induction theorems take an operator, which the provers do not           *)
(* instantiate; here a property of numbers is the set of the numbers that  *)
(* have it, and the step of a recursive definition is a function.          *)
(***************************************************************************)
EXTENDS Lists, TLAPS, FiniteSetTheorems, SequenceTheorems, WellFoundedInduction

\* Induction, with a set in place of a predicate.
LEMMA NatInd ==
  ASSUME NEW good, 0 \in good, \A k \in Nat : k \in good => k + 1 \in good
  PROVE  \A n \in Nat : n \in good
<1> DEFINE bad == Nat \ good
           R == {ss \in Nat \X Nat : ss[1] < ss[2]}
<1> SUFFICES ASSUME bad # {} PROVE FALSE
  OBVIOUS
<1>1. IsWellFoundedOn(OpToRel(<, Nat), Nat)
  BY NatLessThanWellFounded
<1>2. IsWellFoundedOn(R, Nat)
  BY <1>1 DEF OpToRel
<1>3. PICK m \in bad : \A y \in bad : ~(<<y, m>> \in R)
  <2> HIDE DEF R
  <2> QED BY <1>2, WFMin, Zenon
<1>4. m # 0 /\ m - 1 \in Nat /\ m - 1 < m /\ (m - 1) + 1 = m
  BY <1>3
<1>5. m - 1 \in good
  BY <1>3, <1>4
<1> QED BY <1>3, <1>4, <1>5

(* Induction up to n.                                                      *)
LEMMA IntervalInd ==
  ASSUME NEW n \in Nat, NEW good, 0 \in good,
         \A k \in 0 .. n - 1 : k \in good => k + 1 \in good
  PROVE  \A k \in 0 .. n : k \in good
<1> DEFINE g == {k \in Nat : k <= n => k \in good}
<1>1. 0 \in g
  OBVIOUS
<1>2. \A k \in Nat : k \in g => k + 1 \in g
  OBVIOUS
<1> HIDE DEF g
<1>3. \A k \in Nat : k \in g
  BY <1>1, <1>2, NatInd
<1> QED BY <1>3 DEF g

(* Definition by recursion: the values up to n, for every n.               *)
Approx(g, n, A, b, step) ==
  /\ g \in [0 .. n -> A] /\ g[0] = b
  /\ \A k \in 0 .. n - 1 : g[k + 1] = step[<<k, g[k]>>]

Recursion(f, A, b, step) ==
  /\ f \in [Nat -> A] /\ f[0] = b
  /\ \A n \in Nat : f[n + 1] = step[<<n, f[n]>>]

LEMMA RecNat ==
  ASSUME NEW A, NEW b \in A, NEW step \in [Nat \X A -> A]
  PROVE  \E f : Recursion(f, A, b, step)
<1>1. \A n \in Nat : \E g : Approx(g, n, A, b, step)
  <2> DEFINE good == {n \in Nat : \E g : Approx(g, n, A, b, step)}
  <2>1. 0 \in good
    <3>1. Approx([k \in 0 .. 0 |-> b], 0, A, b, step)
      BY DEF Approx
    <3> QED BY <3>1
  <2>2. ASSUME NEW n \in Nat, n \in good PROVE n + 1 \in good
    <3>1. PICK g : Approx(g, n, A, b, step)
      BY <2>2
    <3> DEFINE h == [k \in 0 .. n + 1 |-> IF k = n + 1 THEN step[<<n, g[n]>>] ELSE g[k]]
    <3>2. g[n] \in A /\ step[<<n, g[n]>>] \in A
      BY <3>1 DEF Approx
    <3>3. h \in [0 .. n + 1 -> A] /\ h[0] = b
      BY <3>1, <3>2 DEF Approx
    <3>4. ASSUME NEW k \in 0 .. n PROVE h[k + 1] = step[<<k, h[k]>>]
      <4>1. CASE k = n
        <5>1. h[n + 1] = step[<<n, g[n]>>] /\ h[n] = g[n]
          OBVIOUS
        <5> QED BY <4>1, <5>1
      <4>2. CASE k # n
        <5>1. k \in 0 .. n - 1 /\ k + 1 # n + 1 /\ k + 1 \in 0 .. n + 1 /\ k # n + 1
          BY <4>2
        <5>2. h[k + 1] = g[k + 1] /\ h[k] = g[k]
          BY <5>1
        <5>3. g[k + 1] = step[<<k, g[k]>>]
          BY <3>1, <5>1 DEF Approx
        <5> QED BY <5>2, <5>3
      <4> QED BY <4>1, <4>2
    <3>5. Approx(h, n + 1, A, b, step)
      <4> HIDE DEF h
      <4>1. (n + 1) - 1 = n
        OBVIOUS
      <4> QED BY <3>3, <3>4, <4>1 DEF Approx
    <3> QED BY <3>5
  <2> HIDE DEF good
  <2>3. \A n \in Nat : n \in good
    BY <2>1, <2>2, NatInd
  <2> QED BY <2>3 DEF good
<1>2. ASSUME NEW n \in Nat, NEW g, NEW h, Approx(g, n, A, b, step), Approx(h, n + 1, A, b, step)
      PROVE  h[n] = g[n]
  <2> DEFINE good == {k \in 0 .. n : g[k] = h[k]}
  <2>1. 0 \in good
    BY <1>2 DEF Approx
  <2>2. ASSUME NEW k \in 0 .. n - 1, k \in good PROVE k + 1 \in good
    <3>1. k \in 0 .. (n + 1) - 1 /\ k + 1 \in 0 .. n
      OBVIOUS
    <3>2. g[k + 1] = step[<<k, g[k]>>] /\ h[k + 1] = step[<<k, h[k]>>]
      BY <1>2, <3>1 DEF Approx
    <3> QED BY <2>2, <3>1, <3>2
  <2> HIDE DEF good
  <2>3. \A k \in 0 .. n : k \in good
    BY <2>1, <2>2, IntervalInd
  <2> QED BY <2>3 DEF good
<1> DEFINE G(n) == CHOOSE g : Approx(g, n, A, b, step)
           f == [n \in Nat |-> G(n)[n]]
<1>3. \A n \in Nat : Approx(G(n), n, A, b, step)
  BY <1>1
<1> HIDE DEF G
<1>4. f \in [Nat -> A]
  BY <1>3 DEF Approx
<1>5. f[0] = b
  BY <1>3 DEF Approx
<1>6. ASSUME NEW n \in Nat PROVE f[n + 1] = step[<<n, f[n]>>]
  <2>1. G(n + 1)[n + 1] = step[<<n, G(n + 1)[n]>>]
    BY <1>3 DEF Approx
  <2>2. G(n + 1)[n] = G(n)[n]
    BY <1>2, <1>3
  <2> QED BY <2>1, <2>2
<1>7. Recursion(f, A, b, step)
  <2> HIDE DEF f
  <2> QED BY <1>4, <1>5, <1>6 DEF Recursion
<1> QED BY <1>7

-----------------------------------------------------------------------------
(***************************************************************************)
(* The elements of a list.                                                 *)
(***************************************************************************)
LEMMA ToSetIn ==
  ASSUME NEW E, NEW q \in Seq(E)
  PROVE  /\ \A x \in ToSet(q) : x \in E
         /\ \A x : x \in ToSet(q) <=> \E i \in 1 .. Len(q) : q[i] = x
         /\ \A i \in 1 .. Len(q) : q[i] \in ToSet(q)
<1>1. DOMAIN q = 1 .. Len(q) /\ \A i \in 1 .. Len(q) : q[i] \in E
  BY ElementOfSeq
<1> QED BY <1>1 DEF ToSet

LEMMA AppendSet ==
  ASSUME NEW E, NEW q \in Seq(E), NEW x \in E
  PROVE  Append(q, x) \in Seq(E) /\ ToSet(Append(q, x)) = ToSet(q) \cup {x}
<1>1. /\ Len(Append(q, x)) = Len(q) + 1
      /\ \A i \in 1 .. Len(q) : Append(q, x)[i] = q[i]
      /\ Append(q, x)[Len(q) + 1] = x
      /\ Len(q) \in Nat
      /\ Append(q, x) \in Seq(E)
  BY AppendProperties
<1>2. DOMAIN q = 1 .. Len(q) /\ DOMAIN Append(q, x) = 1 .. Len(q) + 1
  BY <1>1
<1>3. 1 .. Len(q) + 1 = (1 .. Len(q)) \cup {Len(q) + 1}
  BY <1>1
<1> QED BY <1>1, <1>2, <1>3 DEF ToSet

LEMMA EmptyList ==
  ASSUME NEW E, NEW q \in Seq(E)
  PROVE  q = <<>> <=> ToSet(q) = {}
<1>1. CASE q = <<>>
  BY <1>1 DEF ToSet
<1>2. CASE q # <<>>
  <2>1. 1 \in 1 .. Len(q)
    BY <1>2, EmptySeq
  <2> QED BY <1>2, <2>1, ToSetIn
<1> QED BY <1>1, <1>2

-----------------------------------------------------------------------------
(***************************************************************************)
(* Keep.                                                                   *)
(***************************************************************************)
(* The recursive definition is a function: what is kept of the first n.    *)
KeptOf(f, E, q, P) ==
  /\ f \in [0 .. Len(q) -> Seq(E)]
  /\ f[0] = <<>> /\ Keep(q, P) = f[Len(q)]
  /\ \A n \in 1 .. Len(q) :
       f[n] = IF q[n] \in P THEN Append(f[n - 1], q[n]) ELSE f[n - 1]

LEMMA KeepDef ==
  ASSUME NEW E, NEW q \in Seq(E), NEW P
  PROVE  \E f : KeptOf(f, E, q, P)
<1> DEFINE step == [x \in Nat \X Seq(E) |->
                      IF x[1] + 1 \in 1 .. Len(q) /\ q[x[1] + 1] \in P
                      THEN Append(x[2], q[x[1] + 1]) ELSE x[2]]
<1>1. step \in [Nat \X Seq(E) -> Seq(E)]
  <2> SUFFICES ASSUME NEW k \in Nat, NEW s \in Seq(E)
               PROVE  (IF k + 1 \in 1 .. Len(q) /\ q[k + 1] \in P
                       THEN Append(s, q[k + 1]) ELSE s) \in Seq(E)
    OBVIOUS
  <2>1. CASE k + 1 \in 1 .. Len(q)
    <3>1. q[k + 1] \in E
      BY <2>1, ElementOfSeq
    <3> QED BY <3>1, AppendProperties
  <2>2. CASE k + 1 \notin 1 .. Len(q)
    BY <2>2
  <2> QED BY <2>1, <2>2
<1>0. \A k \in 0 .. Len(q) - 1, s \in Seq(E) :
        step[<<k, s>>] = IF q[k + 1] \in P THEN Append(s, q[k + 1]) ELSE s
  <2> TAKE k \in 0 .. Len(q) - 1, s \in Seq(E)
  <2>1. k \in Nat /\ k + 1 \in 1 .. Len(q)
    OBVIOUS
  <2> QED BY <2>1
<1> HIDE DEF step
<1>2. PICK f \in [Nat -> Seq(E)] : /\ f[0] = <<>>
                                   /\ \A n \in Nat : f[n + 1] = step[<<n, f[n]>>]
  <2> DEFINE b == <<>>
             A == Seq(E)
  <2>1. b \in A
    OBVIOUS
  <2>2. step \in [Nat \X A -> A]
    BY <1>1
  <2> HIDE DEF b, A
  <2>3. \E f : Recursion(f, A, b, step)
    BY <2>1, <2>2, RecNat
  <2> QED BY <2>3 DEF b, A, Recursion
<1> DEFINE h == [n \in 0 .. Len(q) |-> f[n]]
<1>3. Len(q) \in Nat
  OBVIOUS
<1>4. \A n \in 1 .. Len(q) :
        h[n] = IF q[n] \in P THEN Append(h[n - 1], q[n]) ELSE h[n - 1]
  <2> TAKE n \in 1 .. Len(q)
  <2>1. n - 1 \in Nat /\ (n - 1) + 1 = n /\ n - 1 \in 0 .. Len(q) - 1
    OBVIOUS
  <2>2. f[(n - 1) + 1] = step[<<n - 1, f[n - 1]>>]
    BY <1>2, <2>1
  <2>3. f[n - 1] \in Seq(E)
    BY <2>1
  <2>4. step[<<n - 1, f[n - 1]>>] =
          IF q[(n - 1) + 1] \in P THEN Append(f[n - 1], q[(n - 1) + 1]) ELSE f[n - 1]
    BY <1>0, <2>1, <2>3
  <2>5. h[n] = f[n] /\ h[n - 1] = f[n - 1]
    BY <2>1
  <2> QED BY <2>1, <2>2, <2>4, <2>5
<1>5. h = [n \in 0 .. Len(q) |->
             IF n = 0 THEN <<>>
             ELSE IF q[n] \in P THEN Append(h[n - 1], q[n]) ELSE h[n - 1]]
  <2>1. h[0] = <<>> /\ h = [n \in 0 .. Len(q) |-> h[n]]
    BY <1>2, <1>3
  <2> HIDE DEF h
  <2>2. \A n \in 0 .. Len(q) : n = 0 \/ n \in 1 .. Len(q)
    BY <1>3
  <2>3. \A n \in 0 .. Len(q) :
          h[n] = IF n = 0 THEN <<>>
                 ELSE IF q[n] \in P THEN Append(h[n - 1], q[n]) ELSE h[n - 1]
    BY <2>1, <2>2, <1>4
  <2> QED BY <2>1, <2>3
<1> DEFINE Is(k) == k = [n \in 0 .. Len(q) |->
             IF n = 0 THEN <<>>
             ELSE IF q[n] \in P THEN Append(k[n - 1], q[n]) ELSE k[n - 1]]
           kept == CHOOSE k : Is(k)
<1>6. Is(kept)
  <2>1. Is(h)
    BY <1>5
  <2> HIDE DEF Is, h
  <2> QED BY <2>1
<1>7. Keep(q, P) = kept[Len(q)]
  BY DEF Keep
<1> HIDE DEF kept, h
<1>8. /\ DOMAIN kept = 0 .. Len(q) /\ kept[0] = <<>>
      /\ \A n \in 1 .. Len(q) :
           kept[n] = IF q[n] \in P THEN Append(kept[n - 1], q[n]) ELSE kept[n - 1]
  <2>1. kept = [n \in 0 .. Len(q) |->
             IF n = 0 THEN <<>>
             ELSE IF q[n] \in P THEN Append(kept[n - 1], q[n]) ELSE kept[n - 1]]
    BY <1>6
  <2>2. 0 \in 0 .. Len(q) /\ \A n \in 1 .. Len(q) : n # 0 /\ n \in 0 .. Len(q)
    BY <1>3
  <2>3. /\ DOMAIN kept = 0 .. Len(q)
        /\ \A n \in 0 .. Len(q) :
             kept[n] = IF n = 0 THEN <<>>
                       ELSE IF q[n] \in P THEN Append(kept[n - 1], q[n]) ELSE kept[n - 1]
    BY <2>1, Zenon
  <2> QED BY <2>2, <2>3
<1> HIDE DEF Is
<1>9. \A n \in 0 .. Len(q) : kept[n] \in Seq(E)
  <2> DEFINE good == {n \in 0 .. Len(q) : kept[n] \in Seq(E)}
  <2>1. 0 \in good
    <3>1. <<>> \in Seq(E) /\ 0 \in 0 .. Len(q)
      BY <1>3
    <3> QED BY <1>8, <3>1
  <2>2. ASSUME NEW k \in 0 .. Len(q) - 1, k \in good PROVE k + 1 \in good
    <3>1. k + 1 \in 1 .. Len(q) /\ (k + 1) - 1 = k /\ q[k + 1] \in E
      BY ElementOfSeq
    <3>2. kept[k] \in Seq(E) /\ k + 1 \in 0 .. Len(q)
      BY <2>2, <1>3
    <3>3. Append(kept[k], q[k + 1]) \in Seq(E)
      BY <3>1, <3>2, AppendProperties
    <3>4. kept[k + 1] = IF q[k + 1] \in P THEN Append(kept[k], q[k + 1]) ELSE kept[k]
      BY <1>8, <3>1
    <3> QED BY <3>2, <3>3, <3>4
  <2> HIDE DEF good
  <2>3. \A k \in 0 .. Len(q) : k \in good
    BY <1>3, <2>1, <2>2, IntervalInd
  <2> QED BY <2>3 DEF good
<1>10. kept \in [0 .. Len(q) -> Seq(E)]
  BY <1>8, <1>6, <1>9 DEF Is
<1>11. KeptOf(kept, E, q, P)
  BY <1>7, <1>8, <1>10 DEF KeptOf
<1> QED BY <1>11

LEMMA KeepProperties ==
  ASSUME NEW E, NEW q \in Seq(E), NEW P
  PROVE  /\ Keep(q, P) \in Seq(E)
         /\ ToSet(Keep(q, P)) = ToSet(q) \cap P
<1>0. PICK f : KeptOf(f, E, q, P)
  BY KeepDef
<1>1. /\ f \in [0 .. Len(q) -> Seq(E)]
      /\ f[0] = <<>> /\ Keep(q, P) = f[Len(q)]
      /\ \A n \in 1 .. Len(q) :
           f[n] = IF q[n] \in P THEN Append(f[n - 1], q[n]) ELSE f[n - 1]
  BY <1>0 DEF KeptOf
<1> DEFINE good == {n \in 0 .. Len(q) : ToSet(f[n]) = {q[i] : i \in 1 .. n} \cap P}
<1>2. Len(q) \in Nat /\ \A i \in 1 .. Len(q) : q[i] \in E
  BY ElementOfSeq
<1>3. 0 \in good
  <2>1. ToSet(f[0]) = {} /\ {q[i] : i \in 1 .. 0} = {}
    BY <1>1 DEF ToSet
  <2> QED BY <2>1, <1>2
<1>4. ASSUME NEW k \in 0 .. Len(q) - 1, k \in good PROVE k + 1 \in good
  <2>0. k \in 0 .. Len(q) /\ k + 1 \in 1 .. Len(q) /\ (k + 1) - 1 = k
    BY <1>2
  <2>1. k + 1 \in 1 .. Len(q) /\ (k + 1) - 1 = k /\ f[k] \in Seq(E) /\ q[k + 1] \in E
    BY <1>1, <1>2, <2>0
  <2>2. {q[i] : i \in 1 .. k + 1} = {q[i] : i \in 1 .. k} \cup {q[k + 1]}
    <3>1. 1 .. k + 1 = (1 .. k) \cup {k + 1}
      OBVIOUS
    <3> QED BY <3>1
  <2>3. CASE q[k + 1] \in P
    <3>1. f[k + 1] = Append(f[k], q[k + 1])
      BY <1>1, <2>1, <2>3
    <3>2. ToSet(Append(f[k], q[k + 1])) = ToSet(f[k]) \cup {q[k + 1]}
      BY <2>1, AppendSet
    <3>3. ToSet(f[k + 1]) = ({q[i] : i \in 1 .. k} \cap P) \cup {q[k + 1]}
      BY <3>1, <3>2, <1>4
    <3>4. ToSet(f[k + 1]) = {q[i] : i \in 1 .. k + 1} \cap P
      BY <3>3, <2>2, <2>3, Zenon
    <3> QED BY <3>4, <2>1
  <2>4. CASE q[k + 1] \notin P
    <3>1. f[k + 1] = f[k]
      BY <1>1, <2>1, <2>4
    <3> QED BY <3>1, <2>1, <2>2, <2>4, <1>4
  <2> QED BY <2>3, <2>4
<1> HIDE DEF good
<1>5. Len(q) \in good
  <2>1. \A k \in 0 .. Len(q) : k \in good
    BY <1>2, <1>3, <1>4, IntervalInd
  <2> QED BY <2>1, <1>2
<1>6. ToSet(q) = {q[i] : i \in 1 .. Len(q)}
  BY DEF ToSet
<1>7. Keep(q, P) \in Seq(E)
  BY <1>1, <1>2
<1> QED BY <1>1, <1>5, <1>6, <1>7 DEF good
-----------------------------------------------------------------------------
(***************************************************************************)
(* The folds of the community modules: MapThenFoldSet takes the elements   *)
(* of D out of the set one after the other, pick[s] first.                 *)
(***************************************************************************)
Picks(pick, D) == \A s \in SUBSET D : s # {} => pick[s] \in s

Folds_(it, D, A, b, op, pick) ==
  /\ it \in [SUBSET D -> A] /\ it[{}] = b
  /\ \A s \in SUBSET D : s # {} => it[s] = op[<<pick[s], it[s \ {pick[s]}]>>]

(* A finite set without one of its elements has one element less.          *)
LEMMA OneLess ==
  ASSUME NEW D, IsFiniteSet(D), NEW s \in SUBSET D, NEW x \in s
  PROVE  /\ s \ {x} \in SUBSET D
         /\ Cardinality(s) \in Nat /\ Cardinality(s \ {x}) \in Nat
         /\ Cardinality(s) = Cardinality(s \ {x}) + 1
<1>1. IsFiniteSet(s) /\ IsFiniteSet(s \ {x})
  BY FS_Subset, FS_RemoveElement
<1>2. Cardinality(s) \in Nat /\ Cardinality(s \ {x}) \in Nat
  BY <1>1, FS_CardinalityType
<1>3. Cardinality(s \ {x}) = Cardinality(s) - 1
  BY <1>1, FS_RemoveElement
<1> QED BY <1>2, <1>3

(* The function that MapThenFoldSet chooses exists.                        *)
LEMMA FoldExists ==
  ASSUME NEW D, IsFiniteSet(D), NEW A, NEW b \in A, NEW op \in [D \X A -> A],
         NEW pick, Picks(pick, D)
  PROVE  \E it : Folds_(it, D, A, b, op, pick)
<1> DEFINE F == [SUBSET D -> A]
           turn(g) == [s \in SUBSET D |->
                         IF s = {} THEN b ELSE op[<<pick[s], g[s \ {pick[s]}]>>]]
           step == [x \in Nat \X F |-> turn(x[2])]
           b0 == [s \in SUBSET D |-> b]
<1>1. b0 \in F
  OBVIOUS
<1>2. ASSUME NEW g \in F PROVE turn(g) \in F
  <2> SUFFICES ASSUME NEW s \in SUBSET D, s # {}
               PROVE  op[<<pick[s], g[s \ {pick[s]}]>>] \in A
    OBVIOUS
  <2>1. pick[s] \in D /\ s \ {pick[s]} \in SUBSET D
    BY DEF Picks
  <2>2. g[s \ {pick[s]}] \in A
    BY <2>1
  <2> QED BY <2>1, <2>2
<1>3. step \in [Nat \X F -> F] /\ \A n \in Nat, g \in F : step[<<n, g>>] = turn(g)
  <2> HIDE DEF turn, F
  <2> QED BY <1>2
<1>4. PICK G : Recursion(G, F, b0, step)
  <2> HIDE DEF F, step, b0
  <2> QED BY <1>1, <1>3, RecNat
<1>5. \A n \in Nat : G[n] \in F /\ G[n + 1] = turn(G[n])
  <2> HIDE DEF F, step, b0, turn
  <2> QED BY <1>3, <1>4 DEF Recursion
<1>6. G[0] = b0
  <2> HIDE DEF F, step, b0, turn
  <2> QED BY <1>4 DEF Recursion
<1> DEFINE it == [s \in SUBSET D |-> G[Cardinality(s)][s]]
<1>7. ASSUME NEW s \in SUBSET D PROVE it[s] \in A
  <2>1. Cardinality(s) \in Nat
    BY FS_Subset, FS_CardinalityType
  <2> QED BY <2>1, <1>5
<1>8. it[{}] = b
  <2>1. Cardinality({}) = 0
    BY FS_EmptySet
  <2> QED BY <2>1, <1>6
<1>9. ASSUME NEW s \in SUBSET D, s # {}
      PROVE  it[s] = op[<<pick[s], it[s \ {pick[s]}]>>]
  <2> DEFINE r == s \ {pick[s]}
  <2>1. pick[s] \in s
    BY <1>9 DEF Picks
  <2>2. /\ r \in SUBSET D /\ Cardinality(r) \in Nat
        /\ Cardinality(s) = Cardinality(r) + 1
    BY <2>1, OneLess
  <2>3. G[Cardinality(s)] = turn(G[Cardinality(r)])
    <3> HIDE DEF turn, r
    <3> QED BY <2>2, <1>5
  <2>4. turn(G[Cardinality(r)])[s] = op[<<pick[s], G[Cardinality(r)][r]>>]
    BY <1>9
  <2>5. it[s] = G[Cardinality(s)][s] /\ it[r] = G[Cardinality(r)][r]
    BY <2>2
  <2> HIDE DEF it, turn
  <2> QED BY <2>3, <2>4, <2>5
<1>10. it \in [SUBSET D -> A]
  BY <1>7
<1>11. Folds_(it, D, A, b, op, pick)
  <2> HIDE DEF it
  <2> QED BY <1>8, <1>9, <1>10 DEF Folds_
<1> QED BY <1>11

(* What the base has and every turn of the loop keeps, its result has.     *)
LEMMA FoldKeeps ==
  ASSUME NEW D, IsFiniteSet(D), NEW I, NEW pick, Picks(pick, D),
         NEW it, it[{}] \in I,
         \A s \in SUBSET D : s # {} /\ it[s \ {pick[s]}] \in I => it[s] \in I
  PROVE  it[D] \in I
<1> DEFINE good == {n \in Nat : \A s \in SUBSET D : Cardinality(s) = n => it[s] \in I}
<1>1. 0 \in good
  <2> SUFFICES ASSUME NEW s \in SUBSET D, Cardinality(s) = 0 PROVE it[s] \in I
    OBVIOUS
  <2>1. s = {}
    BY FS_Subset, FS_EmptySet
  <2> QED BY <2>1
<1>2. ASSUME NEW n \in Nat, n \in good PROVE n + 1 \in good
  <2> SUFFICES ASSUME NEW s \in SUBSET D, Cardinality(s) = n + 1 PROVE it[s] \in I
    OBVIOUS
  <2>1. s # {}
    BY FS_EmptySet
  <2>2. pick[s] \in s
    BY <2>1 DEF Picks
  <2>3. s \ {pick[s]} \in SUBSET D /\ Cardinality(s \ {pick[s]}) = n
    BY <2>2, OneLess
  <2>4. it[s \ {pick[s]}] \in I
    BY <2>3, <1>2
  <2> QED BY <2>1, <2>4
<1> HIDE DEF good
<1>3. \A n \in Nat : n \in good
  BY <1>1, <1>2, NatInd
<1>4. Cardinality(D) \in Nat
  BY FS_CardinalityType
<1> QED BY <1>3, <1>4 DEF good

(* A list's loop goes by its last or its first index.                      *)
LEMMA MaxPicks ==
  ASSUME NEW n \in Nat, NEW s \in SUBSET (1 .. n), s # {}
  PROVE  Max(s) \in s /\ \A i \in s : i <= Max(s)
<1> DEFINE good == {k \in 0 .. n : \A t \in SUBSET (1 .. k) :
                      t # {} => \E x \in t : \A y \in t : x >= y}
<1>1. 0 \in good
  <2>1. 1 .. 0 = {} /\ 0 \in 0 .. n
    OBVIOUS
  <2> QED BY <2>1
<1>2. ASSUME NEW k \in 0 .. n - 1, k \in good PROVE k + 1 \in good
  <2> SUFFICES ASSUME NEW t \in SUBSET (1 .. k + 1), t # {}
               PROVE  \E x \in t : \A y \in t : x >= y
    OBVIOUS
  <2>1. CASE k + 1 \in t
    BY <2>1
  <2>2. CASE k + 1 \notin t
    <3>1. t \in SUBSET (1 .. k)
      <4> SUFFICES ASSUME NEW y \in t PROVE y \in 1 .. k
        OBVIOUS
      <4>1. y \in 1 .. k + 1 /\ y # k + 1
        BY <2>2
      <4> QED BY <4>1
    <3> QED BY <3>1, <1>2
  <2> QED BY <2>1, <2>2
<1> HIDE DEF good
<1>3. n \in good
  BY <1>1, <1>2, IntervalInd
<1>4. \E x \in s : \A y \in s : x >= y
  BY <1>3 DEF good
<1>5. Max(s) \in s /\ \A y \in s : Max(s) >= y
  BY <1>4, Zenon DEF Max
<1> QED BY <1>5

LEMMA MinPicks ==
  ASSUME NEW n \in Nat, NEW s \in SUBSET (1 .. n), s # {}
  PROVE  Min(s) \in s /\ \A i \in s : Min(s) <= i
<1> DEFINE t == {n + 1 - i : i \in s}
<1>1. t \in SUBSET (1 .. n) /\ t # {}
  <2>1. \A i \in s : i \in 1 .. n /\ n + 1 - i \in 1 .. n
    OBVIOUS
  <2> QED BY <2>1
<1>2. Max(t) \in t /\ \A i \in t : i <= Max(t)
  <2> HIDE DEF t
  <2> QED BY <1>1, MaxPicks
<1>3. PICK i \in s : Max(t) = n + 1 - i
  BY <1>2
<1>4. \A j \in s : i <= j
  BY <1>2, <1>3
<1>5. \E x \in s : \A y \in s : x <= y
  BY <1>4
<1>6. Min(s) \in s /\ \A y \in s : Min(s) <= y
  BY <1>5, Zenon DEF Min
<1> QED BY <1>6
-----------------------------------------------------------------------------
(***************************************************************************)
(* Lists without duplicates.                                               *)
(***************************************************************************)
LEMMA ListFinite ==
  ASSUME NEW E, NEW q \in Seq(E)
  PROVE  IsFiniteSet(ToSet(q)) /\ IsFiniteSet(DOMAIN q)
<1>1. DOMAIN q = 1 .. Len(q) /\ Len(q) \in Nat
  OBVIOUS
<1>2. IsFiniteSet(DOMAIN q)
  BY <1>1, FS_Interval
<1>3. [i \in DOMAIN q |-> q[i]] \in Surjection(DOMAIN q, ToSet(q))
  BY DEF Surjection, ToSet
<1> QED BY <1>2, <1>3, FS_Surjection

LEMMA AppendOnce ==
  ASSUME NEW E, NEW q \in Seq(E), IsInjective(q), NEW x \in E, x \notin ToSet(q)
  PROVE  IsInjective(Append(q, x))
<1>1. /\ Len(Append(q, x)) = Len(q) + 1 /\ Len(q) \in Nat
      /\ \A i \in 1 .. Len(q) : Append(q, x)[i] = q[i] /\ q[i] \in ToSet(q)
      /\ Append(q, x)[Len(q) + 1] = x
  BY AppendProperties, ToSetIn
<1>2. DOMAIN q = 1 .. Len(q) /\ DOMAIN Append(q, x) = 1 .. Len(q) + 1
  BY <1>1
<1> SUFFICES ASSUME NEW i \in 1 .. Len(q) + 1, NEW j \in 1 .. Len(q) + 1,
                    Append(q, x)[i] = Append(q, x)[j]
             PROVE  i = j
  BY <1>2 DEF IsInjective
<1>3. i \in 1 .. Len(q) \/ i = Len(q) + 1
  BY <1>1
<1>4. j \in 1 .. Len(q) \/ j = Len(q) + 1
  BY <1>1
<1>5. \A k, l \in 1 .. Len(q) : q[k] = q[l] => k = l
  BY <1>2 DEF IsInjective
<1> QED BY <1>1, <1>3, <1>4, <1>5

LEMMA KeepOnce ==
  ASSUME NEW E, NEW q \in Seq(E), NEW P
  PROVE  IsInjective(q) => IsInjective(Keep(q, P))
<1>0. PICK f : KeptOf(f, E, q, P)
  BY KeepDef
<1>1. /\ f \in [0 .. Len(q) -> Seq(E)]
      /\ f[0] = <<>> /\ Keep(q, P) = f[Len(q)]
      /\ \A n \in 1 .. Len(q) :
           f[n] = IF q[n] \in P THEN Append(f[n - 1], q[n]) ELSE f[n - 1]
  BY <1>0 DEF KeptOf
<1> HAVE IsInjective(q)
<1> DEFINE good == {n \in 0 .. Len(q) : /\ IsInjective(f[n])
                                        /\ \A x \in ToSet(f[n]) :
                                             \E i \in 1 .. n : x = q[i]}
<1>2. /\ Len(q) \in Nat /\ \A i \in 1 .. Len(q) : q[i] \in E
      /\ \A i, j \in 1 .. Len(q) : q[i] = q[j] => i = j
  BY ElementOfSeq DEF IsInjective
<1>3. 0 \in good
  BY <1>1, <1>2 DEF ToSet, IsInjective
<1>4. ASSUME NEW k \in 0 .. Len(q) - 1, k \in good PROVE k + 1 \in good
  <2>0. k \in 0 .. Len(q) /\ k + 1 \in 1 .. Len(q) /\ (k + 1) - 1 = k
    BY <1>2
  <2>1. k + 1 \in 1 .. Len(q) /\ (k + 1) - 1 = k /\ f[k] \in Seq(E) /\ q[k + 1] \in E
    BY <1>1, <1>2, <2>0
  <2>2. \A i \in 1 .. k : i \in 1 .. k + 1 /\ i \in 1 .. Len(q) /\ i # k + 1
    BY <1>2
  <2>3. k + 1 \in 1 .. k + 1 /\ k + 1 \in 0 .. Len(q)
    BY <1>2
  <2>4. IsInjective(f[k]) /\ \A x \in ToSet(f[k]) : \E i \in 1 .. k : x = q[i]
    BY <1>4
  <2>5. CASE q[k + 1] \in P
    <3>1. f[k + 1] = Append(f[k], q[k + 1])
      BY <1>1, <2>1, <2>5
    <3>2. q[k + 1] \notin ToSet(f[k])
      BY <1>2, <2>1, <2>2, <2>4
    <3>3. IsInjective(f[k + 1])
      BY <2>1, <2>4, <3>1, <3>2, AppendOnce
    <3>4. ToSet(f[k + 1]) = ToSet(f[k]) \cup {q[k + 1]}
      BY <2>1, <3>1, AppendSet
    <3>5. \A x \in ToSet(f[k + 1]) : \E i \in 1 .. k + 1 : x = q[i]
      BY <2>2, <2>3, <2>4, <3>4
    <3> QED BY <2>3, <3>3, <3>5
  <2>6. CASE q[k + 1] \notin P
    <3>1. f[k + 1] = f[k]
      BY <1>1, <2>1, <2>6
    <3> QED BY <3>1, <2>2, <2>3, <2>4
  <2> QED BY <2>5, <2>6
<1> HIDE DEF good
<1>5. Len(q) \in good
  <2>1. \A k \in 0 .. Len(q) : k \in good
    BY <1>2, <1>3, <1>4, IntervalInd
  <2> QED BY <2>1, <1>2
<1> QED BY <1>1, <1>5 DEF good

\* One element is replaced.
Replaces(k, q, i, x) == k = [q EXCEPT ![i] = x]

LEMMA ReplaceOnce ==
  ASSUME NEW E, NEW q \in Seq(E), IsInjective(q), NEW i \in 1 .. Len(q),
         NEW x \in E, x \notin ToSet(q) \ {q[i]},
         NEW k, Replaces(k, q, i, x)
  PROVE  /\ k \in Seq(E) /\ IsInjective(k) /\ Len(k) = Len(q)
         /\ ToSet(k) = (ToSet(q) \ {q[i]}) \cup {x}
<1>1. /\ DOMAIN q = 1 .. Len(q) /\ Len(q) \in Nat
      /\ \A j \in 1 .. Len(q) : q[j] \in E /\ q[j] \in ToSet(q)
      /\ \A j, l \in 1 .. Len(q) : q[j] = q[l] => j = l
  BY ElementOfSeq, ToSetIn DEF IsInjective
<1>2. k \in [1 .. Len(q) -> E]
  BY <1>1 DEF Replaces
<1>3. /\ k[i] = x /\ DOMAIN k = 1 .. Len(q)
      /\ \A j \in 1 .. Len(q) : j # i => k[j] = q[j] /\ q[j] # q[i]
  BY <1>1 DEF Replaces
<1>4. k \in Seq(E) /\ Len(k) = Len(q)
  BY <1>1, <1>2, SeqDef
<1>5. \A j, l \in 1 .. Len(q) : k[j] = k[l] => j = l
  BY <1>1, <1>3
<1>6. IsInjective(k)
  BY <1>3, <1>5 DEF IsInjective
<1>7. ToSet(k) = (ToSet(q) \ {q[i]}) \cup {x}
  BY <1>1, <1>3 DEF ToSet
<1> QED BY <1>4, <1>6, <1>7

LEMMA RemoveAtType ==
  ASSUME NEW S, NEW q \in Seq(S), NEW i \in 1 .. Len(q)
  PROVE  /\ RemoveAt(q, i) \in Seq(S) /\ Len(q) \in Nat
         /\ Len(RemoveAt(q, i)) = Len(q) - 1
         /\ \A j \in 1 .. Len(q) - 1 :
              RemoveAt(q, i)[j] = IF j < i THEN q[j] ELSE q[j + 1]
<1> DEFINE a == SubSeq(q, 1, i - 1)
           b == SubSeq(q, i + 1, Len(q))
<1>1. Len(q) \in Nat /\ i \in Nat /\ i - 1 \in Int /\ (\A j \in 1 .. Len(q) : q[j] \in S)
  BY LenProperties, ElementOfSeq
<1>2. /\ a \in Seq(S) /\ Len(a) = i - 1
      /\ \A j \in 1 .. i - 1 : a[j] = q[j]
  BY <1>1, SubSeqProperties
<1>3. /\ b \in Seq(S) /\ Len(b) = Len(q) - i
      /\ \A j \in 1 .. Len(q) - i : b[j] = q[i + j]
  <2>1. /\ b \in Seq(S) /\ Len(b) = IF i + 1 <= Len(q) THEN Len(q) - (i + 1) + 1 ELSE 0
        /\ \A j \in 1 .. Len(q) - (i + 1) + 1 : b[j] = q[(i + 1) + j - 1]
    BY <1>1, SubSeqProperties
  <2> HIDE DEF b
  <2>2. \A j \in 1 .. Len(q) - i : (i + 1) + j - 1 = i + j
    BY <1>1
  <2> QED BY <1>1, <2>1, <2>2
<1> HIDE DEF a, b
<1>4. /\ a \o b \in Seq(S) /\ Len(a \o b) = Len(q) - 1
      /\ \A j \in 1 .. Len(q) - 1 : (a \o b)[j] = IF j <= i - 1 THEN a[j] ELSE b[j - (i - 1)]
  BY <1>1, <1>2, <1>3, ConcatProperties, SMTT(30)
<1>5. RemoveAt(q, i) = a \o b
  BY DEF RemoveAt, a, b
<1>6. ASSUME NEW j \in 1 .. Len(q) - 1
      PROVE  (a \o b)[j] = IF j < i THEN q[j] ELSE q[j + 1]
  <2>1. CASE j < i
    BY <2>1, <1>1, <1>2, <1>4
  <2>2. CASE ~(j < i)
    <3>1. j - (i - 1) \in 1 .. Len(q) - i /\ i + (j - (i - 1)) = j + 1 /\ ~(j <= i - 1)
      BY <2>2, <1>1
    <3>2. (a \o b)[j] = b[j - (i - 1)]
      BY <3>1, <1>4
    <3>3. b[j - (i - 1)] = q[j + 1]
      BY <3>1, <1>3
    <3> QED BY <2>2, <3>2, <3>3
  <2> QED BY <2>1, <2>2
<1> QED BY <1>1, <1>4, <1>5, <1>6

LEMMA RemoveOnce ==
  ASSUME NEW E, NEW q \in Seq(E), IsInjective(q), NEW i \in 1 .. Len(q)
  PROVE  LET k == RemoveAt(q, i) IN
         k \in Seq(E) /\ IsInjective(k) /\ ToSet(k) = ToSet(q) \ {q[i]}
<1> DEFINE k == RemoveAt(q, i)
<1>1. /\ k \in Seq(E) /\ Len(q) \in Nat /\ Len(k) = Len(q) - 1
      /\ \A j \in 1 .. Len(q) - 1 : k[j] = IF j < i THEN q[j] ELSE q[j + 1]
  BY RemoveAtType
<1> HIDE DEF k
<1> DEFINE at(j) == IF j < i THEN j ELSE j + 1
<1>2. \A j \in 1 .. Len(q) - 1 : k[j] = q[at(j)] /\ at(j) \in 1 .. Len(q) /\ at(j) # i
  BY <1>1
<1>3. \A j, l \in 1 .. Len(q) - 1 : at(j) = at(l) => j = l
  BY <1>1
<1>4. \A m \in 1 .. Len(q) : m # i => \E j \in 1 .. Len(q) - 1 : at(j) = m
  <2> TAKE m \in 1 .. Len(q)
  <2> HAVE m # i
  <2>1. CASE m < i
    <3>1. m \in 1 .. Len(q) - 1 /\ at(m) = m
      BY <1>1, <2>1
    <3> QED BY <3>1
  <2>2. CASE m > i
    <3>1. m - 1 \in 1 .. Len(q) - 1 /\ at(m - 1) = m
      BY <1>1, <2>2
    <3> QED BY <3>1
  <2> QED BY <1>1, <2>1, <2>2
<1> HIDE DEF at
<1>5. /\ DOMAIN q = 1 .. Len(q) /\ DOMAIN k = 1 .. Len(q) - 1
      /\ \A j, l \in 1 .. Len(q) : q[j] = q[l] => j = l
  <2>1. DOMAIN q = 1 .. Len(q) /\ DOMAIN k = 1 .. Len(k)
    BY <1>1
  <2> QED BY <1>1, <2>1 DEF IsInjective
<1>6. IsInjective(k)
  BY <1>2, <1>3, <1>5 DEF IsInjective
<1>7. ToSet(k) = ToSet(q) \ {q[i]}
  <2>1. \A m \in DOMAIN q : m # i => \E j \in DOMAIN k : k[j] = q[m]
    BY <1>2, <1>4, <1>5
  <2>2. \A j \in DOMAIN k : \E m \in DOMAIN q : m # i /\ k[j] = q[m]
    BY <1>2, <1>5
  <2> QED BY <1>5, <2>1, <2>2 DEF ToSet
<1> QED BY <1>1, <1>6, <1>7 DEF k

\* A change of every element, by a function that keeps them apart.
Maps(k, q, F, E, D) == F \in [E -> D] /\ k = [i \in DOMAIN q |-> F[q[i]]]

LEMMA MapOnce ==
  ASSUME NEW E, NEW D, NEW q \in Seq(E), IsInjective(q), NEW F, NEW k,
         Maps(k, q, F, E, D), \A x, y \in ToSet(q) : F[x] = F[y] => x = y
  PROVE  k \in Seq(D) /\ IsInjective(k) /\ ToSet(k) = {F[x] : x \in ToSet(q)}
<1>0. F \in [E -> D] /\ k = [i \in DOMAIN q |-> F[q[i]]]
  BY DEF Maps
<1>1. /\ DOMAIN q = 1 .. Len(q) /\ Len(q) \in Nat
      /\ \A j \in 1 .. Len(q) : q[j] \in E /\ q[j] \in ToSet(q)
      /\ \A j, l \in 1 .. Len(q) : q[j] = q[l] => j = l
  BY ElementOfSeq, ToSetIn DEF IsInjective
<1>2. k \in [1 .. Len(q) -> D]
  BY <1>0, <1>1
<1>3. DOMAIN k = 1 .. Len(q) /\ \A j \in 1 .. Len(q) : k[j] = F[q[j]]
  BY <1>0, <1>1
<1>4. k \in Seq(D)
  BY <1>1, <1>2, SeqDef
<1>5. IsInjective(k)
  BY <1>1, <1>3 DEF IsInjective
<1>6. ToSet(k) = {F[x] : x \in ToSet(q)}
  BY <1>1, <1>3 DEF ToSet
<1> QED BY <1>4, <1>5, <1>6

\* The places of some elements are as many as these.
LEMMA CountPlaces ==
  ASSUME NEW E, NEW q \in Seq(E), IsInjective(q), NEW P
  PROVE  Cardinality({i \in DOMAIN q : q[i] \in P}) = Cardinality(ToSet(q) \cap P)
<1> DEFINE I == {i \in DOMAIN q : q[i] \in P}
           T == ToSet(q) \cap P
           f == [i \in I |-> q[i]]
<1>1. f \in [I -> T] /\ \A i \in I : f[i] = q[i]
  BY DEF ToSet
<1>2. \A t \in T : \E i \in I : f[i] = t
  BY <1>1 DEF ToSet
<1>3. \A i, j \in I : f[i] = f[j] => i = j
  BY <1>1 DEF IsInjective
<1>4. DOMAIN f = I
  OBVIOUS
<1> HIDE DEF f
<1>5. f \in Bijection(I, T)
  BY <1>1, <1>2, <1>3, <1>4 DEF Bijection, Injection, Surjection, IsInjective
<1>6. IsFiniteSet(I)
  <2>1. I \in SUBSET DOMAIN q
    OBVIOUS
  <2> HIDE DEF I
  <2> QED BY <2>1, ListFinite, FS_Subset
<1> HIDE DEF I, T
<1>7. ExistsBijection(I, T)
  BY <1>5 DEF ExistsBijection
<1>8. Cardinality(T) = Cardinality(I)
  BY <1>6, <1>7, FS_Bijection
<1> QED BY <1>8 DEF I, T
=============================================================================
