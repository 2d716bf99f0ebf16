----------------------------- MODULE SumTheorems -----------------------------
(***************************************************************************)
(* What a sum over a finite set is worth.  SumFunctionOnSet adds the       *)
(* values of a function in an order that is not specified; the lemmas      *)
(* below show that the order does not matter and how sums split.  They are *)
(* stated for functions and sets, so that they can be cited by name.       *)
(***************************************************************************)
EXTENDS Integers, Functions, FiniteSetTheorems, WellFoundedInduction, TLAPS

(* Induction over subsets: where some are bad, one is bad and has no bad part. *)
LEMMA SmallestBad ==
    ASSUME NEW T, IsFiniteSet(T), NEW B, B \subseteq SUBSET T, B # {}
    PROVE  \E s \in B : \A u \in SUBSET s : u # s => u \notin B
  <1>1. B \subseteq FiniteSubsetsOf(T)
    BY FS_Subset DEF FiniteSubsetsOf
  <1>2. PICK s \in B : \A u \in B : ~ (<<u, s>> \in StrictSubsetOrdering(T))
    BY <1>1, FS_StrictSubsetOrderingWellFounded, WFMin
  <1>3. ASSUME NEW u \in SUBSET s, u # s PROVE u \notin B
    BY <1>2, <1>3 DEF StrictSubsetOrdering
  <1>4. QED
    BY <1>3

-----------------------------------------------------------------------------
(* Adding.                                                                   *)

Chosen(s) == CHOOSE x \in s : TRUE

LEMMA ChosenIn ==
    ASSUME NEW s, s # {}
    PROVE  Chosen(s) \in s
  BY DEF Chosen

(* `it` adds the values of `v` over the subsets of T, one after another.     *)
Adds(v, T, it) ==
    it = [s \in SUBSET T |->
             IF s = {} THEN 0 ELSE v[Chosen(s)] + it[s \ {Chosen(s)}]]

LEMMA OneWayToAdd ==
    ASSUME NEW v, NEW T, IsFiniteSet(T), NEW it, Adds(v, T, it),
           NEW U, NEW jt, Adds(v, U, jt), NEW s, s \subseteq T, s \subseteq U
    PROVE  it[s] = jt[s]
  <1> DEFINE B == {r \in SUBSET T : r \subseteq U /\ it[r] # jt[r]}
  <1>1. ASSUME NEW r \in B, \A u \in SUBSET r : u # r => u \notin B PROVE FALSE
    <2>1. CASE r = {}
      BY <2>1 DEF Adds
    <2>2. CASE r # {}
      <3> DEFINE u == r \ {Chosen(r)}
      <3>1. u \in SUBSET r /\ u # r
        BY <2>2, ChosenIn
      <3>2. it[u] = jt[u]
        BY <3>1, <1>1
      <3>3. it[r] = v[Chosen(r)] + it[u] /\ jt[r] = v[Chosen(r)] + jt[u]
        BY <2>2 DEF Adds
      <3>4. QED
        BY <3>2, <3>3
    <2>3. QED
      BY <2>1, <2>2
  <1>2. B \subseteq SUBSET T
    OBVIOUS
  <1> HIDE DEF B
  <1>3. B = {}
    BY <1>1, <1>2, SmallestBad
  <1>4. QED
    BY <1>3 DEF B

LEMMA SomeWayToAdd ==
    ASSUME NEW v, NEW T, IsFiniteSet(T)
    PROVE  \E it : Adds(v, T, it)
  <1> DEFINE B == {r \in SUBSET T : ~ \E it : Adds(v, r, it)}
  <1>1. ASSUME NEW r \in B, \A u \in SUBSET r : u # r => u \notin B PROVE FALSE
    <2> DEFINE W(u) == CHOOSE it : Adds(v, u, it)
               last == r \ {Chosen(r)}
               it == [u \in SUBSET r |-> IF u = {} THEN 0
                                         ELSE IF u = r THEN v[Chosen(r)] + W(last)[last]
                                         ELSE W(u)[u]]
    <2>1. ASSUME NEW u \in SUBSET r, u # r PROVE Adds(v, u, W(u))
      <3>1. \E jt : Adds(v, u, jt)
        BY <1>1, <2>1
      <3>2. QED
        BY <3>1
    <2>2. ASSUME NEW u \in SUBSET r, u # {}
          PROVE  it[u] = v[Chosen(u)] + it[u \ {Chosen(u)}]
      <3> DEFINE w == u \ {Chosen(u)}
      <3>1. w \in SUBSET r /\ w # r /\ w \subseteq u /\ w # u
        BY <2>2, ChosenIn
      <3>2. it[w] = W(w)[w]
        <4>1. CASE w = {}
          <5>1. W(w)[w] = 0
            <6>1. Adds(v, w, W(w))
              BY <2>1, <3>1
            <6> HIDE DEF W, w
            <6>2. QED
              BY <6>1, <4>1 DEF Adds
          <5>2. QED
            BY <5>1, <4>1
        <4>2. CASE w # {}
          BY <4>2, <3>1
        <4>3. QED
          BY <4>1, <4>2
      <3>3. CASE u = r
        BY <3>3, <3>2, <2>2
      <3>4. CASE u # r
        <4>1. Adds(v, u, W(u)) /\ Adds(v, w, W(w))
          BY <2>1, <3>1, <3>4
        <4>2. W(u)[u] = v[Chosen(u)] + W(u)[w]
          BY <4>1, <2>2 DEF Adds
        <4>3. W(u)[w] = W(w)[w]
          <5>1. IsFiniteSet(u)
            BY FS_Subset
          <5>2. QED
            BY <5>1, <4>1, <3>1, OneWayToAdd
        <4>4. it[u] = W(u)[u]
          BY <3>4, <2>2
        <4>5. QED
          BY <4>2, <4>3, <4>4, <3>2
      <3>5. QED
        BY <3>3, <3>4
    <2>3. it[{}] = 0
      OBVIOUS
    <2> HIDE DEF it
    <2>4. \A u \in SUBSET r : it[u] = IF u = {} THEN 0 ELSE v[Chosen(u)] + it[u \ {Chosen(u)}]
      BY <2>2, <2>3
    <2>5. DOMAIN it = SUBSET r /\ it = [u \in SUBSET r |-> it[u]]
      BY DEF it
    <2>6. Adds(v, r, it)
      BY <2>4, <2>5 DEF Adds
    <2>7. QED
      BY <2>6
  <1>2. B \subseteq SUBSET T
    OBVIOUS
  <1> HIDE DEF B
  <1>3. B = {}
    BY <1>1, <1>2, SmallestBad
  <1>4. QED
    BY <1>3 DEF B

(* The sum itself adds that way.                                             *)
LEMMA SumByAdding ==
    ASSUME NEW v, NEW T, IsFiniteSet(T)
    PROVE  \E it : Adds(v, T, it) /\ SumFunctionOnSet(v, T) = it[T]
  <1> DEFINE it == CHOOSE it : Adds(v, T, it)
  <1>1. Adds(v, T, it)
    BY SomeWayToAdd
  <1>2. SumFunctionOnSet(v, T) = it[T]
    BY DEF SumFunctionOnSet, FoldFunctionOnSet, MapThenFoldSet, Adds, Chosen
  <1>3. QED
    BY <1>1, <1>2
-----------------------------------------------------------------------------
(* What a sum is worth.                                                      *)

Integral(v, T) == IsFiniteSet(T) /\ \A x \in T : v[x] \in Int

LEMMA SumOfNone ==
    ASSUME NEW v
    PROVE  SumFunctionOnSet(v, {}) = 0
  <1>1. PICK it : Adds(v, {}, it) /\ SumFunctionOnSet(v, {}) = it[{}]
    BY FS_EmptySet, SumByAdding
  <1>2. QED
    BY <1>1 DEF Adds

LEMMA SumOfPart ==
    ASSUME NEW v, NEW T, IsFiniteSet(T), NEW it, Adds(v, T, it), NEW s \in SUBSET T
    PROVE  SumFunctionOnSet(v, s) = it[s]
  <1>1. IsFiniteSet(s)
    BY FS_Subset
  <1>2. PICK jt : Adds(v, s, jt) /\ SumFunctionOnSet(v, s) = jt[s]
    BY <1>1, SumByAdding
  <1>3. QED
    BY <1>1, <1>2, OneWayToAdd

LEMMA SumOfChosen ==
    ASSUME NEW v, NEW T, IsFiniteSet(T), T # {}
    PROVE  SumFunctionOnSet(v, T) = v[Chosen(T)] + SumFunctionOnSet(v, T \ {Chosen(T)})
  <1>1. PICK it : Adds(v, T, it) /\ SumFunctionOnSet(v, T) = it[T]
    BY SumByAdding
  <1>2. SumFunctionOnSet(v, T \ {Chosen(T)}) = it[T \ {Chosen(T)}]
    BY <1>1, SumOfPart
  <1>3. QED
    BY <1>1, <1>2 DEF Adds

LEMMA SumIsInteger ==
    ASSUME NEW v, NEW T, Integral(v, T)
    PROVE  SumFunctionOnSet(v, T) \in Int
  <1> DEFINE B == {r \in SUBSET T : SumFunctionOnSet(v, r) \notin Int}
  <1>1. ASSUME NEW r \in B, \A u \in SUBSET r : u # r => u \notin B PROVE FALSE
    <2>1. r # {}
      BY SumOfNone
    <2>2. Chosen(r) \in r /\ IsFiniteSet(r)
      BY <2>1, ChosenIn, FS_Subset DEF Integral
    <2>3. SumFunctionOnSet(v, r \ {Chosen(r)}) \in Int
      BY <1>1, <2>2
    <2>4. SumFunctionOnSet(v, r) = v[Chosen(r)] + SumFunctionOnSet(v, r \ {Chosen(r)})
      BY <2>1, <2>2, SumOfChosen
    <2>5. v[Chosen(r)] \in Int
      BY <2>2 DEF Integral
    <2>6. QED
      BY <2>3, <2>4, <2>5
  <1>2. B \subseteq SUBSET T
    OBVIOUS
  <1> HIDE DEF B
  <1>3. B = {}
    BY <1>1, <1>2, SmallestBad DEF Integral
  <1>4. QED
    BY <1>3 DEF B

LEMMA IntegralPart ==
    ASSUME NEW v, NEW T, Integral(v, T), NEW s \in SUBSET T
    PROVE  Integral(v, s)
  BY FS_Subset DEF Integral

(* Any element can be taken out.                                             *)
LEMMA SumTakesOut ==
    ASSUME NEW v, NEW T, Integral(v, T), NEW x \in T
    PROVE  SumFunctionOnSet(v, T) = v[x] + SumFunctionOnSet(v, T \ {x})
  <1> DEFINE B == {r \in SUBSET T : \E y \in r :
                      SumFunctionOnSet(v, r) # v[y] + SumFunctionOnSet(v, r \ {y})}
  <1>1. ASSUME NEW r \in B, \A u \in SUBSET r : u # r => u \notin B PROVE FALSE
    <2>1. PICK y \in r : SumFunctionOnSet(v, r) # v[y] + SumFunctionOnSet(v, r \ {y})
      OBVIOUS
    <2> DEFINE c == Chosen(r)
    <2>2. c \in r
      BY ChosenIn
    <2>3. Integral(v, r) /\ Integral(v, r \ {c}) /\ Integral(v, r \ {y})
          /\ Integral(v, (r \ {c}) \ {y})
      BY IntegralPart
    <2>4. SumFunctionOnSet(v, r) = v[c] + SumFunctionOnSet(v, r \ {c})
      BY <2>3, SumOfChosen DEF Integral
    <2>5. y # c
      BY <2>1, <2>4
    <2>6. SumFunctionOnSet(v, r \ {c}) = v[y] + SumFunctionOnSet(v, (r \ {c}) \ {y})
      <3>1. r \ {c} \in SUBSET r /\ r \ {c} # r /\ y \in r \ {c}
        BY <2>2, <2>5
      <3>2. QED
        BY <3>1, <1>1
    <2>7. SumFunctionOnSet(v, r \ {y}) = v[c] + SumFunctionOnSet(v, (r \ {y}) \ {c})
      <3>1. r \ {y} \in SUBSET r /\ r \ {y} # r /\ c \in r \ {y}
        BY <2>2, <2>5
      <3>2. QED
        BY <3>1, <1>1
    <2>8. (r \ {c}) \ {y} = (r \ {y}) \ {c}
      OBVIOUS
    <2>9. v[c] \in Int /\ v[y] \in Int /\ SumFunctionOnSet(v, (r \ {c}) \ {y}) \in Int
      BY <2>2, <2>3, SumIsInteger DEF Integral
    <2>10. SumFunctionOnSet(v, r) = v[y] + SumFunctionOnSet(v, r \ {y})
      <3>1. SumFunctionOnSet(v, r \ {y}) = v[c] + SumFunctionOnSet(v, (r \ {c}) \ {y})
        BY <2>7, <2>8
      <3> HIDE DEF c, B
      <3>2. QED
        BY <3>1, <2>4, <2>6, <2>9
    <2>11. QED
      BY <2>1, <2>10
  <1>2. B \subseteq SUBSET T
    OBVIOUS
  <1> HIDE DEF B
  <1>3. B = {}
    BY <1>1, <1>2, SmallestBad DEF Integral
  <1>4. QED
    BY <1>3 DEF B

LEMMA SumOfOne ==
    ASSUME NEW v, NEW x, v[x] \in Int
    PROVE  SumFunctionOnSet(v, {x}) = v[x]
  <1>1. Integral(v, {x})
    BY FS_Singleton DEF Integral
  <1>2. {x} \ {x} = {}
    OBVIOUS
  <1>3. SumFunctionOnSet(v, {x}) = v[x] + SumFunctionOnSet(v, {x} \ {x})
    BY <1>1, SumTakesOut
  <1>4. QED
    BY <1>2, <1>3, SumOfNone

(* Two sums that go up alike with every element are equal.                    *)
LEMMA SumOfEqual ==
    ASSUME NEW v, NEW T, Integral(v, T), NEW w, \A x \in T : w[x] = v[x]
    PROVE  SumFunctionOnSet(w, T) = SumFunctionOnSet(v, T)
  <1> DEFINE B == {r \in SUBSET T : SumFunctionOnSet(w, r) # SumFunctionOnSet(v, r)}
  <1>1. ASSUME NEW r \in B, \A u \in SUBSET r : u # r => u \notin B PROVE FALSE
    <2>1. r # {}
      BY SumOfNone
    <2>2. PICK x \in r : TRUE
      BY <2>1
    <2>3. Integral(v, r) /\ Integral(w, r)
      BY IntegralPart DEF Integral
    <2>4. SumFunctionOnSet(w, r) = w[x] + SumFunctionOnSet(w, r \ {x})
      BY <2>3, SumTakesOut
    <2>5. SumFunctionOnSet(v, r) = v[x] + SumFunctionOnSet(v, r \ {x})
      BY <2>3, SumTakesOut
    <2>6. SumFunctionOnSet(w, r \ {x}) = SumFunctionOnSet(v, r \ {x})
      BY <1>1
    <2>7. w[x] = v[x]
      OBVIOUS
    <2>8. QED
      BY <2>4, <2>5, <2>6, <2>7
  <1>2. B \subseteq SUBSET T
    OBVIOUS
  <1> HIDE DEF B
  <1>3. B = {}
    BY <1>1, <1>2, SmallestBad DEF Integral
  <1>4. QED
    BY <1>3 DEF B

(* The sum of a sum.                                                         *)
LEMMA SumOfSums ==
    ASSUME NEW v, NEW T, Integral(v, T), NEW w, Integral(w, T),
           NEW z, \A x \in T : z[x] = v[x] + w[x]
    PROVE  SumFunctionOnSet(z, T) = SumFunctionOnSet(v, T) + SumFunctionOnSet(w, T)
  <1> DEFINE B == {r \in SUBSET T : SumFunctionOnSet(z, r) #
                      SumFunctionOnSet(v, r) + SumFunctionOnSet(w, r)}
  <1>1. ASSUME NEW r \in B, \A u \in SUBSET r : u # r => u \notin B PROVE FALSE
    <2>1. r # {}
      BY SumOfNone
    <2>2. PICK x \in r : TRUE
      BY <2>1
    <2>3. Integral(v, r) /\ Integral(w, r) /\ Integral(v, r \ {x}) /\ Integral(w, r \ {x})
      BY IntegralPart
    <2>4. Integral(z, r)
      BY <2>3 DEF Integral
    <2>5. SumFunctionOnSet(z, r) = z[x] + SumFunctionOnSet(z, r \ {x})
      BY <2>4, SumTakesOut
    <2>6. SumFunctionOnSet(v, r) = v[x] + SumFunctionOnSet(v, r \ {x})
      BY <2>3, SumTakesOut
    <2>7. SumFunctionOnSet(w, r) = w[x] + SumFunctionOnSet(w, r \ {x})
      BY <2>3, SumTakesOut
    <2>8. SumFunctionOnSet(z, r \ {x})
              = SumFunctionOnSet(v, r \ {x}) + SumFunctionOnSet(w, r \ {x})
      BY <1>1
    <2>9. z[x] = v[x] + w[x] /\ v[x] \in Int /\ w[x] \in Int
          /\ SumFunctionOnSet(v, r \ {x}) \in Int /\ SumFunctionOnSet(w, r \ {x}) \in Int
      BY <2>3, SumIsInteger DEF Integral
    <2>10. SumFunctionOnSet(z, r) = SumFunctionOnSet(v, r) + SumFunctionOnSet(w, r)
      BY <2>5, <2>6, <2>7, <2>8, <2>9
    <2>11. QED
      BY <2>10
  <1>2. B \subseteq SUBSET T
    OBVIOUS
  <1> HIDE DEF B
  <1>3. B = {}
    BY <1>1, <1>2, SmallestBad DEF Integral
  <1>4. QED
    BY <1>3 DEF B

LEMMA SumAtMost ==
    ASSUME NEW v, NEW T, Integral(v, T), NEW w, Integral(w, T), \A x \in T : v[x] <= w[x]
    PROVE  SumFunctionOnSet(v, T) <= SumFunctionOnSet(w, T)
  <1> DEFINE B == {r \in SUBSET T : ~ SumFunctionOnSet(v, r) <= SumFunctionOnSet(w, r)}
  <1>1. ASSUME NEW r \in B, \A u \in SUBSET r : u # r => u \notin B PROVE FALSE
    <2>1. r # {}
      BY SumOfNone
    <2>2. PICK x \in r : TRUE
      BY <2>1
    <2>3. Integral(v, r) /\ Integral(w, r) /\ Integral(v, r \ {x}) /\ Integral(w, r \ {x})
      BY IntegralPart
    <2>4. SumFunctionOnSet(v, r) = v[x] + SumFunctionOnSet(v, r \ {x})
      BY <2>3, SumTakesOut
    <2>5. SumFunctionOnSet(w, r) = w[x] + SumFunctionOnSet(w, r \ {x})
      BY <2>3, SumTakesOut
    <2>6. SumFunctionOnSet(v, r \ {x}) <= SumFunctionOnSet(w, r \ {x})
      BY <1>1
    <2>7. v[x] <= w[x] /\ v[x] \in Int /\ w[x] \in Int
          /\ SumFunctionOnSet(v, r \ {x}) \in Int /\ SumFunctionOnSet(w, r \ {x}) \in Int
      BY <2>3, SumIsInteger DEF Integral
    <2>8. SumFunctionOnSet(v, r) <= SumFunctionOnSet(w, r)
      BY <2>4, <2>5, <2>6, <2>7
    <2>9. QED
      BY <2>8
  <1>2. B \subseteq SUBSET T
    OBVIOUS
  <1> HIDE DEF B
  <1>3. B = {}
    BY <1>1, <1>2, SmallestBad DEF Integral
  <1>4. QED
    BY <1>3 DEF B

LEMMA SumOfUnion ==
    ASSUME NEW v, NEW S, NEW T, Integral(v, S), Integral(v, T), S \cap T = {}
    PROVE  SumFunctionOnSet(v, S \cup T) = SumFunctionOnSet(v, S) + SumFunctionOnSet(v, T)
  <1> DEFINE B == {r \in SUBSET T : SumFunctionOnSet(v, S \cup r) #
                      SumFunctionOnSet(v, S) + SumFunctionOnSet(v, r)}
  <1>0. Integral(v, S \cup T)
    BY FS_Union DEF Integral
  <1>1. ASSUME NEW r \in B, \A u \in SUBSET r : u # r => u \notin B PROVE FALSE
    <2>0. SumFunctionOnSet(v, S) \in Int
      BY SumIsInteger
    <2>1. r # {}
      <3>1. S \cup {} = S
        OBVIOUS
      <3>2. SumFunctionOnSet(v, S \cup {}) = SumFunctionOnSet(v, S) + SumFunctionOnSet(v, {})
        BY <3>1, <2>0, SumOfNone
      <3>3. QED
        BY <3>2
    <2>2. PICK x \in r : TRUE
      BY <2>1
    <2>3. Integral(v, r) /\ Integral(v, r \ {x}) /\ Integral(v, S \cup r)
      BY <1>0, IntegralPart
    <2>4. SumFunctionOnSet(v, r) = v[x] + SumFunctionOnSet(v, r \ {x})
      BY <2>3, SumTakesOut
    <2>5. SumFunctionOnSet(v, S \cup r) = v[x] + SumFunctionOnSet(v, (S \cup r) \ {x})
      BY <2>3, SumTakesOut
    <2>6. (S \cup r) \ {x} = S \cup (r \ {x})
      OBVIOUS
    <2>7. SumFunctionOnSet(v, S \cup (r \ {x}))
              = SumFunctionOnSet(v, S) + SumFunctionOnSet(v, r \ {x})
      BY <1>1
    <2>8. v[x] \in Int /\ SumFunctionOnSet(v, r \ {x}) \in Int
      BY <2>3, SumIsInteger DEF Integral
    <2>9. SumFunctionOnSet(v, S \cup r) = SumFunctionOnSet(v, S) + SumFunctionOnSet(v, r)
      <3>1. SumFunctionOnSet(v, S \cup r)
                = v[x] + (SumFunctionOnSet(v, S) + SumFunctionOnSet(v, r \ {x}))
        BY <2>5, <2>6, <2>7
      <3> HIDE DEF B
      <3>2. QED
        BY <3>1, <2>0, <2>4, <2>8
    <2>10. QED
      BY <2>9
  <1>2. B \subseteq SUBSET T
    OBVIOUS
  <1> HIDE DEF B
  <1>3. B = {}
    BY <1>1, <1>2, SmallestBad DEF Integral
  <1>4. QED
    BY <1>3 DEF B

LEMMA SumSplits ==
    ASSUME NEW v, NEW T, Integral(v, T), NEW S \in SUBSET T
    PROVE  SumFunctionOnSet(v, T) = SumFunctionOnSet(v, S) + SumFunctionOnSet(v, T \ S)
  <1>1. S \cup (T \ S) = T /\ S \cap (T \ S) = {} /\ T \ S \in SUBSET T
    OBVIOUS
  <1>2. Integral(v, S) /\ Integral(v, T \ S)
    BY <1>1, IntegralPart
  <1>3. QED
    BY <1>1, <1>2, SumOfUnion

LEMMA SumOfNothing ==
    ASSUME NEW v, NEW T, IsFiniteSet(T), \A x \in T : v[x] = 0
    PROVE  SumFunctionOnSet(v, T) = 0
  <1> DEFINE B == {r \in SUBSET T : SumFunctionOnSet(v, r) # 0}
  <1>0. Integral(v, T)
    BY DEF Integral
  <1>1. ASSUME NEW r \in B, \A u \in SUBSET r : u # r => u \notin B PROVE FALSE
    <2>1. r # {}
      BY SumOfNone
    <2>2. PICK x \in r : TRUE
      BY <2>1
    <2>3. SumFunctionOnSet(v, r) = v[x] + SumFunctionOnSet(v, r \ {x})
      BY <1>0, IntegralPart, SumTakesOut
    <2>4. SumFunctionOnSet(v, r \ {x}) = 0 /\ v[x] = 0
      BY <1>1
    <2>5. QED
      BY <2>3, <2>4
  <1>2. B \subseteq SUBSET T
    OBVIOUS
  <1> HIDE DEF B
  <1>3. B = {}
    BY <1>1, <1>2, SmallestBad
  <1>4. QED
    BY <1>3 DEF B

LEMMA SumIsNatural ==
    ASSUME NEW v, NEW T, IsFiniteSet(T), \A x \in T : v[x] \in Nat
    PROVE  SumFunctionOnSet(v, T) \in Nat
  <1> DEFINE zero == [x \in T |-> 0]
  <1>1. Integral(v, T) /\ Integral(zero, T)
    BY DEF Integral
  <1>2. SumFunctionOnSet(zero, T) = 0
    BY SumOfNothing
  <1>3. SumFunctionOnSet(zero, T) <= SumFunctionOnSet(v, T)
    BY <1>1, SumAtMost
  <1>4. SumFunctionOnSet(v, T) \in Int
    BY <1>1, SumIsInteger
  <1>5. QED
    BY <1>2, <1>3, <1>4

Group(T, g, k) == {x \in T : g[x] = k}

(* Adding up by group: `g` gives the group of an element, `h` the sum of a    *)
(* group.                                                                    *)
LEMMA SumByGroup ==
    ASSUME NEW v, NEW T, Integral(v, T), NEW K, IsFiniteSet(K),
           NEW g, \A x \in T : g[x] \in K,
           NEW h, \A k \in K : h[k] = SumFunctionOnSet(v, Group(T, g, k))
    PROVE  SumFunctionOnSet(h, K) = SumFunctionOnSet(v, T)
  <1> DEFINE Of(r) == {x \in T : g[x] \in r}
             B == {r \in SUBSET K : SumFunctionOnSet(h, r) # SumFunctionOnSet(v, Of(r))}
  <1>0. Integral(h, K)
    <2>1. ASSUME NEW k \in K PROVE h[k] \in Int
      <3>1. Integral(v, Group(T, g, k))
        BY IntegralPart DEF Group
      <3>2. SumFunctionOnSet(v, Group(T, g, k)) \in Int
        BY <3>1, SumIsInteger
      <3>3. QED
        BY <3>2
    <2>2. QED
      BY <2>1 DEF Integral
  <1>1. ASSUME NEW r \in B, \A u \in SUBSET r : u # r => u \notin B PROVE FALSE
    <2>1. r # {}
      <3>1. Of({}) = {}
        OBVIOUS
      <3>2. QED
        BY <3>1, SumOfNone
    <2>2. PICK k \in r : TRUE
      BY <2>1
    <2>3. SumFunctionOnSet(h, r) = h[k] + SumFunctionOnSet(h, r \ {k})
      BY <1>0, IntegralPart, SumTakesOut
    <2>4. SumFunctionOnSet(h, r \ {k}) = SumFunctionOnSet(v, Of(r \ {k}))
      BY <1>1
    <2>5. Of(r) = Group(T, g, k) \cup Of(r \ {k}) /\ Group(T, g, k) \cap Of(r \ {k}) = {}
      BY DEF Group
    <2>6. Integral(v, Group(T, g, k)) /\ Integral(v, Of(r \ {k}))
      BY IntegralPart DEF Group
    <2>7. SumFunctionOnSet(v, Of(r)) = h[k] + SumFunctionOnSet(v, Of(r \ {k}))
      <3>1. h[k] = SumFunctionOnSet(v, Group(T, g, k))
        OBVIOUS
      <3> HIDE DEF Of, B
      <3>2. SumFunctionOnSet(v, Group(T, g, k) \cup Of(r \ {k}))
                = SumFunctionOnSet(v, Group(T, g, k)) + SumFunctionOnSet(v, Of(r \ {k}))
        BY <2>5, <2>6, SumOfUnion
      <3>3. QED
        BY <3>1, <3>2, <2>5
    <2>8. QED
      BY <2>3, <2>4, <2>7
  <1>2. B \subseteq SUBSET K
    OBVIOUS
  <1> HIDE DEF B
  <1>3. B = {}
    BY <1>1, <1>2, SmallestBad
  <1>4. Of(K) = T
    OBVIOUS
  <1>5. QED
    BY <1>3, <1>4 DEF B

(* The same amounts under other names.                                       *)
LEMMA SumRenamed ==
    ASSUME NEW v, NEW T, Integral(v, T), NEW K, IsFiniteSet(K),
           NEW g, \A x \in T : g[x] \in K,
           \A k \in K : \E x \in T : g[x] = k,
           \A x, y \in T : g[x] = g[y] => x = y,
           NEW h, \A x \in T : h[g[x]] = v[x]
    PROVE  SumFunctionOnSet(h, K) = SumFunctionOnSet(v, T)
  <1>1. ASSUME NEW k \in K PROVE h[k] = SumFunctionOnSet(v, Group(T, g, k))
    <2>1. PICK x \in T : g[x] = k
      OBVIOUS
    <2>2. {y \in T : g[y] = k} = {x}
      BY <2>1
    <2>3. SumFunctionOnSet(v, {x}) = v[x]
      BY SumOfOne DEF Integral
    <2>4. QED
      BY <2>1, <2>2, <2>3 DEF Group
  <1>2. QED
    BY <1>1, SumByGroup

(* A factor.                                                                 *)
LEMMA SumOfMultiples ==
    ASSUME NEW v, NEW T, Integral(v, T), NEW k \in Int, NEW w, \A x \in T : w[x] = k * v[x]
    PROVE  SumFunctionOnSet(w, T) = k * SumFunctionOnSet(v, T) /\ Integral(w, T)
  <1> DEFINE B == {r \in SUBSET T : SumFunctionOnSet(w, r) # k * SumFunctionOnSet(v, r)}
  <1>0. Integral(w, T)
    <2>1. \A a, b \in Int : a * b \in Int
      BY SMT
    <2>2. QED
      BY <2>1 DEF Integral
  <1>1. ASSUME NEW r \in B, \A u \in SUBSET r : u # r => u \notin B PROVE FALSE
    <2>1. r # {}
      <3>1. SumFunctionOnSet(v, {}) = 0 /\ SumFunctionOnSet(w, {}) = 0 /\ k * 0 = 0
        BY SumOfNone
      <3>2. QED
        BY <3>1
    <2>2. PICK x \in r : TRUE
      BY <2>1
    <2> DEFINE s == r \ {x}
    <2>3. /\ SumFunctionOnSet(v, r) = v[x] + SumFunctionOnSet(v, s)
          /\ SumFunctionOnSet(w, r) = w[x] + SumFunctionOnSet(w, s)
      BY <1>0, IntegralPart, SumTakesOut
    <2>4. SumFunctionOnSet(w, s) = k * SumFunctionOnSet(v, s) /\ w[x] = k * v[x]
      BY <1>1
    <2>5. v[x] \in Int /\ SumFunctionOnSet(v, s) \in Int
      <3>1. Integral(v, s)
        BY IntegralPart
      <3>2. QED
        BY <3>1, SumIsInteger DEF Integral
    <2>6. \A a, b \in Int : k * a + k * b = k * (a + b)
      BY SMT
    <2>7. SumFunctionOnSet(w, r) # k * SumFunctionOnSet(v, r)
      OBVIOUS
    <2> HIDE DEF s, B
    <2>8. QED
      BY <2>3, <2>4, <2>5, <2>6, <2>7
  <1>2. B \subseteq SUBSET T /\ IsFiniteSet(T)
    BY DEF Integral
  <1> HIDE DEF B
  <1>3. B = {}
    BY <1>1, <1>2, SmallestBad
  <1>4. SumFunctionOnSet(w, T) = k * SumFunctionOnSet(v, T)
    BY <1>3 DEF B
  <1>5. QED
    BY <1>0, <1>4

(* Equal parts, and counting.                                               *)
LEMMA SumOfConstant ==
    ASSUME NEW v, NEW T, IsFiniteSet(T), NEW k \in Int, \A x \in T : v[x] = k
    PROVE  SumFunctionOnSet(v, T) = k * Cardinality(T)
  <1> DEFINE B == {r \in SUBSET T : SumFunctionOnSet(v, r) # k * Cardinality(r)}
  <1>0. Integral(v, T)
    BY DEF Integral
  <1>1. ASSUME NEW r \in B, \A u \in SUBSET r : u # r => u \notin B PROVE FALSE
    <2>1. r # {}
      <3>1. SumFunctionOnSet(v, {}) = 0 /\ Cardinality({}) = 0
        BY SumOfNone, FS_EmptySet
      <3>2. QED
        BY <3>1
    <2>2. PICK x \in r : TRUE
      BY <2>1
    <2>3. SumFunctionOnSet(v, r) = v[x] + SumFunctionOnSet(v, r \ {x})
      BY <1>0, IntegralPart, SumTakesOut
    <2>4. SumFunctionOnSet(v, r \ {x}) = k * Cardinality(r \ {x}) /\ v[x] = k
      BY <1>1
    <2>5. IsFiniteSet(r) /\ SumFunctionOnSet(v, r) # k * Cardinality(r)
      BY FS_Subset
    <2>6. Cardinality(r \ {x}) = Cardinality(r) - 1 /\ Cardinality(r) \in Nat
      BY <2>5, FS_RemoveElement, FS_CardinalityType
    <2>7. \A n \in Nat : k + k * (n - 1) = k * n
      BY SMT
    <2>8. SumFunctionOnSet(v, r) = k + k * (Cardinality(r) - 1)
      BY <2>3, <2>4, <2>6
    <2>9. QED
      BY <2>5, <2>6, <2>7, <2>8
  <1>2. B \subseteq SUBSET T
    OBVIOUS
  <1> HIDE DEF B
  <1>3. B = {}
    BY <1>1, <1>2, SmallestBad
  <1>4. QED
    BY <1>3 DEF B

LEMMA SumCounts ==
    ASSUME NEW v, NEW T, IsFiniteSet(T), \A x \in T : v[x] = 1
    PROVE  SumFunctionOnSet(v, T) = Cardinality(T)
  <1>1. SumFunctionOnSet(v, T) = 1 * Cardinality(T)
    BY SumOfConstant
  <1>2. QED
    BY <1>1, FS_CardinalityType

(* Counting by group.                                                        *)
LEMMA CountByGroup ==
    ASSUME NEW T, IsFiniteSet(T), NEW K, IsFiniteSet(K), NEW g, \A x \in T : g[x] \in K,
           NEW h, \A k \in K : h[k] = Cardinality(Group(T, g, k))
    PROVE  SumFunctionOnSet(h, K) = Cardinality(T)
  <1> DEFINE one == [x \in T |-> 1]
  <1>1. Integral(one, T)
    BY DEF Integral
  <1>2. ASSUME NEW s \in SUBSET T PROVE SumFunctionOnSet(one, s) = Cardinality(s)
    <2>1. IsFiniteSet(s)
      BY FS_Subset
    <2>2. QED
      BY <2>1, SumCounts
  <1>3. ASSUME NEW k \in K PROVE h[k] = SumFunctionOnSet(one, Group(T, g, k))
    <2>1. Group(T, g, k) \in SUBSET T
      BY DEF Group
    <2>2. QED
      BY <2>1, <1>2
  <1> HIDE DEF one
  <1>4. SumFunctionOnSet(h, K) = SumFunctionOnSet(one, T)
    <2>1. ASSUME NEW w, Integral(w, T),
                 \A k \in K : h[k] = SumFunctionOnSet(w, Group(T, g, k))
          PROVE  SumFunctionOnSet(h, K) = SumFunctionOnSet(w, T)
      BY <2>1, SumByGroup
    <2>2. QED
      BY <2>1, <1>1, <1>3
  <1>5. QED
    BY <1>2, <1>4

-----------------------------------------------------------------------------
(* Rows.                                                                     *)

LEMMA ImageIsFinite ==
    ASSUME NEW S, IsFiniteSet(S), NEW f
    PROVE  IsFiniteSet({f[x] : x \in S})
  <1> DEFINE g == [x \in S |-> f[x]]
  <1>1. g \in Surjection(S, {f[x] : x \in S})
    BY DEF Surjection
  <1>2. QED
    BY <1>1, FS_Surjection

(* Adding a column of the rows made one for each element of a set.           *)
LEMMA SumOverRows ==
    ASSUME NEW K, IsFiniteSet(K), NEW row, \A a, b \in K : row[a] = row[b] => a = b,
           NEW v, \A a \in K : v[a] \in Int, NEW f, \A a \in K : f[row[a]] = v[a]
    PROVE  SumFunctionOnSet(f, {row[a] : a \in K}) = SumFunctionOnSet(v, K)
  <1> DEFINE rows == {row[a] : a \in K}
  <1>1. IsFiniteSet(rows)
    BY ImageIsFinite
  <1>2. /\ \A a \in K : row[a] \in rows
        /\ \A r \in rows : \E a \in K : row[a] = r
    OBVIOUS
  <1>3. Integral(v, K)
    BY DEF Integral
  <1> HIDE DEF rows
  <1>4. QED
    BY <1>1, <1>2, <1>3, SumRenamed DEF rows

(* Rows, one for each group, with the sum of the group in a column.           *)
LEMMA SumOfGroups ==
    ASSUME NEW v, NEW T, Integral(v, T), NEW K, IsFiniteSet(K),
           NEW g, \A x \in T : g[x] \in K, NEW row, \A k, l \in K : row[k] = row[l] => k = l,
           NEW f, \A k \in K : f[row[k]] = SumFunctionOnSet(v, Group(T, g, k))
    PROVE  SumFunctionOnSet(f, {row[k] : k \in K}) = SumFunctionOnSet(v, T)
  <1> DEFINE h == [k \in K |-> SumFunctionOnSet(v, Group(T, g, k))]
  <1>1. \A k \in K : h[k] \in Int
    <2>1. ASSUME NEW k \in K PROVE h[k] \in Int
      <3>1. Group(T, g, k) \in SUBSET T
        BY DEF Group
      <3>2. QED
        BY <3>1, IntegralPart, SumIsInteger
    <2>2. QED
      BY <2>1
  <1>2. \A k \in K : h[k] = SumFunctionOnSet(v, Group(T, g, k)) /\ f[row[k]] = h[k]
    OBVIOUS
  <1> HIDE DEF h
  <1>3. SumFunctionOnSet(h, K) = SumFunctionOnSet(v, T)
    BY <1>2, SumByGroup
  <1>4. SumFunctionOnSet(f, {row[k] : k \in K}) = SumFunctionOnSet(h, K)
    BY <1>1, <1>2, SumOverRows
  <1>5. QED
    BY <1>3, <1>4

(* A sum over a part, as the sum of a function of that part alone.           *)
SumIn(v, U) == SumFunctionOnSet([x \in U |-> v[x]], U)

LEMMA SumInIs ==
    ASSUME NEW v, NEW T, Integral(v, T), NEW U \in SUBSET T
    PROVE  SumIn(v, U) = SumFunctionOnSet(v, U)
  <1> DEFINE w == [x \in U |-> v[x]]
  <1>1. Integral(v, U)
    BY IntegralPart
  <1>2. \A x \in U : w[x] = v[x]
    OBVIOUS
  <1>3. SumIn(v, U) = SumFunctionOnSet(w, U)
    BY DEF SumIn
  <1> HIDE DEF w
  <1>4. QED
    BY <1>1, <1>2, <1>3, SumOfEqual

-----------------------------------------------------------------------------
(* Products and quotients.                                                   *)

LEMMA Products == /\ \A a, b \in Nat : a * b \in Nat
                  /\ \A a, b \in Int : a * b \in Int
  BY SMT

(* A quotient reaches a bound when the dividend does.                         *)
LEMMA QuotientReaches ==
    ASSUME NEW a \in Int, NEW b \in Nat \ {0}, NEW k \in Int
    PROVE  a \div b \in Int /\ (a \div b >= k <=> a >= k * b)
  <1>1. PICK q \in Int : q = a \div b /\ q * b <= a /\ a < (q + 1) * b
    BY SMT
  <1>2. CASE q >= k
    <2>1. k * b <= q * b
      BY <1>2, SMT
    <2>2. QED
      BY <1>1, <1>2, <2>1, SMT
  <1>3. CASE q < k
    <2>1. (q + 1) * b <= k * b
      BY <1>3, SMT
    <2>2. QED
      BY <1>1, <1>3, <2>1, SMT
  <1>4. QED
    BY <1>1, <1>2, <1>3

(* Rounding takes the nearest integer, halves up.                            *)
LEMMA NearestReaches ==
    ASSUME NEW n \in Int, NEW d \in Nat \ {0}, NEW k \in Int
    PROVE  /\ (2 * n + d) \div (2 * d) \in Int
           /\ ((2 * n + d) \div (2 * d) >= k <=> 2 * n >= (2 * k - 1) * d)
  <1>1. 2 * n + d \in Int /\ 2 * d \in Nat \ {0}
    OBVIOUS
  <1>2. /\ (2 * n + d) \div (2 * d) \in Int
        /\ ((2 * n + d) \div (2 * d) >= k <=> 2 * n + d >= k * (2 * d))
    BY <1>1, QuotientReaches
  <1>3. k * (2 * d) - d = (2 * k - 1) * d
    BY SMT
  <1>4. k * (2 * d) \in Int /\ (2 * k - 1) * d \in Int
    BY SMT
  <1>5. QED
    BY <1>2, <1>3, <1>4

=============================================================================
