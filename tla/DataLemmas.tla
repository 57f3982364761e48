----------------------------- MODULE DataLemmas -----------------------------
(***************************************************************************)
(* What the proofs need to know of the data the models are built of:       *)
(* sequences of accepted messages, how many members of a finite set do     *)
(* something, and sums over finite sets.                                   *)
(*                                                                         *)
(* The library states induction with an operator as a parameter.  Here it  *)
(* is stated with a set (NatSets, SubsetInduction), from the fact that the *)
(* naturals are well-founded, and with it what SumFunctionOnSet computes.  *)
(***************************************************************************)
EXTENDS SequencesExt, FiniteSetTheorems, TLAPS

(* Sequences *)

\* A message appended is at the end, and nothing before it moves.
LEMMA Appended ==
    ASSUME NEW S, NEW s \in Seq(S), NEW m \in S
    PROVE  /\ Append(s, m) \in Seq(S)
           /\ Len(s) \in Nat /\ DOMAIN s = 1..Len(s)
           /\ DOMAIN Append(s, m) = 1..(Len(s) + 1)
           /\ \A i \in 1..Len(s) : Append(s, m)[i] = s[i]
           /\ Append(s, m)[Len(s) + 1] = m
OBVIOUS

\* Accepting a message adds it, and no other, to those accepted.
LEMMA AppendedSet ==
    ASSUME NEW S, NEW s \in Seq(S), NEW m \in S
    PROVE  ToSet(Append(s, m)) = ToSet(s) \cup {m}
<1>1. ToSet(s) \cup {m} \subseteq ToSet(Append(s, m))
    <2>1. \A i \in 1..Len(s) : i \in DOMAIN Append(s, m) /\ s[i] = Append(s, m)[i]
        BY Appended
    <2>2. Len(s) + 1 \in DOMAIN Append(s, m)
        BY Appended
    <2> QED BY Appended, <2>1, <2>2 DEF ToSet
<1>2. ASSUME NEW i \in DOMAIN Append(s, m)
      PROVE  Append(s, m)[i] \in ToSet(s) \cup {m}
    <2>1. i \in 1..Len(s) \/ i = Len(s) + 1
        BY Appended, <1>2
    <2>2. CASE i \in 1..Len(s)
        BY Appended, <2>2 DEF ToSet
    <2>3. CASE i = Len(s) + 1
        BY Appended, <2>3
    <2> QED BY <2>1, <2>2, <2>3
<1> QED BY <1>1, <1>2 DEF ToSet

\* Every accepted message is a message.
LEMMA SetOfSeq == ASSUME NEW S, NEW s \in Seq(S) PROVE ToSet(s) \subseteq S
BY DEF ToSet

-----------------------------------------------------------------------------
(* Induction *)

\* A set of naturals with 0, and with the successor of each, is all of them: an
\* induction over sets of naturals, where the one of the library takes an operator.
LEMMA NatSets ==
    ASSUME NEW T \in SUBSET Nat, 0 \in T, \A n \in T : n + 1 \in T
    PROVE  T = Nat
<1> SUFFICES ASSUME Nat \ T # {} PROVE FALSE
    OBVIOUS
<1> DEFINE R == OpToRel(<, Nat)
           F == Nat \ T
<1>1. IsWellFoundedOn(R, Nat)
    BY NatLessThanWellFounded
<1>2. \A i, j \in Nat : i < j => <<i, j>> \in R
    BY DEF OpToRel
<1>3. F \subseteq Nat /\ F # {}
    OBVIOUS
<1> HIDE DEF R, F
<1>4. PICK n \in F : \A m \in F : ~(<<m, n>> \in R)
    BY <1>1, <1>3, WFMin
<1>5. n \in Nat /\ n # 0 /\ n - 1 \in Nat
    BY <1>4 DEF F
<1>6. n - 1 \in T
    <2>1. ~(<<n - 1, n>> \in R) => n - 1 \in T
        BY <1>2, <1>5
    <2>2. n - 1 \in F => ~(<<n - 1, n>> \in R)
        BY <1>4
    <2>3. n - 1 \notin F => n - 1 \in T
        BY <1>5 DEF F
    <2> QED  BY <2>1, <2>2, <2>3
<1>7. n \in T
    <2>1. (n - 1) + 1 = n
        BY <1>5
    <2> QED  BY <1>6, <2>1
<1> QED  BY <1>4, <1>7 DEF F

\* What holds of the empty set, and of a set when it holds of the set without
\* any one element, holds of every subset of a finite set.
LEMMA SubsetInduction ==
    ASSUME NEW S, IsFiniteSet(S), NEW Q \in SUBSET (SUBSET S), {} \in Q,
           \A s \in SUBSET S : s # {} /\ (\A x \in s : s \ {x} \in Q) => s \in Q
    PROVE  Q = SUBSET S
<1> DEFINE Good == {n \in Nat : \A s \in SUBSET S : Cardinality(s) = n => s \in Q}
<1>1. \A s \in SUBSET S : IsFiniteSet(s) /\ Cardinality(s) \in Nat
    BY FS_Subset, FS_CardinalityType
<1>2. 0 \in Good
    BY <1>1, FS_EmptySet
<1>3. ASSUME NEW n \in Good
      PROVE  n + 1 \in Good
    <2>1. ASSUME NEW s \in SUBSET S, Cardinality(s) = n + 1
          PROVE  s \in Q
        <3>1. s # {}
            BY <2>1, FS_EmptySet
        <3>2. ASSUME NEW x \in s
              PROVE  Cardinality(s \ {x}) = n /\ s \ {x} \in SUBSET S
            <4>1. IsFiniteSet(s)
                BY <1>1
            <4>2. Cardinality(s \ {x}) = Cardinality(s) - 1
                BY <3>2, <4>1, FS_RemoveElement
            <4> QED  BY <2>1, <4>2
        <3> QED  BY <3>1, <3>2
    <2> QED  BY <2>1
<1>4. Good = Nat
    <2>1. Good \in SUBSET Nat
        OBVIOUS
    <2> HIDE DEF Good
    <2> QED  BY <1>2, <1>3, <2>1, NatSets
<1> QED  BY <1>1, <1>4

-----------------------------------------------------------------------------
(* Members *)

\* Two subsets that differ in h at most have as many members but for h.
LEMMA OneMember ==
    ASSUME NEW H, IsFiniteSet(H), NEW X \in SUBSET H, NEW Y \in SUBSET H, NEW h,
           X \ {h} = Y \ {h}
    PROVE  /\ Cardinality(X) \in Nat /\ Cardinality(Y) \in Nat
           /\ Cardinality(Y) + (IF h \in X THEN 1 ELSE 0)
                 = Cardinality(X) + (IF h \in Y THEN 1 ELSE 0)
<1>1. IsFiniteSet(X) /\ IsFiniteSet(Y)
    BY FS_Subset
<1>2. Cardinality(X) \in Nat /\ Cardinality(Y) \in Nat
    BY <1>1, FS_CardinalityType
<1>3. Cardinality(X \ {h}) = IF h \in X THEN Cardinality(X) - 1 ELSE Cardinality(X)
    BY <1>1, FS_RemoveElement
<1>4. Cardinality(Y \ {h}) = IF h \in Y THEN Cardinality(Y) - 1 ELSE Cardinality(Y)
    BY <1>1, FS_RemoveElement
<1> QED  BY <1>2, <1>3, <1>4

\* Members of disjoint subsets are no more than there are members.
LEMMA DisjointMembers ==
    ASSUME NEW H, IsFiniteSet(H), NEW X \in SUBSET H, NEW Y \in SUBSET H, X \cap Y = {}
    PROVE  Cardinality(X) + Cardinality(Y) <= Cardinality(H)
<1>1. IsFiniteSet(X) /\ IsFiniteSet(Y) /\ X \cup Y \in SUBSET H
    BY FS_Subset
<1>2. Cardinality(X \cup Y) = Cardinality(X) + Cardinality(Y) - Cardinality(X \cap Y)
    BY <1>1, FS_Union
<1>3. Cardinality(X \cap Y) = 0
    BY FS_EmptySet
<1>4. /\ Cardinality(X) \in Nat /\ Cardinality(Y) \in Nat /\ Cardinality(H) \in Nat
      /\ Cardinality(X \cup Y) \in Nat
    BY <1>1, FS_Subset, FS_CardinalityType
<1>5. Cardinality(X \cup Y) <= Cardinality(H)
    BY <1>1, FS_Subset
<1> QED  BY <1>2, <1>3, <1>4, <1>5

\* A finite set of integers has a largest and a smallest member.
LEMMA Extremes ==
    ASSUME NEW S \in SUBSET Int, IsFiniteSet(S), S # {}
    PROVE  /\ Max(S) \in S /\ \A x \in S : x <= Max(S)
           /\ Min(S) \in S /\ \A x \in S : Min(S) <= x
<1> DEFINE Q == {s \in SUBSET S : s # {} => /\ \E m \in s : \A x \in s : m >= x
                                          /\ \E m \in s : \A x \in s : m <= x}
<1>1. ASSUME NEW s \in SUBSET S, s # {}, \A x \in s : s \ {x} \in Q
      PROVE  s \in Q
    <2>1. PICK y \in s : TRUE
        BY <1>1
    <2>2. y \in Int /\ s \ {y} \in Q /\ \A x \in s : x \in Int
        BY <1>1, <2>1
    <2>3. CASE s \ {y} = {}
        <3>1. \A x \in s : y >= x /\ y <= x
            BY <2>2, <2>3
        <3> QED  BY <2>1, <3>1
    <2>4. CASE s \ {y} # {}
        <3>1. PICK m \in s \ {y} : \A x \in s \ {y} : m >= x
            BY <2>2, <2>4
        <3>2. PICK k \in s \ {y} : \A x \in s \ {y} : k <= x
            BY <2>2, <2>4
        <3>3. \E z \in s : \A x \in s : z >= x
            <4>1. CASE m >= y
                BY <2>2, <3>1, <4>1
            <4>2. CASE ~(m >= y)
                BY <2>1, <2>2, <3>1, <4>2
            <4> QED  BY <4>1, <4>2
        <3>4. \E z \in s : \A x \in s : z <= x
            <4>1. CASE k <= y
                BY <2>2, <3>2, <4>1
            <4>2. CASE ~(k <= y)
                BY <2>1, <2>2, <3>2, <4>2
            <4> QED  BY <4>1, <4>2
        <3> QED  BY <3>3, <3>4
    <2> QED  BY <2>3, <2>4
<1>2. Q = SUBSET S
    <2>1. Q \in SUBSET (SUBSET S) /\ {} \in Q
        OBVIOUS
    <2> HIDE DEF Q
    <2> QED  BY <1>1, <2>1, SubsetInduction
<1>3. /\ \E m \in S : \A x \in S : m >= x
      /\ \E m \in S : \A x \in S : m <= x
    BY <1>2
<1>4. Max(S) \in S /\ \A x \in S : Max(S) >= x
    BY <1>3, Zenon DEF Max
<1>5. Min(S) \in S /\ \A x \in S : Min(S) <= x
    BY <1>3, Zenon DEF Min
<1>6. \A x \in S : x <= Max(S)
    BY <1>4
<1> QED  BY <1>4, <1>5, <1>6

-----------------------------------------------------------------------------
(* Sums *)

\* The element a fold over s takes first.
Chosen(s) == CHOOSE x \in s : TRUE

\* g is what the recursion of a fold says: f summed over the subsets of S, one
\* element after the other.
IsSum(g, f, S) ==
    g = [s \in SUBSET S |-> IF s = {} THEN 0 ELSE f[Chosen(s)] + g[s \ {Chosen(s)}]]

\* There is such a function, up to subsets of n elements for every n.
LEMMA SumExists ==
    ASSUME NEW S, IsFiniteSet(S), NEW f
    PROVE  \E g : IsSum(g, f, S)
<1> DEFINE Up(n) == {s \in SUBSET S : Cardinality(s) <= n}
           Good == {n \in Nat : \E g :
                       g = [s \in Up(n) |-> IF s = {} THEN 0
                                            ELSE f[Chosen(s)] + g[s \ {Chosen(s)}]]}
<1>1. \A s \in SUBSET S : IsFiniteSet(s) /\ Cardinality(s) \in Nat
    BY FS_Subset, FS_CardinalityType
<1>2. ASSUME NEW s \in SUBSET S, s # {}
      PROVE  /\ Chosen(s) \in s /\ s \ {Chosen(s)} \in SUBSET S
             /\ Cardinality(s \ {Chosen(s)}) = Cardinality(s) - 1
    <2>1. Chosen(s) \in s
        BY <1>2 DEF Chosen
    <2> QED  BY <1>1, <1>2, <2>1, FS_RemoveElement
<1>3. 0 \in Good
    <2>1. \A s \in Up(0) : s = {}
        BY <1>1, FS_EmptySet
    <2> DEFINE g == [s \in Up(0) |-> 0]
    <2>2. g = [s \in Up(0) |-> IF s = {} THEN 0 ELSE f[Chosen(s)] + g[s \ {Chosen(s)}]]
        BY <2>1
    <2> HIDE DEF g, Up
    <2> QED  BY <2>2
<1>4. ASSUME NEW n \in Good
      PROVE  n + 1 \in Good
    <2>1. n \in Nat /\ n + 1 \in Nat
        OBVIOUS
    <2>2. PICK g : g = [s \in Up(n) |-> IF s = {} THEN 0
                                        ELSE f[Chosen(s)] + g[s \ {Chosen(s)}]]
        BY <1>4
    <2> DEFINE h == [s \in Up(n + 1) |-> IF s = {} THEN 0
                                         ELSE f[Chosen(s)] + g[s \ {Chosen(s)}]]
    <2>3. \A s \in Up(n + 1) : s # {} => s \ {Chosen(s)} \in Up(n)
        BY <1>1, <1>2, <2>1
    <2>4. \A s \in Up(n) : s \in Up(n + 1)
        BY <1>1, <2>1
    <2> HIDE DEF Up
    <2>5. \A s \in Up(n) : h[s] = g[s]
        BY <2>2, <2>4
    <2>6. h = [s \in Up(n + 1) |-> IF s = {} THEN 0 ELSE f[Chosen(s)] + h[s \ {Chosen(s)}]]
        BY <2>3, <2>5
    <2> HIDE DEF h
    <2> QED  BY <2>1, <2>6
<1>5. Good = Nat
    <2> HIDE DEF Up
    <2>1. Good \in SUBSET Nat
        OBVIOUS
    <2> HIDE DEF Good
    <2> QED  BY <1>3, <1>4, <2>1, NatSets
<1>6. Cardinality(S) \in Good
    BY <1>5, FS_CardinalityType
<1>7. Up(Cardinality(S)) = SUBSET S
    BY FS_Subset
<1> HIDE DEF Up
<1> QED  BY <1>6, <1>7 DEF IsSum

\* SumFunctionOnSet is the value of one.
LEMMA SumIsSum ==
    ASSUME NEW S, IsFiniteSet(S), NEW f
    PROVE  \E g : IsSum(g, f, S) /\ SumFunctionOnSet(f, S) = g[S]
<1> DEFINE g == CHOOSE g : IsSum(g, f, S)
<1>1. IsSum(g, f, S)
    BY SumExists
<1>2. SumFunctionOnSet(f, S) = g[S]
    BY DEF SumFunctionOnSet, FoldFunctionOnSet, MapThenFoldSet, IsSum, Chosen
<1> QED  BY <1>1, <1>2

\* A sum of naturals is a natural, and a sum of zeros zero.
LEMMA SumNat ==
    ASSUME NEW S, IsFiniteSet(S), NEW f, \A x \in S : f[x] \in Nat
    PROVE  SumFunctionOnSet(f, S) \in Nat
<1>1. PICK g : IsSum(g, f, S) /\ SumFunctionOnSet(f, S) = g[S]
    BY SumIsSum
<1> DEFINE Q == {s \in SUBSET S : g[s] \in Nat}
<1>2. {} \in Q
    BY <1>1 DEF IsSum
<1>3. ASSUME NEW s \in SUBSET S, s # {}, \A x \in s : s \ {x} \in Q
      PROVE  s \in Q
    <2>1. Chosen(s) \in s
        BY <1>3 DEF Chosen
    <2>2. g[s] = f[Chosen(s)] + g[s \ {Chosen(s)}]
        BY <1>1, <1>3 DEF IsSum
    <2> QED  BY <1>3, <2>1, <2>2
<1>4. Q = SUBSET S
    <2>1. Q \in SUBSET (SUBSET S)
        OBVIOUS
    <2> HIDE DEF Q
    <2> QED  BY <1>2, <1>3, <2>1, SubsetInduction
<1> QED  BY <1>1, <1>4

LEMMA SumZero ==
    ASSUME NEW S, IsFiniteSet(S), NEW f, \A x \in S : f[x] = 0
    PROVE  SumFunctionOnSet(f, S) = 0
<1>1. PICK g : IsSum(g, f, S) /\ SumFunctionOnSet(f, S) = g[S]
    BY SumIsSum
<1> DEFINE Q == {s \in SUBSET S : g[s] = 0}
<1>2. {} \in Q
    BY <1>1 DEF IsSum
<1>3. ASSUME NEW s \in SUBSET S, s # {}, \A x \in s : s \ {x} \in Q
      PROVE  s \in Q
    <2>1. Chosen(s) \in s
        BY <1>3 DEF Chosen
    <2>2. g[s] = f[Chosen(s)] + g[s \ {Chosen(s)}]
        BY <1>1, <1>3 DEF IsSum
    <2> QED  BY <1>3, <2>1, <2>2
<1>4. Q = SUBSET S
    <2>1. Q \in SUBSET (SUBSET S)
        OBVIOUS
    <2> HIDE DEF Q
    <2> QED  BY <1>2, <1>3, <2>1, SubsetInduction
<1> QED  BY <1>1, <1>4

\* Adding n to the value at one place adds it to the sums that hold the place.
LEMMA SumAdd ==
    ASSUME NEW S, IsFiniteSet(S), NEW f, \A x \in S : f[x] \in Nat,
           NEW b, NEW n \in Nat,
           NEW h, \A x \in S : h[x] = IF x = b THEN f[x] + n ELSE f[x]
    PROVE  SumFunctionOnSet(h, S) = SumFunctionOnSet(f, S) + IF b \in S THEN n ELSE 0
<1>1. PICK g : IsSum(g, f, S) /\ SumFunctionOnSet(f, S) = g[S]
    BY SumIsSum
<1>2. PICK k : IsSum(k, h, S) /\ SumFunctionOnSet(h, S) = k[S]
    BY SumIsSum
<1> DEFINE Q == {s \in SUBSET S : g[s] \in Nat /\ k[s] = g[s] + IF b \in s THEN n ELSE 0}
<1>3. {} \in Q
    BY <1>1, <1>2 DEF IsSum
<1>4. ASSUME NEW s \in SUBSET S, s # {}, \A x \in s : s \ {x} \in Q
      PROVE  s \in Q
    <2> DEFINE x == Chosen(s)
               rest == s \ {x}
    <2>1. x \in s
        BY <1>4 DEF Chosen
    <2>2. g[s] = f[x] + g[rest] /\ k[s] = h[x] + k[rest]
        BY <1>1, <1>2, <1>4 DEF IsSum
    <2>3. g[rest] \in Nat /\ k[rest] = g[rest] + IF b \in rest THEN n ELSE 0
        BY <1>4, <2>1
    <2>4. f[x] \in Nat /\ h[x] = IF x = b THEN f[x] + n ELSE f[x]
        BY <2>1
    <2>5. b \in rest <=> b \in s /\ b # x
        OBVIOUS
    <2> HIDE DEF x, rest
    <2> QED  BY <2>1, <2>2, <2>3, <2>4, <2>5
<1>5. Q = SUBSET S
    <2>1. Q \in SUBSET (SUBSET S)
        OBVIOUS
    <2> HIDE DEF Q
    <2> QED  BY <1>3, <1>4, <2>1, SubsetInduction
<1> QED  BY <1>1, <1>2, <1>5

\* Any element may be taken first.
LEMMA SumRemove ==
    ASSUME NEW S, IsFiniteSet(S), NEW f, \A x \in S : f[x] \in Nat,
           NEW g, IsSum(g, f, S)
    PROVE  /\ \A s \in SUBSET S : g[s] \in Nat
           /\ \A s \in SUBSET S : \A x \in s : g[s] = f[x] + g[s \ {x}]
<1> DEFINE N == {s \in SUBSET S : g[s] \in Nat}
           Q == {s \in SUBSET S : \A x \in s : g[s] = f[x] + g[s \ {x}]}
<1>1. \A s \in SUBSET S : s # {} => Chosen(s) \in s /\ g[s] = f[Chosen(s)] + g[s \ {Chosen(s)}]
    BY DEF IsSum, Chosen
<1>2. g[{}] = 0
    BY DEF IsSum
<1>3. \A s \in SUBSET S : g[s] \in Nat
    <2>1. N \in SUBSET (SUBSET S) /\ {} \in N
        BY <1>2
    <2>2. ASSUME NEW s \in SUBSET S, s # {}, \A x \in s : s \ {x} \in N
          PROVE  s \in N
        <3>1. Chosen(s) \in s /\ g[s] = f[Chosen(s)] + g[s \ {Chosen(s)}]
            BY <1>1, <2>2
        <3> QED  BY <2>2, <3>1
    <2>3. N = SUBSET S
        <3> HIDE DEF N
        <3> QED  BY <2>1, <2>2, SubsetInduction
    <2> QED  BY <2>3
<1>4. ASSUME NEW s \in SUBSET S, s # {}, \A x \in s : s \ {x} \in Q,
             NEW x \in s
      PROVE  g[s] = f[x] + g[s \ {x}]
    <2> DEFINE y == Chosen(s)
    <2>1. y \in s /\ g[s] = f[y] + g[s \ {y}]
        BY <1>1, <1>4
    <2> HIDE DEF y
    <2>2. CASE x = y
        BY <2>1, <2>2
    <2>3. CASE x # y
        <3> DEFINE both == s \ {x, y}
        <3>1. /\ (s \ {y}) \ {x} = both /\ (s \ {x}) \ {y} = both
              /\ x \in s \ {y} /\ y \in s \ {x} /\ both \in SUBSET S
            BY <2>1, <2>3
        <3>2. s \ {y} \in Q /\ s \ {x} \in Q
            BY <1>4, <2>1
        <3> HIDE DEF both
        <3>3. g[s \ {y}] = f[x] + g[both] /\ g[s \ {x}] = f[y] + g[both]
            BY <3>1, <3>2
        <3>4. f[x] \in Nat /\ f[y] \in Nat /\ g[both] \in Nat
            BY <1>3, <2>1, <3>1
        <3> QED  BY <2>1, <3>3, <3>4
    <2> QED  BY <2>2, <2>3
<1>5. Q = SUBSET S
    <2>1. Q \in SUBSET (SUBSET S) /\ {} \in Q
        OBVIOUS
    <2>2. \A s \in SUBSET S : s # {} /\ (\A x \in s : s \ {x} \in Q) => s \in Q
        BY <1>4
    <2> HIDE DEF Q
    <2> QED  BY <2>1, <2>2, SubsetInduction
<1> QED  BY <1>3, <1>5

\* The sum over a smaller set is the same recursion.
LEMMA SumOfSubset ==
    ASSUME NEW S, IsFiniteSet(S), NEW f,
           NEW g, IsSum(g, f, S), NEW s \in SUBSET S
    PROVE  SumFunctionOnSet(f, s) = g[s]
<1>1. IsFiniteSet(s)
    BY FS_Subset
<1>2. PICK k : IsSum(k, f, s) /\ SumFunctionOnSet(f, s) = k[s]
    BY <1>1, SumIsSum
<1> DEFINE Q == {t \in SUBSET s : k[t] = g[t]}
<1>3. {} \in Q
    BY <1>2 DEF IsSum
<1>4. ASSUME NEW t \in SUBSET s, t # {}, \A x \in t : t \ {x} \in Q
      PROVE  t \in Q
    <2>1. Chosen(t) \in t
        BY <1>4 DEF Chosen
    <2>2. k[t] = f[Chosen(t)] + k[t \ {Chosen(t)}]
        BY <1>2, <1>4 DEF IsSum
    <2>3. g[t] = f[Chosen(t)] + g[t \ {Chosen(t)}]
        BY <1>4 DEF IsSum
    <2> QED  BY <1>4, <2>1, <2>2, <2>3
<1>5. Q = SUBSET s
    <2>1. Q \in SUBSET (SUBSET s)
        OBVIOUS
    <2> HIDE DEF Q
    <2> QED  BY <1>1, <1>3, <1>4, <2>1, SubsetInduction
<1> QED  BY <1>2, <1>5

\* A sum over more is more.
LEMMA SumMonotone ==
    ASSUME NEW S, IsFiniteSet(S), NEW f, \A x \in S : f[x] \in Nat,
           NEW s \in SUBSET S
    PROVE  SumFunctionOnSet(f, s) <= SumFunctionOnSet(f, S)
<1>1. PICK g : IsSum(g, f, S)
    BY SumExists
<1>2. /\ \A t \in SUBSET S : g[t] \in Nat
      /\ \A t \in SUBSET S : \A x \in t : g[t] = f[x] + g[t \ {x}]
    BY <1>1, SumRemove
<1> DEFINE Q == {t \in SUBSET S : \A r \in SUBSET t : g[r] <= g[t]}
<1>3. {} \in Q
    <2>1. g[{}] \in Nat
        BY <1>2
    <2>2. \A r \in SUBSET {} : r = {}
        OBVIOUS
    <2> QED  BY <2>1, <2>2
<1>4. ASSUME NEW t \in SUBSET S, t # {}, \A x \in t : t \ {x} \in Q
      PROVE  t \in Q
    <2>1. ASSUME NEW r \in SUBSET t
          PROVE  g[r] <= g[t]
        <3>1. CASE r = t
            BY <1>2, <3>1
        <3>2. ASSUME NEW x \in t, x \notin r
              PROVE  g[r] <= g[t]
            <4>1. g[r] <= g[t \ {x}]
                BY <1>4, <3>2
            <4>2. g[t] = f[x] + g[t \ {x}] /\ f[x] \in Nat
                BY <1>2, <3>2
            <4>3. g[r] \in Nat /\ g[t \ {x}] \in Nat
                BY <1>2
            <4> QED  BY <4>1, <4>2, <4>3
        <3> QED  BY <3>1, <3>2
    <2> QED  BY <2>1
<1>5. Q = SUBSET S
    <2>1. Q \in SUBSET (SUBSET S)
        OBVIOUS
    <2> HIDE DEF Q
    <2> QED  BY <1>3, <1>4, <2>1, SubsetInduction
<1>6. g[s] <= g[S]
    BY <1>5
<1> QED  BY <1>1, <1>6, SumOfSubset
=============================================================================
