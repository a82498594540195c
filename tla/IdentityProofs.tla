---------------------------- MODULE IdentityProofs ----------------------------
(***************************************************************************)
(* What the canonical form of a fingerprint tells apart, for any list of   *)
(* components, and what follows for activation: one row per host, for any  *)
(* number of calls, hosts and readings.                                    *)
(*                                                                         *)
(* Canonical text is built by loops.  What their turns have in common is   *)
(* proved by a least counterexample (LeastNat), for want of induction.     *)
(***************************************************************************)
EXTENDS Identity, ActivationProofs, SequenceTheorems

-----------------------------------------------------------------------------
(* Ord for str and the sort. *)

\* No text precedes itself.
LEMMA PrecedesIsStrict ==
    ASSUME NEW s \in Seq(Int)
    PROVE  ~ Precedes(s, s)
BY DEF Precedes

\* Where a text precedes another there is a first difference, or an end.
LEMMA DifferenceFound ==
    ASSUME NEW s \in Seq(Int), NEW t \in Seq(Int), Precedes(s, t)
    PROVE  \E i \in Nat \ {0} :
              /\ i <= Len(t) /\ i <= Len(s) + 1
              /\ \A j \in Nat \ {0} : j < i => s[j] = t[j]
              /\ i <= Len(s) => s[i] < t[i]
BY DEF Precedes

\* A first difference, or an end, decides which text precedes the other.
LEMMA DifferenceDecides ==
    ASSUME NEW s \in Seq(Int), NEW t \in Seq(Int), NEW i \in Nat \ {0},
           i <= Len(t), i <= Len(s) + 1,
           \A j \in Nat \ {0} : j < i => s[j] = t[j],
           i <= Len(s) => s[i] < t[i]
    PROVE  Precedes(s, t)
BY DEF Precedes

\* Ord for str is transitive.
LEMMA PrecedesIsTransitive ==
    ASSUME NEW s \in Seq(Int), NEW t \in Seq(Int), NEW u \in Seq(Int),
           Precedes(s, t), Precedes(t, u)
    PROVE  Precedes(s, u)
<1>1. PICK i \in Nat \ {0} : /\ i <= Len(t) /\ i <= Len(s) + 1
                             /\ \A j \in Nat \ {0} : j < i => s[j] = t[j]
                             /\ i <= Len(s) => s[i] < t[i]
  BY DifferenceFound
<1>2. PICK k \in Nat \ {0} : /\ k <= Len(u) /\ k <= Len(t) + 1
                             /\ \A j \in Nat \ {0} : j < k => t[j] = u[j]
                             /\ k <= Len(t) => t[k] < u[k]
  BY DifferenceFound
<1>3. Len(s) \in Nat /\ Len(t) \in Nat /\ Len(u) \in Nat
  OBVIOUS
<1>4. CASE i < k
  <2>1. i <= Len(u) /\ t[i] = u[i] /\ \A j \in Nat \ {0} : j < i => s[j] = u[j]
    BY <1>1, <1>2, <1>3, <1>4
  <2> QED BY <1>1, <2>1, DifferenceDecides
<1>5. CASE k < i
  <2>1. k <= Len(s) + 1 /\ k <= Len(t)
    BY <1>1, <1>3, <1>5
  <2>2. s[k] = t[k]
    BY <1>1, <1>5
  <2>3. \A j \in Nat \ {0} : j < k => s[j] = u[j]
    BY <1>1, <1>2, <1>5
  <2> QED BY <1>2, <2>1, <2>2, <2>3, DifferenceDecides
<1>6. CASE k = i
  <2>1. ASSUME k <= Len(s) PROVE s[k] < u[k]
    <3>1. s[k] < t[k] /\ t[k] < u[k]
      BY <1>1, <1>2, <1>3, <1>6, <2>1
    <3>2. s[k] \in Int /\ t[k] \in Int /\ u[k] \in Int
      BY <1>1, <1>2, <1>3, <1>6, <2>1, ElementOfSeq
    <3> QED BY <3>1, <3>2
  <2> QED BY <1>1, <1>2, <1>3, <1>6, <2>1, DifferenceDecides
<1> QED BY <1>4, <1>5, <1>6

\* Ord for str orders any two texts.
LEMMA PrecedesIsTotal ==
    ASSUME NEW s \in Seq(Int), NEW t \in Seq(Int), s # t
    PROVE  Precedes(s, t) \/ Precedes(t, s)
<1> DEFINE D == {i \in Nat \ {0} : i <= Len(s) /\ i <= Len(t) /\ s[i] # t[i]}
<1>1. Len(s) \in Nat /\ Len(t) \in Nat
  OBVIOUS
<1>2. CASE \A i \in Nat \ {0} : i <= Len(s) /\ i <= Len(t) => s[i] = t[i]
  <2>1. Len(s) # Len(t)
    <3> SUFFICES ASSUME Len(s) = Len(t) PROVE FALSE
      OBVIOUS
    <3>1. \A i \in 1..Len(s) : s[i] = t[i]
      BY <1>1, <1>2
    <3> QED BY <3>1, SeqEqual
  <2>2. CASE Len(s) < Len(t)
    <3> DEFINE k == Len(s) + 1
    <3>1. k \in Nat \ {0} /\ k <= Len(t) /\ k <= Len(s) + 1 /\ ~ (k <= Len(s))
      BY <1>1, <2>2
    <3>2. \A j \in Nat \ {0} : j < k => s[j] = t[j]
      BY <1>1, <1>2, <2>2
    <3> HIDE DEF k, D
    <3> QED BY <3>1, <3>2, DifferenceDecides
  <2>3. CASE Len(t) < Len(s)
    <3> DEFINE k == Len(t) + 1
    <3>1. k \in Nat \ {0} /\ k <= Len(s) /\ k <= Len(t) + 1 /\ ~ (k <= Len(t))
      BY <1>1, <2>3
    <3>2. \A j \in Nat \ {0} : j < k => t[j] = s[j]
      BY <1>1, <1>2, <2>3
    <3> HIDE DEF k, D
    <3> QED BY <3>1, <3>2, DifferenceDecides
  <2> QED BY <1>1, <2>1, <2>2, <2>3
<1>3. CASE \E i \in Nat \ {0} : i <= Len(s) /\ i <= Len(t) /\ s[i] # t[i]
  <2>1. PICK i \in D : \A k \in D : i <= k
    <3>1. D \in SUBSET Nat /\ D # {}
      BY <1>3
    <3> HIDE DEF D
    <3> QED BY <3>1, LeastNat
  <2>2. \A j \in Nat \ {0} : j < i => s[j] = t[j]
    BY <2>1, <1>1
  <2>3. s[i] \in Int /\ t[i] \in Int
    BY <1>1, ElementOfSeq
  <2>4. s[i] < t[i] \/ t[i] < s[i]
    BY <2>3
  <2> QED BY <1>1, <2>2, <2>4, DifferenceDecides
<1> QED BY <1>2, <1>3

\* A function on 1..n is a sequence of length n.
LEMMA FunctionIsSequence ==
    ASSUME NEW S, NEW n \in Nat, NEW f \in [1..n -> S]
    PROVE  f \in Seq(S) /\ Len(f) = n
<1>1. f \in Seq(S)
  BY SeqDef
<1>2. DOMAIN f = 1..n /\ DOMAIN f = 1..Len(f) /\ Len(f) \in Nat
  BY <1>1, LenProperties
<1> QED BY <1>1, <1>2

\* The members of P that the sort puts before p.
Before(p, P) == {q \in P : Precedes(q, p)}

\* No two entries of a list are equal.
Distinct(x) == \A i, j \in 1..Len(x) : x[i] = x[j] => i = j

\* A text that precedes another has a smaller place.
LEMMA PlacesAscend ==
    ASSUME NEW P \in SUBSET Seq(Int), IsFiniteSet(P), NEW p \in P, NEW q \in P,
           Precedes(p, q)
    PROVE  Cardinality(Before(p, P)) < Cardinality(Before(q, P))
<1>1. Before(p, P) \subseteq Before(q, P)
  BY PrecedesIsTransitive DEF Before
<1>2. p \in Before(q, P) /\ p \notin Before(p, P)
  BY PrecedesIsStrict DEF Before
<1>3. IsFiniteSet(Before(q, P)) /\ IsFiniteSet(Before(p, P))
  BY FS_Subset DEF Before
<1> HIDE DEF Before
<1>4. /\ Cardinality(Before(p, P)) <= Cardinality(Before(q, P))
      /\ Cardinality(Before(p, P)) # Cardinality(Before(q, P))
  BY <1>1, <1>2, <1>3, FS_Subset
<1> QED BY <1>3, <1>4, FS_CardinalityType

\* Every text of a finite set has its own place, and no place is left over.
LEMMA PlacesAreTaken ==
    ASSUME NEW P \in SUBSET Seq(Int), IsFiniteSet(P)
    PROVE  /\ \A p \in P : Cardinality(Before(p, P)) + 1 \in 1..Cardinality(P)
           /\ \A p, q \in P : Cardinality(Before(p, P)) = Cardinality(Before(q, P)) => p = q
           /\ \A i \in 1..Cardinality(P) : \E p \in P : Cardinality(Before(p, P)) = i - 1
<1> DEFINE n == Cardinality(P)
           f == [p \in P |-> Cardinality(Before(p, P)) + 1]
<1>1. n \in Nat /\ IsFiniteSet(1..n) /\ Cardinality(1..n) = n
  BY FS_CardinalityType, FS_Interval
<1>2. ASSUME NEW p \in P PROVE Cardinality(Before(p, P)) \in 0..(n - 1)
  <2>1. Before(p, P) \in SUBSET (P \ {p})
    BY PrecedesIsStrict DEF Before
  <2>2. IsFiniteSet(P \ {p}) /\ Cardinality(P \ {p}) = n - 1
    BY FS_RemoveElement
  <2>3. IsFiniteSet(Before(p, P)) /\ Cardinality(Before(p, P)) <= n - 1
    BY <2>1, <2>2, FS_Subset
  <2> QED BY <1>1, <2>3, FS_CardinalityType
<1>3. ASSUME NEW p \in P, NEW q \in P, Cardinality(Before(p, P)) = Cardinality(Before(q, P))
      PROVE  p = q
  <2>1. ~ (Cardinality(Before(p, P)) < Cardinality(Before(q, P)))
        /\ ~ (Cardinality(Before(q, P)) < Cardinality(Before(p, P)))
    BY <1>1, <1>2, <1>3
  <2> QED BY <2>1, PlacesAscend, PrecedesIsTotal
<1>4. f \in Injection(P, 1..n)
  <2>1. f \in [P -> 1..n]
    BY <1>1, <1>2
  <2>2. ASSUME NEW p \in P, NEW q \in P, f[p] = f[q] PROVE p = q
    BY <1>1, <1>2, <1>3, <2>2
  <2> HIDE DEF f, n
  <2> QED BY <2>1, <2>2 DEF Injection, IsInjective
<1>5. f \in Surjection(P, 1..n)
  <2> HIDE DEF f
  <2> QED BY <1>1, <1>4, FS_Injection
<1>6. ASSUME NEW i \in 1..n PROVE \E p \in P : Cardinality(Before(p, P)) = i - 1
  <2>1. PICK p \in P : f[p] = i
    <3> HIDE DEF f, n
    <3> QED BY <1>5 DEF Surjection
  <2> QED BY <1>1, <1>2, <2>1
<1> QED BY <1>1, <1>2, <1>3, <1>6

\* A list without repetitions has as many entries as members.
LEMMA RangeCounts ==
    ASSUME NEW x \in Seq(Seq(Int)), Distinct(x)
    PROVE  /\ Range(x) \in SUBSET Seq(Int) /\ IsFiniteSet(Range(x))
           /\ Cardinality(Range(x)) = Len(x) /\ Len(x) \in Nat
<1>1. x \in [1..Len(x) -> Range(x)] /\ Range(x) \in SUBSET Seq(Int) /\ Len(x) \in Nat
  BY RangeOfSeq, LenProperties DEF Range
<1>2. x \in Surjection(1..Len(x), Range(x))
  BY <1>1 DEF Surjection, Range
<1>3. x \in Injection(1..Len(x), Range(x))
  BY <1>1 DEF Injection, IsInjective, Distinct
<1>4. ASSUME NEW n \in Nat PROVE IsFiniteSet(1..n) /\ Cardinality(1..n) = n
  BY FS_Interval
<1> QED BY <1>1, <1>2, <1>3, <1>4, FS_Surjection

\* sort_unstable neither adds nor drops a part.
LEMMA SortedArranges ==
    ASSUME NEW x \in Seq(Seq(Int)), Distinct(x)
    PROVE  /\ Sorted(x) \in Seq(Seq(Int))
           /\ Len(Sorted(x)) = Len(x)
           /\ Range(Sorted(x)) = Range(x)
<1> DEFINE P == Range(x)
<1>1. /\ P \in SUBSET Seq(Int) /\ IsFiniteSet(P)
      /\ Cardinality(P) = Len(x) /\ Len(x) \in Nat
  BY RangeCounts
<1> HIDE DEF P
<1>2. Sorted(x) = [i \in 1..Len(x) |-> CHOOSE p \in P : Cardinality(Before(p, P)) = i - 1]
  BY DEF Sorted, Before, P
<1>3. ASSUME NEW i \in 1..Len(x)
      PROVE  Sorted(x)[i] \in P /\ Cardinality(Before(Sorted(x)[i], P)) = i - 1
  BY <1>1, <1>2, PlacesAreTaken
<1>4. Sorted(x) \in [1..Len(x) -> Seq(Int)] /\ DOMAIN Sorted(x) = 1..Len(x)
  BY <1>1, <1>2, <1>3
<1>5. Sorted(x) \in Seq(Seq(Int)) /\ Len(Sorted(x)) = Len(x)
  BY <1>1, <1>4, FunctionIsSequence
<1>6. ASSUME NEW p \in P PROVE \E i \in 1..Len(x) : Sorted(x)[i] = p
  <2> DEFINE i == Cardinality(Before(p, P)) + 1
  <2>1. i \in 1..Len(x)
    BY <1>1, PlacesAreTaken
  <2>2. IsFiniteSet(Before(p, P)) /\ Cardinality(Before(p, P)) \in Nat
    BY <1>1, FS_Subset, FS_CardinalityType DEF Before
  <2>3. Cardinality(Before(Sorted(x)[i], P)) = Cardinality(Before(p, P))
    BY <1>3, <2>1, <2>2
  <2> QED BY <1>1, <1>3, <2>1, <2>3, PlacesAreTaken
<1>7. Range(Sorted(x)) = P
  BY <1>3, <1>4, <1>6 DEF Range
<1> QED BY <1>5, <1>7 DEF P

\* What the sort returns depends on what is in the list, not on its order.
LEMMA SortedForgetsOrder ==
    ASSUME NEW x \in Seq(Seq(Int)), Distinct(x), NEW y \in Seq(Seq(Int)), Distinct(y)
    PROVE  Sorted(x) = Sorted(y) <=> Range(x) = Range(y)
<1>1. Range(x) = Range(y) => Len(x) = Len(y)
  BY RangeCounts
<1>2. Range(x) = Range(y) => Sorted(x) = Sorted(y)
  BY <1>1 DEF Sorted
<1> QED BY <1>2, SortedArranges

-----------------------------------------------------------------------------
(* The loop that joins the parts. *)

\* What canonical text is made of: the domain prefix is one symbol.
Symbols == Int \cup {"tamga-fingerprint-v1"}

\* What one turn of a loop pushes: the text so far, a separator, a part.
Glued(a, c, p) == a \o <<c>> \o p

\* out is what the loop over x leaves after each of its first k turns.
Runs(x, out, k) ==
    /\ out \in [0..k -> Seq(Symbols)]
    /\ out[0] = DOMAIN_PREFIX
    /\ \A n \in 1..k : out[n] = Glued(out[n - 1], UNIT_SEPARATOR, x[n])

\* The text the loop starts from.
LEMMA PrefixIsText == DOMAIN_PREFIX \in Seq(Symbols) /\ Len(DOMAIN_PREFIX) = 1
BY DEF DOMAIN_PREFIX, Symbols

\* Where the pieces of a glued text are found again.
Pieces(w, a, c, p) ==
    /\ Len(w) = Len(a) + 1 + Len(p)
    /\ \A i \in 1..Len(a) : w[i] = a[i]
    /\ w[Len(a) + 1] = c
    /\ \A i \in 1..Len(p) : w[Len(a) + 1 + i] = p[i]

\* Gluing loses no piece.
LEMMA GluedParts ==
    ASSUME NEW a \in Seq(Symbols), NEW c \in Symbols, NEW p \in Seq(Symbols)
    PROVE  Glued(a, c, p) \in Seq(Symbols) /\ Pieces(Glued(a, c, p), a, c, p)
<1>1. <<c>> \in Seq(Symbols) /\ Len(<<c>>) = 1 /\ <<c>>[1] = c
  OBVIOUS
<1>2. Len(p) \in Nat /\ Len(a) \in Nat
  OBVIOUS
<1> DEFINE b == a \o <<c>>
<1>3. /\ b \in Seq(Symbols) /\ Len(b) = Len(a) + 1
      /\ \A i \in 1..Len(a) : b[i] = a[i]
      /\ b[Len(a) + 1] = c
  BY <1>1, <1>2, ConcatProperties
<1>4. Glued(a, c, p) = b \o p
  BY DEF Glued
<1> HIDE DEF b
<1>5. /\ b \o p \in Seq(Symbols) /\ Len(b \o p) = Len(b) + Len(p)
      /\ \A i \in 1 .. Len(b) + Len(p) : (b \o p)[i] = IF i <= Len(b) THEN b[i] ELSE p[i - Len(b)]
  BY <1>2, <1>3, ConcatProperties
<1> DEFINE w == b \o p
<1> HIDE DEF w
<1>6. \A i \in 1..Len(a) : w[i] = a[i]
  BY <1>2, <1>3, <1>5 DEF w
<1>7. w[Len(a) + 1] = c
  BY <1>2, <1>3, <1>5 DEF w
<1>8. ASSUME NEW i \in 1..Len(p) PROVE w[Len(a) + 1 + i] = p[i]
  <2> DEFINE j == Len(b) + i
  <2>1. j = Len(a) + 1 + i /\ j \in 1 .. Len(b) + Len(p) /\ ~ (j <= Len(b)) /\ j - Len(b) = i
    BY <1>2, <1>3
  <2> HIDE DEF j
  <2> QED BY <1>5, <2>1 DEF w
<1>9. Pieces(w, a, c, p)
  BY <1>2, <1>3, <1>5, <1>6, <1>7, <1>8 DEF w, Pieces
<1> QED BY <1>4, <1>5, <1>9 DEF w

\* Where the pieces are after a turn of the loop over the parts.
LEMMA TextGrows ==
    ASSUME NEW a \in Seq(Symbols), NEW p \in Seq(Int)
    PROVE  /\ Glued(a, UNIT_SEPARATOR, p) \in Seq(Symbols)
           /\ Len(Glued(a, UNIT_SEPARATOR, p)) = Len(a) + 1 + Len(p)
           /\ \A i \in 1..Len(a) : Glued(a, UNIT_SEPARATOR, p)[i] = a[i]
           /\ Glued(a, UNIT_SEPARATOR, p)[Len(a) + 1] = UNIT_SEPARATOR
           /\ \A i \in 1..Len(p) : Glued(a, UNIT_SEPARATOR, p)[Len(a) + 1 + i] = p[i]
<1>1. p \in Seq(Symbols)
  BY SeqMonotonic DEF Symbols
<1>2. UNIT_SEPARATOR \in Symbols
  BY DEF UNIT_SEPARATOR, Symbols
<1> QED BY <1>1, <1>2, GluedParts DEF Pieces

\* A run of k - 1 turns has a k-th.
LEMMA RunGoesOn ==
    ASSUME NEW x \in Seq(Seq(Int)), NEW k \in 1..Len(x), NEW f, Runs(x, f, k - 1)
    PROVE  \E g : Runs(x, g, k)
<1> DEFINE e == Glued(f[k - 1], UNIT_SEPARATOR, x[k])
           g == [n \in 0..k |-> IF n = k THEN e ELSE f[n]]
<1>1. k \in Nat /\ k # 0 /\ k - 1 \in 0..(k - 1) /\ k \in 0..k
  OBVIOUS
<1>2. e \in Seq(Symbols)
  <2>1. f[k - 1] \in Seq(Symbols) /\ x[k] \in Seq(Int)
    BY <1>1, ElementOfSeq DEF Runs
  <2> QED BY <2>1, TextGrows
<1>e. e = Glued(f[k - 1], UNIT_SEPARATOR, x[k])
  OBVIOUS
<1> HIDE DEF e
<1>3. \A n \in 0..k : n # k => n \in 0..(k - 1)
  BY <1>1
<1>4. g \in [0..k -> Seq(Symbols)]
  BY <1>2, <1>3 DEF Runs
<1>5. \A n \in 0..k : n # k => g[n] = f[n]
  OBVIOUS
<1>6. g[0] = DOMAIN_PREFIX
  BY <1>1, <1>5 DEF Runs
<1>7. ASSUME NEW n \in 1..k PROVE g[n] = Glued(g[n - 1], UNIT_SEPARATOR, x[n])
  <2>1. n - 1 \in 0..k /\ n - 1 # k /\ g[n - 1] = f[n - 1]
    BY <1>1, <1>5
  <2>2. CASE n = k
    <3>1. g[n] = e
      BY <1>1, <2>2
    <3> HIDE DEF g
    <3> QED BY <2>1, <2>2, <3>1, <1>e
  <2>3. CASE n # k
    <3>1. n \in 1..(k - 1) /\ g[n] = f[n]
      BY <1>1, <1>5, <2>3
    <3> HIDE DEF g
    <3> QED BY <2>1, <3>1 DEF Runs
  <2> QED BY <2>2, <2>3
<1> HIDE DEF g
<1> QED BY <1>4, <1>6, <1>7 DEF Runs

\* The loop runs through any list of parts.
LEMMA RunsExist ==
    ASSUME NEW x \in Seq(Seq(Int))
    PROVE  \E f : Runs(x, f, Len(x))
<1> DEFINE S == {k \in Nat : k <= Len(x) /\ ~ \E f : Runs(x, f, k)}
<1>1. Len(x) \in Nat
  OBVIOUS
<1>2. ASSUME NEW k \in S, \A j \in S : k <= j PROVE FALSE
  <2>1. CASE k = 0
    <3>1. Runs(x, [n \in 0..0 |-> DOMAIN_PREFIX], 0)
      BY PrefixIsText DEF Runs
    <3> QED BY <2>1, <3>1
  <2>2. CASE k # 0
    <3>1. k \in 1..Len(x) /\ k - 1 \in Nat /\ k - 1 <= Len(x) /\ ~ (k <= k - 1)
      BY <1>1, <2>2
    <3>2. \E f : Runs(x, f, k - 1)
      BY <1>2, <3>1
    <3> QED BY <3>1, <3>2, RunGoesOn
  <2> QED BY <2>1, <2>2
<1>3. S \in SUBSET Nat
  OBVIOUS
<1>4. S = {}
  <2> HIDE DEF S
  <2> QED BY <1>2, <1>3, LeastNat
<1> QED BY <1>1, <1>4

\* Joined is what the last turn leaves.
LEMMA LoopRuns ==
    ASSUME NEW x \in Seq(Seq(Int))
    PROVE  \E f : Runs(x, f, Len(x)) /\ Joined(x) = f[Len(x)]
<1> DEFINE Turn(out, n) == IF n = 0 THEN DOMAIN_PREFIX ELSE Glued(out[n - 1], UNIT_SEPARATOR, x[n])
           F == CHOOSE out : out = [n \in 0..Len(x) |-> Turn(out, n)]
<1>1. Len(x) \in Nat
  OBVIOUS
<1>2. PICK f : Runs(x, f, Len(x))
  BY RunsExist
<1>3. f = [n \in 0..Len(x) |-> Turn(f, n)]
  <2>1. \A n \in 0..Len(x) : n = 0 \/ n \in 1..Len(x)
    BY <1>1
  <2>2. \A n \in 0..Len(x) : f[n] = Turn(f, n)
    BY <1>2, <2>1 DEF Runs
  <2> HIDE DEF Turn
  <2> QED BY <1>2, <2>2 DEF Runs
<1>4. F = [n \in 0..Len(x) |-> Turn(F, n)]
  <2> HIDE DEF Turn
  <2> QED BY <1>3
<1>5. Joined(x) = F[Len(x)]
  BY DEF Joined, Glued
<1> DEFINE U == {n \in Nat : n <= Len(x) /\ F[n] # f[n]}
<1> HIDE DEF F
<1>6. ASSUME NEW k \in U, \A j \in U : k <= j PROVE FALSE
  <2>1. k \in 0..Len(x)
    BY <1>1
  <2>2. F[k] = Turn(F, k) /\ f[k] = Turn(f, k)
    <3> HIDE DEF Turn
    <3> QED BY <1>3, <1>4, <2>1
  <2>3. CASE k = 0
    BY <2>2, <2>3
  <2>4. CASE k # 0
    <3>1. k - 1 \in Nat /\ k - 1 <= Len(x) /\ ~ (k <= k - 1)
      BY <1>1, <2>1, <2>4
    <3>2. F[k - 1] = f[k - 1]
      BY <1>6, <3>1
    <3> QED BY <2>2, <2>4, <3>2
  <2> QED BY <2>3, <2>4
<1>7. U \in SUBSET Nat
  OBVIOUS
<1>8. U = {}
  <2> HIDE DEF U
  <2> QED BY <1>6, <1>7, LeastNat
<1>9. F[Len(x)] = f[Len(x)]
  BY <1>1, <1>8
<1> HIDE DEF U
<1> QED BY <1>2, <1>5, <1>9

\* A part without a separator.
Clean(p) == \A i \in 1..Len(p) : p[i] # UNIT_SEPARATOR

\* What a turn adds to the length.
LEMMA LengthOfText ==
    ASSUME NEW a \in Seq(Symbols), NEW p \in Seq(Int)
    PROVE  /\ Len(Glued(a, UNIT_SEPARATOR, p)) = Len(a) + 1 + Len(p)
           /\ Len(a) \in Nat /\ Len(p) \in Nat
BY TextGrows

\* The last separator of a text cannot lie inside a clean last part.
LEMMA SeparatorIsLast ==
    ASSUME NEW a \in Seq(Symbols), NEW p \in Seq(Int), Clean(p),
           NEW b \in Seq(Symbols), NEW q \in Seq(Int), Glued(a, UNIT_SEPARATOR, p) = Glued(b, UNIT_SEPARATOR, q)
    PROVE  Len(b) <= Len(a)
<1> SUFFICES ASSUME Len(a) < Len(b) PROVE FALSE
  BY LengthOfText
<1>1. Len(a) \in Nat /\ Len(p) \in Nat /\ Len(Glued(a, UNIT_SEPARATOR, p)) = Len(a) + 1 + Len(p)
  BY LengthOfText
<1>2. Len(b) \in Nat /\ Len(q) \in Nat /\ Len(Glued(b, UNIT_SEPARATOR, q)) = Len(b) + 1 + Len(q)
  BY LengthOfText
<1>3. PICK i \in 1..Len(p) : Len(a) + 1 + i = Len(b) + 1
  <2>1. Len(b) - Len(a) \in 1..Len(p)
    BY <1>1, <1>2
  <2>2. Len(a) + 1 + (Len(b) - Len(a)) = Len(b) + 1
    BY <1>1, <1>2
  <2> QED BY <2>1, <2>2
<1>4. Glued(a, UNIT_SEPARATOR, p)[Len(a) + 1 + i] = p[i]
  BY TextGrows
<1>5. Glued(b, UNIT_SEPARATOR, q)[Len(b) + 1] = UNIT_SEPARATOR
  BY TextGrows
<1> QED BY <1>3, <1>4, <1>5 DEF Clean

\* A text that ends in a clean part can be taken apart in one way only.
LEMMA SeparatorSplits ==
    ASSUME NEW a \in Seq(Symbols), NEW p \in Seq(Int), Clean(p),
           NEW b \in Seq(Symbols), NEW q \in Seq(Int), Clean(q),
           Glued(a, UNIT_SEPARATOR, p) = Glued(b, UNIT_SEPARATOR, q)
    PROVE  a = b /\ p = q
<1>1. Len(a) \in Nat /\ Len(p) \in Nat /\ Len(Glued(a, UNIT_SEPARATOR, p)) = Len(a) + 1 + Len(p)
  BY LengthOfText
<1>2. Len(b) \in Nat /\ Len(q) \in Nat /\ Len(Glued(b, UNIT_SEPARATOR, q)) = Len(b) + 1 + Len(q)
  BY LengthOfText
<1>3. Len(a) = Len(b)
  <2>1. Len(a) <= Len(b) /\ Len(b) <= Len(a)
    BY SeparatorIsLast
  <2> QED BY <1>1, <1>2, <2>1
<1>4. Len(p) = Len(q)
  BY <1>1, <1>2, <1>3
<1>5. ASSUME NEW i \in 1..Len(a) PROVE a[i] = b[i]
  <2>1. Glued(a, UNIT_SEPARATOR, p)[i] = a[i]
    BY TextGrows
  <2>2. i \in 1..Len(b)
    BY <1>3
  <2>3. Glued(b, UNIT_SEPARATOR, q)[i] = b[i]
    BY <2>2, TextGrows
  <2> QED BY <2>1, <2>3
<1>6. ASSUME NEW i \in 1..Len(p) PROVE p[i] = q[i]
  <2>1. Glued(a, UNIT_SEPARATOR, p)[Len(a) + 1 + i] = p[i]
    BY TextGrows
  <2>2. i \in 1..Len(q)
    BY <1>4
  <2>3. Glued(b, UNIT_SEPARATOR, q)[Len(b) + 1 + i] = q[i]
    BY <2>2, TextGrows
  <2> QED BY <1>3, <2>1, <2>3
<1>7. a = b
  BY <1>3, <1>5, SeqEqual
<1>8. p = q
  BY <1>4, <1>6, SeqEqual
<1> QED BY <1>7, <1>8

\* What the k-th turn of a run does.
LEMMA TurnOfRun ==
    ASSUME NEW x \in Seq(Seq(Int)), NEW f, Runs(x, f, Len(x)), NEW k \in 1..Len(x)
    PROVE  /\ f[k] = Glued(f[k - 1], UNIT_SEPARATOR, x[k])
           /\ f[k - 1] \in Seq(Symbols) /\ x[k] \in Seq(Int)
<1>1. k - 1 \in 0..Len(x)
  OBVIOUS
<1>2. x[k] \in Seq(Int)
  BY ElementOfSeq
<1> QED BY <1>1, <1>2 DEF Runs

\* No turn leaves an empty text.
LEMMA TextIsNotEmpty ==
    ASSUME NEW x \in Seq(Seq(Int)), NEW f, Runs(x, f, Len(x)), NEW n \in 0..Len(x)
    PROVE  Len(f[n]) \in Nat /\ Len(f[n]) >= 1
<1>1. CASE n = 0
  <2>1. f[n] = DOMAIN_PREFIX
    BY <1>1 DEF Runs
  <2>2. Len(DOMAIN_PREFIX) = 1
    BY PrefixIsText
  <2> QED BY <2>1, <2>2
<1>2. CASE n # 0
  <2>1. n \in 1..Len(x)
    BY <1>2
  <2>2. /\ f[n] = Glued(f[n - 1], UNIT_SEPARATOR, x[n])
        /\ f[n - 1] \in Seq(Symbols) /\ x[n] \in Seq(Int)
    BY <2>1, TurnOfRun
  <2>3. /\ Len(f[n]) = Len(f[n - 1]) + 1 + Len(x[n])
        /\ Len(f[n - 1]) \in Nat /\ Len(x[n]) \in Nat
    BY <2>2, LengthOfText
  <2> DEFINE l == Len(f[n - 1])
             m == Len(x[n])
  <2> HIDE DEF l, m
  <2>4. Len(f[n]) = l + 1 + m /\ l \in Nat /\ m \in Nat
    BY <2>3 DEF l, m
  <2> QED BY <2>4
<1> QED BY <1>1, <1>2

\* A text with parts is not the bare prefix.
LEMMA TurnsLeavePrefix ==
    ASSUME NEW x \in Seq(Seq(Int)), NEW f, Runs(x, f, Len(x)), NEW k \in 1..Len(x)
    PROVE  f[k] # f[0]
<1>1. /\ f[k] = Glued(f[k - 1], UNIT_SEPARATOR, x[k])
      /\ f[k - 1] \in Seq(Symbols) /\ x[k] \in Seq(Int)
  BY TurnOfRun
<1>2. /\ Len(f[k]) = Len(f[k - 1]) + 1 + Len(x[k])
      /\ Len(f[k - 1]) \in Nat /\ Len(x[k]) \in Nat
  BY <1>1, LengthOfText
<1>3. k - 1 \in 0..Len(x)
  OBVIOUS
<1>4. Len(f[k - 1]) >= 1
  BY <1>3, TextIsNotEmpty
<1> DEFINE l == Len(f[k - 1])
           m == Len(x[k])
<1> HIDE DEF l, m
<1>5. Len(f[k]) = l + 1 + m /\ l \in Nat /\ m \in Nat /\ l >= 1
  BY <1>2, <1>4 DEF l, m
<1>6. Len(f[k]) # 1
  BY <1>5
<1>7. Len(f[0]) = 1
  BY PrefixIsText DEF Runs
<1> QED BY <1>6, <1>7

\* Two lists agree on their first k entries.
SameUpTo(x, y, k) == \A i \in 1..k : x[i] = y[i]

\* Lists of clean parts that are joined to the same text are the same list:
\* no separator but 0x1F may end a part, so nothing can be shifted across it.
LEMMA JoinedTellsApart ==
    ASSUME NEW x \in Seq(Seq(Int)), \A i \in 1..Len(x) : Clean(x[i]),
           NEW y \in Seq(Seq(Int)), \A i \in 1..Len(y) : Clean(y[i]),
           Joined(x) = Joined(y)
    PROVE  x = y
<1>1. PICK f : Runs(x, f, Len(x)) /\ Joined(x) = f[Len(x)]
  BY LoopRuns
<1>2. PICK g : Runs(y, g, Len(y)) /\ Joined(y) = g[Len(y)]
  BY LoopRuns
<1>3. Len(x) \in Nat /\ Len(y) \in Nat
  OBVIOUS
<1>4. f[0] = g[0]
  BY <1>1, <1>2 DEF Runs
<1> DEFINE Agrees(k) == \A m \in 0..Len(y) : f[k] = g[m] => k = m /\ SameUpTo(x, y, k)
           S == {k \in Nat : k <= Len(x) /\ ~ Agrees(k)}
<1>5. ASSUME NEW k \in S, \A j \in S : k <= j PROVE FALSE
  <2>1. PICK m \in 0..Len(y) : f[k] = g[m] /\ ~ (k = m /\ SameUpTo(x, y, k))
    OBVIOUS
  <2>2. CASE k = 0
    <3>1. m # 0
      BY <2>1, <2>2 DEF SameUpTo
    <3>2. m \in 1..Len(y)
      BY <1>3, <3>1
    <3> QED BY <1>2, <1>4, <2>1, <2>2, <3>2, TurnsLeavePrefix
  <2>3. CASE k # 0
    <3>1. k \in 1..Len(x) /\ k - 1 \in Nat /\ k - 1 <= Len(x) /\ ~ (k <= k - 1)
      BY <1>3, <2>3
    <3>2. f[k] # f[0]
      BY <1>1, <3>1, TurnsLeavePrefix
    <3>3. m \in 1..Len(y) /\ m - 1 \in 0..Len(y)
      BY <1>3, <1>4, <2>1, <3>2
    <3>4. f[k] = Glued(f[k - 1], UNIT_SEPARATOR, x[k]) /\ f[k - 1] \in Seq(Symbols) /\ x[k] \in Seq(Int)
      BY <1>1, <3>1, TurnOfRun
    <3>5. g[m] = Glued(g[m - 1], UNIT_SEPARATOR, y[m]) /\ g[m - 1] \in Seq(Symbols) /\ y[m] \in Seq(Int)
      BY <1>2, <3>3, TurnOfRun
    <3>6. Clean(x[k]) /\ Clean(y[m])
      BY <3>1, <3>3
    <3>7. f[k - 1] = g[m - 1] /\ x[k] = y[m]
      <4>1. Glued(f[k - 1], UNIT_SEPARATOR, x[k]) = Glued(g[m - 1], UNIT_SEPARATOR, y[m])
        BY <2>1, <3>4, <3>5
      <4> QED BY <3>4, <3>5, <3>6, <4>1, SeparatorSplits
    <3>8. Agrees(k - 1)
      BY <1>5, <3>1
    <3>9. k - 1 = m - 1 /\ SameUpTo(x, y, k - 1)
      BY <3>3, <3>7, <3>8
    <3>10. k = m
      BY <3>1, <3>3, <3>9
    <3>11. \A i \in 1..k : i = k \/ i \in 1..(k - 1)
      BY <3>1
    <3>12. SameUpTo(x, y, k)
      BY <3>7, <3>9, <3>10, <3>11 DEF SameUpTo
    <3> QED BY <2>1, <3>10, <3>12
  <2> QED BY <2>2, <2>3
<1>6. S \in SUBSET Nat
  OBVIOUS
<1>7. S = {}
  <2> HIDE DEF S
  <2> QED BY <1>5, <1>6, LeastNat
<1>8. Agrees(Len(x))
  BY <1>3, <1>7
<1>9. Len(x) = Len(y) /\ SameUpTo(x, y, Len(x))
  <2>1. f[Len(x)] = g[Len(y)]
    BY <1>1, <1>2
  <2>2. Len(y) \in 0..Len(y)
    BY <1>3
  <2> QED BY <1>8, <2>1, <2>2
<1> QED BY <1>9, SeqEqual DEF SameUpTo

-----------------------------------------------------------------------------
(* The trim.                     *)

\* The least member of a set of naturals.
LEMMA MinIsLeast ==
    ASSUME NEW S \in SUBSET Nat, S # {}
    PROVE  Min(S) \in S /\ \A k \in S : Min(S) <= k
BY LeastNat DEF Min

\* The greatest member of a set of places.
LEMMA MaxIsGreatest ==
    ASSUME NEW n \in Nat, NEW S \in SUBSET (1..n), S # {}
    PROVE  Max(S) \in S /\ \A k \in S : k <= Max(S)
<1> DEFINE T == {n - k : k \in S}
<1>1. T \in SUBSET Nat
  OBVIOUS
<1>0. T # {}
  OBVIOUS
<1>2. PICK t \in T : \A u \in T : t <= u
  <2> HIDE DEF T
  <2> QED BY <1>0, <1>1, LeastNat
<1>3. PICK m \in S : t = n - m
  OBVIOUS
<1>4. ASSUME NEW k \in S PROVE m >= k
  <2>1. n - m <= n - k
    BY <1>2, <1>3
  <2> QED BY <2>1
<1>5. Max(S) \in S /\ \A k \in S : Max(S) >= k
  BY <1>4 DEF Max
<1> QED BY <1>5

\* The places of a value that are not whitespace.
Kept(text) == {i \in 1..Len(text) : text[i] \notin ASCII_WHITESPACE}

\* trim_matches keeps what lies between the first and the last of them.
LEMMA TrimmedIs ==
    ASSUME NEW text \in Seq(Int)
    PROVE  /\ Kept(text) = {} => Trimmed(text) = <<>>
           /\ \A m, n \in Kept(text) :
                 (\A i \in Kept(text) : m <= i /\ i <= n)
                 => Trimmed(text) = SubSeq(text, m, n)
<1>1. Trimmed(text) = IF Kept(text) = {} THEN <<>>
                      ELSE SubSeq(text, Min(Kept(text)), Max(Kept(text)))
  <2>1. DOMAIN text = 1..Len(text)
    OBVIOUS
  <2> QED BY <2>1 DEF Trimmed, Kept
<1>2. ASSUME NEW m \in Kept(text), NEW n \in Kept(text),
             \A i \in Kept(text) : m <= i /\ i <= n
      PROVE  Trimmed(text) = SubSeq(text, m, n)
  <2>1. Kept(text) \in SUBSET (1..Len(text)) /\ Kept(text) \in SUBSET Nat /\ Len(text) \in Nat
    BY DEF Kept
  <2>2. Min(Kept(text)) \in Kept(text) /\ \A k \in Kept(text) : Min(Kept(text)) <= k
    BY <2>1, MinIsLeast
  <2>3. Max(Kept(text)) \in Kept(text) /\ \A k \in Kept(text) : k <= Max(Kept(text))
    BY <2>1, MaxIsGreatest
  <2>4. m = Min(Kept(text)) /\ n = Max(Kept(text))
    BY <1>2, <2>1, <2>2, <2>3
  <2> QED BY <1>1, <2>4
<1> QED BY <1>1, <1>2

\* A trimmed value is text.
LEMMA TrimmedIsText ==
    ASSUME NEW text \in Seq(Int)
    PROVE  Trimmed(text) \in Seq(Int)
<1>1. CASE Kept(text) = {}
  <2>1. Trimmed(text) = <<>>
    BY <1>1, TrimmedIs
  <2> QED BY <2>1
<1>2. CASE Kept(text) # {}
  <2>1. Kept(text) \in SUBSET (1..Len(text)) /\ Kept(text) \in SUBSET Nat /\ Len(text) \in Nat
    BY DEF Kept
  <2>2. Min(Kept(text)) \in Kept(text) /\ \A k \in Kept(text) : Min(Kept(text)) <= k
    BY <1>2, <2>1, MinIsLeast
  <2>3. Max(Kept(text)) \in Kept(text) /\ \A k \in Kept(text) : k <= Max(Kept(text))
    BY <1>2, <2>1, MaxIsGreatest
  <2> DEFINE m == Min(Kept(text))
             n == Max(Kept(text))
  <2> HIDE DEF m, n
  <2>4. Trimmed(text) = SubSeq(text, m, n)
    BY <2>2, <2>3, TrimmedIs DEF m, n
  <2>5. m \in 1..Len(text) /\ n \in 1..Len(text)
    BY <2>1, <2>2, <2>3 DEF m, n
  <2>6. \A i \in m..n : i \in 1..Len(text)
    BY <2>1, <2>5
  <2>7. \A i \in m..n : text[i] \in Int
    BY <2>6, ElementOfSeq
  <2> QED BY <2>4, <2>5, <2>7, SubSeqProperties
<1> QED BY <1>1, <1>2

\* A value that is not blank has a first and a last character to keep.
LEMMA EndsOfKept ==
    ASSUME NEW text \in Seq(Int), Kept(text) # {}
    PROVE  \E m, n \in Kept(text) : \A i \in Kept(text) : m <= i /\ i <= n
<1>1. Kept(text) \in SUBSET (1..Len(text)) /\ Kept(text) \in SUBSET Nat /\ Len(text) \in Nat
  BY DEF Kept
<1>2. Min(Kept(text)) \in Kept(text) /\ \A k \in Kept(text) : Min(Kept(text)) <= k
  BY <1>1, MinIsLeast
<1>3. Max(Kept(text)) \in Kept(text) /\ \A k \in Kept(text) : k <= Max(Kept(text))
  BY <1>1, MaxIsGreatest
<1> QED BY <1>2, <1>3

\* Whitespace in front of a value is dropped.
LEMMA LeadingIsTrimmed ==
    ASSUME NEW space \in Seq(ASCII_WHITESPACE), NEW text \in Seq(Int)
    PROVE  Trimmed(space \o text) = Trimmed(text)
<1> DEFINE whole == space \o text
           k == Len(space)
<1>1. space \in Seq(Int)
  BY SeqMonotonic DEF ASCII_WHITESPACE
<1>2. /\ whole \in Seq(Int) /\ Len(whole) = k + Len(text)
      /\ \A i \in 1..(k + Len(text)) : whole[i] = IF i <= k THEN space[i] ELSE text[i - k]
  BY <1>1, ConcatProperties
<1>3. k \in Nat /\ Len(text) \in Nat /\ \A i \in 1..k : space[i] \in ASCII_WHITESPACE
  BY ElementOfSeq
<1>4. ASSUME NEW i \in Kept(text) PROVE k + i \in Kept(whole)
  BY <1>2, <1>3, <1>4 DEF Kept
<1>5. ASSUME NEW i \in Kept(whole) PROVE i - k \in Kept(text)
  BY <1>2, <1>3, <1>5 DEF Kept
<1>6. CASE Kept(text) = {}
  BY <1>2, <1>5, <1>6, TrimmedIs
<1>7. CASE Kept(text) # {}
  <2>1. PICK m, n \in Kept(text) : \A i \in Kept(text) : m <= i /\ i <= n
    BY <1>7, EndsOfKept
  <2>2. m \in 1..Len(text) /\ n \in 1..Len(text)
    BY DEF Kept
  <2>3. Trimmed(text) = SubSeq(text, m, n)
    BY <2>1, TrimmedIs
  <2>4. k + m \in Kept(whole) /\ k + n \in Kept(whole)
    BY <1>4
  <2>5. ASSUME NEW i \in Kept(whole) PROVE k + m <= i /\ i <= k + n
    <3>1. m <= i - k /\ i - k <= n /\ i \in Nat
      BY <1>5, <2>1 DEF Kept
    <3> QED BY <1>3, <2>2, <3>1
  <2>6. Trimmed(whole) = SubSeq(whole, k + m, k + n)
    <3> HIDE DEF whole, k
    <3> QED BY <1>2, <2>4, <2>5, TrimmedIs
  <2>7. SubSeq(whole, k + m, k + n) = SubSeq(text, (k + m) - k, (k + n) - k)
    <3>1. k + m \in (k + 1)..(k + Len(text)) /\ k + n \in (k + 1)..(k + Len(text))
      BY <1>3, <2>2
    <3> QED BY <1>1, <3>1, SubSeqOfConcat2
  <2>8. (k + m) - k = m /\ (k + n) - k = n
    BY <1>3, <2>2
  <2> QED BY <2>3, <2>6, <2>7, <2>8
<1> QED BY <1>6, <1>7

\* Whitespace behind a value is dropped.
LEMMA TrailingIsTrimmed ==
    ASSUME NEW space \in Seq(ASCII_WHITESPACE), NEW text \in Seq(Int)
    PROVE  Trimmed(text \o space) = Trimmed(text)
<1> DEFINE whole == text \o space
           k == Len(text)
<1>1. space \in Seq(Int)
  BY SeqMonotonic DEF ASCII_WHITESPACE
<1>2. /\ whole \in Seq(Int) /\ Len(whole) = k + Len(space)
      /\ \A i \in 1..(k + Len(space)) : whole[i] = IF i <= k THEN text[i] ELSE space[i - k]
  BY <1>1, ConcatProperties
<1>3. k \in Nat /\ Len(space) \in Nat /\ \A i \in 1..Len(space) : space[i] \in ASCII_WHITESPACE
  BY ElementOfSeq
<1>4. ASSUME NEW i \in Kept(text) PROVE i \in Kept(whole)
  BY <1>2, <1>3, <1>4 DEF Kept
<1>5. ASSUME NEW i \in Kept(whole) PROVE i \in Kept(text)
  BY <1>2, <1>3, <1>5 DEF Kept
<1>6. Kept(whole) = Kept(text)
  BY <1>4, <1>5
<1>7. CASE Kept(text) = {}
  BY <1>2, <1>6, <1>7, TrimmedIs
<1>8. CASE Kept(text) # {}
  <2>1. PICK m, n \in Kept(text) : \A i \in Kept(text) : m <= i /\ i <= n
    BY <1>8, EndsOfKept
  <2>2. m \in 1..Len(text) /\ n \in 1..Len(text)
    BY DEF Kept
  <2>3. Trimmed(text) = SubSeq(text, m, n)
    BY <2>1, TrimmedIs
  <2>4. Trimmed(whole) = SubSeq(whole, m, n)
    <3> HIDE DEF whole
    <3> QED BY <1>2, <1>6, <2>1, TrimmedIs
  <2>5. SubSeq(whole, m, n) = SubSeq(text, m, n)
    BY <1>1, <2>2, SubSeqOfConcat1
  <2> QED BY <2>3, <2>4, <2>5
<1> QED BY <1>7, <1>8

\* Whitespace picked up around a value, as much as one likes, changes nothing,
\* and what stands inside the value is kept.
THEOREM WhitespaceIsIgnored ==
    ASSUME NEW before \in Seq(ASCII_WHITESPACE), NEW after \in Seq(ASCII_WHITESPACE),
           NEW text \in Seq(Int)
    PROVE  Trimmed((before \o text) \o after) = Trimmed(text)
<1>1. before \in Seq(Int)
  BY SeqMonotonic DEF ASCII_WHITESPACE
<1>2. before \o text \in Seq(Int)
  BY <1>1, ConcatProperties
<1>3. Trimmed((before \o text) \o after) = Trimmed(before \o text)
  BY <1>2, TrailingIsTrimmed
<1> QED BY <1>3, LeadingIsTrimmed

-----------------------------------------------------------------------------
(* The canonical text of an accepted list. *)

\* What a reading says, whatever its order and stray whitespace.
Content(r) == {<<c.label, Trimmed(c.value)>> : c \in Range(r)}

\* A part is a label and a trimmed value around an equals sign.
LEMMA PartGlues ==
    ASSUME NEW c \in Component
    PROVE  /\ Part(c) = Glued(c.label, EqualsSign, Trimmed(c.value))
           /\ Part(c) \in Seq(Int)
           /\ c.label \in Seq(Int) /\ Trimmed(c.value) \in Seq(Int)
<1>1. c.label \in Seq(Int) /\ c.value \in Seq(Int)
  BY DEF Component
<1>2. Trimmed(c.value) \in Seq(Int)
  BY <1>1, TrimmedIsText
<1>3. <<EqualsSign>> \in Seq(Int)
  BY DEF EqualsSign
<1>4. c.label \o <<EqualsSign>> \in Seq(Int)
  BY <1>1, <1>3, ConcatProperties
<1>5. (c.label \o <<EqualsSign>>) \o Trimmed(c.value) \in Seq(Int)
  BY <1>2, <1>4, ConcatProperties
<1> QED BY <1>1, <1>2, <1>5 DEF Part, Glued

\* Where the pieces are around an equals sign.
LEMMA SignParts ==
    ASSUME NEW a \in Seq(Int), NEW p \in Seq(Int)
    PROVE  Pieces(Glued(a, EqualsSign, p), a, EqualsSign, p)
<1>1. a \in Seq(Symbols) /\ p \in Seq(Symbols)
  BY SeqMonotonic DEF Symbols
<1>2. EqualsSign \in Symbols
  BY DEF EqualsSign, Symbols
<1> QED BY <1>1, <1>2, GluedParts

\* Where label, sign and value are in a part.
LEMMA PartHolds ==
    ASSUME NEW c \in Component
    PROVE  /\ Len(Part(c)) = Len(c.label) + 1 + Len(Trimmed(c.value))
           /\ \A i \in 1..Len(c.label) : Part(c)[i] = c.label[i]
           /\ Part(c)[Len(c.label) + 1] = EqualsSign
           /\ \A i \in 1..Len(Trimmed(c.value)) :
                 Part(c)[Len(c.label) + 1 + i] = Trimmed(c.value)[i]
<1> DEFINE a == c.label
           p == Trimmed(c.value)
<1>1. a \in Seq(Int) /\ p \in Seq(Int) /\ Part(c) = Glued(a, EqualsSign, p)
  BY PartGlues
<1> HIDE DEF a, p
<1>2. Pieces(Part(c), a, EqualsSign, p)
  BY <1>1, SignParts
<1> QED BY <1>2 DEF Pieces, a, p

\* The length of a part.
LEMMA LengthOfPart ==
    ASSUME NEW c \in Component
    PROVE  \E l, m \in Nat : /\ l = Len(c.label) /\ m = Len(Trimmed(c.value))
                             /\ Len(Part(c)) = l + 1 + m
<1>1. Len(c.label) \in Nat /\ Len(Trimmed(c.value)) \in Nat
  BY PartGlues
<1>2. Len(Part(c)) = Len(c.label) + 1 + Len(Trimmed(c.value))
  BY PartHolds
<1> QED BY <1>1, <1>2

\* The first equals sign of a part ends its label, as labels have none.
LEMMA LabelEndsFirst ==
    ASSUME NEW c \in Component, NEW d \in Component, ValidLabel(d.label), Part(c) = Part(d)
    PROVE  Len(d.label) <= Len(c.label)
<1>1. /\ Len(c.label) \in Nat /\ Len(d.label) \in Nat
  BY PartGlues
<1> SUFFICES ASSUME Len(c.label) < Len(d.label) PROVE FALSE
  BY <1>1
<1>2. Len(c.label) + 1 \in 1..Len(d.label)
  BY <1>1
<1>3. Part(c)[Len(c.label) + 1] = EqualsSign
  BY PartHolds
<1>4. Part(d)[Len(c.label) + 1] = d.label[Len(c.label) + 1]
  BY <1>2, PartHolds
<1>5. d.label[Len(c.label) + 1] \in Range(d.label)
  BY <1>2, PartGlues DEF Range
<1> QED BY <1>3, <1>4, <1>5 DEF ValidLabel

\* Components with the same part have the same label and trimmed value.
LEMMA PartsTellApart ==
    ASSUME NEW c \in Component, NEW d \in Component,
           ValidLabel(c.label), ValidLabel(d.label), Part(c) = Part(d)
    PROVE  c.label = d.label /\ Trimmed(c.value) = Trimmed(d.value)
<1>1. PICK l, m \in Nat : /\ l = Len(c.label) /\ m = Len(Trimmed(c.value))
                         /\ Len(Part(c)) = l + 1 + m
  BY LengthOfPart
<1>2. PICK k, n \in Nat : /\ k = Len(d.label) /\ n = Len(Trimmed(d.value))
                         /\ Len(Part(d)) = k + 1 + n
  BY LengthOfPart
<1>3. Len(c.label) = Len(d.label)
  <2>1. l <= k /\ k <= l
    BY <1>1, <1>2, LabelEndsFirst
  <2> QED BY <1>1, <1>2, <2>1
<1>4. Len(Trimmed(c.value)) = Len(Trimmed(d.value))
  <2>1. l + 1 + m = k + 1 + n /\ l = k
    BY <1>1, <1>2, <1>3
  <2>2. m = n
    BY <2>1
  <2> QED BY <1>1, <1>2, <2>2
<1>5. ASSUME NEW i \in 1..Len(c.label) PROVE c.label[i] = d.label[i]
  <2>1. Part(c)[i] = c.label[i]
    BY PartHolds
  <2>2. i \in 1..Len(d.label)
    BY <1>3
  <2>3. Part(d)[i] = d.label[i]
    BY <2>2, PartHolds
  <2> QED BY <2>1, <2>3
<1>6. ASSUME NEW i \in 1..Len(Trimmed(c.value))
      PROVE  Trimmed(c.value)[i] = Trimmed(d.value)[i]
  <2>1. Part(c)[Len(c.label) + 1 + i] = Trimmed(c.value)[i]
    BY PartHolds
  <2>2. i \in 1..Len(Trimmed(d.value))
    BY <1>4
  <2>3. Part(d)[Len(d.label) + 1 + i] = Trimmed(d.value)[i]
    BY <2>2, PartHolds
  <2> QED BY <1>3, <2>1, <2>3
<1>7. c.label = d.label
  BY <1>3, <1>5, PartGlues, SeqEqual
<1>8. Trimmed(c.value) = Trimmed(d.value)
  BY <1>4, <1>6, PartGlues, SeqEqual
<1> QED BY <1>7, <1>8

\* What canonical has checked of every component when it returns Ok.
LEMMA AcceptedIsFlawless ==
    ASSUME NEW r \in Seq(Component), FingerprintError(r) = Accepted, NEW i \in 1..Len(r)
    PROVE  /\ r[i] \in Component /\ ValidLabel(r[i].label)
           /\ \A j \in 1..(i - 1) : r[j].label # r[i].label
           /\ \A c \in Range(Trimmed(r[i].value)) : ~ IsAsciiControl(c)
<1> DEFINE flawed == {k \in DOMAIN r : Flaw(r, k) # Accepted}
<1>1. DOMAIN r = 1..Len(r) /\ flawed \in SUBSET Nat
  OBVIOUS
<1>2. flawed = {}
  <2> SUFFICES ASSUME flawed # {} PROVE FALSE
    OBVIOUS
  <2>1. FingerprintError(r) = Flaw(r, Min(flawed))
    BY DEF FingerprintError
  <2>2. Min(flawed) \in flawed
    <3> HIDE DEF flawed
    <3> QED BY <1>1, MinIsLeast
  <2>3. Flaw(r, Min(flawed)) # Accepted
    BY <2>2
  <2> HIDE DEF flawed
  <2> QED BY <2>1, <2>3
<1>3. Flaw(r, i) = Accepted
  BY <1>1, <1>2
<1>4. r[i] \in Component
  BY ElementOfSeq
<1> QED BY <1>3, <1>4 DEF Flaw, Accepted

\* A component that passed the checks puts no separator into its part.
LEMMA PartIsClean ==
    ASSUME NEW c \in Component, ValidLabel(c.label),
           \A x \in Range(Trimmed(c.value)) : ~ IsAsciiControl(x)
    PROVE  Clean(Part(c))
<1>1. PICK l, m \in Nat : /\ l = Len(c.label) /\ m = Len(Trimmed(c.value))
                         /\ Len(Part(c)) = l + 1 + m
  BY LengthOfPart
<1>3. ASSUME NEW i \in 1..Len(c.label) PROVE Part(c)[i] # UNIT_SEPARATOR
  <2>1. Part(c)[i] = c.label[i]
    BY PartHolds
  <2>2. c.label[i] \in Range(c.label)
    BY PartGlues DEF Range
  <2>3. c.label[i] \in 33..126
    BY <2>2 DEF ValidLabel, IsAsciiGraphic
  <2>4. c.label[i] # 31
    <3>1. \A x \in 33..126 : x # 31
      OBVIOUS
    <3> QED BY <2>3, <3>1
  <2> QED BY <2>1, <2>4 DEF UNIT_SEPARATOR
<1>4. Part(c)[Len(c.label) + 1] # UNIT_SEPARATOR
  <2>1. Part(c)[Len(c.label) + 1] = EqualsSign
    BY PartHolds
  <2> QED BY <2>1 DEF EqualsSign, UNIT_SEPARATOR
<1>5. ASSUME NEW i \in 1..Len(Trimmed(c.value))
      PROVE  Part(c)[Len(c.label) + 1 + i] # UNIT_SEPARATOR
  <2>1. Part(c)[Len(c.label) + 1 + i] = Trimmed(c.value)[i]
    BY PartHolds
  <2>2. Trimmed(c.value)[i] \in Range(Trimmed(c.value))
    BY PartGlues DEF Range
  <2> QED BY <2>1, <2>2 DEF IsAsciiControl, UNIT_SEPARATOR
<1>6. ASSUME NEW i \in 1..Len(Part(c)) PROVE Part(c)[i] # UNIT_SEPARATOR
  <2>1. CASE i <= l
    <3>1. i \in 1..l
      BY <2>1
    <3> QED BY <1>1, <1>3, <3>1
  <2>2. CASE i = l + 1
    BY <1>1, <1>4, <2>2
  <2>3. CASE l + 1 < i
    <3>1. i \in 1..(l + 1 + m)
      BY <1>1
    <3>2. PICK j \in 1..m : i = l + 1 + j
      <4>1. i - (l + 1) \in 1..m /\ i = l + 1 + (i - (l + 1))
        BY <2>3, <3>1
      <4> QED BY <4>1
    <3> QED BY <1>1, <1>5, <3>2
  <2> QED BY <2>1, <2>2, <2>3
<1> QED BY <1>6 DEF Clean

\* The parts of an accepted list: one for each component, all different.
LEMMA PartsOfAccepted ==
    ASSUME NEW r \in Seq(Component), FingerprintError(r) = Accepted
    PROVE  /\ Parts(r) \in Seq(Seq(Int)) /\ Len(Parts(r)) = Len(r)
           /\ Distinct(Parts(r))
           /\ \A p \in Range(Parts(r)) : Clean(p)
           /\ Range(Parts(r)) = {Part(c) : c \in Range(r)}
<1>1. DOMAIN r = 1..Len(r) /\ Len(r) \in Nat
  OBVIOUS
<1>2. \A i \in 1..Len(r) : Part(r[i]) \in Seq(Int) /\ Parts(r)[i] = Part(r[i])
  BY <1>1, AcceptedIsFlawless, PartGlues DEF Parts
<1>3. Parts(r) \in [1..Len(r) -> Seq(Int)]
  BY <1>1, <1>2 DEF Parts
<1>4. Parts(r) \in Seq(Seq(Int)) /\ Len(Parts(r)) = Len(r)
  BY <1>1, <1>3, FunctionIsSequence
<1>5. ASSUME NEW i \in 1..Len(r), NEW j \in 1..Len(r), Parts(r)[i] = Parts(r)[j]
      PROVE  i = j
  <2>1. r[i].label = r[j].label
    BY <1>2, <1>5, AcceptedIsFlawless, PartsTellApart
  <2>2. ~ (i < j) /\ ~ (j < i)
    BY <2>1, AcceptedIsFlawless
  <2> QED BY <2>2
<1>6. Distinct(Parts(r))
  BY <1>4, <1>5 DEF Distinct
<1>7. Range(Parts(r)) = {Parts(r)[i] : i \in 1..Len(r)}
  BY <1>3 DEF Range
<1>8. Range(r) = {r[i] : i \in 1..Len(r)}
  BY <1>1 DEF Range
<1>9. \A p \in Range(Parts(r)) : Clean(p)
  BY <1>2, <1>7, AcceptedIsFlawless, PartIsClean
<1>10. Range(Parts(r)) = {Part(c) : c \in Range(r)}
  BY <1>2, <1>7, <1>8
<1> QED BY <1>4, <1>6, <1>9, <1>10

\* Two lists that canonical accepts have the same canonical text exactly if
\* they hold the same labels with the same trimmed values: "re-ordering the
\* components or picking up stray whitespace cannot change the identity", and
\* nothing a value or a label may hold can make two different ones collide.
THEOREM CanonicalIdentifies ==
    ASSUME NEW r \in Seq(Component), FingerprintError(r) = Accepted,
           NEW s \in Seq(Component), FingerprintError(s) = Accepted
    PROVE  Canonical(r) = Canonical(s) <=> Content(r) = Content(s)
<1>1. /\ Parts(r) \in Seq(Seq(Int)) /\ Distinct(Parts(r))
      /\ Parts(s) \in Seq(Seq(Int)) /\ Distinct(Parts(s))
  BY PartsOfAccepted
<1>2. Canonical(r) = Canonical(s) <=> Sorted(Parts(r)) = Sorted(Parts(s))
  <2>1. /\ Sorted(Parts(r)) \in Seq(Seq(Int))
        /\ \A i \in 1..Len(Sorted(Parts(r))) : Clean(Sorted(Parts(r))[i])
    <3>1. Sorted(Parts(r)) \in Seq(Seq(Int)) /\ Range(Sorted(Parts(r))) = Range(Parts(r))
      BY <1>1, SortedArranges
    <3>2. \A i \in 1..Len(Sorted(Parts(r))) : Sorted(Parts(r))[i] \in Range(Sorted(Parts(r)))
      BY <3>1, RangeEquality
    <3> QED BY <3>1, <3>2, PartsOfAccepted
  <2>2. /\ Sorted(Parts(s)) \in Seq(Seq(Int))
        /\ \A i \in 1..Len(Sorted(Parts(s))) : Clean(Sorted(Parts(s))[i])
    <3>1. Sorted(Parts(s)) \in Seq(Seq(Int)) /\ Range(Sorted(Parts(s))) = Range(Parts(s))
      BY <1>1, SortedArranges
    <3>2. \A i \in 1..Len(Sorted(Parts(s))) : Sorted(Parts(s))[i] \in Range(Sorted(Parts(s)))
      BY <3>1, RangeEquality
    <3> QED BY <3>1, <3>2, PartsOfAccepted
  <2> QED BY <2>1, <2>2, JoinedTellsApart DEF Canonical
<1>3. Sorted(Parts(r)) = Sorted(Parts(s)) <=> Range(Parts(r)) = Range(Parts(s))
  BY <1>1, SortedForgetsOrder
<1>4. ASSUME NEW c \in Range(r) \cup Range(s) PROVE c \in Component /\ ValidLabel(c.label)
  <2>1. ASSUME NEW x \in Seq(Component), FingerprintError(x) = Accepted, c \in Range(x)
        PROVE  c \in Component /\ ValidLabel(c.label)
    <3>1. PICK i \in 1..Len(x) : c = x[i]
      BY <2>1, RangeEquality
    <3> QED BY <2>1, <3>1, AcceptedIsFlawless
  <2> QED BY <2>1
<1>5. ASSUME NEW c \in Range(r) \cup Range(s), NEW d \in Range(r) \cup Range(s)
      PROVE  Part(c) = Part(d) <=> <<c.label, Trimmed(c.value)>> = <<d.label, Trimmed(d.value)>>
  <2>1. Part(c) = Part(d) => c.label = d.label /\ Trimmed(c.value) = Trimmed(d.value)
    BY <1>4, PartsTellApart
  <2>2. c.label = d.label /\ Trimmed(c.value) = Trimmed(d.value) => Part(c) = Part(d)
    BY DEF Part
  <2> QED BY <2>1, <2>2
<1>6. ASSUME NEW x \in Seq(Component), NEW y \in Seq(Component),
             FingerprintError(x) = Accepted, FingerprintError(y) = Accepted,
             \A c \in Range(x), d \in Range(y) :
                Part(c) = Part(d) <=> <<c.label, Trimmed(c.value)>> = <<d.label, Trimmed(d.value)>>
      PROVE  Range(Parts(x)) \subseteq Range(Parts(y)) <=> Content(x) \subseteq Content(y)
  <2>1. Range(Parts(x)) = {Part(c) : c \in Range(x)} /\ Range(Parts(y)) = {Part(c) : c \in Range(y)}
    BY <1>6, PartsOfAccepted
  <2>2. ASSUME Range(Parts(x)) \subseteq Range(Parts(y)), NEW c \in Range(x)
        PROVE  <<c.label, Trimmed(c.value)>> \in Content(y)
    <3>1. Part(c) \in {Part(d) : d \in Range(y)}
      <4>1. Part(c) \in {Part(d) : d \in Range(x)}
        OBVIOUS
      <4> QED BY <2>1, <2>2, <4>1
    <3>2. PICK d \in Range(y) : Part(c) = Part(d)
      BY <3>1
    <3> QED BY <1>6, <3>2 DEF Content
  <2>3. ASSUME Content(x) \subseteq Content(y), NEW c \in Range(x)
        PROVE  Part(c) \in Range(Parts(y))
    <3>1. <<c.label, Trimmed(c.value)>> \in Content(y)
      <4>1. <<c.label, Trimmed(c.value)>> \in Content(x)
        BY DEF Content
      <4> QED BY <2>3, <4>1
    <3>2. PICK d \in Range(y) : <<c.label, Trimmed(c.value)>> = <<d.label, Trimmed(d.value)>>
      BY <3>1 DEF Content
    <3> QED BY <1>6, <2>1, <3>2
  <2> QED BY <2>1, <2>2, <2>3 DEF Content
<1>7. Range(Parts(r)) \subseteq Range(Parts(s)) <=> Content(r) \subseteq Content(s)
  BY <1>5, <1>6
<1>8. Range(Parts(s)) \subseteq Range(Parts(r)) <=> Content(s) \subseteq Content(r)
  BY <1>5, <1>6
<1>9. Range(Parts(r)) = Range(Parts(s)) <=> Content(r) = Content(s)
  BY <1>7, <1>8
<1> QED BY <1>2, <1>3, <1>9

-----------------------------------------------------------------------------
(* The strengthening.                                                      *)

\* A call holds no row but one of the fingerprint it asks for.
CallIsOfHost(c) ==
    /\ machine[c] # NoRow => machine[c].fingerprint = args[c].fingerprint
    /\ reply[c].op = "created" => reply[c].row.fingerprint = args[c].fingerprint

IdentityInv == \A c \in Calls : CallIsOfHost(c)

-----------------------------------------------------------------------------
(* The invariant is inductive.                                             *)

\* A call keeps to its fingerprint, if any row it now holds or is
\* shown as created is of that fingerprint.
LEMMA HostKeeps ==
    ASSUME NEW d \in Calls, CallIsOfHost(d),
           args'[d] = args[d],
           machine'[d] = machine[d] \/ machine'[d].fingerprint = args[d].fingerprint,
           \/ reply'[d] = reply[d]
           \/ reply'[d].op = "created" => reply'[d].row.fingerprint = args[d].fingerprint
    PROVE  CallIsOfHost(d)'
BY DEF CallIsOfHost

\* A call that starts has no row yet, whatever it asks for.
LEMMA HostStarts ==
    ASSUME IInv, IdentityInv, NEW c \in Calls, Start(c)
    PROVE  IdentityInv'
<1>1. /\ UNCHANGED <<machine, reply>>
      /\ \A d \in Calls \ {c} : args'[d] = args[d]
  BY DEF Start, IInv, TypeOK, serverVars
<1>2. machine[c] = NoRow /\ reply[c] = NoMsg /\ NoMsg.op = "none"
  BY DEF Start, IInv, CallInv, WireMatchesCall, RowsMatchCall, NoMsg
<1>3. CallIsOfHost(c)'
  BY <1>1, <1>2 DEF CallIsOfHost
<1>4. ASSUME NEW d \in Calls \ {c} PROVE CallIsOfHost(d)'
  BY <1>1, HostKeeps DEF IdentityInv
<1> QED BY <1>3, <1>4 DEF IdentityInv

\* The server creates a row of the fingerprint it is asked for, and shows the
\* row to its creator alone.
LEMMA ServesKeep ==
    ASSUME IInv, IdentityInv, NEW c \in Calls, Serve(c)
    PROVE  IdentityInv'
<1>1. UNCHANGED <<pc, args, machine>>
      /\ \A d \in Calls \ {c} : reply'[d] = reply[d]
  BY DEF Serve, ServeCreate, ServeList, ServeValidate, ServeDelete, Answer, callVars,
         IInv, TypeOK
<1>2. reply'[c].op = "created" => reply'[c].row.fingerprint = args[c].fingerprint
  <2>1. CASE ServeCreate(c)
    BY <2>1 DEF ServeCreate, Answer, NewRow, NoMsg, IInv, TypeOK
  <2>2. CASE ServeList(c)
    BY <2>2 DEF ServeList, Answer, NoMsg, IInv, TypeOK
  <2>3. CASE ServeValidate(c)
    BY <2>3 DEF ServeValidate, Answer, NoMsg, IInv, TypeOK
  <2>4. CASE ServeDelete(c)
    BY <2>4 DEF ServeDelete, Answer, NoMsg, IInv, TypeOK
  <2> QED BY <2>1, <2>2, <2>3, <2>4 DEF Serve
<1>3. ASSUME NEW d \in Calls PROVE CallIsOfHost(d)'
  BY <1>1, <1>2, HostKeeps DEF IdentityInv
<1> QED BY <1>3 DEF IdentityInv

\* A call that goes on or returns takes on no row but one of its fingerprint:
\* the one it created, or the exact match of the search.
LEMMA ClientsKeep ==
    ASSUME IInv, IdentityInv, NEW c \in Calls,
           HandleReply(c) \/ RequestFails(c) \/ Cancel(c)
    PROVE  IdentityInv'
<1>1. ASSUME NEW where, where # "idle",
             UNCHANGED args,
             pc' = [pc EXCEPT ![c] = where], pc[c] # "idle",
             reply' = [reply EXCEPT ![c] = NoMsg],
             \A d \in Calls \ {c} : machine'[d] = machine[d],
             machine'[c] = machine[c] \/ machine'[c].fingerprint = args[c].fingerprint
      PROVE  IdentityInv'
  <2>1. ASSUME NEW d \in Calls PROVE CallIsOfHost(d)'
    <3>1. reply'[d] = reply[d] \/ reply'[d] = NoMsg
      BY <1>1 DEF IInv, TypeOK
    <3>2. NoMsg.op # "created"
      BY DEF NoMsg
    <3> QED BY <1>1, <3>1, <3>2, HostKeeps DEF IdentityInv
  <2> QED BY <2>1 DEF IdentityInv
<1>2. ASSUME NEW result, Return(c, result), pc[c] \in Waiting PROVE IdentityInv'
  BY <1>1, <1>2 DEF Return, serverVars, callVars, Waiting
<1>3. ASSUME NEW where \in Waiting, NEW r, Continue(c, where, r), pc[c] \in Waiting,
             \A d \in Calls \ {c} : machine'[d] = machine[d],
             machine'[c] = machine[c] \/ machine'[c].fingerprint = args[c].fingerprint
      PROVE  IdentityInv'
  BY <1>1, <1>3 DEF Continue, serverVars, Waiting
<1>4. CASE RequestFails(c) \/ TakenPropagates(c) \/ SearchMiss(c) \/ Probed(c)
           \/ ValidatedKeeps(c) \/ RolledBack(c)
  BY <1>2, <1>4 DEF RequestFails, TakenPropagates, SearchMiss, Probed, ValidatedKeeps,
                    RolledBack, Waiting
<1>5. CASE TakenSearches(c) \/ CreateRefused(c) \/ SearchNextPage(c) \/ ValidatedRollsBack(c)
  BY <1>3, <1>5 DEF TakenSearches, CreateRefused, SearchNextPage, ValidatedRollsBack, Waiting
<1>6. CASE CreateSucceeded(c)
  <2>1. machine'[c] = reply[c].row /\ \A d \in Calls \ {c} : machine'[d] = machine[d]
    BY <1>6 DEF CreateSucceeded, IInv, TypeOK
  <2>2. reply[c].row.fingerprint = args[c].fingerprint
    BY <1>6 DEF CreateSucceeded, IdentityInv, CallIsOfHost
  <2> QED BY <1>3, <1>6, <2>1, <2>2 DEF CreateSucceeded, Waiting
<1>7. CASE SearchHit(c)
  <2>1. PICK m \in Matches(c) : machine' = [machine EXCEPT ![c] = m]
    BY <1>7 DEF SearchHit
  <2>2. machine'[c].fingerprint = args[c].fingerprint
        /\ \A d \in Calls \ {c} : machine'[d] = machine[d]
    BY <2>1 DEF Matches, IInv, TypeOK
  <2> QED BY <1>3, <1>7, <2>2 DEF SearchHit, Waiting
<1>8. CASE Cancel(c)
  BY <1>1, <1>8 DEF Cancel, serverVars, callVars, Waiting
<1> QED BY <1>4, <1>5, <1>6, <1>7, <1>8 DEF HandleReply

\* Every call is of its host, in every state.
THEOREM IdentityInvariantHolds == Spec => []IdentityInv
<1>1. Init => IdentityInv
  BY DEF Init, IdentityInv, CallIsOfHost, NoMsg
<1>2. IInv /\ IdentityInv /\ [Next]_vars => IdentityInv'
  <2> SUFFICES ASSUME IInv, IdentityInv, [Next]_vars PROVE IdentityInv'
    OBVIOUS
  <2>1. ASSUME NEW m \in machines, Evict(m) PROVE IdentityInv'
    <3>1. ASSUME NEW d \in Calls PROVE CallIsOfHost(d)'
      BY <2>1, HostKeeps DEF Evict, callVars, IdentityInv
    <3> QED BY <3>1 DEF IdentityInv
  <2>2. CASE UNCHANGED vars
    <3>1. UNCHANGED <<args, machine, reply>>
      BY <2>2 DEF vars
    <3> QED BY <3>1 DEF IdentityInv, CallIsOfHost
  <2>3. ASSUME NEW c \in Calls, Start(c) PROVE IdentityInv'
    BY <2>3, HostStarts
  <2>4. ASSUME NEW c \in Calls, Serve(c) PROVE IdentityInv'
    BY <2>4, ServesKeep
  <2>5. ASSUME NEW c \in Calls, HandleReply(c) \/ RequestFails(c) \/ Cancel(c)
        PROVE  IdentityInv'
    BY <2>5, ClientsKeep
  <2> QED BY <2>1, <2>2, <2>3, <2>4, <2>5 DEF Next
<1> QED BY <1>1, <1>2, InvariantHolds, PTL DEF Spec

-----------------------------------------------------------------------------
(* What the theorem rests on, and what the invariant gives.                *)

\* What is read on a host may vary in order and whitespace, but not else, and
\* no two hosts read alike.
ReadingsIdentify ==
    \A h, i \in Hosts : \A r \in Identifying(h), s \in Identifying(i) :
        Content(r) = Content(s) <=> h = i

\* No collision of SHA-256 among the texts that may be read.
DigestsDiffer ==
    \A h, i \in Hosts : \A r \in Identifying(h), s \in Identifying(i) :
        Compute(r) = Compute(s) => Canonical(r) = Canonical(s)

\* Then the fingerprint tells the hosts apart, and is one per host.
LEMMA FingerprintsIdentify ==
    ASSUME ReadingsIdentify, DigestsDiffer,
           NEW h \in Hosts, NEW i \in Hosts, NEW f \in Identities[h], NEW g \in Identities[i]
    PROVE  f = g <=> h = i
<1>1. PICK r \in Identifying(h) : f = Compute(r)
  BY DEF Identities
<1>2. PICK s \in Identifying(i) : g = Compute(s)
  BY DEF Identities
<1>3. /\ r \in Seq(Component) /\ FingerprintError(r) = Accepted
      /\ s \in Seq(Component) /\ FingerprintError(s) = Accepted
  BY IdentityAssumption DEF Identifying
<1>4. Compute(r) = Compute(s) <=> Canonical(r) = Canonical(s)
  <2>1. Canonical(r) = Canonical(s) => Compute(r) = Compute(s)
    BY DEF Compute
  <2> QED BY <2>1 DEF DigestsDiffer
<1>5. Canonical(r) = Canonical(s) <=> Content(r) = Content(s)
  BY <1>3, CanonicalIdentifies
<1> QED BY <1>1, <1>2, <1>4, <1>5 DEF ReadingsIdentify

\* Two calls that hold live rows of a licence hold the same row exactly if
\* they run on the same host: re-reading a host never takes a second seat,
\* and no host rides on another's.
THEOREM OneRowPerHost ==
    ASSUME InstalledApart, ReadingsIdentify, DigestsDiffer
    PROVE  Spec => []RowPerHost
<1>1. IInv /\ RowsAreApart /\ IdentityInv => RowPerHost
  <2> SUFFICES ASSUME IInv, RowsAreApart, IdentityInv, NEW c \in Calls, NEW d \in Calls,
                      machine[c] \in machines, machine[d] \in machines,
                      args[c].license = args[d].license
               PROVE  machine[c] = machine[d] <=> host(c) = host(d)
    BY DEF RowPerHost
  <2>1. machine[c] # NoRow /\ machine[d] # NoRow
    BY NoRowIsNoRow DEF IInv, TypeOK
  <2>2. /\ host(c) \in Hosts /\ args[c].fingerprint \in Identities[host(c)]
        /\ host(d) \in Hosts /\ args[d].fingerprint \in Identities[host(d)]
    BY IdentityAssumption DEF host, IInv, TypeOK
  <2>3. /\ machine[c].fingerprint = args[c].fingerprint
        /\ machine[d].fingerprint = args[d].fingerprint
    BY <2>1 DEF IdentityInv, CallIsOfHost
  <2>4. machine[c].license = args[c].license /\ machine[d].license = args[d].license
    BY <2>1 DEF IInv, CallInv, AdoptsShownRow
  <2>5. args[c].fingerprint = args[d].fingerprint <=> host(c) = host(d)
    BY <2>2, FingerprintsIdentify
  <2>6. machine[c] = machine[d] <=> args[c].fingerprint = args[d].fingerprint
    BY <2>3, <2>4 DEF RowsAreApart
  <2> QED BY <2>5, <2>6
<1> QED BY <1>1, IdentityInvariantHolds, InvariantHolds, RowsStandApart, PTL
==============================================================================
