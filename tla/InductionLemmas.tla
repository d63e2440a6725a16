-------------------------- MODULE InductionLemmas --------------------------
(***************************************************************************)
(* What the other proofs take from induction: least and greatest numbers,  *)
(* running sums, what FlattenSeq, IsPrefix and \o do to sequences, and     *)
(* counting up to a number.                                                *)
(***************************************************************************)
EXTENDS FiniteSetTheorems, SequencesExt, TLAPS

LEMMA LeastOf ==
  ASSUME NEW S \in SUBSET Nat, S # {}
  PROVE  \E n \in S : \A m \in S : n <= m
<1> DEFINE Below == {0 .. n : n \in S}
           Order == StrictSubsetOrdering(Nat)
           Finite == FiniteSubsetsOf(Nat)
<1>1. Below \subseteq Finite /\ Below # {}
  <2>1. \A n \in Nat : IsFiniteSet(0 .. n) /\ 0 .. n \subseteq Nat
    BY FS_Interval
  <2> QED
    BY <2>1 DEF FiniteSubsetsOf
<1>2. IsWellFoundedOn(Order, Finite)
  BY FS_StrictSubsetOrderingWellFounded
<1>3. PICK B \in Below : \A C \in Below : ~ (<<C, B>> \in Order)
  <2> HIDE DEF Below, Order, Finite
  <2> QED
    BY <1>1, <1>2, WFMin
<1>4. PICK n \in S : B = 0 .. n
  OBVIOUS
<1>5. ASSUME NEW m \in S, m < n PROVE FALSE
  <2>1. 0 .. m \in Below /\ 0 .. m \in SUBSET Nat /\ B \in SUBSET Nat
    BY <1>4
  <2>2. 0 .. m \subseteq B /\ n \in B /\ n \notin 0 .. m
    BY <1>4, <1>5
  <2> HIDE DEF Below
  <2> QED
    BY <1>3, <2>1, <2>2 DEF StrictSubsetOrdering
<1> QED
  BY <1>5

\* The greatest, when there is a bound.
LEMMA GreatestOf ==
  ASSUME NEW bound \in Nat, NEW S \in SUBSET (0 .. bound), S # {}
  PROVE  \E n \in S : \A m \in S : m <= n
<1> DEFINE T == {bound - n : n \in S}
<1>1. T \in SUBSET Nat /\ T # {}
  OBVIOUS
<1>2. PICK t \in T : \A u \in T : t <= u
  <2> HIDE DEF T
  <2> QED
    BY <1>1, LeastOf
<1>3. PICK n \in S : t = bound - n
  OBVIOUS
<1>4. ASSUME NEW m \in S PROVE m <= n
  <2>1. bound - m \in T
    OBVIOUS
  <2>2. t <= bound - m
    BY <1>2, <2>1
  <2> QED
    BY <1>3, <2>2
<1> QED
  BY <1>4

\* f is the running sum of the p[n] and q[n] from first to last, starting at base.
RunningSum(f, first, last, base, p, q) ==
  /\ f \in [first - 1 .. last -> Nat]
  /\ f[first - 1] = base
  /\ \A n \in first .. last : f[n] = f[n - 1] + p[n] + q[n]

\* There is one: what a recursive definition of it needs to mean something.
LEMMA SumExists ==
  ASSUME NEW first \in Int, NEW last \in Int, first - 1 <= last, NEW base \in Nat,
         NEW p \in [first .. last -> Nat], NEW q \in [first .. last -> Nat]
  PROVE  \E f : RunningSum(f, first, last, base, p, q)
<1> DEFINE Sums(f, m) ==
             /\ f \in [first - 1 .. first - 1 + m -> Nat]
             /\ \A n \in first - 1 .. first - 1 + m :
                  f[n] = IF n = first - 1 THEN base ELSE f[n - 1] + p[n] + q[n]
           Bad == {m \in 0 .. last - first + 1 : ~ \E f : Sums(f, m)}
<1>1. Sums([n \in first - 1 .. first - 1 + 0 |-> base], 0)
  OBVIOUS
<1>2. ASSUME NEW m \in 0 .. last - first, NEW f, Sums(f, m)
      PROVE  \E g : Sums(g, m + 1)
  <2> DEFINE top == first + m
             g == [n \in first - 1 .. first - 1 + (m + 1) |->
                     IF n = top THEN f[top - 1] + p[top] + q[top] ELSE f[n]]
  <2>1. top \in first .. last /\ top - 1 \in first - 1 .. first - 1 + m
    OBVIOUS
  <2>2. f[top - 1] \in Nat /\ p[top] \in Nat /\ q[top] \in Nat
    BY <1>2, <2>1
  <2>3. g \in [first - 1 .. first - 1 + (m + 1) -> Nat]
    <3>1. ASSUME NEW n \in first - 1 .. first - 1 + (m + 1), n # top PROVE f[n] \in Nat
      <4>1. n \in first - 1 .. first - 1 + m
        BY <3>1
      <4> QED
        BY <1>2, <4>1
    <3>2. f[top - 1] + p[top] + q[top] \in Nat
      BY <2>2
    <3> QED
      BY <3>1, <3>2
  <2>4. ASSUME NEW n \in first - 1 .. first - 1 + (m + 1)
        PROVE  g[n] = IF n = first - 1 THEN base ELSE g[n - 1] + p[n] + q[n]
    <3>1. CASE n = top
      <4>1. top - 1 # top /\ top # first - 1 /\ g[top] = f[top - 1] + p[top] + q[top]
            /\ g[top - 1] = f[top - 1]
        BY <2>1
      <4> QED
        BY <3>1, <4>1
    <3>2. CASE n # top
      <4>1. n \in first - 1 .. first - 1 + m /\ g[n] = f[n]
        BY <3>2
      <4>2. n # first - 1 => g[n - 1] = f[n - 1]
        BY <4>1
      <4>3. f[n] = IF n = first - 1 THEN base ELSE f[n - 1] + p[n] + q[n]
        BY <1>2, <4>1
      <4> QED
        BY <4>1, <4>2, <4>3
    <3> QED
      BY <3>1, <3>2
  <2>5. Sums(g, m + 1)
    <3> HIDE DEF g
    <3> QED
      BY <2>3, <2>4
  <2> QED
    BY <2>5
<1>3. Bad = {}
  <2>1. SUFFICES ASSUME Bad # {} PROVE FALSE
    OBVIOUS
  <2>2. Bad \in SUBSET Nat
    OBVIOUS
  <2>3. PICK m \in Bad : \A k \in Bad : m <= k
    <3> HIDE DEF Bad
    <3> QED
      BY <2>1, <2>2, LeastOf
  <2>4. m \in 0 .. last - first + 1 /\ ~ \E f : Sums(f, m)
    OBVIOUS
  <2>5. m # 0
    <3> HIDE DEF Sums
    <3> QED
      BY <1>1, <2>4
  <2>6. m - 1 \in 0 .. last - first /\ m - 1 \in 0 .. last - first + 1 /\ m - 1 \notin Bad
    <3> HIDE DEF Bad, Sums
    <3> QED
      BY <2>3, <2>4, <2>5
  <2>7. PICK f : Sums(f, m - 1)
    <3> HIDE DEF Sums
    <3> QED
      BY <2>6
  <2>8. \E g : Sums(g, (m - 1) + 1)
    <3> HIDE DEF Sums, Bad
    <3> QED
      BY <1>2, <2>6, <2>7
  <2>9. (m - 1) + 1 = m
    BY <2>4
  <2> QED
    BY <2>4, <2>8, <2>9
<1>4. PICK f : Sums(f, last - first + 1)
  <2>1. last - first + 1 \in 0 .. last - first + 1 /\ last - first + 1 \notin Bad
    <3> HIDE DEF Bad
    <3> QED
      BY <1>3
  <2> HIDE DEF Sums
  <2> QED
    BY <2>1
<1>5. first - 1 + (last - first + 1) = last
  OBVIOUS
<1>6. /\ f \in [first - 1 .. last -> Nat]
      /\ \A n \in first - 1 .. last : f[n] = IF n = first - 1 THEN base ELSE f[n - 1] + p[n] + q[n]
  BY <1>4, <1>5
<1>7. f[first - 1] = base /\ \A n \in first .. last : f[n] = f[n - 1] + p[n] + q[n]
  BY <1>6
<1> QED
  BY <1>6, <1>7 DEF RunningSum

LEMMA CountOf ==
  ASSUME NEW n \in Nat, NEW S \in SUBSET (1 .. n)
  PROVE  Cardinality(S) \in Nat
<1>1. IsFiniteSet(1 .. n)
  BY FS_Interval
<1> QED
  BY <1>1, FS_Subset, FS_CardinalityType

(***************************************************************************)
(* FlattenSeq, one sequence after the other.                               *)
(***************************************************************************)

\* f[i] is what the first i sequences of g join to.
Joins(f, g, n) == f = [i \in 1 .. n |-> IF i = 1 THEN g[1] ELSE f[i - 1] \o g[i]]

\* There is such a function, and its values are sequences.
LEMMA JoinsExist ==
  ASSUME NEW S, NEW n \in Nat, NEW g \in [1 .. n -> Seq(S)]
  PROVE  \E f \in [1 .. n -> Seq(S)] : Joins(f, g, n)
<1> DEFINE Has(m) == \E f \in [1 .. m -> Seq(S)] : Joins(f, g, m)
           Bad == {m \in 0 .. n : ~Has(m)}
<1>1. Has(0)
  <2> DEFINE f == [i \in 1 .. 0 |-> <<>>]
  <2>1. f \in [1 .. 0 -> Seq(S)] /\ Joins(f, g, 0)
    BY DEF Joins
  <2> QED
    BY <2>1
<1>2. ASSUME NEW m \in 0 .. n, m > 0, Has(m - 1) PROVE Has(m)
  <2>1. PICK f \in [1 .. m - 1 -> Seq(S)] : Joins(f, g, m - 1)
    BY <1>2
  <2> DEFINE top == IF m = 1 THEN g[1] ELSE f[m - 1] \o g[m]
             e == [i \in 1 .. m |-> IF i = m THEN top ELSE f[i]]
  <2>2. g[m] \in Seq(S) /\ m \in 1 .. n
    BY <1>2
  <2>3. top \in Seq(S)
    BY <1>2, <2>2
  <2>4. e \in [1 .. m -> Seq(S)]
    <3> HIDE DEF top
    <3> QED
      BY <1>2, <2>3
  <2>5. \A i \in 1 .. m : e[i] = IF i = 1 THEN g[1] ELSE e[i - 1] \o g[i]
    <3> TAKE i \in 1 .. m
    <3>1. CASE i = m
      <4>1. i # 1 => e[i - 1] = f[m - 1]
        BY <3>1
      <4> QED
        BY <3>1, <4>1
    <3>2. CASE i # m
      <4>1. i \in 1 .. m - 1 /\ e[i] = f[i] /\ (i # 1 => e[i - 1] = f[i - 1])
        BY <3>2
      <4>2. f[i] = IF i = 1 THEN g[1] ELSE f[i - 1] \o g[i]
        BY <2>1, <4>1 DEF Joins
      <4> QED
        BY <4>1, <4>2
    <3> QED
      BY <3>1, <3>2
  <2>6. Joins(e, g, m)
    <3> HIDE DEF e
    <3> QED
      BY <2>4, <2>5 DEF Joins
  <2> QED
    BY <2>4, <2>6
<1>3. SUFFICES ASSUME ~Has(n) PROVE FALSE
  OBVIOUS
<1> HIDE DEF Has
<1>4. Bad \in SUBSET Nat /\ Bad # {}
  BY <1>3
<1>5. PICK m \in Bad : \A k \in Bad : m <= k
  <2> HIDE DEF Bad
  <2> QED
    BY <1>4, LeastOf
<1>6. m > 0 /\ m \in 0 .. n /\ ~Has(m)
  BY <1>1
<1>7. Has(m - 1)
  BY <1>5, <1>6
<1> QED
  BY <1>2, <1>6, <1>7

\* What FlattenSeq returns is the last value of such a function.
LEMMA FlattenIs ==
  ASSUME NEW S, NEW n \in Nat \ {0}, NEW g \in [1 .. n -> Seq(S)]
  PROVE  \E f \in [1 .. n -> Seq(S)] : Joins(f, g, n) /\ FlattenSeq(g) = f[n]
<1> DEFINE c == CHOOSE f : Joins(f, g, n)
<1>1. Len(g) = n
  OBVIOUS
<1>2. PICK e \in [1 .. n -> Seq(S)] : Joins(e, g, n)
  BY JoinsExist
<1>3. Joins(c, g, n)
  <2> HIDE DEF Joins
  <2> QED
    BY <1>2
<1>4. FlattenSeq(g) = c[n]
  BY <1>1 DEF FlattenSeq, Joins
<1> HIDE DEF c
<1>5. \A i \in 1 .. n : c[i] = IF i = 1 THEN g[1] ELSE c[i - 1] \o g[i]
  BY <1>3 DEF Joins
<1>6. \A i \in 1 .. n : e[i] = IF i = 1 THEN g[1] ELSE e[i - 1] \o g[i]
  BY <1>2 DEF Joins
<1> DEFINE Bad == {i \in 1 .. n : c[i] # e[i]}
<1>7. Bad = {}
  <2>1. SUFFICES ASSUME Bad # {} PROVE FALSE
    OBVIOUS
  <2>2. PICK i \in Bad : \A k \in Bad : i <= k
    <3>1. Bad \in SUBSET Nat
      OBVIOUS
    <3> HIDE DEF Bad
    <3> QED
      BY <2>1, <3>1, LeastOf
  <2>3. i # 1
    BY <1>5, <1>6
  <2>4. i - 1 \in 1 .. n /\ c[i - 1] = e[i - 1]
    BY <2>2, <2>3
  <2>5. i \in 1 .. n /\ c[i] # e[i]
    OBVIOUS
  <2>6. c[i] = c[i - 1] \o g[i]
    BY ONLY <1>5, <2>3, <2>5
  <2>7. e[i] = e[i - 1] \o g[i]
    BY ONLY <1>6, <2>3, <2>5
  <2> QED
    BY ONLY <2>4, <2>5, <2>6, <2>7
<1>8. c = e
  <2>1. c = [i \in 1 .. n |-> c[i]]
    BY <1>3 DEF Joins
  <2>2. \A i \in 1 .. n : c[i] = e[i]
    BY <1>7
  <2> QED
    BY <2>1, <2>2
<1> QED
  BY <1>2, <1>4, <1>8

\* The first n sequences of g.
First(g, n) == [k \in 1 .. n |-> g[k]]

LEMMA FlattenNone ==
  ASSUME NEW g
  PROVE  FlattenSeq(First(g, 0)) = <<>>
<1>1. First(g, 0) = <<>>
  BY DEF First
<1> QED
  BY <1>1 DEF FlattenSeq

LEMMA FlattenType ==
  ASSUME NEW S, NEW n \in Nat, NEW g \in [1 .. n -> Seq(S)]
  PROVE  FlattenSeq(g) \in Seq(S)
<1>1. CASE n = 0
  <2>1. g = <<>>
    BY <1>1
  <2> QED
    BY <2>1 DEF FlattenSeq
<1>2. CASE n # 0
  <2>1. PICK f \in [1 .. n -> Seq(S)] : Joins(f, g, n) /\ FlattenSeq(g) = f[n]
    BY <1>2, FlattenIs
  <2> QED
    BY <1>2, <2>1
<1> QED
  BY <1>1, <1>2

\* One more sequence comes after what the others join to.
LEMMA FlattenGrows ==
  ASSUME NEW S, NEW n \in Nat, NEW g, \A k \in 1 .. n + 1 : g[k] \in Seq(S)
  PROVE  FlattenSeq(First(g, n + 1)) = FlattenSeq(First(g, n)) \o g[n + 1]
<1> DEFINE long == First(g, n + 1)
           short == First(g, n)
<1>1. /\ long \in [1 .. n + 1 -> Seq(S)] /\ short \in [1 .. n -> Seq(S)]
      /\ \A k \in 1 .. n : long[k] = short[k]
      /\ long[n + 1] = g[n + 1] /\ g[n + 1] \in Seq(S)
  BY DEF First
<1> SUFFICES FlattenSeq(long) = FlattenSeq(short) \o g[n + 1]
  OBVIOUS
<1>2. CASE n = 0
  <2>1. short = First(g, 0) /\ long \in [1 .. 1 -> Seq(S)] /\ n + 1 = 1
    BY <1>1, <1>2
  <2> HIDE DEF long, short
  <2>2. PICK f \in [1 .. 1 -> Seq(S)] : Joins(f, long, 1) /\ FlattenSeq(long) = f[1]
    <3>1. 1 \in Nat \ {0}
      OBVIOUS
    <3> QED
      BY <2>1, <3>1, FlattenIs
  <2>3. f[1] = long[1]
    BY <2>2 DEF Joins
  <2>4. FlattenSeq(short) = <<>>
    BY <2>1, FlattenNone
  <2> QED
    BY <1>1, <2>1, <2>2, <2>3, <2>4
<1>3. CASE n # 0
  <2> HIDE DEF long, short
  <2>1. PICK f \in [1 .. n + 1 -> Seq(S)] : Joins(f, long, n + 1) /\ FlattenSeq(long) = f[n + 1]
    BY ONLY <1>1, FlattenIs
  <2>2. PICK e \in [1 .. n -> Seq(S)] : Joins(e, short, n) /\ FlattenSeq(short) = e[n]
    BY <1>1, <1>3, FlattenIs
  <2>3. \A i \in 1 .. n + 1 : f[i] = IF i = 1 THEN long[1] ELSE f[i - 1] \o long[i]
    BY <2>1 DEF Joins
  <2>4. \A i \in 1 .. n : e[i] = IF i = 1 THEN short[1] ELSE e[i - 1] \o short[i]
    BY <2>2 DEF Joins
  <2> DEFINE Bad == {i \in 1 .. n : f[i] # e[i]}
  <2>5. Bad = {}
    <3>1. SUFFICES ASSUME Bad # {} PROVE FALSE
      OBVIOUS
    <3>2. PICK i \in Bad : \A k \in Bad : i <= k
      <4>1. Bad \in SUBSET Nat
        OBVIOUS
      <4> HIDE DEF Bad
      <4> QED
        BY <3>1, <4>1, LeastOf
    <3>3. i \in 1 .. n /\ i \in 1 .. n + 1 /\ long[i] = short[i] /\ f[i] # e[i]
      BY <1>1
    <3>4. i # 1
      BY <1>1, <2>3, <2>4, <3>3
    <3>5. i - 1 \in 1 .. n /\ f[i - 1] = e[i - 1]
      BY <3>2, <3>4
    <3>6. f[i] = f[i - 1] \o long[i]
      BY ONLY <2>3, <3>3, <3>4
    <3>7. e[i] = e[i - 1] \o short[i]
      BY ONLY <2>4, <3>3, <3>4
    <3> QED
      BY ONLY <3>3, <3>5, <3>6, <3>7
  <2>6. f[n] = e[n]
    <3>1. n \in 1 .. n
      BY <1>3
    <3> QED
      BY <2>5, <3>1
  <2>7. f[n + 1] = f[n] \o long[n + 1]
    <3>1. n + 1 \in 1 .. n + 1 /\ n + 1 # 1 /\ (n + 1) - 1 = n
      BY <1>3
    <3> QED
      BY <2>3, <3>1
  <2> QED
    BY <1>1, <2>1, <2>2, <2>6, <2>7
<1> QED
  BY <1>2, <1>3

\* s is how t begins.
Begins(s, t) == Len(s) <= Len(t) /\ \A i \in 1 .. Len(s) : s[i] = t[i]

LEMMA PrefixBegins ==
  ASSUME NEW S, NEW s \in Seq(S), NEW t \in Seq(S)
  PROVE  IsPrefix(s, t) <=> Begins(s, t)
<1>1. ASSUME IsPrefix(s, t) PROVE Begins(s, t)
  <2>1. Len(s) <= Len(t) /\ SubSeq(s, 1, Len(s)) = SubSeq(t, 1, Len(s))
    BY <1>1 DEF IsPrefix
  <2>2. ASSUME NEW i \in 1 .. Len(s) PROVE s[i] = t[i]
    <3>1. SubSeq(s, 1, Len(s))[i] = s[i] /\ SubSeq(t, 1, Len(s))[i] = t[i]
      BY <2>1
    <3> QED
      BY <2>1, <3>1
  <2> QED
    BY <2>1, <2>2 DEF Begins
<1>2. ASSUME Begins(s, t) PROVE IsPrefix(s, t)
  <2>1. Len(s) <= Len(t) /\ \A i \in 1 .. Len(s) : s[i] = t[i]
    BY <1>2 DEF Begins
  <2> DEFINE u == SubSeq(s, 1, Len(s))
             v == SubSeq(t, 1, Len(s))
  <2>2. u \in Seq(S) /\ v \in Seq(S) /\ Len(u) = Len(s) /\ Len(v) = Len(s)
    BY <2>1
  <2>3. \A i \in 1 .. Len(s) : u[i] = s[i] /\ v[i] = t[i]
    BY <2>1
  <2>4. u = v
    <3> HIDE DEF u, v
    <3> QED
      BY <2>1, <2>2, <2>3
  <2> QED
    BY <2>1, <2>4 DEF IsPrefix
<1> QED
  BY <1>1, <1>2

LEMMA BeginsConcat ==
  ASSUME NEW S, NEW s \in Seq(S), NEW t \in Seq(S), NEW u \in Seq(S), Begins(s, t)
  PROVE  Begins(s, t \o u)
<1>1. Len(s) <= Len(t) /\ \A i \in 1 .. Len(s) : s[i] = t[i]
  BY DEF Begins
<1>2. Len(t \o u) = Len(t) + Len(u) /\ \A i \in 1 .. Len(t) : (t \o u)[i] = t[i]
  OBVIOUS
<1>3. Len(s) \in Nat /\ Len(t) \in Nat /\ Len(u) \in Nat
  OBVIOUS
<1>4. \A i \in 1 .. Len(s) : s[i] = (t \o u)[i]
  BY <1>1, <1>2, <1>3
<1> QED
  BY <1>1, <1>2, <1>3, <1>4 DEF Begins

LEMMA BeginsTransitive ==
  ASSUME NEW S, NEW s \in Seq(S), NEW t \in Seq(S), NEW u \in Seq(S),
         Begins(s, t), Begins(t, u)
  PROVE  Begins(s, u)
BY DEF Begins

\* What the first i sequences join to begins what the first j do.
LEMMA FlattenBegins ==
  ASSUME NEW S, NEW n \in Nat, NEW g \in [1 .. n -> Seq(S)], NEW i \in 0 .. n, NEW j \in i .. n
  PROVE  Begins(FlattenSeq(First(g, i)), FlattenSeq(First(g, j)))
<1> DEFINE flat(m) == FlattenSeq(First(g, m))
           Bad == {m \in i .. n : ~Begins(flat(i), flat(m))}
<1>1. ASSUME NEW m \in 0 .. n PROVE flat(m) \in Seq(S)
  <2>1. First(g, m) \in [1 .. m -> Seq(S)] /\ m \in Nat
    BY DEF First
  <2> QED
    BY <2>1, FlattenType
<1>2. ASSUME NEW m \in 0 .. n - 1 PROVE flat(m + 1) = flat(m) \o g[m + 1] /\ g[m + 1] \in Seq(S)
  <2>1. m \in Nat /\ \A k \in 1 .. m + 1 : g[k] \in Seq(S)
    OBVIOUS
  <2>2. FlattenSeq(First(g, m + 1)) = FlattenSeq(First(g, m)) \o g[m + 1]
    BY <2>1, FlattenGrows
  <2>3. g[m + 1] \in Seq(S)
    BY <2>1
  <2> QED
    BY <2>2, <2>3
<1>3. SUFFICES ASSUME j \in Bad PROVE FALSE
  OBVIOUS
<1> HIDE DEF flat
<1>4. Bad \in SUBSET Nat /\ Bad # {}
  <2>1. i .. n \subseteq Nat
    OBVIOUS
  <2>2. Bad \subseteq i .. n
    OBVIOUS
  <2> HIDE DEF Bad
  <2> QED
    BY <1>3, <2>1, <2>2
<1>5. PICK m \in Bad : \A k \in Bad : m <= k
  <2> HIDE DEF Bad
  <2> QED
    BY <1>4, LeastOf
<1>6. m \in i .. n /\ ~Begins(flat(i), flat(m))
  OBVIOUS
<1>7. flat(i) \in Seq(S) /\ m # i
  BY <1>1, <1>6 DEF Begins
<1>8. m - 1 \in i .. n /\ m - 1 \in 0 .. n - 1 /\ (m - 1) + 1 = m
  BY <1>6, <1>7
<1>9. Begins(flat(i), flat(m - 1))
  BY <1>5, <1>8
<1>10. flat(m) = flat(m - 1) \o g[m] /\ flat(m - 1) \in Seq(S) /\ g[m] \in Seq(S)
  BY <1>1, <1>2, <1>8
<1> QED
  BY <1>6, <1>7, <1>9, <1>10, BeginsConcat

\* A concatenation, place by place.
LEMMA ConcatIs ==
  ASSUME NEW S, NEW s \in Seq(S), NEW t \in Seq(S)
  PROVE  /\ s \o t \in Seq(S) /\ Len(s \o t) = Len(s) + Len(t)
         /\ Len(s) \in Nat /\ Len(t) \in Nat
         /\ \A i \in 1 .. Len(s) : (s \o t)[i] = s[i]
         /\ \A i \in 1 .. Len(t) : (s \o t)[Len(s) + i] = t[i]
OBVIOUS

LEMMA ConcatAssociative ==
  ASSUME NEW S, NEW s \in Seq(S), NEW t \in Seq(S), NEW u \in Seq(S)
  PROVE  (s \o t) \o u = s \o (t \o u)
OBVIOUS

(***************************************************************************)
(* Sequences, place by place.                                              *)
(***************************************************************************)

LEMMA FunctionIsSeq ==
  ASSUME NEW n \in Nat, NEW T, NEW f \in [1 .. n -> T]
  PROVE  f \in Seq(T) /\ Len(f) = n
OBVIOUS

LEMMA ElementsOf ==
  ASSUME NEW T, NEW s \in Seq(T)
  PROVE  Len(s) \in Nat /\ \A k \in 1 .. Len(s) : s[k] \in T
OBVIOUS

LEMMA ConcatAt ==
  ASSUME NEW S, NEW s \in Seq(S), NEW t \in Seq(S)
  PROVE  /\ Len(s \o t) = Len(s) + Len(t)
         /\ \A k \in 1 .. Len(s \o t) : (s \o t)[k] = IF k <= Len(s) THEN s[k] ELSE t[k - Len(s)]
OBVIOUS

LEMMA BeginningOf ==
  ASSUME NEW S, NEW s \in Seq(S), NEW m \in 0 .. Len(s)
  PROVE  /\ SubSeq(s, 1, m) \in Seq(S) /\ Len(SubSeq(s, 1, m)) = m
         /\ \A i \in 1 .. m : SubSeq(s, 1, m)[i] = s[i]
OBVIOUS

LEMMA SameSequence ==
  ASSUME NEW S, NEW s \in Seq(S), NEW t \in Seq(S), Len(s) = Len(t),
         \A i \in 1 .. Len(s) : s[i] = t[i]
  PROVE  s = t
OBVIOUS

LEMMA AppendedAt ==
  ASSUME NEW S, NEW s \in Seq(S), NEW e \in S
  PROVE  /\ Append(s, e) \in Seq(S) /\ Len(Append(s, e)) = Len(s) + 1
         /\ \A i \in 1 .. Len(s) + 1 : Append(s, e)[i] = IF i <= Len(s) THEN s[i] ELSE e
OBVIOUS

LEMMA AppendNext ==
  ASSUME NEW S, NEW f \in Seq(S), NEW s \in Seq(S), NEW w \in Nat, w < Len(s)
  PROVE  Append(f \o SubSeq(s, 1, w), s[w + 1]) = f \o SubSeq(s, 1, w + 1)
<1> DEFINE a == SubSeq(s, 1, w)
           b == SubSeq(s, 1, w + 1)
           e == s[w + 1]
<1>1. /\ a \in Seq(S) /\ Len(a) = w /\ \A i \in 1 .. w : a[i] = s[i]
      /\ b \in Seq(S) /\ Len(b) = w + 1 /\ \A i \in 1 .. w + 1 : b[i] = s[i]
      /\ e \in S
  <2>1. w \in 0 .. Len(s) /\ w + 1 \in 0 .. Len(s) /\ w + 1 \in 1 .. Len(s)
    OBVIOUS
  <2>2. a \in Seq(S) /\ Len(a) = w /\ \A i \in 1 .. w : a[i] = s[i]
    BY <2>1, BeginningOf
  <2>3. b \in Seq(S) /\ Len(b) = w + 1 /\ \A i \in 1 .. w + 1 : b[i] = s[i]
    BY <2>1, BeginningOf
  <2> QED
    BY <2>1, <2>2, <2>3
<1>2. b[w + 1] = e /\ \A i \in 1 .. w : b[i] = a[i]
  <2> HIDE DEF a, b
  <2>1. w + 1 \in 1 .. w + 1 /\ \A i \in 1 .. w : i \in 1 .. w + 1
    OBVIOUS
  <2> QED
    BY <1>1, <2>1
<1> HIDE DEF a, b, e
<1>3. Append(a, e) = b
  BY ONLY <1>1, <1>2
<1>4. Append(f \o a, e) = f \o Append(a, e)
  <2> DEFINE u == f \o a
             c == Append(a, e)
             v == f \o c
             x == Append(u, e)
  <2>1. a \in Seq(S) /\ e \in S /\ Len(f) \in Nat /\ Len(a) \in Nat
    BY <1>1
  <2>2. c \in Seq(S) /\ Len(c) = Len(a) + 1
        /\ \A i \in 1 .. Len(a) + 1 : c[i] = IF i <= Len(a) THEN a[i] ELSE e
    BY <2>1, AppendedAt
  <2> HIDE DEF c
  <2>3. u \in Seq(S) /\ v \in Seq(S)
    BY <2>1, <2>2
  <2>4. Len(u) = Len(f) + Len(a) /\ \A i \in 1 .. Len(u) : u[i] = IF i <= Len(f) THEN f[i] ELSE a[i - Len(f)]
    BY <2>1, ConcatAt
  <2>5. Len(v) = Len(f) + Len(c) /\ \A i \in 1 .. Len(v) : v[i] = IF i <= Len(f) THEN f[i] ELSE c[i - Len(f)]
    BY <2>2, ConcatAt
  <2> HIDE DEF u, v
  <2>6. x \in Seq(S) /\ Len(x) = Len(u) + 1
        /\ \A i \in 1 .. Len(u) + 1 : x[i] = IF i <= Len(u) THEN u[i] ELSE e
    BY <2>1, <2>3, AppendedAt
  <2> HIDE DEF x
  <2>7. Len(x) = Len(v) /\ Len(u) \in Nat
    BY ONLY <2>1, <2>2, <2>4, <2>5, <2>6
  <2>8. ASSUME NEW i \in 1 .. Len(x) PROVE x[i] = v[i]
    <3>1. i \in Nat /\ i >= 1 /\ i <= Len(f) + Len(a) + 1 /\ i \in 1 .. Len(v) /\ i \in 1 .. Len(u) + 1
      BY ONLY <2>1, <2>4, <2>6, <2>7, i \in 1 .. Len(x)
    <3>2. x[i] = (IF i <= Len(u) THEN u[i] ELSE e) /\ v[i] = (IF i <= Len(f) THEN f[i] ELSE c[i - Len(f)])
      BY <2>5, <2>6, <3>1
    <3>3. CASE i <= Len(f)
      <4>1. i \in 1 .. Len(u) /\ i <= Len(u)
        BY ONLY <2>1, <2>4, <3>1, <3>3
      <4> QED
        BY <2>4, <3>2, <3>3, <4>1
    <3>4. CASE ~ (i <= Len(f)) /\ i <= Len(u)
      <4>1. i \in 1 .. Len(u) /\ i - Len(f) \in 1 .. Len(a) + 1 /\ i - Len(f) <= Len(a)
        BY ONLY <2>1, <2>4, <3>1, <3>4
      <4> QED
        BY <2>2, <2>4, <3>2, <3>4, <4>1
    <3>5. CASE ~ (i <= Len(f)) /\ ~ (i <= Len(u))
      <4>1. i - Len(f) \in 1 .. Len(a) + 1 /\ ~ (i - Len(f) <= Len(a))
        BY ONLY <2>1, <2>4, <3>1, <3>5
      <4> QED
        BY <2>2, <3>2, <3>5, <4>1
    <3> QED
      BY <3>3, <3>4, <3>5
  <2> QED
    BY ONLY <2>3, <2>6, <2>7, <2>8, SameSequence DEF x, u, v, c
<1> QED
  BY <1>3, <1>4 DEF a, b, e

LEMMA BeginsAfter ==
  ASSUME NEW S, NEW f \in Seq(S), NEW s \in Seq(S), NEW t \in Seq(S), Begins(s, t)
  PROVE  Begins(f \o s, f \o t)
<1>1. /\ Len(f \o s) = Len(f) + Len(s)
      /\ \A k \in 1 .. Len(f \o s) : (f \o s)[k] = IF k <= Len(f) THEN f[k] ELSE s[k - Len(f)]
  BY ConcatAt
<1>2. /\ Len(f \o t) = Len(f) + Len(t)
      /\ \A k \in 1 .. Len(f \o t) : (f \o t)[k] = IF k <= Len(f) THEN f[k] ELSE t[k - Len(f)]
  BY ConcatAt
<1>3. Len(f) \in Nat /\ Len(s) \in Nat /\ Len(t) \in Nat
  OBVIOUS
<1>4. Len(s) <= Len(t) /\ \A i \in 1 .. Len(s) : s[i] = t[i]
  BY DEF Begins
<1> DEFINE u == f \o s
           v == f \o t
<1> HIDE DEF u, v
<1>5. ASSUME NEW k \in 1 .. Len(u) PROVE u[k] = v[k]
  <2>1. k \in Nat /\ k <= Len(f) + Len(s) /\ k \in 1 .. Len(v)
    BY <1>1, <1>2, <1>3, <1>4 DEF u, v
  <2>2. u[k] = (IF k <= Len(f) THEN f[k] ELSE s[k - Len(f)])
        /\ v[k] = (IF k <= Len(f) THEN f[k] ELSE t[k - Len(f)])
    BY <1>1, <1>2, <2>1 DEF u, v
  <2>3. ~ (k <= Len(f)) => k - Len(f) \in 1 .. Len(s)
    BY <1>3, <2>1
  <2> QED
    BY <1>4, <2>2, <2>3
<1>6. Len(u) <= Len(v)
  BY <1>1, <1>2, <1>3, <1>4 DEF u, v
<1> QED
  BY <1>5, <1>6 DEF Begins, u, v

(***************************************************************************)
(* Counting the members of a set up to a number.                           *)
(***************************************************************************)

\* The members of S up to n.
Upto(S, n) == Cardinality({i \in 1 .. n : i \in S})

LEMMA UptoIs ==
  ASSUME NEW S, NEW n \in Nat
  PROVE  /\ Upto(S, n) \in Nat
         /\ Upto(S, 0) = 0
         /\ Upto(S, n + 1) = Upto(S, n) + (IF n + 1 \in S THEN 1 ELSE 0)
         /\ \A m \in 0 .. n : /\ Upto(S, m) \in Nat
                              /\ Upto(S, m) <= Upto(S, n)
                              /\ (\A i \in m + 1 .. n : i \notin S) => Upto(S, n) = Upto(S, m)
                              /\ (\E i \in m + 1 .. n : i \in S) => Upto(S, m) < Upto(S, n)
<1> DEFINE T(m) == {i \in 1 .. m : i \in S}
<1>1. \A m \in Nat : IsFiniteSet(T(m)) /\ Cardinality(T(m)) \in Nat
  <2>1. \A m \in Nat : IsFiniteSet(1 .. m)
    BY FS_Interval
  <2>2. \A m \in Nat : T(m) \subseteq 1 .. m
    OBVIOUS
  <2> HIDE DEF T
  <2> QED
    BY <2>1, <2>2, FS_Subset, FS_CardinalityType
<1>2. \A m : Upto(S, m) = Cardinality(T(m))
  BY DEF Upto
<1>3. Upto(S, 0) = 0
  <2>1. T(0) = {}
    OBVIOUS
  <2> QED
    BY <1>2, <2>1, FS_EmptySet
<1>4. Upto(S, n + 1) = Upto(S, n) + (IF n + 1 \in S THEN 1 ELSE 0)
  <2>1. CASE n + 1 \in S
    <3>1. T(n + 1) = T(n) \cup {n + 1} /\ n + 1 \notin T(n)
      BY <2>1
    <3> HIDE DEF T
    <3>2. Cardinality(T(n) \cup {n + 1}) = Cardinality(T(n)) + 1
      BY <1>1, <3>1, FS_AddElement
    <3> QED
      BY <1>2, <2>1, <3>1, <3>2
  <2>2. CASE n + 1 \notin S
    <3>1. T(n + 1) = T(n)
      BY <2>2
    <3> HIDE DEF T
    <3> QED
      BY <1>1, <1>2, <2>2, <3>1
  <2> QED
    BY <2>1, <2>2
<1>5. ASSUME NEW m \in 0 .. n
      PROVE  /\ Upto(S, m) \in Nat
             /\ Upto(S, m) <= Upto(S, n)
             /\ (\A i \in m + 1 .. n : i \notin S) => Upto(S, n) = Upto(S, m)
             /\ (\E i \in m + 1 .. n : i \in S) => Upto(S, m) < Upto(S, n)
  <2>1. T(m) \subseteq T(n) /\ m \in Nat
    OBVIOUS
  <2>2. (\A i \in m + 1 .. n : i \notin S) => T(n) = T(m)
    OBVIOUS
  <2>3. (\E i \in m + 1 .. n : i \in S) => T(m) # T(n)
    OBVIOUS
  <2> HIDE DEF T
  <2>4. /\ Cardinality(T(m)) <= Cardinality(T(n))
        /\ Cardinality(T(m)) = Cardinality(T(n)) => T(m) = T(n)
    BY <1>1, <2>1, FS_Subset
  <2>5. Cardinality(T(m)) \in Nat /\ Cardinality(T(n)) \in Nat
    BY <1>1, <2>1
  <2> QED
    BY <1>2, <2>2, <2>3, <2>4, <2>5
<1>6. Upto(S, n) \in Nat
  BY <1>1, <1>2
<1> QED
  BY <1>3, <1>4, <1>5, <1>6

\* Of the members of S each up to k many occurs.
LEMMA UptoReaches ==
  ASSUME NEW S, NEW n \in Nat, NEW k \in 1 .. Upto(S, n)
  PROVE  \E i \in 1 .. n : i \in S /\ Upto(S, i) = k
<1> DEFINE A == {i \in 0 .. n : Upto(S, i) >= k}
<1>1. Upto(S, n) \in Nat /\ Upto(S, 0) = 0 /\ \A m \in 0 .. n : Upto(S, m) \in Nat
  BY UptoIs
<1>2. A \in SUBSET Nat /\ A # {}
  <2>1. n \in A
    BY <1>1
  <2> QED
    BY <2>1
<1>3. PICK i \in A : \A j \in A : i <= j
  <2> HIDE DEF A
  <2> QED
    BY <1>2, LeastOf
<1>4. i \in 0 .. n /\ Upto(S, i) >= k /\ i # 0
  BY <1>1
<1>5. i - 1 \in 0 .. n /\ ~ (Upto(S, i - 1) >= k) /\ i - 1 \in Nat /\ (i - 1) + 1 = i
  BY <1>3, <1>4
<1>6. Upto(S, i) = Upto(S, i - 1) + (IF i \in S THEN 1 ELSE 0)
  BY <1>5, UptoIs
<1>7. Upto(S, i) = k /\ i \in S
  BY <1>1, <1>4, <1>5, <1>6
<1> QED
  BY <1>4, <1>7

(***************************************************************************)
(* Sequences joined in two parts.                                          *)
(***************************************************************************)

Sequences(g, n, S) == \A k \in 1 .. n : g[k] \in Seq(S)

\* The m sequences of g after the first n.
After(g, n, m) == [k \in 1 .. m |-> g[n + k]]

LEMMA FlattenSplits ==
  ASSUME NEW S, NEW n \in Nat, NEW m \in Nat, NEW g, Sequences(g, n + m, S)
  PROVE  FlattenSeq(First(g, n + m)) = FlattenSeq(First(g, n)) \o FlattenSeq(After(g, n, m))
<1> DEFINE h == After(g, n, m)
           whole(j) == FlattenSeq(First(g, n + j))
           front == FlattenSeq(First(g, n))
           back(j) == FlattenSeq(First(h, j))
           wrong == {j \in 0 .. m : whole(j) # front \o back(j)}
<1>0. \A k \in 1 .. n + m : g[k] \in Seq(S)
  BY DEF Sequences
<1>1. \A k \in 1 .. m : h[k] = g[n + k] /\ h[k] \in Seq(S)
  <2>1. \A k \in 1 .. m : n + k \in 1 .. n + m
    OBVIOUS
  <2>2. \A k \in 1 .. m : h[k] = g[n + k]
    BY DEF After
  <2> HIDE DEF h
  <2> QED
    BY ONLY <1>0, <2>1, <2>2
<1>8. First(h, m) = h
  BY DEF First, After
<1> HIDE DEF h
<1>2. front \in Seq(S)
  <2>1. First(g, n) \in [1 .. n -> Seq(S)]
    BY <1>0 DEF First
  <2> QED
    BY <2>1, FlattenType
<1>3. ASSUME NEW j \in 0 .. m PROVE back(j) \in Seq(S)
  <2>1. First(h, j) \in [1 .. j -> Seq(S)] /\ j \in Nat
    BY <1>1 DEF First
  <2> QED
    BY <2>1, FlattenType
<1>4. 0 \notin wrong
  <2>1. back(0) = <<>>
    BY FlattenNone
  <2>2. n + 0 = n
    OBVIOUS
  <2>3. front \o <<>> = front
    <3> HIDE DEF front
    <3> QED
      BY <1>2
  <2> HIDE DEF front, back
  <2> QED
    BY <2>1, <2>2, <2>3 DEF front
<1>5. ASSUME NEW j \in 0 .. m, j + 1 \in 0 .. m, j \notin wrong PROVE j + 1 \notin wrong
  <2>1. whole(j) = front \o back(j)
    BY <1>5
  <2>2. whole(j + 1) = whole(j) \o g[n + j + 1]
    <3>1. n + j \in Nat /\ n + (j + 1) = (n + j) + 1 /\ \A k \in 1 .. (n + j) + 1 : g[k] \in Seq(S)
      BY <1>0, <1>5
    <3>2. FlattenSeq(First(g, (n + j) + 1)) = FlattenSeq(First(g, n + j)) \o g[(n + j) + 1]
      BY <3>1, FlattenGrows
    <3> QED
      BY <3>1, <3>2
  <2>3. back(j + 1) = back(j) \o h[j + 1] /\ h[j + 1] = g[n + j + 1] /\ h[j + 1] \in Seq(S)
    <3>1. j \in Nat /\ j + 1 \in 1 .. m /\ n + (j + 1) = n + j + 1
          /\ \A k \in 1 .. j + 1 : k \in 1 .. m
      BY <1>5
    <3>2. \A k \in 1 .. j + 1 : h[k] \in Seq(S)
      BY <1>1, <3>1
    <3>3. FlattenSeq(First(h, j + 1)) = FlattenSeq(First(h, j)) \o h[j + 1]
      <4>1. j \in Nat /\ \A k \in 1 .. j + 1 : h[k] \in Seq(S)
        BY ONLY <3>1, <3>2
      <4> QED
        BY ONLY <4>1, FlattenGrows
    <3>4. h[j + 1] = g[n + (j + 1)] /\ h[j + 1] \in Seq(S)
      BY ONLY <1>1, <3>1
    <3>5. h[j + 1] = g[n + j + 1]
      BY ONLY <3>1, <3>4
    <3> QED
      BY <3>3, <3>4, <3>5
  <2>4. back(j) \in Seq(S)
    BY <1>3
  <2> DEFINE u == back(j)
             v == h[j + 1]
  <2>5. (front \o back(j)) \o h[j + 1] = front \o (back(j) \o h[j + 1])
    <3> HIDE DEF front, u, v
    <3>1. u \in Seq(S) /\ v \in Seq(S)
      BY <2>3, <2>4 DEF u, v
    <3>2. (front \o u) \o v = front \o (u \o v)
      BY ONLY <1>2, <3>1, ConcatAssociative
    <3> QED
      BY <3>2 DEF u, v
  <2> HIDE DEF whole, front, back
  <2>6. whole(j + 1) = front \o back(j + 1)
    BY <2>1, <2>2, <2>3, <2>5
  <2> QED
    BY <2>6
<1> HIDE DEF whole, front, back
<1>6. wrong = {}
  <2> SUFFICES ASSUME wrong # {} PROVE FALSE
    OBVIOUS
  <2>1. PICK j \in wrong : \A i \in wrong : j <= i
    <3>1. wrong \in SUBSET Nat
      OBVIOUS
    <3> HIDE DEF wrong
    <3> QED
      BY <3>1, LeastOf
  <2>2. j \in 0 .. m /\ j # 0
    BY <1>4, <2>1
  <2>3. j - 1 \in 0 .. m /\ (j - 1) + 1 = j /\ ~ (j <= j - 1)
    BY <2>2
  <2>4. j - 1 \notin wrong
    BY <2>1, <2>3
  <2>5. j \notin wrong
    <3> HIDE DEF wrong
    <3> QED
      BY <1>5, <2>2, <2>3, <2>4
  <2> QED
    BY <2>1, <2>5
<1>7. whole(m) = front \o back(m)
  <2>1. m \in 0 .. m
    OBVIOUS
  <2> QED
    BY <1>6, <2>1
<1> QED
  BY <1>7, <1>8 DEF whole, front, back, h

=============================================================================
