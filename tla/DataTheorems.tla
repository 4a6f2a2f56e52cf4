------------------------------ MODULE DataTheorems -----------------------------
(***************************************************************************)
(* Facts about the data that several modules use: lists of distinct keys,  *)
(* as access_order in world/storage.py is one, sums over finite sets, and  *)
(* what comes out of a set made a list and of lists that are joined, what  *)
(* a fold over a list leads to, that a recursive function which comes to   *)
(* a stop is defined, and what a wave through a graph leaves behind.       *)
(* Where a proof needs induction over finite sets it takes a least set     *)
(* among those that refute the claim (LeastSubset), for the induction      *)
(* theorems of the library have an operator as a parameter.                *)
(***************************************************************************)
EXTENDS Sums, SequencesExt, FiniteSetTheorems, SequenceTheorems, TLAPS

\* RemoveAt as a function of the index.
LEMMA RemoveAtElements ==
  ASSUME NEW S, NEW s \in Seq(S), NEW i \in 1..Len(s)
  PROVE  /\ RemoveAt(s, i) \in Seq(S)
         /\ Len(RemoveAt(s, i)) = Len(s) - 1
         /\ \A j \in 1..Len(s)-1 : RemoveAt(s, i)[j] = IF j < i THEN s[j] ELSE s[j+1]
<1> DEFINE a == SubSeq(s, 1, i-1)
           b == SubSeq(s, i+1, Len(s))
<1>0. Len(s) \in Nat /\ i \in Nat /\ i >= 1 /\ i <= Len(s) BY LenProperties
<1>1. a \in Seq(S) /\ Len(a) = i-1 /\ \A j \in 1..i-1 : a[j] = s[j]
  BY <1>0, SubSeqProperties
<1>2. b \in Seq(S) /\ Len(b) = Len(s)-i /\ \A j \in 1..Len(s)-i : b[j] = s[i+j]
  BY <1>0, SubSeqProperties
<1>3. RemoveAt(s, i) = a \o b BY DEF RemoveAt
<1> HIDE DEF a, b
<1>4. /\ a \o b \in Seq(S)
      /\ Len(a \o b) = Len(s) - 1
      /\ \A j \in 1..Len(s)-1 : (a \o b)[j] = IF j <= i-1 THEN a[j] ELSE b[j-(i-1)]
  <2>1. /\ a \o b \in Seq(S)
        /\ Len(a \o b) = Len(a) + Len(b)
        /\ \A j \in 1..Len(a) + Len(b) :
              (a \o b)[j] = IF j <= Len(a) THEN a[j] ELSE b[j - Len(a)]
    BY <1>1, <1>2, ConcatProperties
  <2>2. Len(a) + Len(b) = Len(s) - 1 BY <1>0, <1>1, <1>2
  <2>. QED BY <2>1, <2>2, <1>1
<1>5. ASSUME NEW j \in 1..Len(s)-1
      PROVE  (a \o b)[j] = IF j < i THEN s[j] ELSE s[j+1]
  <2>1. CASE j < i BY <1>0, <1>1, <1>4, <2>1
  <2>2. CASE ~(j < i)
    <3>1. j-(i-1) \in 1..Len(s)-i BY <1>0, <2>2
    <3>2. b[j-(i-1)] = s[j+1] BY <1>0, <1>2, <3>1
    <3>. QED BY <1>0, <1>4, <2>2, <3>2
  <2>. QED BY <1>0, <2>1, <2>2
<1>. QED BY <1>3, <1>4, <1>5

-------------------------------------------------------------------------------
(* access_order as a list of distinct keys.                                *)

Distinct(s) == \A i, j \in 1..Len(s) : s[i] = s[j] => i = j
Listed(s, k) == \E i \in 1..Len(s) : s[i] = k

LEMMA RemoveKey ==
  ASSUME NEW S, NEW s \in Seq(S), NEW i \in 1..Len(s), Distinct(s)
  PROVE  /\ RemoveAt(s, i) \in Seq(S)
         /\ Len(RemoveAt(s, i)) = Len(s) - 1
         /\ Distinct(RemoveAt(s, i))
         /\ \A k : Listed(RemoveAt(s, i), k) <=> Listed(s, k) /\ k # s[i]
<1> DEFINE q == RemoveAt(s, i)
<1>1. /\ q \in Seq(S) /\ Len(q) = Len(s) - 1
      /\ \A j \in 1..Len(s)-1 : q[j] = IF j < i THEN s[j] ELSE s[j+1]
  BY RemoveAtElements
<1>2. Len(s) \in Nat BY LenProperties
<1> HIDE DEF q
<1>3. Distinct(q)
  <2> SUFFICES ASSUME NEW j \in 1..Len(q), NEW k \in 1..Len(q), q[j] = q[k]
               PROVE  j = k
    BY DEF Distinct
  <2>1. PICK a \in 1..Len(s) : s[a] = q[j] /\ a = IF j < i THEN j ELSE j + 1
    BY <1>1, <1>2
  <2>2. PICK b \in 1..Len(s) : s[b] = q[k] /\ b = IF k < i THEN k ELSE k + 1
    BY <1>1, <1>2
  <2>3. a = b
    BY <2>1, <2>2 DEF Distinct
  <2> QED
    BY <1>1, <1>2, <2>1, <2>2, <2>3
<1>4. ASSUME NEW k, Listed(q, k) PROVE Listed(s, k) /\ k # s[i]
  BY <1>1, <1>2, <1>4 DEF Distinct, Listed
<1>5. ASSUME NEW k, Listed(s, k), k # s[i] PROVE Listed(q, k)
  <2>1. PICK j \in 1..Len(s) : s[j] = k BY <1>5 DEF Listed
  <2>2. CASE j < i
    <3>1. j \in 1..Len(s)-1 /\ q[j] = k BY <1>1, <1>2, <2>1, <2>2
    <3>. QED BY <1>1, <3>1 DEF Listed
  <2>3. CASE j > i
    <3>1. j-1 \in 1..Len(s)-1 /\ q[j-1] = s[(j-1)+1] BY <1>1, <1>2, <2>3
    <3>2. q[j-1] = k BY <1>2, <2>1, <3>1
    <3>. QED BY <1>1, <3>1, <3>2 DEF Listed
  <2>. QED BY <1>2, <1>5, <2>1, <2>2, <2>3
<1>. QED BY <1>1, <1>3, <1>4, <1>5 DEF q

LEMMA AppendKey ==
  ASSUME NEW S, NEW s \in Seq(S), NEW e \in S, Distinct(s), ~Listed(s, e)
  PROVE  /\ Append(s, e) \in Seq(S)
         /\ Len(Append(s, e)) = Len(s) + 1
         /\ Distinct(Append(s, e))
         /\ \A k : Listed(Append(s, e), k) <=> Listed(s, k) \/ k = e
<1> DEFINE q == Append(s, e)
<1>1. Len(s) \in Nat BY LenProperties
<1>2. /\ q \in Seq(S) /\ Len(q) = Len(s) + 1 /\ q[Len(s) + 1] = e
      /\ \A j \in 1..Len(s) : q[j] = s[j]
  BY AppendProperties, <1>1
<1> HIDE DEF q
<1>3. Distinct(q) BY <1>1, <1>2 DEF Distinct, Listed
<1>4. ASSUME NEW k PROVE Listed(q, k) <=> Listed(s, k) \/ k = e
  <2>1. Listed(s, k) => Listed(q, k) BY <1>1, <1>2 DEF Listed
  <2>2. Listed(q, e) BY <1>1, <1>2 DEF Listed
  <2>3. Listed(q, k) => Listed(s, k) \/ k = e BY <1>1, <1>2 DEF Listed
  <2>. QED BY <2>1, <2>2, <2>3
<1>. QED BY <1>2, <1>3, <1>4 DEF q

LEMMA DropHead ==
  ASSUME NEW S, NEW s \in Seq(S), s # <<>>, Distinct(s)
  PROVE  /\ Tail(s) \in Seq(S)
         /\ Len(Tail(s)) = Len(s) - 1
         /\ Distinct(Tail(s))
         /\ Head(s) \in S
         /\ Listed(s, Head(s))
         /\ \A k : Listed(Tail(s), k) <=> Listed(s, k) /\ k # Head(s)
<1> DEFINE q == Tail(s)
<1>1. Len(s) \in Nat /\ Len(s) >= 1 BY EmptySeq, LenProperties
<1>2. /\ q \in Seq(S) /\ Len(q) = Len(s) - 1 /\ Head(s) \in S /\ Head(s) = s[1]
      /\ \A j \in 1..Len(s)-1 : q[j] = s[j+1]
  BY <1>1, HeadTailProperties
<1> HIDE DEF q
<1>3. Distinct(q) BY <1>1, <1>2 DEF Distinct
<1>4. Listed(s, Head(s)) BY <1>1, <1>2 DEF Listed
<1>5. ASSUME NEW k, Listed(q, k) PROVE Listed(s, k) /\ k # Head(s)
  BY <1>1, <1>2, <1>5 DEF Listed, Distinct
<1>6. ASSUME NEW k, Listed(s, k), k # Head(s) PROVE Listed(q, k)
  <2>1. PICK j \in 1..Len(s) : s[j] = k BY <1>6 DEF Listed
  <2>2. j-1 \in 1..Len(s)-1 /\ q[j-1] = s[(j-1)+1] BY <1>1, <1>2, <1>6, <2>1
  <2>3. q[j-1] = k BY <2>1, <2>2, <1>1
  <2>. QED BY <1>2, <2>2, <2>3 DEF Listed
<1>. QED BY <1>2, <1>3, <1>4, <1>5, <1>6 DEF q

\* What a list is made of after a list, or an element, was put behind it.
LEMMA ConcatLists ==
    ASSUME NEW S, NEW s \in Seq(S), NEW t \in Seq(S)
    PROVE  /\ s \o t \in Seq(S)
           /\ Len(s \o t) = Len(s) + Len(t)
           /\ \A i \in 1..Len(s) : (s \o t)[i] = s[i]
           /\ \A j \in 1..Len(t) : (s \o t)[Len(s) + j] = t[j]
           /\ \A i \in 1..Len(s \o t) :
                 \/ i \in 1..Len(s)
                 \/ i - Len(s) \in 1..Len(t) /\ (s \o t)[i] = t[i - Len(s)]
           /\ \A x : Listed(s \o t, x) <=> Listed(s, x) \/ Listed(t, x)
<1>0. Len(s) \in Nat /\ Len(t) \in Nat
  BY LenProperties
<1> DEFINE u == s \o t
<1>1. /\ u \in Seq(S) /\ Len(u) = Len(s) + Len(t)
      /\ \A i \in 1..Len(s) + Len(t) : u[i] = IF i <= Len(s) THEN s[i] ELSE t[i - Len(s)]
  BY ConcatProperties
<1> HIDE DEF u
<1>2. \A i \in 1..Len(s) : u[i] = s[i]
  BY <1>0, <1>1
<1>3. ASSUME NEW j \in 1..Len(t) PROVE Len(s) + j \in 1..Len(u) /\ u[Len(s) + j] = t[j]
  <2>1. /\ Len(s) + j \in 1..Len(s) + Len(t)
        /\ ~(Len(s) + j <= Len(s)) /\ Len(s) + j - Len(s) = j
    BY <1>0
  <2> QED
    BY <1>1, <2>1
<1>4. \A i \in 1..Len(u) :
         \/ i \in 1..Len(s)
         \/ i - Len(s) \in 1..Len(t) /\ u[i] = t[i - Len(s)]
  BY <1>0, <1>1
<1>5. ASSUME NEW x PROVE Listed(u, x) <=> Listed(s, x) \/ Listed(t, x)
  <2>1. Listed(s, x) => Listed(u, x)
    <3>1. \A i \in 1..Len(s) : i \in 1..Len(u)
      BY <1>0, <1>1
    <3> QED
      BY <1>2, <3>1 DEF Listed
  <2>2. Listed(t, x) => Listed(u, x)
    BY <1>3 DEF Listed
  <2>3. Listed(u, x) => Listed(s, x) \/ Listed(t, x)
    BY <1>2, <1>4 DEF Listed
  <2> QED
    BY <2>1, <2>2, <2>3
<1> QED
  BY <1>1, <1>2, <1>3, <1>4, <1>5 DEF u

LEMMA AppendLists ==
    ASSUME NEW S, NEW s \in Seq(S), NEW x \in S
    PROVE  /\ Append(s, x) \in Seq(S)
           /\ Len(Append(s, x)) = Len(s) + 1
           /\ \A i \in 1..Len(s) : Append(s, x)[i] = s[i]
           /\ Append(s, x)[Len(s) + 1] = x
           /\ \A y : Listed(Append(s, x), y) <=> Listed(s, y) \/ y = x
<1>1. Len(s) \in Nat
  BY LenProperties
<1> DEFINE u == Append(s, x)
<1>2. u \in Seq(S) /\ Len(u) = Len(s) + 1 /\ u[Len(s) + 1] = x /\ \A i \in 1..Len(s) : u[i] = s[i]
  BY AppendProperties
<1> HIDE DEF u
<1>3. ASSUME NEW y PROVE Listed(u, y) <=> Listed(s, y) \/ y = x
  BY <1>1, <1>2 DEF Listed
<1> QED
  BY <1>2, <1>3 DEF u

LEMMA TailLists ==
    ASSUME NEW S, NEW s \in Seq(S), s # <<>>
    PROVE  /\ Tail(s) \in Seq(S)
           /\ Len(Tail(s)) = Len(s) - 1
           /\ \A i \in 1..Len(s)-1 : Tail(s)[i] = s[i+1]
           /\ Head(s) \in S /\ Head(s) = s[1] /\ Listed(s, Head(s))
           /\ \A x : Listed(s, x) <=> x = Head(s) \/ Listed(Tail(s), x)
<1> DEFINE t == Tail(s)
<1>1. Len(s) \in Nat /\ Len(s) >= 1
  BY EmptySeq, LenProperties
<1>2. /\ t \in Seq(S) /\ Len(t) = Len(s) - 1 /\ Head(s) \in S /\ Head(s) = s[1]
      /\ \A i \in 1..Len(s)-1 : t[i] = s[i+1]
  BY <1>1, HeadTailProperties
<1> HIDE DEF t
<1>3. Listed(s, Head(s))
  BY <1>1, <1>2 DEF Listed
<1>4. \A i \in 1..Len(t) : i + 1 \in 1..Len(s) /\ t[i] = s[i+1]
  BY <1>1, <1>2
<1>5. \A i \in 1..Len(s) : i = 1 \/ (i - 1 \in 1..Len(t) /\ t[i-1] = s[i])
  BY <1>1, <1>2
<1>6. ASSUME NEW x PROVE Listed(s, x) <=> x = Head(s) \/ Listed(t, x)
  <2>1. Listed(t, x) => Listed(s, x)
    BY <1>4 DEF Listed
  <2>2. Listed(s, x) => x = Head(s) \/ Listed(t, x)
    BY <1>2, <1>5 DEF Listed
  <2> QED
    BY <1>3, <2>1, <2>2
<1> QED
  BY <1>2, <1>3, <1>6 DEF t

\* A list without its first n elements.
LEMMA PopLists ==
    ASSUME NEW S, NEW s \in Seq(S), NEW n \in Nat, n <= Len(s)
    PROVE  /\ SubSeq(s, n + 1, Len(s)) \in Seq(S)
           /\ Len(SubSeq(s, n + 1, Len(s))) = Len(s) - n
           /\ \A i \in 1..Len(s) - n : SubSeq(s, n + 1, Len(s))[i] = s[i + n]
           /\ \A x : Listed(SubSeq(s, n + 1, Len(s)), x) => Listed(s, x)
           /\ \A x : Listed(s, x) => \/ \E i \in 1..n : x = s[i]
                                     \/ Listed(SubSeq(s, n + 1, Len(s)), x)
<1> DEFINE t == SubSeq(s, n + 1, Len(s))
<1>1. Len(s) \in Nat
  BY LenProperties
<1>2. t \in Seq(S) /\ Len(t) = Len(s) - n /\ \A i \in 1..Len(s) - n : t[i] = s[i + n]
  BY <1>1, SubSeqProperties
<1> HIDE DEF t
<1>3. \A i \in 1..Len(t) : i + n \in 1..Len(s) /\ t[i] = s[i + n]
  BY <1>1, <1>2
<1>4. \A i \in 1..Len(s) : i \in 1..n \/ (i - n \in 1..Len(t) /\ t[i - n] = s[i])
  BY <1>1, <1>2
<1>5. \A x : Listed(t, x) => Listed(s, x)
  BY <1>3 DEF Listed
<1>6. \A x : Listed(s, x) => (\E i \in 1..n : x = s[i]) \/ Listed(t, x)
  BY <1>4 DEF Listed
<1> QED
  BY <1>2, <1>5, <1>6 DEF t

\* Lists of one and of two elements.
LEMMA OneListed ==
    ASSUME NEW S, NEW x \in S
    PROVE  /\ <<x>> \in Seq(S) /\ Len(<<x>>) = 1 /\ <<x>>[1] = x
           /\ \A y : Listed(<<x>>, y) <=> y = x
BY DEF Listed

LEMMA TwoListed ==
    ASSUME NEW S, NEW x \in S, NEW y \in S
    PROVE  /\ <<x, y>> \in Seq(S) /\ Len(<<x, y>>) = 2
           /\ <<x, y>>[1] = x /\ <<x, y>>[2] = y
           /\ \A z : Listed(<<x, y>>, z) <=> z = x \/ z = y
<1> DEFINE s == <<x, y>>
<1>1. s \in Seq(S) /\ Len(s) = 2 /\ s[1] = x /\ s[2] = y
  OBVIOUS
<1> HIDE DEF s
<1>2. \A z : Listed(s, z) <=> z = x \/ z = y
  BY <1>1 DEF Listed
<1> QED
  BY <1>1, <1>2 DEF s

LEMMA NoneListed == Len(<<>>) = 0 /\ \A S : <<>> \in Seq(S) /\ \A x : ~Listed(<<>>, x)
BY DEF Listed

LEMMA ListedIn ==
    ASSUME NEW S, NEW s \in Seq(S)
    PROVE  /\ \A x : Listed(s, x) => x \in S
           /\ s # <<>> => Listed(s, Head(s))
           /\ (\A x \in S : ~Listed(s, x)) => s = <<>>
<1>1. \A x : Listed(s, x) => x \in S
  BY DEF Listed
<1>2. s # <<>> => Listed(s, Head(s)) /\ Head(s) \in S
  BY TailLists
<1> QED
  BY <1>1, <1>2

-------------------------------------------------------------------------------
(* SumOf is well defined: sums of ever larger subsets make a table.        *)

AnyOf(s) == CHOOSE x \in s : TRUE

\* g has the sum of f over every subset of S.
IsSumTable(f, S, g) ==
    g = [s \in SUBSET S |-> IF s = {} THEN 0 ELSE f[AnyOf(s)] + g[s \ {AnyOf(s)}]]

TableOf(f, S) == CHOOSE g : IsSumTable(f, S, g)

LEMMA SumIsTable == \A f, S : SumOf(f, S) = TableOf(f, S)[S]
BY DEF SumOf, MapThenSumSet, MapThenFoldSet, TableOf, IsSumTable, AnyOf

\* A set of finite sets that has a member has a least one.
LEMMA LeastSubset ==
    ASSUME NEW S, IsFiniteSet(S), NEW T \in SUBSET SUBSET S, T # {}
    PROVE  \E s \in T : \A t \in T : ~(t \subseteq s /\ t # s)
<1>1. IsWellFoundedOn(StrictSubsetOrdering(S), SUBSET S)
  BY FS_StrictSubsetOrderingWellFounded, FS_FiniteSubsetsOfFinite
<1>2. PICK s \in T : \A t \in T : <<t, s>> \notin StrictSubsetOrdering(S)
  BY <1>1, WFMin
<1>3. \A t \in T : <<t, s>> \in (SUBSET S) \X (SUBSET S)
  OBVIOUS
<1> QED
  BY <1>2, <1>3 DEF StrictSubsetOrdering

LEMMA TablesAgree ==
    ASSUME NEW f, NEW S, NEW T, NEW g, NEW h, NEW U, IsFiniteSet(U),
           U \subseteq S, U \subseteq T, IsSumTable(f, S, g), IsSumTable(f, T, h)
    PROVE  g[U] = h[U]
<1> DEFINE Differ == {s \in SUBSET U : g[s] # h[s]}
<1>1. SUFFICES ASSUME Differ # {} PROVE FALSE
  OBVIOUS
<1>2. PICK s \in Differ : \A t \in Differ : ~(t \subseteq s /\ t # s)
  <2>1. Differ \in SUBSET SUBSET U
    OBVIOUS
  <2> HIDE DEF Differ
  <2> QED
    BY <2>1, <1>1, LeastSubset
<1>3. s \in SUBSET S /\ s \in SUBSET T
  OBVIOUS
<1>4. /\ g[s] = IF s = {} THEN 0 ELSE f[AnyOf(s)] + g[s \ {AnyOf(s)}]
      /\ h[s] = IF s = {} THEN 0 ELSE f[AnyOf(s)] + h[s \ {AnyOf(s)}]
  BY <1>3 DEF IsSumTable
<1>5. s # {}
  BY <1>4
<1>6. AnyOf(s) \in s
  BY <1>5 DEF AnyOf
<1>7. g[s \ {AnyOf(s)}] = h[s \ {AnyOf(s)}]
  BY <1>2, <1>6
<1> QED
  BY <1>4, <1>5, <1>7

LEMMA TableExists ==
    ASSUME NEW f, NEW S, IsFiniteSet(S)
    PROVE  IsSumTable(f, S, TableOf(f, S))
<1> DEFINE Without == {s \in SUBSET S : ~ \E g : IsSumTable(f, s, g)}
<1>1. SUFFICES Without = {}
  BY DEF TableOf
<1>2. SUFFICES ASSUME Without # {} PROVE FALSE
  OBVIOUS
<1>3. PICK s \in Without : \A t \in Without : ~(t \subseteq s /\ t # s)
  <2>1. Without \in SUBSET SUBSET S
    OBVIOUS
  <2> HIDE DEF Without
  <2> QED
    BY <2>1, <1>2, LeastSubset
<1>4. \A t \in SUBSET s : t # s => IsSumTable(f, t, TableOf(f, t))
  BY <1>3 DEF TableOf
<1> DEFINE val(t) == TableOf(f, t)[t]
           g == [t \in SUBSET s |->
                   IF t = {} THEN 0
                   ELSE f[AnyOf(t)] + val(t \ {AnyOf(t)})]
<1>5. \A t \in SUBSET s : t # {} => /\ AnyOf(t) \in t
                                     /\ t \ {AnyOf(t)} \in SUBSET s
                                     /\ t \ {AnyOf(t)} # s
                                     /\ t \ {AnyOf(t)} # t
  BY DEF AnyOf
<1>6. ASSUME NEW t \in SUBSET s, t # s PROVE g[t] = val(t)
  <2>1. TableOf(f, t)[t] = IF t = {} THEN 0 ELSE f[AnyOf(t)] + TableOf(f, t)[t \ {AnyOf(t)}]
    BY <1>4, <1>6 DEF IsSumTable
  <2>2. CASE t = {}
    BY <2>1, <2>2
  <2>3. CASE t # {}
    <3> DEFINE u == t \ {AnyOf(t)}
    <3>1. u \in SUBSET s /\ u # s /\ u \subseteq t
      BY <1>5, <2>3
    <3>2. IsFiniteSet(u)
      BY <3>1, FS_Subset
    <3>3. TableOf(f, t)[u] = TableOf(f, u)[u]
      <4> HIDE DEF u
      <4> QED
        BY <1>4, <1>6, <3>1, <3>2, TablesAgree
    <3> QED
      BY <2>1, <2>3, <3>3
  <2> QED
    BY <2>2, <2>3
<1>7. IsSumTable(f, s, g)
  <2>1. \A t \in SUBSET s : t # {} => g[t \ {AnyOf(t)}] = val(t \ {AnyOf(t)})
    BY <1>5, <1>6
  <2> HIDE DEF val
  <2>2. g = [t \in SUBSET s |-> IF t = {} THEN 0 ELSE f[AnyOf(t)] + g[t \ {AnyOf(t)}]]
    BY <2>1
  <2> QED
    BY <2>2 DEF IsSumTable
<1> QED
  BY <1>3, <1>7

-------------------------------------------------------------------------------
(* What SumOf is. *)

LEMMA SumStep ==
    ASSUME NEW f, NEW S, IsFiniteSet(S)
    PROVE  SumOf(f, S) = IF S = {} THEN 0 ELSE f[AnyOf(S)] + SumOf(f, S \ {AnyOf(S)})
<1>1. TableOf(f, S)[S] = IF S = {} THEN 0 ELSE f[AnyOf(S)] + TableOf(f, S)[S \ {AnyOf(S)}]
  <2>1. IsSumTable(f, S, TableOf(f, S))
    BY TableExists
  <2> QED
    BY <2>1 DEF IsSumTable
<1>2. CASE S = {}
  BY <1>1, <1>2, SumIsTable
<1>3. CASE S # {}
  <2> DEFINE U == S \ {AnyOf(S)}
  <2>1. U \subseteq S /\ IsFiniteSet(U)
    BY FS_Subset
  <2>2. IsSumTable(f, S, TableOf(f, S)) /\ IsSumTable(f, U, TableOf(f, U))
    BY <2>1, TableExists
  <2>3. TableOf(f, S)[U] = TableOf(f, U)[U]
    <3> HIDE DEF U
    <3> QED
      BY <2>1, <2>2, TablesAgree
  <2> QED
    BY <1>1, <1>3, <2>3, SumIsTable
<1> QED
  BY <1>2, <1>3

LEMMA SumEmpty == \A f : SumOf(f, {}) = 0
BY SumStep, FS_EmptySet

LEMMA SumType ==
    ASSUME NEW D, NEW f \in [D -> Int], NEW S \in SUBSET D, IsFiniteSet(S)
    PROVE  SumOf(f, S) \in Int
<1> DEFINE Wrong == {s \in SUBSET S : SumOf(f, s) \notin Int}
<1>1. SUFFICES ASSUME Wrong # {} PROVE FALSE
  OBVIOUS
<1>2. PICK s \in Wrong : \A t \in Wrong : ~(t \subseteq s /\ t # s)
  <2>1. Wrong \in SUBSET SUBSET S
    OBVIOUS
  <2> HIDE DEF Wrong
  <2> QED
    BY <2>1, <1>1, LeastSubset
<1>3. SumOf(f, s) = IF s = {} THEN 0 ELSE f[AnyOf(s)] + SumOf(f, s \ {AnyOf(s)})
  BY FS_Subset, SumStep
<1>4. s # {}
  BY <1>3
<1>5. AnyOf(s) \in s /\ f[AnyOf(s)] \in Int
  BY <1>4 DEF AnyOf
<1>6. SumOf(f, s \ {AnyOf(s)}) \in Int
  BY <1>2, <1>5
<1> QED
  BY <1>3, <1>4, <1>5, <1>6

LEMMA SumRemove ==
    ASSUME NEW D, NEW f \in [D -> Int], NEW S \in SUBSET D, IsFiniteSet(S), NEW x \in S
    PROVE  SumOf(f, S) = f[x] + SumOf(f, S \ {x})
<1> DEFINE Wrong == {s \in SUBSET S : \E y \in s : SumOf(f, s) # f[y] + SumOf(f, s \ {y})}
<1>1. SUFFICES ASSUME Wrong # {} PROVE FALSE
  OBVIOUS
<1>2. PICK s \in Wrong : \A t \in Wrong : ~(t \subseteq s /\ t # s)
  <2>1. Wrong \in SUBSET SUBSET S
    OBVIOUS
  <2> HIDE DEF Wrong
  <2> QED
    BY <2>1, <1>1, LeastSubset
<1>3. PICK y \in s : SumOf(f, s) # f[y] + SumOf(f, s \ {y})
  OBVIOUS
<1> DEFINE z == AnyOf(s)
<1>4. z \in s
  BY DEF AnyOf
<1>5. SumOf(f, s) = f[z] + SumOf(f, s \ {z})
  BY <1>3, FS_Subset, SumStep
<1>6. z # y
  BY <1>3, <1>5
<1> HIDE DEF z
<1>7. SumOf(f, s \ {z}) = f[y] + SumOf(f, (s \ {z}) \ {y})
  <2>1. s \ {z} \in SUBSET S /\ s \ {z} \subseteq s /\ s \ {z} # s /\ y \in s \ {z}
    BY <1>4, <1>6
  <2> QED
    BY <1>2, <2>1
<1>8. (s \ {y}) \ {z} = (s \ {z}) \ {y}
  OBVIOUS
<1>9. SumOf(f, s \ {y}) = f[z] + SumOf(f, (s \ {z}) \ {y})
  <2>1. s \ {y} \in SUBSET S /\ s \ {y} \subseteq s /\ s \ {y} # s /\ z \in s \ {y}
    BY <1>4, <1>6
  <2> QED
    BY <1>2, <2>1, <1>8
<1>10. f[y] \in Int /\ f[z] \in Int /\ SumOf(f, (s \ {z}) \ {y}) \in Int
  <2>1. (s \ {z}) \ {y} \in SUBSET S
    OBVIOUS
  <2>2. IsFiniteSet((s \ {z}) \ {y})
    BY <2>1, FS_Subset
  <2> QED
    BY <1>4, <2>1, <2>2, SumType
<1> HIDE DEF Wrong
<1> QED
  BY ONLY <1>3, <1>5, <1>7, <1>9, <1>10

LEMMA SumAdd ==
    ASSUME NEW D, NEW f \in [D -> Int], NEW S \in SUBSET D, IsFiniteSet(S), NEW x \in D, x \notin S
    PROVE  SumOf(f, S \cup {x}) = SumOf(f, S) + f[x]
<1>1. S \cup {x} \in SUBSET D /\ (S \cup {x}) \ {x} = S
  OBVIOUS
<1>2. IsFiniteSet(S \cup {x})
  BY FS_AddElement
<1>3. SumOf(f, S \cup {x}) = f[x] + SumOf(f, S)
  BY <1>1, <1>2, SumRemove
<1>4. SumOf(f, S) \in Int /\ f[x] \in Int
  BY SumType
<1> QED
  BY <1>3, <1>4

LEMMA SumAgree ==
    ASSUME NEW f, NEW g, NEW S, IsFiniteSet(S), \A x \in S : f[x] = g[x]
    PROVE  SumOf(f, S) = SumOf(g, S)
<1> DEFINE Wrong == {s \in SUBSET S : SumOf(f, s) # SumOf(g, s)}
<1>1. SUFFICES ASSUME Wrong # {} PROVE FALSE
  OBVIOUS
<1>2. PICK s \in Wrong : \A t \in Wrong : ~(t \subseteq s /\ t # s)
  <2>1. Wrong \in SUBSET SUBSET S
    OBVIOUS
  <2> HIDE DEF Wrong
  <2> QED
    BY <2>1, <1>1, LeastSubset
<1>3. /\ SumOf(f, s) = IF s = {} THEN 0 ELSE f[AnyOf(s)] + SumOf(f, s \ {AnyOf(s)})
      /\ SumOf(g, s) = IF s = {} THEN 0 ELSE g[AnyOf(s)] + SumOf(g, s \ {AnyOf(s)})
  BY FS_Subset, SumStep
<1>4. s # {}
  BY <1>3
<1>5. AnyOf(s) \in s
  BY <1>4 DEF AnyOf
<1>6. SumOf(f, s \ {AnyOf(s)}) = SumOf(g, s \ {AnyOf(s)})
  BY <1>2, <1>5
<1> QED
  BY <1>3, <1>4, <1>5, <1>6

LEMMA SumChange ==
    ASSUME NEW D, NEW f \in [D -> Int], NEW S \in SUBSET D, IsFiniteSet(S),
           NEW x \in S, NEW n \in Int
    PROVE  SumOf([f EXCEPT ![x] = n], S) = SumOf(f, S) + n - f[x]
<1> DEFINE g == [f EXCEPT ![x] = n]
<1>1. g \in [D -> Int] /\ g[x] = n /\ \A y \in S \ {x} : g[y] = f[y]
  OBVIOUS
<1>2. IsFiniteSet(S \ {x})
  BY FS_Subset
<1>3. SumOf(f, S) = f[x] + SumOf(f, S \ {x})
  BY SumRemove
<1> HIDE DEF g
<1>4. SumOf(g, S) = n + SumOf(g, S \ {x})
  BY <1>1, SumRemove
<1>5. SumOf(g, S \ {x}) = SumOf(f, S \ {x})
  BY <1>1, <1>2, SumAgree
<1>6. SumOf(f, S \ {x}) \in Int /\ f[x] \in Int
  BY <1>2, SumType
<1> QED
  BY <1>3, <1>4, <1>5, <1>6 DEF g

-------------------------------------------------------------------------------
(* A set as a list, and lists put behind each other.                       *)

LEMMA LeastNumber ==
    ASSUME NEW T \in SUBSET Nat, T # {}
    PROVE  \E n \in T : \A m \in T : ~(m < n)
<1>1. PICK m \in T : TRUE
  OBVIOUS
<1> DEFINE W == 1..m
           U == {1..k : k \in {l \in T : l <= m}}
<1>2. U \in SUBSET SUBSET W /\ U # {} /\ IsFiniteSet(W)
  <2>1. \A k \in {l \in T : l <= m} : 1..k \in SUBSET (1..m)
    BY <1>1
  <2>2. m \in {l \in T : l <= m}
    BY <1>1
  <2>3. IsFiniteSet(1..m)
    BY <1>1, FS_Interval
  <2> QED
    BY <2>1, <2>2, <2>3
<1>3. PICK s \in U : \A t \in U : ~(t \subseteq s /\ t # s)
  <2> HIDE DEF U, W
  <2> QED
    BY <1>2, LeastSubset
<1>4. PICK n \in T : n <= m /\ s = 1..n
  OBVIOUS
<1>5. ASSUME NEW k \in T, k < n PROVE FALSE
  <2>1. 1..k \in U
    BY <1>4, <1>5
  <2>2. 1..k \subseteq 1..n /\ n \in 1..n /\ n \notin 1..k
    BY <1>5
  <2> QED
    BY <1>3, <1>4, <2>1, <2>2
<1> QED
  BY <1>5

LEMMA SetAsList ==
    ASSUME NEW S, IsFiniteSet(S)
    PROVE  /\ SetToSeq(S) \in Seq(S)
           /\ Len(SetToSeq(S)) = Cardinality(S)
           /\ Distinct(SetToSeq(S))
           /\ \A x : Listed(SetToSeq(S), x) <=> x \in S
<1> DEFINE n == Cardinality(S)
           D == 1..n
<1>1. n \in Nat /\ ExistsBijection(D, S)
  BY FS_CardinalityType
<1>2. PICK g : g \in Bijection(D, S)
  BY <1>1 DEF ExistsBijection
<1>3. g \in [D -> S] /\ IsInjective(g)
  BY <1>2 DEF Bijection, Injection
<1> DEFINE f == SetToSeq(S)
<1>4. f \in [D -> S] /\ IsInjective(f)
  BY <1>3 DEF SetToSeq
<1> HIDE DEF f
<1>5. f \in Injection(D, S)
  BY <1>4 DEF Injection
<1>6. Cardinality(D) = n
  BY <1>1, FS_Interval
<1>7. f \in Surjection(D, S)
  BY <1>5, <1>6, FS_Injection
<1>8. \A x \in S : \E i \in D : f[i] = x
  BY <1>7 DEF Surjection
<1>9. f \in Seq(S) /\ Len(f) = n
  BY <1>1, <1>4
<1> QED
  BY <1>1, <1>4, <1>8, <1>9 DEF f, Distinct, Listed, IsInjective

-------------------------------------------------------------------------------
(* FlattenSeq, whose table of prefixes exists and has what it should.      *)

IsPrefixTable(q, n, g) == g = [i \in 1..n |-> IF i = 1 THEN q[i] ELSE g[i-1] \o q[i]]
PrefixTable(q, n) == CHOOSE g : IsPrefixTable(q, n, g)

LEMMA FlattenIsTable ==
    \A q : FlattenSeq(q) = IF Len(q) = 0 THEN q ELSE PrefixTable(q, Len(q))[Len(q)]
BY DEF FlattenSeq, PrefixTable, IsPrefixTable

LEMMA PrefixTableExists ==
    ASSUME NEW q, NEW n \in Nat
    PROVE  IsPrefixTable(q, n, PrefixTable(q, n))
<1> DEFINE Without == {k \in Nat : ~ \E g : IsPrefixTable(q, k, g)}
<1>1. SUFFICES Without = {}
  BY DEF PrefixTable
<1>2. SUFFICES ASSUME Without # {} PROVE FALSE
  OBVIOUS
<1>3. PICK k \in Without : \A m \in Without : ~(m < k)
  BY <1>2, LeastNumber
<1>4. CASE k = 0
  <2>1. IsPrefixTable(q, 0, [i \in 1..0 |-> q[i]])
    BY DEF IsPrefixTable
  <2> QED
    BY <1>3, <1>4, <2>1
<1>5. CASE k # 0
  <2>1. k - 1 \in Nat /\ k - 1 < k
    BY <1>5
  <2>2. PICK h : IsPrefixTable(q, k - 1, h)
    BY <1>3, <2>1
  <2> DEFINE g == [i \in 1..k |-> IF i < k THEN h[i] ELSE IF i = 1 THEN q[i] ELSE h[i-1] \o q[i]]
  <2>3. \A i \in 1..k-1 : h[i] = IF i = 1 THEN q[i] ELSE h[i-1] \o q[i]
    BY <2>2 DEF IsPrefixTable
  <2>4. \A i \in 1..k : i # 1 => i - 1 \in 1..k-1 /\ g[i-1] = h[i-1]
    OBVIOUS
  <2>5. \A i \in 1..k : g[i] = IF i = 1 THEN q[i] ELSE g[i-1] \o q[i]
    BY <2>3, <2>4
  <2>6. g = [i \in 1..k |-> IF i = 1 THEN q[i] ELSE g[i-1] \o q[i]]
    BY <2>5
  <2>7. IsPrefixTable(q, k, g)
    BY <2>6 DEF IsPrefixTable
  <2> QED
    BY <1>3, <2>7
<1> QED
  BY ONLY <1>4, <1>5

\* f is the lists q[1] .. q[n], each of them in one piece.
MadeOf(f, q, n) ==
    /\ \A i \in 1..n : \A d \in 1..Len(q[i]) : Listed(f, q[i][d])
    /\ \A k \in 1..Len(f) : \E i \in 1..n : \E j \in 1..Len(q[i]) :
          \A d \in 1..Len(q[i]) : k - j + d \in 1..Len(f) /\ f[k - j + d] = q[i][d]

LEMMA FlattenMadeOf ==
    ASSUME NEW S, NEW q \in Seq(Seq(S))
    PROVE  FlattenSeq(q) \in Seq(S) /\ MadeOf(FlattenSeq(q), q, Len(q))
<1> DEFINE n == Len(q)
           g == PrefixTable(q, n)
<1>0. n \in Nat /\ \A i \in 1..n : q[i] \in Seq(S)
  OBVIOUS
<1>1. CASE n = 0
  <2>1. FlattenSeq(q) = q /\ q = <<>>
    BY <1>1, FlattenIsTable, EmptySeq
  <2> QED
    BY <2>1 DEF MadeOf
<1>2. CASE n # 0
  <2>1. \A i \in 1..n : g[i] = IF i = 1 THEN q[i] ELSE g[i-1] \o q[i]
    <3>1. IsPrefixTable(q, n, g)
      BY <1>0, PrefixTableExists
    <3> HIDE DEF g, n
    <3> QED
      BY <3>1 DEF IsPrefixTable
  <2>2. FlattenSeq(q) = g[n]
    BY <1>2, FlattenIsTable
  <2> HIDE DEF g
  <2> DEFINE Wrong == {i \in 1..n : ~(g[i] \in Seq(S) /\ MadeOf(g[i], q, i))}
  <2>0. n \in 1..n
    BY <1>0, <1>2
  <2>3. SUFFICES ASSUME Wrong # {} PROVE FALSE
    BY <2>2, <2>0
  <2>4. PICK i \in Wrong : \A m \in Wrong : ~(m < i)
    <3>1. Wrong \in SUBSET Nat
      OBVIOUS
    <3> HIDE DEF Wrong
    <3> QED
      BY <3>1, <2>3, LeastNumber
  <2>5. i \in 1..n /\ q[i] \in Seq(S)
    BY <1>0
  <2>6. CASE i = 1
    <3>1. g[i] = q[i]
      BY <2>1, <2>5, <2>6
    <3>2. MadeOf(q[1], q, 1)
      <4>1. \A d \in 1..Len(q[1]) : Listed(q[1], q[1][d])
        BY DEF Listed
      <4>2. Len(q[1]) \in Nat
        BY <2>5, <2>6
      <4>3. ASSUME NEW k \in 1..Len(q[1])
            PROVE  \A d \in 1..Len(q[1]) : k - k + d \in 1..Len(q[1]) /\ q[1][k - k + d] = q[1][d]
        BY <4>2
      <4> QED
        BY <4>1, <4>3 DEF MadeOf
    <3> QED
      BY <2>4, <2>5, <2>6, <3>1, <3>2
  <2>7. CASE i # 1
    <3> DEFINE h == g[i-1]
               t == q[i]
    <3>1. i - 1 \in 1..n /\ i - 1 < i
      BY <1>0, <2>5, <2>7
    <3>2. h \in Seq(S) /\ MadeOf(h, q, i - 1)
      BY <2>4, <3>1
    <3>3. g[i] = h \o t
      BY <2>1, <2>5, <2>7
    <3>4. t \in Seq(S)
      BY <2>5
    <3> HIDE DEF h, t
    <3>5. /\ h \o t \in Seq(S)
          /\ Len(h \o t) = Len(h) + Len(t)
          /\ \A k \in 1..Len(h) : (h \o t)[k] = h[k]
          /\ \A j \in 1..Len(t) : (h \o t)[Len(h) + j] = t[j]
          /\ \A k \in 1..Len(h \o t) :
                \/ k \in 1..Len(h)
                \/ k - Len(h) \in 1..Len(t) /\ (h \o t)[k] = t[k - Len(h)]
          /\ \A x : Listed(h \o t, x) <=> Listed(h, x) \/ Listed(t, x)
      BY <3>2, <3>4, ConcatLists
    <3> DEFINE u == h \o t
    <3> HIDE DEF u
    <3>6. Len(h) \in Nat /\ Len(t) \in Nat
      BY <3>2, <3>4
    <3>7. \A m \in 1..i : \A d \in 1..Len(q[m]) : Listed(u, q[m][d])
      <4>1. \A m \in 1..i-1 : \A d \in 1..Len(q[m]) : Listed(u, q[m][d])
        BY <3>2, <3>5 DEF u, MadeOf
      <4>2. \A d \in 1..Len(t) : Listed(u, t[d])
        <5>1. \A d \in 1..Len(t) : Listed(t, t[d])
          BY DEF Listed
        <5> QED
          BY <3>5, <5>1 DEF u
      <4> QED
        BY <2>5, <4>1, <4>2 DEF t
    <3>8. ASSUME NEW k \in 1..Len(u)
          PROVE  \E m \in 1..i : \E j \in 1..Len(q[m]) :
                    \A d \in 1..Len(q[m]) : k - j + d \in 1..Len(u) /\ u[k - j + d] = q[m][d]
      <4>1. CASE k \in 1..Len(h)
        <5>1. PICK m \in 1..i-1 : \E j \in 1..Len(q[m]) :
                 \A d \in 1..Len(q[m]) : k - j + d \in 1..Len(h) /\ h[k - j + d] = q[m][d]
          BY <3>2, <4>1 DEF MadeOf
        <5>9. PICK j \in 1..Len(q[m]) :
                 \A d \in 1..Len(q[m]) : k - j + d \in 1..Len(h) /\ h[k - j + d] = q[m][d]
          BY <5>1
        <5>2. \A l \in 1..Len(h) : l \in 1..Len(u) /\ u[l] = h[l]
          BY <3>5, <3>6 DEF u
        <5>3. \A d \in 1..Len(q[m]) : k - j + d \in 1..Len(u) /\ u[k - j + d] = q[m][d]
          BY <5>9, <5>2
        <5>4. m \in 1..i
          BY <2>5
        <5> QED
          BY <5>3, <5>4
      <4>2. CASE k \notin 1..Len(h)
        <5> DEFINE j == k - Len(h)
        <5>1. j \in 1..Len(t)
          BY <3>5, <4>2 DEF u
        <5>2. \A d \in 1..Len(t) : k - j + d = Len(h) + d
          BY <3>5, <3>6 DEF u
        <5>3. \A d \in 1..Len(t) : Len(h) + d \in 1..Len(u) /\ u[Len(h) + d] = t[d]
          BY <3>5, <3>6 DEF u
        <5> HIDE DEF j
        <5>4. \A d \in 1..Len(t) : k - j + d \in 1..Len(u) /\ u[k - j + d] = t[d]
          BY <5>2, <5>3
        <5>5. i \in 1..i
          BY <2>5
        <5> QED
          BY <5>1, <5>4, <5>5 DEF t
      <4> QED
        BY <4>1, <4>2
    <3>9. u \in Seq(S) /\ MadeOf(u, q, i)
      BY <3>5, <3>7, <3>8 DEF MadeOf, u
    <3> QED
      BY <2>4, <2>5, <3>3, <3>9 DEF u
  <2> QED
    BY <2>6, <2>7
<1> QED
  BY <1>1, <1>2

\* What is listed in a flattened list.
LEMMA FlattenLists ==
    ASSUME NEW S, NEW q \in Seq(Seq(S))
    PROVE  /\ FlattenSeq(q) \in Seq(S)
           /\ \A x : Listed(FlattenSeq(q), x) <=> \E i \in 1..Len(q) : Listed(q[i], x)
<1> DEFINE f == FlattenSeq(q)
<1>1. f \in Seq(S) /\ MadeOf(f, q, Len(q))
  BY FlattenMadeOf
<1> HIDE DEF f
<1>2. Len(f) \in Nat /\ Len(q) \in Nat /\ \A i \in 1..Len(q) : q[i] \in Seq(S) /\ Len(q[i]) \in Nat
  BY <1>1
<1>3. ASSUME NEW x, NEW i \in 1..Len(q), Listed(q[i], x) PROVE Listed(f, x)
  BY <1>1, <1>3 DEF MadeOf, Listed
<1>4. ASSUME NEW x, Listed(f, x) PROVE \E i \in 1..Len(q) : Listed(q[i], x)
  <2>1. PICK k \in 1..Len(f) : f[k] = x
    BY <1>4 DEF Listed
  <2>2. PICK i \in 1..Len(q) : \E j \in 1..Len(q[i]) :
           \A d \in 1..Len(q[i]) : k - j + d \in 1..Len(f) /\ f[k - j + d] = q[i][d]
    BY <1>1 DEF MadeOf
  <2>5. PICK j \in 1..Len(q[i]) :
           \A d \in 1..Len(q[i]) : k - j + d \in 1..Len(f) /\ f[k - j + d] = q[i][d]
    BY <2>2
  <2>3. k - j + j = k
    BY <1>2
  <2>4. q[i][j] = x
    BY <2>1, <2>5, <2>3
  <2> QED
    BY <2>4 DEF Listed
<1> QED
  BY <1>1, <1>3, <1>4 DEF f

\* The lists F[x] of the members x of a set, in some order of the members.
LEMMA RoundLists ==
    ASSUME NEW S, IsFiniteSet(S), NEW T, NEW F \in [S -> Seq(T)], NEW q,
           q = [i \in 1..Len(SetToSeq(S)) |-> F[SetToSeq(S)[i]]]
    PROVE  /\ q \in Seq(Seq(T))
           /\ \A i \in 1..Len(q) : \E x \in S : q[i] = F[x]
           /\ FlattenSeq(q) \in Seq(T)
           /\ \A y : Listed(FlattenSeq(q), y) <=> \E x \in S : Listed(F[x], y)
<1> DEFINE l == SetToSeq(S)
<1>1. l \in Seq(S) /\ \A x : Listed(l, x) <=> x \in S
  BY SetAsList
<1>2. q = [i \in 1..Len(l) |-> F[l[i]]]
  OBVIOUS
<1> HIDE DEF l
<1>3. Len(l) \in Nat /\ \A i \in 1..Len(l) : l[i] \in S
  BY <1>1
<1>9. \A i \in 1..Len(l) : q[i] = F[l[i]] /\ q[i] \in Seq(T)
  BY <1>2, <1>3
<1>4. q \in Seq(Seq(T)) /\ Len(q) = Len(l)
  BY <1>2, <1>3, <1>9
<1>5. \A i \in 1..Len(q) : \E x \in S : q[i] = F[x]
  <2> SUFFICES ASSUME NEW i \in 1..Len(q) PROVE \E x \in S : q[i] = F[x]
    OBVIOUS
  <2>1. l[i] \in S /\ q[i] = F[l[i]]
    BY <1>3, <1>4, <1>9
  <2> QED
    BY <2>1
<1>6. \A x \in S : \E i \in 1..Len(q) : q[i] = F[x]
  <2> SUFFICES ASSUME NEW x \in S PROVE \E i \in 1..Len(q) : q[i] = F[x]
    OBVIOUS
  <2>1. PICK i \in 1..Len(l) : l[i] = x
    BY <1>1 DEF Listed
  <2>2. i \in 1..Len(q) /\ q[i] = F[l[i]]
    BY <1>4, <1>9
  <2> QED
    BY <2>1, <2>2
<1>10. q \in Seq(Seq(T))
  BY <1>4
<1>7. /\ FlattenSeq(q) \in Seq(T)
      /\ \A y : Listed(FlattenSeq(q), y) <=> \E i \in 1..Len(q) : Listed(q[i], y)
  BY <1>10, FlattenLists
<1>8. ASSUME NEW y
      PROVE  Listed(FlattenSeq(q), y) <=> \E x \in S : Listed(F[x], y)
  <2>1. ASSUME Listed(FlattenSeq(q), y) PROVE \E x \in S : Listed(F[x], y)
    <3>1. PICK i \in 1..Len(q) : Listed(q[i], y)
      BY <1>7, <2>1
    <3> QED
      BY <1>5, <3>1
  <2>2. ASSUME NEW x \in S, Listed(F[x], y) PROVE Listed(FlattenSeq(q), y)
    <3>1. PICK i \in 1..Len(q) : q[i] = F[x]
      BY <1>6
    <3> QED
      BY <1>7, <2>2, <3>1
  <2> QED
    BY <2>1, <2>2
<1> QED
  BY <1>4, <1>5, <1>7, <1>8

-------------------------------------------------------------------------------
(* Folds: FoldLeft takes the results of the sets 1..k one after the other. *)

LEMMA MaxIs ==
    ASSUME NEW n \in Nat, NEW s \in SUBSET (1..n), s # {}
    PROVE  Max(s) \in s /\ \A k \in s : k <= Max(s)
<1> DEFINE U == {m \in Nat : \A k \in s : k <= m}
<1>1. n \in U
  OBVIOUS
<1>2. PICK m \in U : \A j \in U : ~(j < m)
  <2>1. U \in SUBSET Nat /\ U # {}
    BY <1>1
  <2> HIDE DEF U
  <2> QED
    BY <2>1, LeastNumber
<1>3. m \in s
  <2> SUFFICES ASSUME m \notin s PROVE FALSE
    OBVIOUS
  <2>1. PICK k \in s : k <= m /\ k \in Nat /\ k # 0
    <3>1. \A k \in s : k <= m /\ k \in Nat /\ k # 0
      BY <1>2
    <3> QED
      BY <3>1
  <2>2. m \in Nat /\ m # 0 /\ m - 1 \in Nat
    BY <1>2, <2>1
  <2>3. \A j \in s : j \in Nat /\ j <= m /\ j # m
    BY <1>2
  <2>4. m - 1 \in U
    BY <2>2, <2>3
  <2> QED
    BY <1>2, <2>2, <2>4
<1>4. \A k \in s : k <= m
  BY <1>2
<1>5. Max(s) \in s /\ \A k \in s : Max(s) >= k
  BY <1>3, <1>4 DEF Max
<1> QED
  BY <1>5

\* g has the results of the steps of every subset of 1..n, taken in order.
IsFold(g, R, b, n, st) ==
    /\ g \in [SUBSET (1..n) -> R]
    /\ \A s \in SUBSET (1..n) : g[s] = IF s = {} THEN b ELSE st[Max(s)][g[s \ {Max(s)}]]

LEMMA FoldTableExists ==
    ASSUME NEW R, NEW b \in R, NEW n \in Nat, NEW st \in [1..n -> [R -> R]]
    PROVE  \E g : IsFold(g, R, b, n, st)
<1> DEFINE Fits(m, g) ==
              /\ g \in [SUBSET (1..m) -> R]
              /\ \A s \in SUBSET (1..m) : g[s] = IF s = {} THEN b ELSE st[Max(s)][g[s \ {Max(s)}]]
           Bad == {m \in 0..n : ~ \E g : Fits(m, g)}
<1>1. SUFFICES ASSUME Bad # {} PROVE FALSE
  <2>1. n \in 0..n
    OBVIOUS
  <2>2. n \notin Bad => \E g : Fits(n, g)
    BY <2>1
  <2>3. (\E g : Fits(n, g)) => \E g : IsFold(g, R, b, n, st)
    BY DEF IsFold
  <2> HIDE DEF Bad, Fits
  <2> QED
    BY <2>2, <2>3
<1>2. PICK m \in Bad : \A j \in Bad : ~(j < m)
  <2>1. Bad \in SUBSET Nat
    OBVIOUS
  <2> HIDE DEF Bad
  <2> QED
    BY <1>1, <2>1, LeastNumber
<1>3. m # 0
  <2> SUFFICES ASSUME m = 0 PROVE FALSE
    OBVIOUS
  <2>1. 1..m = {}
    OBVIOUS
  <2>2. Fits(m, [s \in SUBSET (1..m) |-> b])
    BY <2>1
  <2> HIDE DEF Fits
  <2> QED
    BY <1>2, <2>2
<1>4. m \in 0..n /\ m \in Nat /\ m - 1 \in 0..n /\ m - 1 \notin Bad
  <2>1. m \in 0..n /\ m \in Nat
    BY <1>2
  <2>2. m - 1 \in 0..n /\ m - 1 < m
    BY <1>3, <2>1
  <2> HIDE DEF Bad
  <2> QED
    BY <1>2, <2>1, <2>2
<1>5. PICK g : Fits(m - 1, g)
  <2> HIDE DEF Fits
  <2> QED
    BY <1>4
<1> DEFINE D == 1..(m-1)
           h == [s \in SUBSET (1..m) |-> IF s \in SUBSET D THEN g[s] ELSE st[m][g[s \ {m}]]]
<1>6. /\ D \subseteq 1..m /\ m \notin D /\ m \in 1..n
      /\ \A s \in SUBSET (1..m) : s \in SUBSET D \/ (m \in s /\ s # {} /\ s \ {m} \in SUBSET D)
  BY <1>4, <1>3
<1>7. h \in [SUBSET (1..m) -> R]
  BY <1>5, <1>6
<1>8. ASSUME NEW s \in SUBSET (1..m)
      PROVE  h[s] = IF s = {} THEN b ELSE st[Max(s)][h[s \ {Max(s)}]]
  <2>1. CASE s \in SUBSET D
    <3>1. s # {} => s \ {Max(s)} \in SUBSET D
      BY <2>1
    <3> QED
      BY <1>5, <1>6, <2>1, <3>1
  <2>2. CASE s \notin SUBSET D
    <3> HIDE DEF Bad, Fits
    <3>1. m \in s /\ s # {} /\ s \ {m} \in SUBSET D
      BY <1>6, <2>2
    <3>2. Max(s) \in s /\ \A k \in s : k <= Max(s)
      BY <1>4, <3>1, MaxIs
    <3>3. Max(s) = m
      <4>1. m <= Max(s) /\ Max(s) \in 1..m
        BY <3>1, <3>2
      <4> QED
        BY <1>4, <4>1
    <3> QED
      BY <1>6, <2>2, <3>1, <3>3
  <2> QED
    BY <2>1, <2>2
<1>9. Fits(m, h)
  BY <1>7, <1>8
<1> HIDE DEF Fits
<1> QED
  BY <1>2, <1>9

\* What holds at first and is kept by every step holds of the result.
LEMMA FoldStays ==
    ASSUME NEW R, NEW n \in Nat, NEW g, g[{}] \in R,
           \A s \in SUBSET (1..n) : s # {} /\ g[s \ {Max(s)}] \in R => g[s] \in R
    PROVE  g[1..n] \in R
<1> DEFINE Bad == {m \in 0..n : g[1..m] \notin R}
<1>1. SUFFICES ASSUME Bad # {} PROVE FALSE
  OBVIOUS
<1>2. PICK m \in Bad : \A j \in Bad : ~(j < m)
  <2>1. Bad \in SUBSET Nat
    OBVIOUS
  <2> HIDE DEF Bad
  <2> QED
    BY <1>1, <2>1, LeastNumber
<1>3. m # 0
  <2>1. 1..0 = {}
    OBVIOUS
  <2> QED
    BY <1>2, <2>1
<1>4. m \in 1..n /\ m \in Nat /\ m - 1 \in 0..n /\ m - 1 \notin Bad
  <2>1. m \in 0..n /\ m \in Nat
    BY <1>2
  <2>2. m - 1 \in 0..n /\ m - 1 < m
    BY <1>3, <2>1
  <2> HIDE DEF Bad
  <2> QED
    BY <1>2, <1>3, <2>1, <2>2
<1>5. g[1..(m-1)] \in R
  BY <1>4
<1> HIDE DEF Bad
<1>6. 1..m \in SUBSET (1..n) /\ m \in 1..m /\ (1..m) \ {m} = 1..(m-1)
  BY <1>4
<1>7. Max(1..m) = m
  <2>1. 1..m \in SUBSET (1..m)
    OBVIOUS
  <2>2. 1..m # {}
    BY <1>6
  <2>3. Max(1..m) \in 1..m /\ \A k \in 1..m : k <= Max(1..m)
    BY <1>4, <2>1, <2>2, MaxIs
  <2>4. m <= Max(1..m) /\ Max(1..m) \in 1..m
    BY <1>6, <2>3
  <2> QED
    BY <1>4, <2>4
<1>8. g[1..m] \in R
  <2>1. 1..m # {}
    BY <1>6
  <2> QED
    BY <1>5, <1>6, <1>7, <2>1
<1> QED
  BY <1>2, <1>8 DEF Bad

LEMMA FoldPrefix ==
    ASSUME NEW n \in Nat, NEW k \in 1..n
    PROVE  /\ 1..k \in SUBSET (1..n) /\ 1..k # {}
           /\ Max(1..k) = k /\ (1..k) \ {k} = 1..(k-1)
<1>1. 1..k \in SUBSET (1..n) /\ k \in 1..k /\ 1..k # {} /\ k \in Nat
  OBVIOUS
<1>2. Max(1..k) \in 1..k /\ \A j \in 1..k : j <= Max(1..k)
  BY <1>1, MaxIs
<1>3. k <= Max(1..k) /\ Max(1..k) \in 1..k
  BY <1>1, <1>2
<1>4. Max(1..k) = k
  BY <1>1, <1>3
<1>5. (1..k) \ {k} = 1..(k-1)
  OBVIOUS
<1> QED
  BY <1>1, <1>4, <1>5

\* The results of the first k steps are in RK[k], if a step leads from each to the next.
LEMMA FoldReaches ==
    ASSUME NEW n \in Nat, NEW RK, NEW g, g[{}] \in RK[0],
           \A k \in 1..n : g[1..(k-1)] \in RK[k-1] => g[1..k] \in RK[k]
    PROVE  g[1..n] \in RK[n]
<1> DEFINE Bad == {m \in 0..n : g[1..m] \notin RK[m]}
<1>1. SUFFICES ASSUME Bad # {} PROVE FALSE
  <2>1. n \in 0..n
    OBVIOUS
  <2> QED
    BY <2>1
<1>2. PICK m \in Bad : \A j \in Bad : ~(j < m)
  <2>1. Bad \in SUBSET Nat
    OBVIOUS
  <2> HIDE DEF Bad
  <2> QED
    BY <1>1, <2>1, LeastNumber
<1>3. m # 0
  <2>1. 1..0 = {}
    OBVIOUS
  <2> QED
    BY <1>2, <2>1
<1>4. m \in 1..n /\ m - 1 \in 0..n /\ m - 1 \notin Bad
  <2>1. m \in 0..n /\ m \in Nat
    BY <1>2
  <2>2. m - 1 \in 0..n /\ m - 1 < m
    BY <1>3, <2>1
  <2> HIDE DEF Bad
  <2> QED
    BY <1>2, <1>3, <2>1, <2>2
<1>5. g[1..(m-1)] \in RK[m-1]
  BY <1>4
<1>6. g[1..m] \in RK[m]
  BY <1>4, <1>5
<1> QED
  BY <1>2, <1>6

-------------------------------------------------------------------------------
(* A recursive function that goes from r to next[r] until it stops.         *)

IsLoop(g, R, stop, out, next) ==
    g = [r \in R |-> IF r \in stop THEN out[r] ELSE g[next[r]]]

\* It exists, whether it stops or not: every r has what the last of its way has.
LEMMA LoopExists ==
    ASSUME NEW R, NEW stop, NEW out, NEW next \in [R -> R]
    PROVE  \E g : IsLoop(g, R, stop, out, next)
<1> DEFINE Closed(T) == \A s \in T : s \notin stop => next[s] \in T
           Way(r) == {s \in R : \A T \in SUBSET R : r \in T /\ Closed(T) => s \in T}
           Ends(r) == Way(r) \cap stop
           g == [r \in R |-> out[CHOOSE s : s \in Ends(r)]]
<1>1. ASSUME NEW r \in R, r \in stop PROVE Ends(r) = {r}
  <2>1. {r} \in SUBSET R /\ Closed({r})
    BY <1>1
  <2>2. r \in Ends(r)
    BY <1>1
  <2>3. \A s \in Ends(r) : s \in {r}
    BY <2>1
  <2> QED
    BY <2>2, <2>3
<1>2. ASSUME NEW r \in R, r \notin stop PROVE Ends(r) = Ends(next[r])
  <2>1. next[r] \in R
    OBVIOUS
  <2>2. ASSUME NEW s \in Ends(next[r]) PROVE s \in Ends(r)
    <3>1. ASSUME NEW T \in SUBSET R, r \in T, Closed(T) PROVE s \in T
      <4>1. next[r] \in T
        BY <1>2, <3>1
      <4> QED
        BY <2>2, <3>1, <4>1
    <3> QED
      BY <2>2, <3>1
  <2>3. ASSUME NEW s \in Ends(r) PROVE s \in Ends(next[r])
    <3>1. ASSUME NEW T \in SUBSET R, next[r] \in T, Closed(T) PROVE s \in T
      <4> DEFINE U == T \cup {r}
      <4>1. U \in SUBSET R /\ r \in U /\ Closed(U)
        BY <3>1
      <4>2. s \in U
        BY <2>3, <4>1
      <4>3. s # r
        BY <1>2, <2>3
      <4> QED
        BY <4>2, <4>3
    <3> QED
      BY <2>3, <3>1
  <2> QED
    BY <2>2, <2>3
<1> HIDE DEF Ends
<1>3. ASSUME NEW r \in R PROVE g[r] = IF r \in stop THEN out[r] ELSE g[next[r]]
  <2>1. CASE r \in stop
    BY <1>1, <2>1
  <2>2. CASE r \notin stop
    <3>1. next[r] \in R /\ Ends(r) = Ends(next[r])
      BY <1>2, <2>2
    <3>2. g[r] = g[next[r]]
      BY <3>1
    <3> QED
      BY <2>2, <3>2
  <2> QED
    BY <2>1, <2>2
<1>4. g = [r \in R |-> g[r]]
  OBVIOUS
<1> HIDE DEF g
<1>5. g = [r \in R |-> IF r \in stop THEN out[r] ELSE g[next[r]]]
  BY <1>3, <1>4
<1> QED
  BY <1>5 DEF IsLoop

\* It stops where something falls on the way, and there what is kept on the way holds.
LEMMA LoopStops ==
    ASSUME NEW R, NEW stop, NEW out, NEW next, NEW g, IsLoop(g, R, stop, out, next),
           NEW Kept \in SUBSET R, \A r \in Kept : r \notin stop => next[r] \in Kept,
           NEW left \in [Kept -> Nat], \A r \in Kept : r \notin stop => left[next[r]] < left[r],
           NEW first \in Kept
    PROVE  \E r \in Kept : r \in stop /\ g[first] = out[r]
<1> DEFINE Good(r) == \E s \in Kept : s \in stop /\ g[r] = out[s]
           Bad == {r \in Kept : ~Good(r)}
           Lefts == {left[r] : r \in Bad}
<1>1. SUFFICES ASSUME Bad # {} PROVE FALSE
  OBVIOUS
<1>2. Lefts \in SUBSET Nat /\ Lefts # {}
  BY <1>1
<1>3. PICK n \in Lefts : \A m \in Lefts : ~(m < n)
  <2> HIDE DEF Lefts
  <2> QED
    BY <1>2, LeastNumber
<1>4. PICK r \in Bad : left[r] = n
  OBVIOUS
<1>5. r \in Kept /\ ~Good(r) /\ r \in R
  OBVIOUS
<1>6. g[r] = IF r \in stop THEN out[r] ELSE g[next[r]]
  BY <1>5 DEF IsLoop
<1>7. r \notin stop
  BY <1>5, <1>6
<1>8. next[r] \in Kept /\ left[next[r]] < left[r] /\ g[r] = g[next[r]]
  BY <1>5, <1>6, <1>7
<1>9. ~Good(next[r])
  BY <1>5, <1>8
<1>10. next[r] \in Bad
  BY <1>8, <1>9
<1>11. left[next[r]] \in Lefts
  BY <1>10
<1> QED
  BY <1>3, <1>4, <1>8, <1>11

-------------------------------------------------------------------------------
(* A wave through a graph: each node passes on, once, one less than it has, *)
(* in the order in which the nodes got it.                                  *)

Waves(W) == [queue : Seq(W), visited : SUBSET W, power : [W -> Nat]]
Spent(W) == {r \in Waves(W) : r.queue = <<>>}
Weaker(to, r) == {q \in to[Head(r.queue)] : r.power[Head(r.queue)] - 1 > r.power[q]}
WaveStep(to, r) ==
    IF Head(r.queue) \in r.visited THEN [r EXCEPT !.queue = Tail(@)]
    ELSE [queue   |-> Tail(r.queue) \o SetToSeq(Weaker(to, r)),
          visited |-> r.visited \cup {Head(r.queue)},
          power   |-> [q \in DOMAIN r.power |->
                          IF q \in Weaker(to, r) THEN r.power[Head(r.queue)] - 1 ELSE r.power[q]]]
WaveNext(W, to) == [r \in Waves(W) |-> IF r.queue = <<>> THEN r ELSE WaveStep(to, r)]
WaveLoop(g, W, to) == IsLoop(g, Waves(W), Spent(W), [r \in Waves(W) |-> r.power], WaveNext(W, to))

\* What a step does: the head of the queue had its turn, or has it now.
LEMMA WaveStepIs ==
    ASSUME NEW W, IsFiniteSet(W), NEW to \in [W -> SUBSET W], NEW r \in Waves(W), r.queue # <<>>
    PROVE  LET c == Head(r.queue)
               u == WaveStep(to, r)
           IN  /\ u \in Waves(W) /\ c \in W
               /\ c \in r.visited =>
                     u.queue = Tail(r.queue) /\ u.visited = r.visited /\ u.power = r.power
               /\ c \notin r.visited =>
                     /\ \E l \in Seq(W) :
                           /\ u.queue = Tail(r.queue) \o l /\ Len(l) = Cardinality(Weaker(to, r))
                           /\ \A q : Listed(l, q) <=> q \in Weaker(to, r)
                     /\ u.visited = r.visited \cup {c}
                     /\ \A q \in W : u.power[q] =
                           IF q \in Weaker(to, r) THEN r.power[c] - 1 ELSE r.power[q]
<1> DEFINE c == Head(r.queue)
           u == WaveStep(to, r)
           M == Weaker(to, r)
           l == SetToSeq(M)
           p == [q \in W |-> IF q \in M THEN r.power[c] - 1 ELSE r.power[q]]
<1>1. /\ r.queue \in Seq(W) /\ r.visited \in SUBSET W /\ r.power \in [W -> Nat]
      /\ r = [queue |-> r.queue, visited |-> r.visited, power |-> r.power]
  BY DEF Waves
<1>2. c \in W /\ Tail(r.queue) \in Seq(W)
  BY <1>1, TailLists
<1>3. CASE c \in r.visited
  <2>1. u = [queue |-> Tail(r.queue), visited |-> r.visited, power |-> r.power]
    BY <1>1, <1>3 DEF WaveStep
  <2> HIDE DEF u
  <2>2. u \in Waves(W)
    BY <1>1, <1>2, <2>1 DEF Waves
  <2> QED
    BY <1>2, <1>3, <2>1, <2>2 DEF u
<1>4. CASE c \notin r.visited
  <2>1. M \in SUBSET W /\ \A q \in M : r.power[c] - 1 > r.power[q]
    BY <1>2 DEF Weaker
  <2>2. IsFiniteSet(M)
    BY <2>1, FS_Subset
  <2> HIDE DEF M
  <2>3. l \in Seq(M) /\ Len(l) = Cardinality(M) /\ \A q : Listed(l, q) <=> q \in M
    BY <2>2, SetAsList
  <2> HIDE DEF l
  <2>4. l \in Seq(W)
    BY <2>1, <2>3
  <2>5. Tail(r.queue) \o l \in Seq(W)
    BY <1>2, <2>4, ConcatLists
  <2>6. p \in [W -> Nat]
    <3>1. ASSUME NEW q \in W PROVE p[q] \in Nat
      <4>1. r.power[c] \in Nat /\ r.power[q] \in Nat
        BY <1>1, <1>2
      <4>2. q \in M => r.power[c] - 1 \in Nat
        BY <2>1, <4>1
      <4> QED
        BY <4>1, <4>2
    <3> QED
      BY <3>1
  <2>7. u = [queue |-> Tail(r.queue) \o l, visited |-> r.visited \cup {c}, power |-> p]
    BY <1>1, <1>4 DEF WaveStep, M, l
  <2> HIDE DEF p, u
  <2>8. u \in Waves(W)
    BY <1>1, <1>2, <2>5, <2>6, <2>7 DEF Waves
  <2>9. \A q \in W : u.power[q] = IF q \in M THEN r.power[c] - 1 ELSE r.power[q]
    BY <2>7 DEF p
  <2>10. u.queue = Tail(r.queue) \o l /\ u.visited = r.visited \cup {c}
    BY <2>7
  <2> QED
    BY <1>2, <1>4, <2>3, <2>4, <2>8, <2>9, <2>10 DEF u, M
<1> QED
  BY <1>3, <1>4

\* How much a wave has left to do.
ToDo(W, r) == Len(r.queue) + Cardinality(W \ r.visited) * (Cardinality(W) + 1)

LEMMA WaveWanes ==
    ASSUME NEW W, IsFiniteSet(W), NEW to \in [W -> SUBSET W], NEW r \in Waves(W)
    PROVE  /\ ToDo(W, r) \in Nat
           /\ r.queue # <<>> => ToDo(W, WaveStep(to, r)) < ToDo(W, r)
<1>1. r.queue \in Seq(W) /\ r.visited \in SUBSET W /\ Len(r.queue) \in Nat
  BY DEF Waves
<1> DEFINE N == Cardinality(W)
           n == Cardinality(W \ r.visited)
<1>2. N \in Nat /\ n \in Nat /\ IsFiniteSet(W \ r.visited)
  <2>1. IsFiniteSet(W \ r.visited)
    BY FS_Subset
  <2> QED
    BY <2>1, FS_CardinalityType
<1>3. n * (N + 1) \in Nat
  BY <1>2
<1>4. ToDo(W, r) \in Nat
  BY <1>1, <1>3 DEF ToDo
<1>5. ASSUME r.queue # <<>> PROVE ToDo(W, WaveStep(to, r)) < ToDo(W, r)
  <2> DEFINE c == Head(r.queue)
             u == WaveStep(to, r)
             M == Weaker(to, r)
  <2>1. Tail(r.queue) \in Seq(W) /\ Len(Tail(r.queue)) = Len(r.queue) - 1 /\ c \in W
    BY <1>1, <1>5, TailLists
  <2>2. /\ u \in Waves(W)
        /\ c \in r.visited => u.queue = Tail(r.queue) /\ u.visited = r.visited
        /\ c \notin r.visited =>
              /\ \E l \in Seq(W) : u.queue = Tail(r.queue) \o l /\ Len(l) = Cardinality(M)
              /\ u.visited = r.visited \cup {c}
    BY <1>5, WaveStepIs
  <2>3. M \in SUBSET W
    BY <2>1 DEF Weaker
  <2> HIDE DEF c, u, M
  <2>4. CASE c \in r.visited
    <3> DEFINE k == n * (N + 1)
    <3>1. ToDo(W, u) = Len(r.queue) - 1 + k /\ ToDo(W, r) = Len(r.queue) + k /\ k \in Nat
      BY <1>3, <2>1, <2>2, <2>4 DEF ToDo
    <3> HIDE DEF k
    <3> QED
      BY <1>1, <3>1 DEF u
  <2>5. CASE c \notin r.visited
    <3>1. PICK l \in Seq(W) : u.queue = Tail(r.queue) \o l /\ Len(l) = Cardinality(M)
      BY <2>2, <2>5
    <3>2. Len(u.queue) = Len(r.queue) - 1 + Cardinality(M)
      BY <2>1, <3>1, ConcatLists
    <3>3. Cardinality(M) \in Nat /\ Cardinality(M) <= N
      BY <2>3, FS_Subset, FS_CardinalityType
    <3>4. W \ u.visited = (W \ r.visited) \ {c} /\ c \in W \ r.visited
      BY <2>1, <2>2, <2>5
    <3>5. Cardinality(W \ u.visited) = n - 1
      <4> DEFINE S == W \ r.visited
      <4>1. IsFiniteSet(S) /\ c \in S
        BY <1>2, <3>4
      <4> HIDE DEF S
      <4>2. Cardinality(S \ {c}) = Cardinality(S) - 1
        BY <4>1, FS_RemoveElement
      <4> QED
        BY <3>4, <4>2 DEF S
    <3>6. ToDo(W, u) = Len(r.queue) - 1 + Cardinality(M) + (n - 1) * (N + 1)
      BY <3>2, <3>5 DEF ToDo
    <3>7. ToDo(W, r) = Len(r.queue) + n * (N + 1)
      BY DEF ToDo
    <3> HIDE DEF n, N
    <3>8. (n - 1) * (N + 1) = n * (N + 1) - (N + 1)
      BY <1>2
    <3> DEFINE k == n * (N + 1)
               m == Cardinality(M)
    <3>9. /\ ToDo(W, u) = Len(r.queue) - 1 + m + (k - (N + 1)) /\ ToDo(W, r) = Len(r.queue) + k
          /\ k \in Nat /\ m \in Nat /\ m <= N
      BY <1>3, <3>3, <3>6, <3>7, <3>8
    <3> HIDE DEF k, m
    <3> QED
      BY <1>1, <1>2, <3>9 DEF u
  <2> QED
    BY <2>4, <2>5 DEF u
<1> QED
  BY <1>4, <1>5

\* Every wave ends, with what its steps keep.
LEMMA WaveEnds ==
    ASSUME NEW W, IsFiniteSet(W), NEW to \in [W -> SUBSET W], NEW g, WaveLoop(g, W, to),
           NEW Kept \in SUBSET Waves(W),
           \A r \in Kept : r.queue # <<>> => WaveStep(to, r) \in Kept,
           NEW first \in Kept
    PROVE  \E r \in Kept : r.queue = <<>> /\ g[first] = r.power
<1> DEFINE R == Waves(W)
           out == [r \in R |-> r.power]
           next == WaveNext(W, to)
           left == [r \in Kept |-> ToDo(W, r)]
<1>1. IsLoop(g, R, Spent(W), out, next)
  BY DEF WaveLoop
<1>2. \A r \in Kept : r \notin Spent(W) => r.queue # <<>> /\ next[r] = WaveStep(to, r)
  BY DEF Spent, WaveNext
<1>3. \A r \in Kept : r \notin Spent(W) => next[r] \in Kept
  BY <1>2
<1>4. left \in [Kept -> Nat]
  BY WaveWanes
<1>5. \A r \in Kept : r \notin Spent(W) => left[next[r]] < left[r]
  <2> SUFFICES ASSUME NEW r \in Kept, r \notin Spent(W) PROVE left[next[r]] < left[r]
    OBVIOUS
  <2>1. next[r] \in Kept /\ next[r] = WaveStep(to, r) /\ r.queue # <<>> /\ r \in Waves(W)
    BY <1>2, <1>3
  <2>2. ToDo(W, WaveStep(to, r)) < ToDo(W, r)
    BY <2>1, WaveWanes
  <2> QED
    BY <2>1, <2>2
<1> HIDE DEF left, next, out, R
<1>6. \E r \in Kept : r \in Spent(W) /\ g[first] = out[r]
  BY <1>1, <1>3, <1>4, <1>5, LoopStops DEF R
<1> QED
  BY <1>6 DEF Spent, out, R

LEMMA WaveExists ==
    ASSUME NEW W, IsFiniteSet(W), NEW to \in [W -> SUBSET W]
    PROVE  \E g : WaveLoop(g, W, to)
<1>1. WaveNext(W, to) \in [Waves(W) -> Waves(W)]
  <2>1. \A r \in Waves(W) : r.queue # <<>> => WaveStep(to, r) \in Waves(W)
    BY WaveStepIs
  <2> QED
    BY <2>1 DEF WaveNext
<1> QED
  BY <1>1, LoopExists DEF WaveLoop

\* A wave on its way from nodes that were given the same: all that have something were
\* there or wait, in the order of what they have; who was there has passed on, and each
\* has what it was given or got from one who was there.
Rolling(W, to, seed, r) ==
    /\ r \in Waves(W)
    /\ \A c \in W : r.power[c] > 0 /\ c \notin r.visited => Listed(r.queue, c)
    /\ \A c \in r.visited : \A q \in to[c] : r.power[q] >= r.power[c] - 1
    /\ \A c \in W :
          /\ r.power[c] >= seed[c]
          /\ r.power[c] = seed[c] \/ \E q \in r.visited : c \in to[q] /\ r.power[c] = r.power[q] - 1
    /\ \A i, j \in 1..Len(r.queue) : i < j =>
          /\ r.power[r.queue[i]] >= r.power[r.queue[j]]
          /\ r.power[r.queue[j]] >= r.power[r.queue[i]] - 1
    /\ \A c \in r.visited : \A i \in 1..Len(r.queue) : r.power[c] >= r.power[r.queue[i]]

LEMMA WaveRolls ==
    ASSUME NEW W, IsFiniteSet(W), NEW to \in [W -> SUBSET W], NEW seed \in [W -> Nat],
           NEW r, Rolling(W, to, seed, r), r.queue # <<>>
    PROVE  Rolling(W, to, seed, WaveStep(to, r))
<1> DEFINE c == Head(r.queue)
           t == Tail(r.queue)
           u == WaveStep(to, r)
           M == Weaker(to, r)
           p == r.power[c]
           n == Len(t)
<1>1. /\ r \in Waves(W) /\ r.queue \in Seq(W) /\ r.visited \in SUBSET W /\ r.power \in [W -> Nat]
      /\ Len(r.queue) \in Nat
  BY DEF Rolling, Waves
<1>2. /\ t \in Seq(W) /\ n = Len(r.queue) - 1 /\ n \in Nat /\ c \in W /\ c = r.queue[1]
      /\ \A i \in 1..n : t[i] = r.queue[i + 1] /\ t[i] \in W
      /\ \A x : Listed(r.queue, x) <=> x = c \/ Listed(t, x)
  <2>1. /\ t \in Seq(W) /\ n = Len(r.queue) - 1 /\ c \in W /\ c = r.queue[1]
        /\ \A i \in 1..Len(r.queue) - 1 : t[i] = r.queue[i + 1]
        /\ \A x : Listed(r.queue, x) <=> x = c \/ Listed(t, x)
    BY <1>1, TailLists
  <2>2. \A i \in 1..n : t[i] \in W
    BY <2>1
  <2> QED
    BY <2>1, <2>2
<1>3. /\ u \in Waves(W)
      /\ c \in r.visited => u.queue = t /\ u.visited = r.visited /\ u.power = r.power
      /\ c \notin r.visited =>
            /\ \E l \in Seq(W) : u.queue = t \o l /\ \A q : Listed(l, q) <=> q \in M
            /\ u.visited = r.visited \cup {c}
            /\ \A q \in W : u.power[q] = IF q \in M THEN p - 1 ELSE r.power[q]
  <2>1. /\ u \in Waves(W)
        /\ c \in r.visited => u.queue = t /\ u.visited = r.visited /\ u.power = r.power
        /\ c \notin r.visited =>
              /\ \E l \in Seq(W) : /\ u.queue = t \o l /\ Len(l) = Cardinality(M)
                                  /\ \A q : Listed(l, q) <=> q \in M
              /\ u.visited = r.visited \cup {c}
              /\ \A q \in W : u.power[q] = IF q \in M THEN p - 1 ELSE r.power[q]
    BY <1>1, WaveStepIs
  <2> HIDE DEF u, M, c, t
  <2> QED
    BY <2>1
<1>4. M = {q \in to[c] : p - 1 > r.power[q]} /\ M \in SUBSET W
  BY <1>2 DEF Weaker
<1> HIDE DEF t, u, M, n
\* What the rest of the queue has, beside the head and those that were visited.
<1>5. /\ \A i, j \in 1..n : i < j =>
            /\ r.power[t[i]] >= r.power[t[j]]
            /\ r.power[t[j]] >= r.power[t[i]] - 1
      /\ \A i \in 1..n : p >= r.power[t[i]] /\ r.power[t[i]] >= p - 1
      /\ \A v \in r.visited : r.power[v] >= p /\ \A i \in 1..n : r.power[v] >= r.power[t[i]]
  <2>1. \A i \in 1..n : i + 1 \in 1..Len(r.queue) /\ 1 < i + 1 /\ t[i] = r.queue[i + 1]
    <3>1. n \in Nat /\ Len(r.queue) = n + 1 /\ \A i \in 1..n : t[i] = r.queue[i + 1]
      BY <1>1, <1>2
    <3> QED
      BY <3>1
  <2>2. 1 \in 1..Len(r.queue) /\ r.queue[1] = c
    BY <1>1, <1>2
  <2>3. \A i, j \in 1..n : i < j => i + 1 < j + 1
    BY <1>2
  <2>4. /\ \A i, j \in 1..Len(r.queue) : i < j =>
              /\ r.power[r.queue[i]] >= r.power[r.queue[j]]
              /\ r.power[r.queue[j]] >= r.power[r.queue[i]] - 1
        /\ \A v \in r.visited : \A i \in 1..Len(r.queue) : r.power[v] >= r.power[r.queue[i]]
    BY DEF Rolling
  <2>5. \A i, j \in 1..n : i < j =>
            /\ r.power[t[i]] >= r.power[t[j]]
            /\ r.power[t[j]] >= r.power[t[i]] - 1
    BY <2>1, <2>3, <2>4
  <2>6. \A i \in 1..n : p >= r.power[t[i]] /\ r.power[t[i]] >= p - 1
    BY <2>1, <2>2, <2>4
  <2>7. \A v \in r.visited : r.power[v] >= p /\ \A i \in 1..n : r.power[v] >= r.power[t[i]]
    BY <2>1, <2>2, <2>4
  <2> QED
    BY <2>5, <2>6, <2>7
<1>6. CASE c \in r.visited
  <2>1. u.queue = t /\ u.visited = r.visited /\ u.power = r.power /\ Len(u.queue) = n
    BY <1>3, <1>6 DEF n
  <2>2. \A q \in W : r.power[q] > 0 /\ q \notin r.visited => Listed(t, q)
    BY <1>2, <1>6 DEF Rolling
  <2> QED
    BY <1>3, <1>5, <2>1, <2>2 DEF Rolling, u
<1>7. CASE c \notin r.visited
  <2>1. PICK l \in Seq(W) : u.queue = t \o l /\ \A q : Listed(l, q) <=> q \in M
    BY <1>3, <1>7
  <2>2. u.visited = r.visited \cup {c} /\ \A q \in W : u.power[q] = IF q \in M THEN p - 1 ELSE r.power[q]
    BY <1>3, <1>7
  <2>3. p \in Nat /\ \A q \in W : r.power[q] \in Nat /\ u.power[q] \in Nat
    BY <1>1, <1>2, <1>3 DEF Waves
  \* Who was visited or waits keeps what it has.
  <2>4. c \notin M /\ \A v \in r.visited : v \notin M
    <3>1. c \notin M
      BY <1>4, <2>3
    <3>2. ASSUME NEW v \in r.visited PROVE v \notin M
      <4>1. r.power[v] >= p /\ r.power[v] \in Nat
        BY <1>1, <1>5, <2>3
      <4> QED
        BY <1>4, <2>3, <4>1
    <3> QED
      BY <3>1, <3>2
  <2>5. u.power[c] = p /\ \A v \in r.visited : u.power[v] = r.power[v]
    BY <1>1, <1>2, <2>2, <2>4
  <2>6. \A i \in 1..n : u.power[t[i]] = r.power[t[i]]
    <3> SUFFICES ASSUME NEW i \in 1..n PROVE t[i] \notin M /\ t[i] \in W
      BY <2>2
    <3>1. t[i] \in W /\ r.power[t[i]] >= p - 1
      BY <1>2, <1>5
    <3> QED
      BY <1>4, <2>3, <3>1
  <2>7. \A q \in W : u.power[q] >= r.power[q]
    BY <1>4, <2>2, <2>3
  <2>8. \A k \in 1..Len(u.queue) :
           /\ k \in 1..n => u.power[u.queue[k]] = r.power[t[k]]
           /\ k \notin 1..n => k > n /\ u.power[u.queue[k]] = p - 1
    <3>1. /\ \A k \in 1..n : u.queue[k] = t[k]
          /\ \A k \in 1..Len(u.queue) : k \in 1..n \/ (k - n \in 1..Len(l) /\ u.queue[k] = l[k - n])
      <4> DEFINE v == t \o l
      <4>1. t \in Seq(W) /\ n = Len(t) /\ u.queue = v
        BY <1>2, <2>1 DEF n
      <4>2. /\ \A k \in 1..Len(t) : v[k] = t[k]
            /\ \A k \in 1..Len(v) : \/ k \in 1..Len(t)
                                    \/ k - Len(t) \in 1..Len(l) /\ v[k] = l[k - Len(t)]
        BY <4>1, ConcatLists
      <4> HIDE DEF v
      <4> QED
        BY <4>1, <4>2
    <3>2. \A j \in 1..Len(l) : l[j] \in M
      BY <2>1 DEF Listed
    <3>3. \A q \in M : u.power[q] = p - 1
      BY <1>4, <2>2
    <3> SUFFICES ASSUME NEW k \in 1..Len(u.queue), k \notin 1..n
                 PROVE  k > n /\ u.power[u.queue[k]] = p - 1
      BY <2>6, <3>1
    <3>4. k - n \in 1..Len(l) /\ u.queue[k] \in M
      BY <3>1, <3>2
    <3>5. k > n
      <4>1. k \in Int /\ Len(l) \in Nat /\ n \in Nat
        BY <1>2, <2>1
      <4> QED
        BY <3>4, <4>1
    <3> QED
      BY <3>3, <3>4, <3>5
  <2>9. \A q \in W : u.power[q] > 0 /\ q \notin u.visited => Listed(u.queue, q)
    <3> SUFFICES ASSUME NEW q \in W, u.power[q] > 0, q \notin u.visited PROVE Listed(u.queue, q)
      OBVIOUS
    <3>1. Listed(u.queue, q) <=> Listed(t, q) \/ Listed(l, q)
      BY <1>2, <2>1, ConcatLists
    <3>2. q # c /\ q \notin r.visited
      BY <2>2
    <3>3. q \in M => Listed(u.queue, q)
      BY <2>1, <3>1
    <3>4. q \notin M => r.power[q] > 0
      BY <2>2
    <3>5. r.power[q] > 0 => Listed(r.queue, q)
      BY <3>2 DEF Rolling
    <3> QED
      BY <1>2, <3>1, <3>2, <3>3, <3>4, <3>5
  <2>10. \A v \in u.visited : \A q \in to[v] : u.power[q] >= u.power[v] - 1
    <3>1. ASSUME NEW v \in r.visited, NEW q \in to[v] PROVE u.power[q] >= u.power[v] - 1
      <4>1. q \in W /\ v \in W /\ r.power[q] >= r.power[v] - 1
        BY <1>1 DEF Rolling
      <4> QED
        BY <2>3, <2>5, <2>7, <4>1
    <3>2. ASSUME NEW q \in to[c] PROVE u.power[q] >= u.power[c] - 1
      <4>1. q \in W
        BY <1>2
      <4> QED
        BY <1>4, <2>2, <2>3, <2>5, <4>1
    <3> QED
      BY <2>2, <3>1, <3>2
  <2>11. ASSUME NEW q \in W
         PROVE  /\ u.power[q] >= seed[q]
                /\ \/ u.power[q] = seed[q]
                   \/ \E v \in u.visited : q \in to[v] /\ u.power[q] = u.power[v] - 1
    <3>1. /\ r.power[q] >= seed[q]
          /\ r.power[q] = seed[q] \/ \E v \in r.visited : q \in to[v] /\ r.power[q] = r.power[v] - 1
      BY DEF Rolling
    <3>2. u.power[q] >= seed[q]
      BY <2>3, <2>7, <3>1
    <3>3. CASE q \in M
      <4>1. q \in to[c] /\ u.power[q] = u.power[c] - 1 /\ c \in u.visited
        BY <1>4, <2>2, <2>5, <3>3
      <4> QED
        BY <3>2, <4>1
    <3>4. CASE q \notin M
      <4>1. u.power[q] = r.power[q]
        BY <2>2, <3>4
      <4>2. CASE r.power[q] = seed[q]
        BY <3>2, <4>1, <4>2
      <4>3. CASE \E v \in r.visited : q \in to[v] /\ r.power[q] = r.power[v] - 1
        <5>1. PICK v \in r.visited : q \in to[v] /\ r.power[q] = r.power[v] - 1
          BY <4>3
        <5>2. v \in u.visited /\ u.power[q] = u.power[v] - 1
          BY <2>2, <2>5, <4>1, <5>1
        <5> QED
          BY <3>2, <5>1, <5>2
      <4> QED
        BY <3>1, <4>2, <4>3
    <3> QED
      BY <3>3, <3>4
  <2>12. ASSUME NEW i \in 1..Len(u.queue), NEW j \in 1..Len(u.queue), i < j
         PROVE  /\ u.power[u.queue[i]] >= u.power[u.queue[j]]
                /\ u.power[u.queue[j]] >= u.power[u.queue[i]] - 1
    <3>1. \A k \in 1..n : t[k] \in W /\ r.power[t[k]] \in Nat
      BY <1>2, <2>3
    <3>2. CASE i \in 1..n /\ j \in 1..n
      <4>1. /\ u.power[u.queue[i]] = r.power[t[i]] /\ u.power[u.queue[j]] = r.power[t[j]]
        BY <2>8, <3>2
      <4> QED
        BY <1>5, <2>12, <3>2, <4>1
    <3>3. CASE i \in 1..n /\ j \notin 1..n
      <4>1. /\ u.power[u.queue[i]] = r.power[t[i]] /\ u.power[u.queue[j]] = p - 1
        BY <1>2, <2>8, <3>3
      <4>2. p >= r.power[t[i]] /\ r.power[t[i]] >= p - 1 /\ r.power[t[i]] \in Nat
        BY <1>5, <3>1, <3>3
      <4> QED
        BY <2>3, <4>1, <4>2
    <3>4. CASE i \notin 1..n
      <4>1. i > n /\ j > n
        <5>1. i > n /\ i \in Nat /\ j \in Nat /\ n \in Nat
          BY <1>2, <2>8, <3>4
        <5> QED
          BY <2>12, <5>1
      <4>2. u.power[u.queue[i]] = p - 1 /\ u.power[u.queue[j]] = p - 1
        BY <1>2, <2>8, <4>1
      <4> QED
        BY <2>3, <4>2
    <3> QED
      BY <3>2, <3>3, <3>4
  <2>13. ASSUME NEW v \in u.visited, NEW i \in 1..Len(u.queue)
         PROVE  u.power[v] >= u.power[u.queue[i]]
    <3>1. v \in W /\ u.power[v] \in Nat /\ u.power[v] >= p
      BY <1>1, <1>2, <1>5, <2>2, <2>3, <2>5
    <3>2. CASE i \in 1..n
      <4>1. u.power[u.queue[i]] = r.power[t[i]] /\ p >= r.power[t[i]] /\ r.power[t[i]] \in Nat
        BY <1>2, <1>5, <2>3, <2>8, <2>13, <3>2
      <4> QED
        BY <2>3, <3>1, <4>1
    <3>3. CASE i \notin 1..n
      <4>1. u.power[u.queue[i]] = p - 1
        BY <2>8, <3>3
      <4> QED
        BY <2>3, <3>1, <4>1
    <3> QED
      BY <3>2, <3>3
  <2> QED
    BY <1>3, <2>9, <2>10, <2>11, <2>12, <2>13 DEF Rolling, u
<1> QED
  BY <1>6, <1>7

\* Where the wave ends each node has what it was given, or one less than the best of
\* those that pass on to it.
Levelled(W, to, seed, p) ==
    /\ p \in [W -> Nat]
    /\ \A c \in W : p[c] >= seed[c] /\ \A q \in W : c \in to[q] => p[c] >= p[q] - 1
    /\ \A c \in W : p[c] = seed[c] \/ \E q \in W : c \in to[q] /\ p[c] = p[q] - 1

LEMMA WaveLevels ==
    ASSUME NEW W, IsFiniteSet(W), NEW to \in [W -> SUBSET W], NEW seed \in [W -> Nat],
           NEW g, WaveLoop(g, W, to), NEW queue \in Seq(W),
           \A c \in W : seed[c] > 0 <=> Listed(queue, c),
           \A c, d \in W : seed[c] > 0 /\ seed[d] > 0 => seed[c] = seed[d]
    PROVE  Levelled(W, to, seed, g[[queue |-> queue, visited |-> {}, power |-> seed]])
<1> DEFINE first == [queue |-> queue, visited |-> {}, power |-> seed]
           Kept == {r \in Waves(W) : Rolling(W, to, seed, r)}
<1>1. first \in Kept
  <2>1. first \in Waves(W)
    BY DEF Waves
  <2>2. \A i \in 1..Len(queue) : queue[i] \in W /\ seed[queue[i]] > 0 /\ seed[queue[i]] \in Nat
    BY DEF Listed
  <2>3. \A i, j \in 1..Len(queue) : seed[queue[i]] = seed[queue[j]]
    BY <2>2
  <2>4. \A c \in W : seed[c] \in Nat /\ seed[c] >= seed[c]
    OBVIOUS
  <2>5. first.queue = queue /\ first.visited = {} /\ first.power = seed
    OBVIOUS
  <2> HIDE DEF first
  <2>6. \A i, j \in 1..Len(queue) :
           seed[queue[i]] >= seed[queue[j]] /\ seed[queue[j]] >= seed[queue[i]] - 1
    BY <2>2, <2>3
  <2>7. Rolling(W, to, seed, first)
    BY <2>1, <2>4, <2>5, <2>6 DEF Rolling
  <2> QED
    BY <2>1, <2>7
<1>2. \A r \in Kept : r.queue # <<>> => WaveStep(to, r) \in Kept
  <2> SUFFICES ASSUME NEW r \in Kept, r.queue # <<>> PROVE WaveStep(to, r) \in Kept
    OBVIOUS
  <2>1. Rolling(W, to, seed, WaveStep(to, r))
    BY WaveRolls
  <2> QED
    BY <2>1 DEF Rolling
<1>3. PICK r \in Kept : r.queue = <<>> /\ g[first] = r.power
  <2>1. Kept \in SUBSET Waves(W)
    OBVIOUS
  <2> HIDE DEF Kept, first
  <2> QED
    BY <1>1, <1>2, <2>1, WaveEnds
<1> HIDE DEF first
<1>4. /\ r.power \in [W -> Nat] /\ r.visited \in SUBSET W
      /\ \A c \in W : r.power[c] > 0 => c \in r.visited
  BY <1>3, NoneListed DEF Rolling, Waves
<1>5. ASSUME NEW c \in W, NEW q \in W, c \in to[q] PROVE r.power[c] >= r.power[q] - 1
  <2>1. r.power[c] \in Nat /\ r.power[q] \in Nat
    BY <1>4
  <2>2. CASE q \in r.visited
    BY <1>5, <2>2 DEF Rolling
  <2>3. CASE q \notin r.visited
    BY <1>4, <2>1, <2>3
  <2> QED
    BY <2>2, <2>3
<1>6. \A c \in W : /\ r.power[c] >= seed[c]
                   /\ r.power[c] = seed[c] \/ \E q \in W : c \in to[q] /\ r.power[c] = r.power[q] - 1
  BY <1>4 DEF Rolling
<1> QED
  BY <1>3, <1>4, <1>5, <1>6 DEF Levelled, first

\* Nobody gets more than what some node was given.
LEMMA WaveRange ==
    ASSUME NEW W, IsFiniteSet(W), NEW to \in [W -> SUBSET W], NEW top \in Nat,
           NEW seed \in [W -> 0..top], NEW g, WaveLoop(g, W, to), NEW queue \in Seq(W)
    PROVE  g[[queue |-> queue, visited |-> {}, power |-> seed]] \in [W -> 0..top]
<1> DEFINE first == [queue |-> queue, visited |-> {}, power |-> seed]
           Kept == {r \in Waves(W) : r.power \in [W -> 0..top]}
<1>1. first \in Kept
  BY DEF Waves
<1>2. ASSUME NEW r \in Kept, r.queue # <<>> PROVE WaveStep(to, r) \in Kept
  <2> DEFINE c == Head(r.queue)
             u == WaveStep(to, r)
             M == Weaker(to, r)
  <2>1. /\ u \in Waves(W) /\ c \in W
        /\ c \in r.visited => u.power = r.power
        /\ c \notin r.visited => \A q \in W : u.power[q] = IF q \in M THEN r.power[c] - 1 ELSE r.power[q]
    BY <1>2, WaveStepIs
  <2> HIDE DEF c, u, M
  <2>2. u.power \in [W -> Nat] /\ r.power \in [W -> 0..top]
    BY <2>1 DEF Waves
  <2>3. \A q \in W : u.power[q] \in 0..top
    <3> SUFFICES ASSUME NEW q \in W PROVE u.power[q] \in 0..top
      OBVIOUS
    <3>1. u.power[q] \in Nat /\ r.power[q] \in 0..top /\ r.power[c] \in 0..top
      BY <2>1, <2>2
    <3>2. u.power[q] \in {r.power[q], r.power[c] - 1}
      BY <2>1
    <3> QED
      BY <3>1, <3>2
  <2> QED
    BY <2>1, <2>2, <2>3 DEF u
<1>3. PICK r \in Kept : r.queue = <<>> /\ g[first] = r.power
  <2>1. Kept \in SUBSET Waves(W) /\ \A r \in Kept : r.queue # <<>> => WaveStep(to, r) \in Kept
    BY <1>2
  <2> HIDE DEF Kept, first
  <2> QED
    BY <1>1, <2>1, WaveEnds
<1> QED
  BY <1>3
================================================================================
