------------------------------ MODULE DataProofs -------------------------------
(***************************************************************************)
(* Lemmas about the data the modules are built from: lists of attesters,   *)
(* sums over a finite set, places in a log.                                *)
(***************************************************************************)
EXTENDS AttesterList, EventLog, SequenceTheorems, FiniteSetTheorems, TLAPS

(***************************************************************************)
(* What pushing, swap-and-pop removal and the last position of an element  *)
(* do to a list, for every list over every set.                            *)
(***************************************************************************)

\* A duplicate-free list grows by a new element and stays duplicate-free.
LEMMA PushSound ==
    ASSUME NEW S, NEW list \in Seq(S), NEW a \in S
    PROVE  /\ Append(list, a) \in Seq(S)
           /\ Len(Append(list, a)) = Len(list) + 1
           /\ \A i \in 1 .. Len(list) : Append(list, a)[i] = list[i]
           /\ Append(list, a)[Len(list) + 1] = a
           /\ Range(Append(list, a)) = Range(list) \cup {a}
           /\ NoDuplicates(list) /\ a \notin Range(list) => NoDuplicates(Append(list, a))
<1> DEFINE longer == Append(list, a)
<1>1. /\ longer \in Seq(S)
      /\ Len(longer) = Len(list) + 1
      /\ \A i \in 1 .. Len(list) : longer[i] = list[i]
      /\ longer[Len(list) + 1] = a
    BY AppendProperties
<1>2. DOMAIN list = 1 .. Len(list) /\ DOMAIN longer = 1 .. Len(list) + 1 /\ Len(list) \in Nat
    BY <1>1, LenProperties
<1> HIDE DEF longer
<1>3. Range(longer) = Range(list) \cup {a}
    BY <1>1, <1>2 DEF Range
<1>4. NoDuplicates(list) /\ a \notin Range(list) => NoDuplicates(longer)
    BY <1>1, <1>2 DEF NoDuplicates, IsInjective, Range
<1> QED
    BY <1>1, <1>3, <1>4 DEF longer

\* Swap-and-pop removes one position: the list stays a list, one shorter, and
\* every position but the freed one keeps its element.
LEMMA SwapAndPopType ==
    ASSUME NEW S, NEW list \in Seq(S), NEW k \in 1 .. Len(list)
    PROVE  /\ SwapAndPop(list, k) \in Seq(S)
           /\ Len(SwapAndPop(list, k)) = Len(list) - 1
           /\ \A i \in 1 .. Len(list) - 1 :
                  SwapAndPop(list, k)[i] = IF i = k THEN list[Len(list)] ELSE list[i]
<1> DEFINE n == Len(list) - 1
           shorter == [i \in 1 .. n |-> IF i = k THEN list[Len(list)] ELSE list[i]]
<1>1. n \in Nat /\ Len(list) \in Nat
    BY LenProperties
<1>2. \A i \in 1 .. Len(list) : list[i] \in S
    BY ElementOfSeq
<1>3. shorter \in [1 .. n -> S]
    BY <1>1, <1>2
<1>4. shorter \in Seq(S)
    BY <1>1, <1>3, SeqDef
<1>5. Len(shorter) = n
    BY <1>1, <1>3, <1>4, LenProperties
<1> QED
    BY <1>4, <1>5 DEF SwapAndPop

\* From a duplicate-free list swap-and-pop removes exactly the element at the
\* freed position.
LEMMA SwapAndPopSound ==
    ASSUME NEW S, NEW list \in Seq(S), NEW k \in 1 .. Len(list), NoDuplicates(list)
    PROVE  /\ NoDuplicates(SwapAndPop(list, k))
           /\ Range(SwapAndPop(list, k)) = Range(list) \ {list[k]}
<1> DEFINE shorter == SwapAndPop(list, k)
           n == Len(list) - 1
<1>1. /\ shorter \in Seq(S)
      /\ Len(shorter) = n
      /\ \A i \in 1 .. n : shorter[i] = IF i = k THEN list[Len(list)] ELSE list[i]
    BY SwapAndPopType
<1>2. /\ DOMAIN list = 1 .. n + 1
      /\ DOMAIN shorter = 1 .. n
      /\ n \in Nat
      /\ k \in 1 .. n + 1
    BY <1>1, LenProperties
<1>3. \A i, j \in 1 .. n + 1 : list[i] = list[j] => i = j
    BY <1>2 DEF NoDuplicates, IsInjective
<1> HIDE DEF shorter, n
<1>4. Len(list) = n + 1
    BY LenProperties DEF n
<1>5. NoDuplicates(shorter)
    BY <1>1, <1>2, <1>3, <1>4 DEF NoDuplicates, IsInjective
<1>6. Range(shorter) \subseteq Range(list) \ {list[k]}
    BY <1>1, <1>2, <1>3, <1>4 DEF Range
<1>7. ASSUME NEW x \in Range(list), x # list[k] PROVE x \in Range(shorter)
    <2>1. PICK i \in 1 .. n + 1 : x = list[i]
        BY <1>2, <1>7 DEF Range
    <2>2. CASE i = n + 1
        <3>1. k \in 1 .. n /\ shorter[k] = x
            BY <1>1, <1>2, <1>4, <1>7, <2>1, <2>2
        <3> QED
            BY <1>2, <3>1 DEF Range
    <2>3. CASE i # n + 1
        <3>1. i \in 1 .. n /\ shorter[i] = x
            BY <1>1, <1>2, <1>7, <2>1, <2>3
        <3> QED
            BY <1>2, <3>1 DEF Range
    <2> QED
        BY <2>2, <2>3
<1> QED
    BY <1>5, <1>6, <1>7 DEF shorter

\* An element of a list has a last position.
LEMMA LastPositionExists ==
    ASSUME NEW S, NEW list \in Seq(S), NEW a \in Range(list)
    PROVE  /\ LastPosition(list, a) \in 1 .. Len(list)
           /\ list[LastPosition(list, a)] = a
<1>1. DOMAIN list = 1 .. Len(list) /\ Len(list) \in Nat
    BY LenProperties
<1> DEFINE Gaps == {Len(list) - i : i \in {j \in DOMAIN list : list[j] = a}}
<1>2. Gaps \subseteq Nat /\ Gaps # {}
    BY <1>1 DEF Range
<1> HIDE DEF Gaps
<1>3. PICK g \in Gaps : \A h \in Gaps : ~ (<<h, g>> \in OpToRel(<, Nat))
    BY <1>2, NatLessThanWellFounded, WFMin
<1>4. \A h \in Gaps : ~ (h < g)
    BY <1>2, <1>3 DEF OpToRel
<1>5. PICK k \in DOMAIN list : list[k] = a /\ g = Len(list) - k
    BY DEF Gaps
<1>6. ASSUME NEW j \in DOMAIN list, list[j] = a PROVE j <= k
    <2>1. Len(list) - j \in Gaps
        BY <1>6 DEF Gaps
    <2>2. ~ (Len(list) - j < g)
        BY <1>4, <2>1
    <2> QED
        BY <1>1, <1>5, <2>2
<1> QED
    BY <1>1, <1>5, <1>6 DEF LastPosition

\* It has a first position too.
LEMMA FirstPositionExists ==
    ASSUME NEW S, NEW list \in Seq(S), NEW a \in Range(list)
    PROVE  /\ FirstPosition(list, a) \in 1 .. Len(list)
           /\ list[FirstPosition(list, a)] = a
<1>1. DOMAIN list = 1 .. Len(list) /\ Len(list) \in Nat
    BY LenProperties
<1> DEFINE Places == {j \in DOMAIN list : list[j] = a}
<1>2. Places \subseteq Nat /\ Places # {}
    BY <1>1 DEF Range
<1> HIDE DEF Places
<1>3. PICK k \in Places : \A j \in Places : ~ (<<j, k>> \in OpToRel(<, Nat))
    BY <1>2, NatLessThanWellFounded, WFMin
<1>4. \A j \in Places : ~ (j < k)
    BY <1>2, <1>3 DEF OpToRel
<1>5. k \in DOMAIN list /\ list[k] = a
    BY DEF Places
<1>6. ASSUME NEW j \in DOMAIN list, list[j] = a PROVE k <= j
    <2>1. j \in Places
        BY <1>6 DEF Places
    <2> QED
        BY <1>1, <1>4, <1>5, <2>1
<1> QED
    BY <1>1, <1>5, <1>6 DEF FirstPosition

\* In a duplicate-free list the last position is the only one.
LEMMA LastPositionUnique ==
    ASSUME NEW S, NEW list \in Seq(S), NoDuplicates(list), NEW i \in 1 .. Len(list)
    PROVE  LastPosition(list, list[i]) = i
<1>1. DOMAIN list = 1 .. Len(list)
    BY LenProperties
<1>2. list[i] \in Range(list)
    BY <1>1 DEF Range
<1>3. /\ LastPosition(list, list[i]) \in 1 .. Len(list)
      /\ list[LastPosition(list, list[i])] = list[i]
    BY <1>2, LastPositionExists
<1> QED
    BY <1>1, <1>3 DEF NoDuplicates, IsInjective

-------------------------------------------------------------------------------
(***************************************************************************)
(* Sums.  SumFunctionOnSet is a recursive function on the subsets of a     *)
(* finite set.  That it obeys its own equation, and then what it yields,   *)
(* is shown by induction over these subsets: of the subsets a claim fails  *)
(* for, if any, one is smallest.                                           *)
(***************************************************************************)

\* A set of subsets of a finite set has a smallest member.
LEMMA SmallestSubset ==
    ASSUME NEW S, IsFiniteSet(S), NEW D \in SUBSET (SUBSET S), D # {}
    PROVE  \E T \in D : \A U \in D : U \subseteq T => U = T
<1>1. IsWellFoundedOn(StrictSubsetOrdering(S), SUBSET S)
    BY FS_StrictSubsetOrderingWellFounded, FS_FiniteSubsetsOfFinite
<1>2. PICK T \in D : \A U \in D : ~ (<<U, T>> \in StrictSubsetOrdering(S))
    BY <1>1, WFMin
<1>3. ASSUME NEW U \in D, U \subseteq T PROVE U = T
    BY <1>2, <1>3 DEF StrictSubsetOrdering
<1> QED
    BY <1>3

\* The element the recursion takes out of a set.
Some(s) == CHOOSE x \in s : TRUE

\* g maps each subset of T to the sum of f over it.
SumTable(g, f, T) ==
    g = [s \in SUBSET T |-> IF s = {} THEN 0 ELSE f[Some(s)] + g[s \ {Some(s)}]]

\* It is one of them.
LEMMA SomeIn == ASSUME NEW s, s # {} PROVE Some(s) \in s
    BY DEF Some

\* An entry of such a table, from that of a smaller subset.
LEMMA TableEntry ==
    ASSUME NEW f, NEW T, NEW g, SumTable(g, f, T), NEW s \in SUBSET T
    PROVE  g[s] = IF s = {} THEN 0 ELSE f[Some(s)] + g[s \ {Some(s)}]
<1> DEFINE e(h) == [u \in SUBSET T |-> IF u = {} THEN 0 ELSE f[Some(u)] + h[u \ {Some(u)}]]
<1>1. g = e(g)
    BY DEF SumTable
<1>2. e(g)[s] = IF s = {} THEN 0 ELSE f[Some(s)] + g[s \ {Some(s)}]
    OBVIOUS
<1> HIDE DEF e
<1> QED
    BY <1>1, <1>2

\* Two tables hold the same sums, where both have them.
LEMMA TablesAgree ==
    ASSUME NEW S, IsFiniteSet(S), NEW f, NEW T \in SUBSET S, NEW U \in SUBSET T,
           NEW g, SumTable(g, f, T), NEW h, SumTable(h, f, U)
    PROVE  \A s \in SUBSET U : g[s] = h[s]
<1> DEFINE D == {s \in SUBSET U : g[s] # h[s]}
<1> SUFFICES ASSUME D # {} PROVE FALSE
    OBVIOUS
<1>1. PICK s \in D : \A r \in D : r \subseteq s => r = s
    <2>1. D \in SUBSET (SUBSET S)
        OBVIOUS
    <2> HIDE DEF D
    <2> QED
        BY <2>1, SmallestSubset
<1>2. /\ g[s] = IF s = {} THEN 0 ELSE f[Some(s)] + g[s \ {Some(s)}]
      /\ h[s] = IF s = {} THEN 0 ELSE f[Some(s)] + h[s \ {Some(s)}]
    BY TableEntry
<1>3. s # {}
    BY <1>2
<1>4. s \ {Some(s)} \notin D
    BY <1>1, <1>3, SomeIn
<1>5. g[s \ {Some(s)}] = h[s \ {Some(s)}]
    BY <1>4
<1> QED
    BY <1>2, <1>3, <1>5

\* The table exists: an entry is taken from a table for a smaller set.
LEMMA TableExists ==
    ASSUME NEW S, IsFiniteSet(S), NEW f
    PROVE  \E g : SumTable(g, f, S)
<1> DEFINE D == {T \in SUBSET S : ~ \E g : SumTable(g, f, T)}
<1> SUFFICES ASSUME D # {} PROVE FALSE
    OBVIOUS
<1>1. PICK T \in D : \A U \in D : U \subseteq T => U = T
    <2>1. D \in SUBSET (SUBSET S)
        OBVIOUS
    <2> HIDE DEF D
    <2> QED
        BY <2>1, SmallestSubset
<1> DEFINE h(U) == CHOOSE g : SumTable(g, f, U)
           k == [s \in SUBSET T |->
                    IF s = {} THEN 0 ELSE f[Some(s)] + h(s \ {Some(s)})[s \ {Some(s)}]]
<1>2. ASSUME NEW U \in SUBSET T, U # T PROVE SumTable(h(U), f, U)
    <2>1. \E g : SumTable(g, f, U)
        BY <1>1, <1>2
    <2> QED
        BY <2>1
<1> HIDE DEF h
<1>3. ASSUME NEW s \in SUBSET T, s # {} PROVE k[s \ {Some(s)}] = h(s \ {Some(s)})[s \ {Some(s)}]
    <2> DEFINE r == s \ {Some(s)}
               q == r \ {Some(r)}
    <2>1. r \in SUBSET T /\ r # T /\ q \in SUBSET T /\ q # T /\ q \in SUBSET r
        BY <1>3, SomeIn
    <2>2. SumTable(h(r), f, r) /\ SumTable(h(q), f, q)
        BY <1>2, <2>1
    <2>3. h(r)[r] = IF r = {} THEN 0 ELSE f[Some(r)] + h(r)[q]
        <3>1. r \in SUBSET r
            OBVIOUS
        <3> HIDE DEF r
        <3> QED
            BY <2>2, <3>1, TableEntry
    <2>4. k[r] = IF r = {} THEN 0 ELSE f[Some(r)] + h(q)[q]
        BY <2>1
    <2>5. h(r)[q] = h(q)[q]
        <3>1. r \in SUBSET S
            BY <2>1
        <3> HIDE DEF q, r
        <3> QED
            BY <2>1, <2>2, <3>1, TablesAgree
    <2> QED
        BY <2>3, <2>4, <2>5
<1>4. k = [s \in SUBSET T |-> IF s = {} THEN 0 ELSE f[Some(s)] + k[s \ {Some(s)}]]
    BY <1>3
<1>5. SumTable(k, f, T)
    BY <1>4 DEF SumTable
<1> QED
    BY <1>5

\* The community modules' sum is an entry of such a table.
LEMMA SumIsTable ==
    ASSUME NEW S, IsFiniteSet(S), NEW f
    PROVE  \E g : SumTable(g, f, S) /\ SumFunctionOnSet(f, S) = g[S]
<1>1. SumFunctionOnSet(f, S) = (CHOOSE g : SumTable(g, f, S))[S]
    BY DEF SumFunctionOnSet, FoldFunctionOnSet, MapThenFoldSet, SumTable, Some
<1> QED
    BY <1>1, TableExists

\* The sum over no element.
LEMMA SumOfNone ==
    ASSUME NEW f
    PROVE  SumFunctionOnSet(f, {}) = 0
<1>1. PICK g : SumTable(g, f, {}) /\ SumFunctionOnSet(f, {}) = g[{}]
    BY SumIsTable, FS_EmptySet
<1> QED
    BY <1>1, TableEntry

\* The equation by which the sum is defined.
LEMMA SumOfSome ==
    ASSUME NEW S, IsFiniteSet(S), S # {}, NEW f
    PROVE  SumFunctionOnSet(f, S) = f[Some(S)] + SumFunctionOnSet(f, S \ {Some(S)})
<1> DEFINE r == S \ {Some(S)}
<1>1. r \in SUBSET S /\ IsFiniteSet(r)
    BY FS_Subset
<1>2. PICK g : SumTable(g, f, S) /\ SumFunctionOnSet(f, S) = g[S]
    BY SumIsTable
<1>3. PICK h : SumTable(h, f, r) /\ SumFunctionOnSet(f, r) = h[r]
    BY <1>1, SumIsTable
<1>4. S \in SUBSET S /\ r \in SUBSET r
    OBVIOUS
<1>5. g[S] = f[Some(S)] + g[r]
    BY <1>2, <1>4, TableEntry
<1> HIDE DEF r
<1>6. g[r] = h[r]
    BY <1>1, <1>2, <1>3, <1>4, TablesAgree
<1> QED
    BY <1>2, <1>3, <1>5, <1>6 DEF r

\* A sum of integers is an integer.
LEMMA SumType ==
    ASSUME NEW S, IsFiniteSet(S), NEW f, \A x \in S : f[x] \in Int
    PROVE  SumFunctionOnSet(f, S) \in Int
<1> DEFINE D == {T \in SUBSET S : SumFunctionOnSet(f, T) \notin Int}
<1> SUFFICES ASSUME D # {} PROVE FALSE
    OBVIOUS
<1>1. PICK T \in D : \A U \in D : U \subseteq T => U = T
    <2>1. D \in SUBSET (SUBSET S)
        OBVIOUS
    <2> HIDE DEF D
    <2> QED
        BY <2>1, SmallestSubset
<1>2. T # {}
    BY SumOfNone
<1>3. IsFiniteSet(T) /\ Some(T) \in T
    BY <1>2, SomeIn, FS_Subset
<1>4. SumFunctionOnSet(f, T) = f[Some(T)] + SumFunctionOnSet(f, T \ {Some(T)})
    BY <1>2, <1>3, SumOfSome
<1>5. SumFunctionOnSet(f, T \ {Some(T)}) \in Int
    BY <1>1, <1>3
<1> QED
    BY <1>3, <1>4, <1>5

\* Any element may be taken out first.
LEMMA SumWithout ==
    ASSUME NEW S, IsFiniteSet(S), NEW f, \A x \in S : f[x] \in Int, NEW a \in S
    PROVE  SumFunctionOnSet(f, S) = f[a] + SumFunctionOnSet(f, S \ {a})
<1> DEFINE Splits(T) == \A x \in T : SumFunctionOnSet(f, T) = f[x] + SumFunctionOnSet(f, T \ {x})
           D == {T \in SUBSET S : ~ Splits(T)}
<1> SUFFICES ASSUME D # {} PROVE FALSE
    OBVIOUS
<1>1. PICK T \in D : \A U \in D : U \subseteq T => U = T
    <2>1. D \in SUBSET (SUBSET S)
        OBVIOUS
    <2> HIDE DEF D
    <2> QED
        BY <2>1, SmallestSubset
<1>2. PICK x \in T : SumFunctionOnSet(f, T) # f[x] + SumFunctionOnSet(f, T \ {x})
    BY <1>1
<1> DEFINE c == Some(T)
<1>3. c \in T /\ T \subseteq S
    BY <1>1, <1>2, SomeIn
<1>4. \A U \in SUBSET S : IsFiniteSet(U) /\ SumFunctionOnSet(f, U) \in Int
    BY FS_Subset, SumType
<1>5. SumFunctionOnSet(f, T) = f[c] + SumFunctionOnSet(f, T \ {c})
    BY <1>3, <1>4, SumOfSome
<1>6. x # c
    BY <1>2, <1>5
<1> HIDE DEF c
<1>7. Splits(T \ {c}) /\ Splits(T \ {x})
    BY <1>1, <1>3
<1>8. SumFunctionOnSet(f, T \ {c}) = f[x] + SumFunctionOnSet(f, (T \ {c}) \ {x})
    BY <1>3, <1>6, <1>7
<1>9. SumFunctionOnSet(f, T \ {x}) = f[c] + SumFunctionOnSet(f, (T \ {x}) \ {c})
    BY <1>3, <1>6, <1>7
<1>10. (T \ {c}) \ {x} = (T \ {x}) \ {c}
    OBVIOUS
<1>11. /\ SumFunctionOnSet(f, (T \ {x}) \ {c}) \in Int
       /\ f[x] \in Int /\ f[c] \in Int
    BY <1>3, <1>4
<1>12. SumFunctionOnSet(f, T) = f[c] + (f[x] + SumFunctionOnSet(f, (T \ {x}) \ {c}))
    BY <1>5, <1>8, <1>10
<1> HIDE DEF D, Splits
<1> QED
    BY <1>2, <1>9, <1>11, <1>12

\* The sum depends on the values alone.
LEMMA SumSame ==
    ASSUME NEW S, IsFiniteSet(S), NEW f, NEW g, \A x \in S : f[x] = g[x]
    PROVE  SumFunctionOnSet(f, S) = SumFunctionOnSet(g, S)
<1>1. \A t : SumTable(t, f, S) <=> SumTable(t, g, S)
    <2> TAKE t
    <2>1. [s \in SUBSET S |-> IF s = {} THEN 0 ELSE f[Some(s)] + t[s \ {Some(s)}]]
            = [s \in SUBSET S |-> IF s = {} THEN 0 ELSE g[Some(s)] + t[s \ {Some(s)}]]
        BY SomeIn
    <2> QED
        BY <2>1 DEF SumTable
<1>2. PICK t : SumTable(t, f, S) /\ SumFunctionOnSet(f, S) = t[S]
    BY SumIsTable
<1>3. PICK u : SumTable(u, g, S) /\ SumFunctionOnSet(g, S) = u[S]
    BY SumIsTable
<1>4. t[S] = u[S]
    BY <1>1, <1>2, <1>3, TablesAgree
<1> QED
    BY <1>2, <1>3, <1>4

\* A sum of naturals is a natural, and no less than any of them.
LEMMA SumBounds ==
    ASSUME NEW S, IsFiniteSet(S), NEW f, \A x \in S : f[x] \in Nat
    PROVE  /\ SumFunctionOnSet(f, S) \in Nat
           /\ \A x \in S : f[x] <= SumFunctionOnSet(f, S)
<1> DEFINE D == {T \in SUBSET S : SumFunctionOnSet(f, T) \notin Nat}
<1>1. \A U \in SUBSET S : IsFiniteSet(U) /\ SumFunctionOnSet(f, U) \in Int
    BY FS_Subset, SumType
<1>2. ASSUME D # {} PROVE FALSE
    <2>1. PICK T \in D : \A U \in D : U \subseteq T => U = T
        <3>1. D \in SUBSET (SUBSET S)
            OBVIOUS
        <3> HIDE DEF D
        <3> QED
            BY <1>2, <3>1, SmallestSubset
    <2>2. T # {} /\ T \subseteq S
        BY SumOfNone
    <2>3. SumFunctionOnSet(f, T) = f[Some(T)] + SumFunctionOnSet(f, T \ {Some(T)})
        BY <1>1, <2>2, SumOfSome
    <2>4. Some(T) \in T /\ SumFunctionOnSet(f, T \ {Some(T)}) \in Nat
        BY <2>1, <2>2, SomeIn
    <2> QED
        BY <2>2, <2>3, <2>4
<1>3. \A U \in SUBSET S : SumFunctionOnSet(f, U) \in Nat
    BY <1>2
<1>4. ASSUME NEW x \in S PROVE f[x] <= SumFunctionOnSet(f, S)
    <2>1. \A y \in S : f[y] \in Int
        OBVIOUS
    <2>2. SumFunctionOnSet(f, S) = f[x] + SumFunctionOnSet(f, S \ {x})
        BY <2>1, SumWithout
    <2>3. SumFunctionOnSet(f, S \ {x}) \in Nat /\ f[x] \in Nat
        BY <1>3
    <2> QED
        BY <2>2, <2>3
<1> QED
    BY <1>3, <1>4

\* Changing one value changes the sum by as much.
LEMMA SumUpdate ==
    ASSUME NEW S, IsFiniteSet(S), NEW f \in [S -> Int], NEW g \in [S -> Int], NEW a \in S,
           \A x \in S \ {a} : g[x] = f[x]
    PROVE  /\ SumFunction(f) \in Int
           /\ SumFunction(g) = SumFunction(f) - f[a] + g[a]
<1> DEFINE rest == S \ {a}
<1>1. IsFiniteSet(rest)
    BY FS_Subset
<1>2. SumFunctionOnSet(f, S) = f[a] + SumFunctionOnSet(f, rest)
    BY SumWithout
<1>3. SumFunctionOnSet(g, S) = g[a] + SumFunctionOnSet(g, rest)
    BY SumWithout
<1>4. SumFunctionOnSet(g, rest) = SumFunctionOnSet(f, rest)
    BY <1>1, SumSame
<1>5. SumFunctionOnSet(f, rest) \in Int
    BY <1>1, SumType
<1>6. DOMAIN f = S /\ DOMAIN g = S /\ f[a] \in Int /\ g[a] \in Int
    OBVIOUS
<1> QED
    BY <1>2, <1>3, <1>4, <1>5, <1>6 DEF SumFunction

\* The same, by the change.
LEMMA SumChanged ==
    ASSUME NEW S, IsFiniteSet(S), NEW f \in [S -> Int], NEW g \in [S -> Int], NEW a \in S,
           NEW d \in Int, g[a] = f[a] + d, \A x \in S \ {a} : g[x] = f[x]
    PROVE  SumFunction(g) = SumFunction(f) + d
<1>1. SumFunction(f) \in Int /\ SumFunction(g) = SumFunction(f) - f[a] + g[a]
    BY SumUpdate
<1> QED
    BY <1>1

\* Every value the same.
LEMMA SumOfZeros ==
    ASSUME NEW S, IsFiniteSet(S)
    PROVE  SumFunction([x \in S |-> 0]) = 0
<1> DEFINE f == [x \in S |-> 0]
           D == {T \in SUBSET S : SumFunctionOnSet(f, T) # 0}
<1>1. ASSUME D # {} PROVE FALSE
    <2>1. PICK T \in D : \A U \in D : U \subseteq T => U = T
        <3>1. D \in SUBSET (SUBSET S)
            OBVIOUS
        <3> HIDE DEF D
        <3> QED
            BY <1>1, <3>1, SmallestSubset
    <2>2. T # {} /\ T \subseteq S /\ IsFiniteSet(T)
        BY SumOfNone, FS_Subset
    <2>3. SumFunctionOnSet(f, T) = f[Some(T)] + SumFunctionOnSet(f, T \ {Some(T)})
        BY <2>2, SumOfSome
    <2>4. Some(T) \in T /\ SumFunctionOnSet(f, T \ {Some(T)}) = 0
        BY <2>1, <2>2, SomeIn
    <2> QED
        BY <2>2, <2>3, <2>4
<1>2. SumFunctionOnSet(f, S) = 0
    BY <1>1
<1> QED
    BY <1>2 DEF SumFunction

\* One value only that is not zero.
LEMMA SumOfOne ==
    ASSUME NEW S, IsFiniteSet(S), NEW a \in S, NEW n \in Int
    PROVE  SumFunction([x \in S |-> IF x = a THEN n ELSE 0]) = n
<1> DEFINE zeros == [x \in S |-> 0]
<1>1. zeros \in [S -> Int] /\ zeros[a] = 0
    OBVIOUS
<1> DEFINE one == [x \in S |-> IF x = a THEN n ELSE 0]
<1>2. one \in [S -> Int] /\ one[a] = n /\ \A x \in S \ {a} : one[x] = zeros[x]
    OBVIOUS
<1>3. SumFunction(zeros) = 0
    BY SumOfZeros
<1> HIDE DEF zeros, one
<1>4. SumFunction(one) = SumFunction(zeros) - zeros[a] + one[a]
    BY <1>1, <1>2, SumUpdate
<1> QED
    BY <1>1, <1>2, <1>3, <1>4 DEF one

\* Moving an amount from one to another keeps the sum.
LEMMA SumOfMove ==
    ASSUME NEW S, IsFiniteSet(S), NEW f \in [S -> Int], NEW g \in [S -> Int],
           NEW a \in S, NEW b \in S, a # b,
           \A x \in S \ {a, b} : g[x] = f[x],
           g[a] + g[b] = f[a] + f[b]
    PROVE  SumFunction(g) = SumFunction(f)
<1> DEFINE half == [f EXCEPT ![a] = g[a]]
<1>1. /\ half \in [S -> Int] /\ half[a] = g[a] /\ half[b] = f[b]
      /\ \A x \in S \ {a} : half[x] = f[x]
      /\ \A x \in S \ {b} : g[x] = half[x]
    OBVIOUS
<1> HIDE DEF half
<1>2. SumFunction(f) \in Int /\ SumFunction(half) = SumFunction(f) - f[a] + half[a]
    BY <1>1, SumUpdate
<1>3. SumFunction(g) = SumFunction(half) - half[b] + g[b]
    BY <1>1, SumUpdate
<1>4. f[a] \in Int /\ f[b] \in Int /\ g[a] \in Int /\ g[b] \in Int
    OBVIOUS
<1> QED
    BY <1>1, <1>2, <1>3, <1>4

\* A sequence of integers that grows by one.
LEMMA SumOfLonger ==
    ASSUME NEW n \in Nat, NEW f \in [1 .. n -> Int], NEW g \in [1 .. n + 1 -> Int],
           \A i \in 1 .. n : g[i] = f[i]
    PROVE  SumFunction(g) = SumFunction(f) + g[n + 1]
<1>1. IsFiniteSet(1 .. n) /\ IsFiniteSet(1 .. n + 1)
    <2>1. 1 \in Int /\ n \in Int /\ n + 1 \in Int
        OBVIOUS
    <2> QED
        BY <2>1, FS_Interval
<1>2. (1 .. n + 1) \ {n + 1} = 1 .. n /\ n + 1 \in 1 .. n + 1
    OBVIOUS
<1>3. SumFunctionOnSet(g, 1 .. n + 1) = g[n + 1] + SumFunctionOnSet(g, 1 .. n)
    <2>1. \A i \in 1 .. n + 1 : g[i] \in Int
        OBVIOUS
    <2>2. SumFunctionOnSet(g, 1 .. n + 1) =
              g[n + 1] + SumFunctionOnSet(g, (1 .. n + 1) \ {n + 1})
        BY <1>1, <1>2, <2>1, SumWithout
    <2> QED
        BY <1>2, <2>2
<1>4. SumFunctionOnSet(g, 1 .. n) = SumFunctionOnSet(f, 1 .. n)
    BY <1>1, SumSame
<1>5. SumFunctionOnSet(f, 1 .. n) \in Int
    BY <1>1, SumType
<1>6. DOMAIN f = 1 .. n /\ DOMAIN g = 1 .. n + 1 /\ g[n + 1] \in Int
    BY <1>2
<1> QED
    BY <1>3, <1>4, <1>5, <1>6 DEF SumFunction

-------------------------------------------------------------------------------
(***************************************************************************)
(* Places in a log that grows at its end.                                  *)
(***************************************************************************)

\* Places of a log of length n are finitely many; a new one is the last of them.
LEMMA RankOfNew ==
    ASSUME NEW n \in Nat, NEW places \in SUBSET (1 .. n)
    PROVE  /\ IsFiniteSet(places)
           /\ Cardinality(places) \in Nat
           /\ Cardinality(places \cup {n + 1}) = Cardinality(places) + 1
           /\ Rank(places \cup {n + 1}, n + 1) = Cardinality(places) + 1
<1>1. IsFiniteSet(places) /\ Cardinality(places) \in Nat
    <2>1. IsFiniteSet(1 .. n)
        <3>1. 1 \in Int /\ n \in Int
            OBVIOUS
        <3> QED
            BY <3>1, FS_Interval
    <2> QED
        BY <2>1, FS_Subset, FS_CardinalityType
<1>2. \A j \in places : j \in Int /\ j <= n /\ j # n + 1
    OBVIOUS
<1>3. Cardinality(places \cup {n + 1}) = Cardinality(places) + 1
    BY <1>1, <1>2, FS_AddElement
<1>4. {j \in places \cup {n + 1} : j <= n + 1} = places \cup {n + 1}
    <2>1. \A j \in places \cup {n + 1} : j <= n + 1
        BY <1>2
    <2> QED
        BY <2>1
<1> QED
    BY <1>1, <1>3, <1>4 DEF Rank

\* The rank of an older place stays.
LEMMA RankOfOld ==
    ASSUME NEW n \in Nat, NEW places \in SUBSET (1 .. n), NEW i \in 1 .. n
    PROVE  Rank(places \cup {n + 1}, i) = Rank(places, i)
<1>1. {j \in places \cup {n + 1} : j <= i} = {j \in places : j <= i}
    OBVIOUS
<1> QED
    BY <1>1 DEF Rank

\* A rank is a number of elements, at least one and at most all.
LEMMA RankBounds ==
    ASSUME NEW n \in Nat, NEW places \in SUBSET (1 .. n), NEW i \in places
    PROVE  Rank(places, i) \in 1 .. Cardinality(places)
<1> DEFINE upto == {j \in places : j <= i}
<1>1. IsFiniteSet(places) /\ Cardinality(places) \in Nat
    BY RankOfNew
<1>2. upto \in SUBSET places /\ i \in upto
    OBVIOUS
<1> HIDE DEF upto
<1>3. IsFiniteSet(upto) /\ Cardinality(upto) \in Nat /\ Cardinality(upto) <= Cardinality(places)
    BY <1>1, <1>2, FS_Subset, FS_CardinalityType
<1>4. Cardinality(upto) # 0
    BY <1>2, <1>3, FS_EmptySet
<1> QED
    BY <1>1, <1>3, <1>4 DEF Rank, upto
===============================================================================
