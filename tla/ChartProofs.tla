------------------------------ MODULE ChartProofs -----------------------------
(***************************************************************************)
(* What browsers are answered from a database that grows: a client that    *)
(* follows the pages of history or latest reads what it asked for, and a   *)
(* chart's answer is true to the states it was read from, for any          *)
(* snapshots, requests, pages, windows and limits.                         *)
(*                                                                         *)
(* A walk's invariant says what the key a page hands on still stands for:  *)
(* what was stored at the start and is not ahead of the key has been read, *)
(* and what is ahead of it comes after all that was.                       *)
(*                                                                         *)
(* A chart is asked for once and answered from many transactions.  Its     *)
(* invariant says that the windows it has yet to read tile the axis past   *)
(* the ones it has read, that each series so far is a line through rows    *)
(* that were there when it was asked for, or came since, without one that  *)
(* the window it read should have had, and that a line which is sampled or *)
(* joined to the next window's stays one.                                  *)
(***************************************************************************)
EXTENDS Charts, FiniteSetTheorems, WellFoundedInduction, SequenceTheorems, TLAPS

-------------------------------------------------------------------------------
(* Sets in the order of a key.                                             *)

(* The key tells the elements of S apart.                                  *)
Keyed(S, key) ==
  /\ \A i \in S : key[i] \in Int
  /\ \A i, j \in S : key[i] = key[j] => i = j

Sorted(s, key) == \A j, k \in DOMAIN s : j < k => key[s[j]] < key[s[k]]

(* The first k of a sorted sequence are k.                                 *)
LEMMA SortedCounts ==
  ASSUME NEW n \in Nat, NEW S, NEW key, NEW s \in [1 .. n -> S], Sorted(s, key),
         Keyed(S, key), NEW k \in 0 .. n, NEW T, T = {s[q] : q \in 1 .. k}
  PROVE  IsFiniteSet(T) /\ Cardinality(T) = k
<1> DEFINE f == [q \in 1 .. k |-> s[q]]
<1>1. f \in [1 .. k -> T]
  OBVIOUS
<1>2. ASSUME NEW p \in 1 .. k, NEW q \in 1 .. k, f[p] = f[q] PROVE p = q
  <2>1. key[s[p]] = key[s[q]] /\ key[s[p]] \in Int
    BY <1>2 DEF Keyed
  <2>2. ~(p < q) /\ ~(q < p)
    BY <2>1 DEF Sorted
  <2> QED BY <2>2
<1>3. \A t \in T : \E q \in 1 .. k : f[q] = t
  OBVIOUS
<1>4. f \in Bijection(1 .. k, T)
  BY <1>1, <1>2, <1>3 DEF Bijection, Injection, Surjection, IsInjective
<1> HIDE DEF f
<1>5. ExistsBijection(1 .. k, T)
  BY <1>4 DEF ExistsBijection
<1>6. k \in Nat
  OBVIOUS
<1>8. IsFiniteSet(T)
  BY <1>5, <1>6, FS_NatBijection
<1> QED BY <1>5, <1>6, <1>8, FS_CountingElements

(* One more than come before it.                                           *)
PlaceIn(S, key, i) == Cardinality({j \in S : key[j] < key[i]}) + 1

LEMMA RankIs ==
  ASSUME NEW S, IsFiniteSet(S), NEW key, Keyed(S, key), NEW i \in S
  PROVE  /\ PlaceIn(S, key, i) \in 1 .. Cardinality(S)
         /\ \A j \in S : key[i] < key[j] => PlaceIn(S, key, i) < PlaceIn(S, key, j)
<1> DEFINE Below(j) == {h \in S : key[h] < key[j]}
<1>0. Cardinality(S) \in Nat
  BY FS_CardinalityType
<1>1. ASSUME NEW j \in S
      PROVE /\ IsFiniteSet(Below(j)) /\ Cardinality(Below(j)) \in Nat
            /\ Cardinality(Below(j)) < Cardinality(S)
  <2>1. Below(j) \subseteq S /\ j \notin Below(j)
    BY DEF Keyed
  <2>2. /\ IsFiniteSet(Below(j)) /\ Cardinality(Below(j)) <= Cardinality(S)
        /\ Cardinality(Below(j)) = Cardinality(S) => Below(j) = S
    BY <2>1, FS_Subset
  <2> HIDE DEF Below
  <2>3. Cardinality(Below(j)) \in Nat
    BY <2>2, FS_CardinalityType
  <2> QED BY <2>1, <2>2, <2>3, <1>0
<1>2. Cardinality(Below(i)) + 1 \in 1 .. Cardinality(S)
  <2> HIDE DEF Below
  <2> QED BY <1>0, <1>1
<1>3. ASSUME NEW j \in S, key[i] < key[j] PROVE Cardinality(Below(i)) < Cardinality(Below(j))
  <2>1. Below(i) \subseteq Below(j) /\ i \in Below(j) /\ i \notin Below(i)
    BY <1>3 DEF Keyed
  <2>2. IsFiniteSet(Below(j)) /\ Cardinality(Below(j)) \in Nat /\ Cardinality(Below(i)) \in Nat
    BY <1>1
  <2> HIDE DEF Below
  <2>3. /\ Cardinality(Below(i)) <= Cardinality(Below(j))
        /\ Cardinality(Below(j)) = Cardinality(Below(i)) => Below(j) = Below(i)
    BY <2>1, <2>2, FS_Subset
  <2> QED BY <2>1, <2>2, <2>3
<1>4. \A j \in S : Cardinality(Below(j)) \in Nat
  BY <1>1
<1>5. PlaceIn(S, key, i) = Cardinality(Below(i)) + 1 /\ \A j \in S : PlaceIn(S, key, j) = Cardinality(Below(j)) + 1
  BY DEF PlaceIn
<1> HIDE DEF Below
<1> QED BY <1>2, <1>3, <1>4, <1>5

LEMMA OrderedByIs ==
  ASSUME NEW S, IsFiniteSet(S), NEW key, Keyed(S, key)
  PROVE  /\ Cardinality(S) \in Nat
         /\ OrderedBy(S, key) \in [1 .. Cardinality(S) -> S]
         /\ Sorted(OrderedBy(S, key), key)
         /\ \A i \in S : \E k \in 1 .. Cardinality(S) : OrderedBy(S, key)[k] = i
<1> DEFINE n == Cardinality(S)
           r == [i \in S |-> PlaceIn(S, key, i)]
           t == [k \in 1 .. n |-> CHOOSE i \in S : r[i] = k]
           o == OrderedBy(S, key)
<1>0. n \in Nat /\ IsFiniteSet(1 .. n) /\ Cardinality(1 .. n) = n
  BY FS_CardinalityType, FS_Interval
<1>1. r \in [S -> 1 .. n]
  BY RankIs
<1>2. \A i, j \in S : key[i] < key[j] => r[i] < r[j]
  BY RankIs
<1>3. ASSUME NEW i \in S, NEW j \in S, r[i] = r[j] PROVE i = j
  <2>1. r[i] \in Int /\ r[j] \in Int
    BY <1>1, <1>0
  <2>2. ~(key[i] < key[j]) /\ ~(key[j] < key[i])
    BY <1>2, <2>1, <1>3
  <2> QED BY <2>2 DEF Keyed
<1>4. r \in Surjection(S, 1 .. n)
  <2>1. r \in Injection(S, 1 .. n)
    BY <1>1, <1>3 DEF Injection, IsInjective
  <2> QED BY <2>1, <1>0, FS_Injection
<1>5. \A k \in 1 .. n : t[k] \in S /\ r[t[k]] = k
  BY <1>4 DEF Surjection
<1>6. t \in [1 .. n -> S]
  BY <1>5
<1>7. ASSUME NEW j \in 1 .. n, NEW k \in 1 .. n, j < k PROVE key[t[j]] < key[t[k]]
  <2>1. /\ t[j] \in S /\ t[k] \in S /\ r[t[j]] = j /\ r[t[k]] = k
    BY <1>5
  <2>2. ~(key[t[k]] < key[t[j]])
    BY <1>2, <2>1, <1>7, <1>0
  <2>3. t[k] # t[j]
    BY <2>1, <1>7
  <2>4. key[t[k]] # key[t[j]]
    BY <2>1, <2>3 DEF Keyed
  <2> HIDE DEF t, r
  <2> QED BY <2>1, <2>2, <2>4 DEF Keyed
<1>8. o = t
  <2>1. \A k \in 1 .. n, i \in S : r[i] = k <=> Cardinality({j \in S : key[j] < key[i]}) = k - 1
    <3> SUFFICES ASSUME NEW k \in 1 .. n, NEW i \in S
                 PROVE  r[i] = k <=> Cardinality({j \in S : key[j] < key[i]}) = k - 1
      OBVIOUS
    <3>1. r[i] = Cardinality({j \in S : key[j] < key[i]}) + 1
      BY DEF PlaceIn
    <3>2. Cardinality({j \in S : key[j] < key[i]}) \in Nat
      <4>1. {j \in S : key[j] < key[i]} \subseteq S
        OBVIOUS
      <4> QED BY <4>1, FS_Subset, FS_CardinalityType
    <3> HIDE DEF r
    <3> QED BY <3>1, <3>2, <1>0
  <2> QED BY <2>1 DEF OrderedBy
<1>9. o \in [1 .. n -> S] /\ \A j, k \in DOMAIN o : j < k => key[o[j]] < key[o[k]]
  <2> HIDE DEF t, o
  <2> QED BY <1>6, <1>7, <1>8
<1> HIDE DEF o, r, t
<1>10. ASSUME NEW p \in 1 .. n, NEW q \in 1 .. n, o[p] = o[q] PROVE p = q
  <2>1. key[o[p]] = key[o[q]] /\ key[o[p]] \in Int
    BY <1>10, <1>9 DEF Keyed
  <2>2. ~(p < q) /\ ~(q < p)
    BY <2>1, <1>9
  <2> QED BY <2>2, <1>0
<1>11. o \in Surjection(1 .. n, S)
  <2>1. o \in Injection(1 .. n, S)
    BY <1>9, <1>10 DEF Injection, IsInjective
  <2> QED BY <2>1, <1>0, FS_Injection
<1> QED BY <1>0, <1>9, <1>11 DEF o, Surjection, Sorted

(* A finite set has a last element, and one of numbers a largest.          *)
LEMMA LastExists ==
  ASSUME NEW S, IsFiniteSet(S), S # {}, NEW key, Keyed(S, key)
  PROVE  \E i \in S : \A j \in S : key[j] <= key[i]
<1> DEFINE n == Cardinality(S)
           s == OrderedBy(S, key)
<1>1. /\ n \in Nat /\ s \in [1 .. n -> S] /\ Sorted(s, key)
      /\ \A i \in S : \E k \in 1 .. n : s[k] = i
  BY OrderedByIs
<1> HIDE DEF n, s
<1>2. n \in 1 .. n
  <2>1. PICK i \in S : TRUE
    OBVIOUS
  <2> QED BY <1>1, <2>1
<1>3. \A k \in 1 .. n : key[s[k]] <= key[s[n]]
  <2> SUFFICES ASSUME NEW k \in 1 .. n PROVE key[s[k]] <= key[s[n]]
    OBVIOUS
  <2>1. s[k] \in S /\ s[n] \in S /\ key[s[k]] \in Int /\ key[s[n]] \in Int
    BY <1>1, <1>2 DEF Keyed
  <2>2. k < n => key[s[k]] < key[s[n]]
    BY <1>1, <1>2 DEF Sorted
  <2>3. k = n \/ k < n
    BY <1>1
  <2> QED BY <2>1, <2>2, <2>3
<1> QED BY <1>1, <1>2, <1>3

LEMMA LargestExists ==
  ASSUME NEW S, IsFiniteSet(S), S # {}, S \subseteq Int
  PROVE  \E i \in S : \A j \in S : j <= i
<1> DEFINE key == [i \in S |-> i]
<1>1. Keyed(S, key)
  BY DEF Keyed
<1>2. \E i \in S : \A j \in S : key[j] <= key[i]
  <2> HIDE DEF key
  <2> QED BY <1>1, LastExists
<1> QED BY <1>2

LEMMA SmallestExists ==
  ASSUME NEW S, IsFiniteSet(S), S # {}, S \subseteq Int
  PROVE  \E i \in S : \A j \in S : i <= j
<1> DEFINE key == [i \in S |-> -i]
<1>1. Keyed(S, key)
  BY DEF Keyed
<1>2. PICK i \in S : \A j \in S : key[j] <= key[i]
  <2> HIDE DEF key
  <2> QED BY <1>1, LastExists
<1>3. ASSUME NEW j \in S PROVE i <= j
  <2>1. -j <= -i
    BY <1>2
  <2> QED BY <2>1
<1> QED BY <1>3

(* A sorted sequence of the first elements of S is a prefix of S ordered.  *)
LEMMA SortedPrefix ==
  ASSUME NEW S, IsFiniteSet(S), NEW key, Keyed(S, key),
         NEW n \in Nat, NEW s \in [1 .. n -> S], Sorted(s, key),
         \A i \in S, k \in 1 .. n : key[i] <= key[s[k]] => \E q \in 1 .. n : s[q] = i
  PROVE  /\ n <= Cardinality(S)
         /\ \A k \in 1 .. n : s[k] = OrderedBy(S, key)[k]
         /\ (\A i \in S : \E q \in 1 .. n : s[q] = i) => n = Cardinality(S)
<1> DEFINE m == Cardinality(S)
           o == OrderedBy(S, key)
<1>1. /\ m \in Nat /\ o \in [1 .. m -> S] /\ Sorted(o, key)
      /\ \A i \in S : \E k \in 1 .. m : o[k] = i
  BY OrderedByIs
<1>2. \A i \in S : key[i] \in Int
  BY DEF Keyed
<1> DEFINE R == {s[q] : q \in 1 .. n}
<1>3. R \subseteq S /\ ((\A i \in S : \E q \in 1 .. n : s[q] = i) => R = S)
  OBVIOUS
<1>4. IsFiniteSet(R) /\ Cardinality(R) = n
  <2>1. n \in 0 .. n /\ R = {s[q] : q \in 1 .. n}
    OBVIOUS
  <2> HIDE DEF R
  <2> QED BY <2>1, SortedCounts
<1> HIDE DEF R
<1>5. n <= m
  BY <1>4, <1>3, FS_Subset
<1>6. (\A i \in S : \E q \in 1 .. n : s[q] = i) => n = m
  BY <1>4, <1>3
<1> HIDE DEF m, o
<1>7. ASSUME NEW j \in 0 .. m, NEW T, T = {o[q] : q \in 1 .. j} PROVE Cardinality(T) = j
  <2>1. m \in Nat /\ o \in [1 .. m -> S] /\ Sorted(o, key)
    BY <1>1
  <2> QED BY <1>7, <2>1, SortedCounts
<1>8. ASSUME NEW k \in 1 .. n PROVE s[k] = o[k]
  <2>1. PICK j \in 1 .. m : o[j] = s[k]
    BY <1>1
  <2> DEFINE B == {i \in S : key[i] <= key[s[k]]}
  <2>2. s[k] \in S /\ key[s[k]] \in Int
    BY <1>2
  <2>3. B = {s[q] : q \in 1 .. k}
    <3>1. ASSUME NEW i \in B PROVE i \in {s[q] : q \in 1 .. k}
      <4>1. PICK q \in 1 .. n : s[q] = i
        OBVIOUS
      <4>2. ~(k < q)
        <5>1. k < q => key[s[k]] < key[s[q]]
          BY DEF Sorted
        <5>2. key[s[q]] \in Int
          BY <1>2
        <5> QED BY <5>1, <5>2, <4>1, <2>2
      <4> QED BY <4>1, <4>2
    <3>2. ASSUME NEW q \in 1 .. k PROVE s[q] \in B
      <4>1. q < k => key[s[q]] < key[s[k]]
        BY DEF Sorted
      <4>2. q \in 1 .. n /\ s[q] \in S /\ key[s[q]] \in Int
        BY <1>2
      <4>3. q = k => key[s[q]] = key[s[k]]
        OBVIOUS
      <4> QED BY <4>1, <4>2, <4>3, <2>2
    <3> QED BY <3>1, <3>2
  <2>4. B = {o[q] : q \in 1 .. j}
    <3>1. ASSUME NEW i \in B PROVE i \in {o[q] : q \in 1 .. j}
      <4>1. PICK q \in 1 .. m : o[q] = i
        BY <1>1
      <4>2. ~(j < q)
        <5>1. j < q => key[o[j]] < key[o[q]]
          BY <1>1 DEF Sorted
        <5>2. key[o[q]] \in Int
          BY <1>1, <1>2
        <5> QED BY <5>1, <5>2, <4>1, <2>1, <2>2
      <4> QED BY <4>1, <4>2
    <3>2. ASSUME NEW q \in 1 .. j PROVE o[q] \in B
      <4>0. q \in 1 .. m /\ o[q] \in S /\ key[o[q]] \in Int
        BY <1>1, <1>2
      <4>1. q < j => key[o[q]] < key[o[j]]
        BY <1>1, <4>0 DEF Sorted
      <4>3. q = j => key[o[q]] = key[o[j]]
        OBVIOUS
      <4> QED BY <4>0, <4>1, <4>3, <2>1, <2>2
    <3> QED BY <3>1, <3>2
  <2>5. Cardinality(B) = k
    <3>1. k \in 0 .. n
      OBVIOUS
    <3> HIDE DEF B
    <3> QED BY <2>3, <3>1, SortedCounts
  <2>6. Cardinality(B) = j
    <3>1. j \in 0 .. m
      BY <1>1
    <3> HIDE DEF B
    <3> QED BY <2>4, <3>1, <1>7
  <2> QED BY <2>1, <2>5, <2>6
<1> QED BY <1>5, <1>6, <1>8 DEF m, o

-------------------------------------------------------------------------------
(* A page.                                                                 *)
LEMMA FittingIs ==
  ASSUME NEW T, NEW ids \in Seq(T), NEW limit \in Nat
  PROVE  Fitting(ids, limit) \in 0 .. Len(ids)
<1> DEFINE F == {0} \cup {k \in 1 .. AtMost(limit, Len(ids)) : Fits(ids, k)}
<1>0. Len(ids) \in Nat
  OBVIOUS
<1>1. F \subseteq 0 .. Len(ids) /\ F # {} /\ F \subseteq Int
  BY <1>0 DEF AtMost
<1>2. IsFiniteSet(F)
  <2>1. IsFiniteSet(0 .. Len(ids))
    BY <1>0, FS_Interval
  <2> HIDE DEF F
  <2> QED BY <1>1, <2>1, FS_Subset
<1> HIDE DEF F
<1>3. \E i \in F : \A j \in F : j <= i
  BY <1>1, <1>2, LargestExists
<1>4. PICK i \in F : \A j \in F : j <= i
  BY <1>3
<1>5. \A j \in F : i >= j
  BY <1>1, <1>4
<1>6. Max(F) \in F
  BY <1>4, <1>5 DEF Max
<1> QED BY <1>1, <1>6 DEF Fitting, F

(* What a page reads of the elements of W: the first of them, in order,    *)
(* and all of them if it says there are no more.                           *)
StartsWith(page, W, key) ==
  /\ page.rows \in Seq(W) /\ Sorted(page.rows, key)
  /\ page.more \in BOOLEAN
  /\ ~page.more => \A i \in W : \E q \in DOMAIN page.rows : page.rows[q] = i
  /\ page.more => /\ Last(page.rows) \in W
                  /\ \A q \in DOMAIN page.rows : key[page.rows[q]] <= key[Last(page.rows)]
                  /\ \A i \in W : key[i] <= key[Last(page.rows)] => \E q \in DOMAIN page.rows : page.rows[q] = i

LEMMA PageIs ==
  ASSUME NEW W, IsFiniteSet(W), NEW key, Keyed(W, key), NEW limit \in Nat,
         NEW page, page = Page(OrderedBy(W, key), limit), page.is = "ok"
  PROVE  StartsWith(page, W, key)
<1> DEFINE ids == OrderedBy(W, key)
           m == Cardinality(W)
           n == Fitting(ids, limit)
<1>1. /\ m \in Nat /\ ids \in [1 .. m -> W] /\ Sorted(ids, key)
      /\ \A i \in W : \E k \in 1 .. m : ids[k] = i
  BY OrderedByIs
<1>a. page.rows = SubSeq(ids, 1, n)
  BY DEF Page
<1>b. page.more = (n < Len(ids))
  BY DEF Page
<1>c. page.is = IF n = 0 /\ ids # <<>> THEN "invalid" ELSE "ok"
  BY DEF Page
<1> HIDE DEF ids, m, n
<1>2. ids \in Seq(W) /\ Len(ids) = m
  BY <1>1
<1>3. n \in 0 .. m
  BY <1>2, FittingIs DEF n
<1>4. /\ page.rows \in Seq(W) /\ Len(page.rows) = n /\ DOMAIN page.rows = 1 .. n
      /\ \A q \in 1 .. n : page.rows[q] = ids[q]
  <2>1. page.rows = SubSeq(ids, 1, n)
    BY <1>a
  <2>2. \A i \in 1 .. n : ids[i] \in W
    BY <1>1, <1>3
  <2>3. /\ SubSeq(ids, 1, n) \in Seq(W)
        /\ Len(SubSeq(ids, 1, n)) = IF 1 <= n THEN n - 1 + 1 ELSE 0
        /\ \A i \in 1 .. n - 1 + 1 : SubSeq(ids, 1, n)[i] = ids[1 + i - 1]
    BY <1>1, <1>3, <2>2, SubSeqProperties
  <2>4. Len(page.rows) = n
    BY <2>1, <2>3, <1>3
  <2>5. DOMAIN page.rows = 1 .. n
    BY <2>1, <2>3, <2>4, LenProperties
  <2>6. \A q \in 1 .. n : q \in 1 .. n - 1 + 1 /\ 1 + q - 1 = q
    BY <1>3, <1>1
  <2> QED BY <2>1, <2>3, <2>4, <2>5, <2>6
<1>5. Sorted(page.rows, key)
  <2> SUFFICES ASSUME NEW j \in 1 .. n, NEW k \in 1 .. n, j < k PROVE key[page.rows[j]] < key[page.rows[k]]
    BY <1>4 DEF Sorted
  <2>1. j \in 1 .. m /\ k \in 1 .. m
    BY <1>3, <1>1
  <2> QED BY <2>1, <1>1, <1>4 DEF Sorted
<1>6. page.more \in BOOLEAN /\ (page.more <=> n < m) /\ (n = 0 => ids = <<>>)
  <2>1. page.more \in BOOLEAN
    BY <1>b
  <2>2. page.more <=> n < m
    BY <1>b, <1>2
  <2>3. n = 0 => ids = <<>>
    BY <1>c
  <2> QED BY <2>1, <2>2, <2>3
<1>7. ASSUME ~page.more, NEW i \in W PROVE \E q \in 1 .. n : page.rows[q] = i
  <2>1. n = m
    BY <1>6, <1>7, <1>3, <1>1
  <2> QED BY <2>1, <1>1, <1>4
<1>8. ASSUME page.more
      PROVE  /\ Last(page.rows) \in W
             /\ \A q \in 1 .. n : key[page.rows[q]] <= key[Last(page.rows)]
             /\ \A i \in W : key[i] <= key[Last(page.rows)] => \E q \in 1 .. n : page.rows[q] = i
  <2>1. n \in 1 .. m /\ n \in 1 .. n
    <3>1. n # 0
      BY <1>6, <1>8, <1>2, <1>1
    <3> QED BY <3>1, <1>3, <1>1
  <2>2. Last(page.rows) = ids[n] /\ ids[n] \in W
    BY <2>1, <1>4, <1>1 DEF Last
  <2>3. ASSUME NEW q \in 1 .. n PROVE key[page.rows[q]] <= key[ids[n]]
    <3>1. q \in 1 .. m /\ ids[q] \in W /\ page.rows[q] = ids[q]
      BY <1>1, <1>3, <1>4
    <3>2. key[ids[q]] \in Int /\ key[ids[n]] \in Int
      BY <3>1, <2>2 DEF Keyed
    <3>3. q < n => key[ids[q]] < key[ids[n]]
      BY <3>1, <2>1, <1>1 DEF Sorted
    <3>4. q = n => key[ids[q]] = key[ids[n]]
      OBVIOUS
    <3> QED BY <3>1, <3>2, <3>3, <3>4, <2>1
  <2>4. ASSUME NEW i \in W, key[i] <= key[ids[n]] PROVE \E q \in 1 .. n : page.rows[q] = i
    <3>1. PICK k \in 1 .. m : ids[k] = i
      BY <1>1
    <3>2. key[ids[k]] \in Int /\ key[ids[n]] \in Int
      BY <3>1, <2>2 DEF Keyed
    <3>3. n < k => key[ids[n]] < key[ids[k]]
      BY <2>1, <1>1 DEF Sorted
    <3>4. k \in 1 .. n
      BY <3>1, <3>2, <3>3, <2>4, <2>1
    <3> QED BY <3>1, <3>4, <1>4
  <2> QED BY <2>2, <2>3, <2>4
<1> QED BY <1>4, <1>5, <1>6, <1>7, <1>8 DEF StartsWith

-------------------------------------------------------------------------------
(* A walk over the pages of history, of the rows r.                        *)
Stored(r) == (\E S : r \in Seq(S)) /\ \A i \in 1 .. Len(r) : r[i].source \in Int

Selects(r, request, i) ==
  r[i].run = request.run /\ (request.sources = {} \/ r[i].source \in request.sources)

Listed(r, request) ==
  {i \in 1 .. Len(r) : Selects(r, request, i) /\ InRange(r[i].observed, request.from, request.to)}

Wanted(r, w) ==
  {i \in 1 .. w.since : Selects(r, w.request, i) /\ InRange(r[i].observed, w.request.from, w.request.to)}

(* What the next page selects.                                             *)
Ahead(r, w) == {i \in Listed(r, w.request) : \A id \in w.key : i < id}

Read(w, i) == \E q \in DOMAIN w.seen : w.seen[q] = i

NewestFirst(s) == \A j, k \in DOMAIN s : j < k => s[j] > s[k]

HistoryOpen(r, w) ==
  /\ w.seen \in Seq(Wanted(r, w)) /\ NewestFirst(w.seen)
  /\ Ahead(r, w) \subseteq Wanted(r, w)
  /\ \A i \in Wanted(r, w) : i \in Ahead(r, w) \/ Read(w, i)
  /\ \A i \in Ahead(r, w), q \in DOMAIN w.seen : i < w.seen[q]

HistoryWalk(r, w) ==
  /\ w.seen \in Seq(Wanted(r, w)) /\ NewestFirst(w.seen)
  /\ w.at = "walking" => HistoryOpen(r, w) /\ \E b \in w.key : b \in 1 .. w.since
  /\ w.at = "ok" => \A i \in Wanted(r, w) : Read(w, i)

LEMMA RowsGrow ==
  ASSUME NEW r, NEW S, r \in Seq(S), NEW e
  PROVE  /\ Len(r) \in Nat /\ DOMAIN r = 1 .. Len(r)
         /\ Len(Append(r, e)) = Len(r) + 1
         /\ \A i \in 1 .. Len(r) : Append(r, e)[i] = r[i]
         /\ Append(r, e)[Len(r) + 1] = e
OBVIOUS

LEMMA WantedStays ==
  ASSUME NEW r, NEW S, r \in Seq(S), NEW e, NEW w, w.since \in 0 .. Len(r)
  PROVE  Wanted(Append(r, e), w) = Wanted(r, w)
<1>1. /\ Len(r) \in Nat /\ \A i \in 1 .. Len(r) : Append(r, e)[i] = r[i]
  BY RowsGrow
<1>2. \A i \in 1 .. w.since : Append(r, e)[i] = r[i]
  BY <1>1
<1> QED BY <1>2 DEF Wanted, Selects

LEMMA HistoryWalkGrows ==
  ASSUME NEW r, NEW S, r \in Seq(S), NEW e, NEW w, w.since \in 0 .. Len(r), HistoryWalk(r, w)
  PROVE  HistoryWalk(Append(r, e), w)
<1> DEFINE g == Append(r, e)
<1>1. /\ Len(r) \in Nat /\ Len(g) = Len(r) + 1
      /\ \A i \in 1 .. Len(r) : g[i] = r[i]
  BY RowsGrow
<1>2. Wanted(g, w) = Wanted(r, w)
  BY WantedStays
<1> HIDE DEF g
<1>3. ASSUME w.at = "walking" PROVE Ahead(g, w) = Ahead(r, w)
  <2>1. PICK b \in w.key : b \in 1 .. w.since
    BY <1>3 DEF HistoryWalk
  <2>2. ASSUME NEW i \in Ahead(g, w) PROVE i \in Ahead(r, w)
    <3>1. i \in 1 .. Len(g) /\ i < b
      BY <2>1 DEF Ahead, Listed
    <3>2. i \in 1 .. Len(r)
      BY <3>1, <2>1, <1>1
    <3> QED BY <3>2, <1>1 DEF Ahead, Listed, Selects
  <2>3. ASSUME NEW i \in Ahead(r, w) PROVE i \in Ahead(g, w)
    <3>1. i \in 1 .. Len(r) /\ i \in 1 .. Len(g)
      BY <1>1 DEF Ahead, Listed
    <3> QED BY <3>1, <1>1 DEF Ahead, Listed, Selects
  <2> QED BY <2>2, <2>3
<1> QED BY <1>2, <1>3 DEF HistoryWalk, HistoryOpen, g

Joins(u, s, t) ==
  /\ DOMAIN s = 1 .. Len(s) /\ DOMAIN t = 1 .. Len(t) /\ Len(s) \in Nat /\ Len(t) \in Nat
  /\ DOMAIN u = 1 .. Len(s) + Len(t)
  /\ \A i \in DOMAIN s : i \in DOMAIN u /\ u[i] = s[i]
  /\ \A i \in DOMAIN t : Len(s) + i \in DOMAIN u /\ u[Len(s) + i] = t[i]
  /\ \A i \in DOMAIN u :
       \/ i \in DOMAIN s /\ u[i] = s[i]
       \/ i > Len(s) /\ i - Len(s) \in DOMAIN t /\ u[i] = t[i - Len(s)]

LEMMA SeqsJoin ==
  ASSUME NEW S, NEW s \in Seq(S), NEW t \in Seq(S), NEW u, u = s \o t
  PROVE  u \in Seq(S) /\ Joins(u, s, t)
<1>1. /\ u \in Seq(S)
      /\ Len(u) = Len(s) + Len(t)
      /\ \A i \in 1 .. Len(s) + Len(t) : u[i] = IF i <= Len(s) THEN s[i] ELSE t[i - Len(s)]
  BY ConcatProperties
<1>2. /\ DOMAIN s = 1 .. Len(s) /\ DOMAIN t = 1 .. Len(t) /\ Len(s) \in Nat /\ Len(t) \in Nat
  BY LenProperties
<1>3. DOMAIN u = 1 .. Len(s) + Len(t)
  BY <1>1, LenProperties
<1> QED BY <1>1, <1>2, <1>3 DEF Joins

LEMMA HistoryTurns ==
  ASSUME NEW S, rows \in Seq(S), NEW w, HistoryOpen(rows, w), w.since \in 0 .. Len(rows),
         w.request.limit \in Nat,
         NEW page, page = History(w.request, w.key), page.is = "ok",
         NEW v, v.request = w.request, v.since = w.since, v.seen = w.seen \o page.rows,
         v.at = IF page.more THEN "walking" ELSE "ok",
         page.more => v.key = {Last(page.rows)}
  PROVE  HistoryWalk(rows, v)
<1> DEFINE W == Ahead(rows, w)
           key == [i \in W |-> -i]
           P == page.rows
           limit == w.request.limit
<1>0. Len(rows) \in Nat
  OBVIOUS
<1>1. IsFiniteSet(W) /\ \A i \in W : i \in Nat /\ key[i] = -i
  <2>1. IsFiniteSet(1 .. Len(rows)) /\ W \subseteq 1 .. Len(rows)
    BY <1>0, FS_Interval DEF Ahead, Listed
  <2> QED BY <2>1, <1>0, FS_Subset
<1>2. Keyed(W, key)
  BY <1>1 DEF Keyed
<1>3. page = Page(OrderedBy(W, key), limit) /\ limit \in Nat
  <2>1. W = {i \in Ids : /\ rows[i].run = w.request.run
                         /\ w.request.sources = {} \/ rows[i].source \in w.request.sources
                         /\ \A id \in w.key : i < id
                         /\ InRange(rows[i].observed, w.request.from, w.request.to)}
    BY DEF Ahead, Listed, Selects, Ids
  <2> HIDE DEF W
  <2> QED BY <2>1 DEF History, Descending
<1> HIDE DEF W, key, limit
<1>4. /\ P \in Seq(W) /\ Sorted(P, key) /\ page.more \in BOOLEAN
      /\ ~page.more => \A i \in W : \E q \in DOMAIN P : P[q] = i
      /\ page.more => /\ Last(P) \in W
                      /\ \A q \in DOMAIN P : key[P[q]] <= key[Last(P)]
                      /\ \A i \in W : key[i] <= key[Last(P)] => \E q \in DOMAIN P : P[q] = i
  <2>1. IsFiniteSet(W) /\ Keyed(W, key) /\ limit \in Nat /\ page = Page(OrderedBy(W, key), limit)
    BY <1>1, <1>2, <1>3
  <2>2. StartsWith(page, W, key)
    BY <2>1, PageIs
  <2> QED BY <2>2 DEF StartsWith
<1> HIDE DEF P
<1>5. Wanted(rows, v) = Wanted(rows, w) /\ v.seen = w.seen \o P
  BY DEF Wanted, P
<1>6. W \subseteq Wanted(rows, w) /\ w.seen \in Seq(Wanted(rows, w)) /\ P \in Seq(Wanted(rows, w))
  <2>1. W \subseteq Wanted(rows, w) /\ w.seen \in Seq(Wanted(rows, w))
    BY DEF W, HistoryOpen
  <2> QED BY <2>1, <1>4, SeqMonotonic
<1>7. v.seen \in Seq(Wanted(rows, w)) /\ Joins(v.seen, w.seen, P)
  BY <1>5, <1>6, SeqsJoin
<1>8. \A q \in DOMAIN P : P[q] \in W
  BY <1>4, <1>7 DEF Joins
<1>9. \A i \in W, q \in DOMAIN w.seen : i < w.seen[q]
  BY DEF HistoryOpen, W
<1>10. NewestFirst(v.seen)
  <2> SUFFICES ASSUME NEW j \in DOMAIN v.seen, NEW k \in DOMAIN v.seen, j < k PROVE v.seen[j] > v.seen[k]
    BY DEF NewestFirst
  <2>1. CASE j \in DOMAIN w.seen /\ v.seen[j] = w.seen[j] /\ k \in DOMAIN w.seen /\ v.seen[k] = w.seen[k]
    BY <2>1 DEF HistoryOpen, NewestFirst
  <2>2. CASE j \in DOMAIN w.seen /\ v.seen[j] = w.seen[j] /\ k - Len(w.seen) \in DOMAIN P /\ v.seen[k] = P[k - Len(w.seen)]
    <3>1. P[k - Len(w.seen)] \in W
      BY <2>2, <1>8
    <3>2. w.seen[j] \in Wanted(rows, w)
      BY <2>2, <1>6
    <3>3. w.seen[j] \in Int /\ P[k - Len(w.seen)] \in Int
      BY <3>1, <3>2, <1>1 DEF Wanted
    <3> QED BY <2>2, <3>1, <3>3, <1>9
  <2>3. CASE /\ j > Len(w.seen) /\ j - Len(w.seen) \in DOMAIN P /\ v.seen[j] = P[j - Len(w.seen)]
             /\ k - Len(w.seen) \in DOMAIN P /\ v.seen[k] = P[k - Len(w.seen)]
    <3> DEFINE a == j - Len(w.seen)
               b == k - Len(w.seen)
    <3>1. a \in DOMAIN P /\ b \in DOMAIN P /\ a < b
      BY <2>3, <1>7 DEF Joins
    <3> HIDE DEF a, b
    <3>2. key[P[a]] < key[P[b]]
      BY <3>1, <1>4 DEF Sorted
    <3>3. P[a] \in Nat /\ P[b] \in Nat /\ key[P[a]] = -P[a] /\ key[P[b]] = -P[b]
      BY <3>1, <1>8, <1>1
    <3>4. P[a] > P[b]
      BY <3>2, <3>3
    <3> QED BY <3>4, <2>3 DEF a, b
  <2>4. j > Len(w.seen) => k \notin DOMAIN w.seen
    BY <1>7 DEF Joins
  <2> QED BY <2>1, <2>2, <2>3, <2>4, <1>7, Zenon DEF Joins
<1>11. \A i : Read(w, i) \/ (\E q \in DOMAIN P : P[q] = i) => Read(v, i)
  BY <1>7 DEF Read, Joins
<1>12. \A i \in Wanted(rows, w) : i \in W \/ Read(w, i)
  BY DEF HistoryOpen, W
<1>13. ASSUME ~page.more PROVE \A i \in Wanted(rows, v) : Read(v, i)
  BY <1>13, <1>4, <1>5, <1>11, <1>12
<1>14. ASSUME page.more PROVE HistoryOpen(rows, v) /\ \E b \in v.key : b \in 1 .. v.since
  <2> DEFINE b == Last(P)
  <2>1. /\ b \in W /\ v.key = {b}
        /\ \A q \in DOMAIN P : key[P[q]] <= key[b]
        /\ \A i \in W : key[i] <= key[b] => \E q \in DOMAIN P : P[q] = i
    BY <1>14, <1>4 DEF P
  <2> HIDE DEF b
  <2>2. b \in 1 .. v.since /\ b \in Nat
    BY <2>1, <1>6, <1>1 DEF Wanted
  <2>3. ASSUME NEW i PROVE i \in Ahead(rows, v) <=> i \in W /\ i < b
    <3>1. i \in Ahead(rows, v) <=> i \in Listed(rows, w.request) /\ i < b
      BY <2>1 DEF Ahead
    <3>2. i \in W <=> i \in Listed(rows, w.request) /\ \A id \in w.key : i < id
      BY DEF W, Ahead
    <3>3. ASSUME i \in Listed(rows, w.request), i < b PROVE i \in W
      <4>1. i \in 1 .. w.since
        BY <3>3, <2>2 DEF Listed
      <4>2. i \in Wanted(rows, w)
        BY <4>1, <3>3 DEF Listed, Wanted
      <4>3. ~Read(w, i)
        <5>1. ASSUME NEW q \in DOMAIN w.seen, w.seen[q] = i PROVE FALSE
          <6>1. b < i
            BY <5>1, <1>9, <2>1
          <6> QED BY <6>1, <3>3, <2>2, <4>1
        <5> QED BY <5>1 DEF Read
      <4> QED BY <4>2, <4>3, <1>12
    <3> QED BY <3>1, <3>2, <3>3
  <2>4. Ahead(rows, v) \subseteq Wanted(rows, v)
    BY <2>3, <1>5, <1>6
  <2>5. ASSUME NEW i \in Wanted(rows, v) PROVE i \in Ahead(rows, v) \/ Read(v, i)
    <3>1. i \in W \/ Read(w, i)
      BY <1>12, <1>5
    <3>2. CASE i \in W /\ ~(i < b)
      <4>1. key[i] <= key[b]
        <5>1. i \in Nat /\ key[i] = -i
          BY <3>2, <1>1
        <5>2. b \in Nat /\ key[b] = -b
          BY <1>1, <2>1
        <5> QED BY <5>1, <5>2, <3>2
      <4> QED BY <4>1, <2>1, <3>2, <1>11
    <3> QED BY <3>1, <3>2, <2>3, <1>11
  <2>6. ASSUME NEW i \in Ahead(rows, v), NEW q \in DOMAIN v.seen PROVE i < v.seen[q]
    <3>1. i \in W /\ i < b /\ i \in Nat
      BY <2>3, <1>1
    <3>2. CASE q \in DOMAIN w.seen /\ v.seen[q] = w.seen[q]
      BY <3>1, <3>2, <1>9
    <3>3. CASE q - Len(w.seen) \in DOMAIN P /\ v.seen[q] = P[q - Len(w.seen)]
      <4> DEFINE a == q - Len(w.seen)
      <4>0. a \in DOMAIN P /\ v.seen[q] = P[a]
        BY <3>3
      <4> HIDE DEF a
      <4>1. P[a] \in W /\ P[a] \in Nat /\ key[P[a]] = -P[a]
        BY <4>0, <1>8, <1>1
      <4>2. key[P[a]] <= key[b] /\ key[b] = -b
        BY <4>0, <2>1, <1>1
      <4>3. P[a] >= b
        BY <4>1, <4>2, <2>2
      <4> QED BY <4>0, <4>1, <4>3, <3>1, <2>2
    <3> QED BY <3>2, <3>3, <1>7 DEF Joins
  <2> QED BY <2>1, <2>2, <2>4, <2>5, <2>6, <1>5, <1>7, <1>10 DEF HistoryOpen
<1> QED BY <1>4, <1>5, <1>7, <1>10, <1>13, <1>14 DEF HistoryWalk

-------------------------------------------------------------------------------
(* A walk over the pages of latest.                                        *)
States(r, w) == {i \in 1 .. w.since : Selects(r, w.request, i) /\ r[i].charted}

ReadOf(r, w, i) == \E q \in DOMAIN w.seen : r[w.seen[q]].source = r[i].source

LatestRead(r, w) ==
  /\ w.seen \in Seq(1 .. Len(r))
  /\ \A j, k \in DOMAIN w.seen : j < k => r[w.seen[j]].source < r[w.seen[k]].source
  /\ \A k \in DOMAIN w.seen :
       /\ r[w.seen[k]].charted
       /\ \A i \in States(r, w) : r[i].source = r[w.seen[k]].source => i <= w.seen[k]

LatestOpen(r, w) ==
  /\ LatestRead(r, w) /\ w.key \subseteq Int
  /\ \A q \in DOMAIN w.seen : \E id \in w.key : r[w.seen[q]].source <= id
  /\ \A i \in States(r, w) : (\A id \in w.key : r[i].source > id) \/ ReadOf(r, w, i)

LatestWalk(r, w) ==
  /\ LatestRead(r, w)
  /\ w.at = "walking" => LatestOpen(r, w)
  /\ w.at = "ok" => \A i \in States(r, w) : ReadOf(r, w, i)

LEMMA LatestWalkGrows ==
  ASSUME NEW r, NEW S, r \in Seq(S), NEW e, NEW w, w.since \in 0 .. Len(r), LatestWalk(r, w)
  PROVE  LatestWalk(Append(r, e), w)
<1> DEFINE g == Append(r, e)
<1>1. /\ Len(r) \in Nat /\ Len(g) = Len(r) + 1
      /\ \A i \in 1 .. Len(r) : g[i] = r[i]
  BY RowsGrow
<1> HIDE DEF g
<1>2. States(g, w) = States(r, w) /\ States(r, w) \subseteq 1 .. Len(r)
  <2>1. \A i \in 1 .. w.since : i \in 1 .. Len(r) /\ g[i] = r[i]
    BY <1>1
  <2> QED BY <2>1 DEF States, Selects
<1>3. w.seen \in Seq(1 .. Len(r)) /\ w.seen \in Seq(1 .. Len(g))
  <2>1. w.seen \in Seq(1 .. Len(r)) /\ 1 .. Len(r) \subseteq 1 .. Len(g)
    BY <1>1 DEF LatestWalk, LatestRead
  <2> QED BY <2>1, SeqMonotonic
<1>4. \A q \in DOMAIN w.seen : w.seen[q] \in 1 .. Len(r) /\ g[w.seen[q]] = r[w.seen[q]]
  BY <1>3, <1>1
<1>5. \A i \in States(r, w) : g[i] = r[i]
  BY <1>2, <1>1
<1>6. LatestRead(g, w)
  BY <1>2, <1>3, <1>4, <1>5 DEF LatestWalk, LatestRead
<1>7. \A i \in States(r, w) : ReadOf(g, w, i) <=> ReadOf(r, w, i)
  BY <1>4, <1>5 DEF ReadOf
<1>8. ASSUME LatestOpen(r, w) PROVE LatestOpen(g, w)
  BY <1>8, <1>2, <1>4, <1>5, <1>6, <1>7 DEF LatestOpen
<1> QED BY <1>2, <1>6, <1>7, <1>8 DEF LatestWalk, g

LEMMA LatestTurns ==
  ASSUME Stored(rows), NEW w, LatestOpen(rows, w), w.since \in 0 .. Len(rows),
         w.request.limit \in Nat,
         NEW page, page = Latest(w.request, w.key), page.is = "ok",
         NEW v, v.request = w.request, v.since = w.since, v.seen = w.seen \o page.rows,
         v.at = IF page.more THEN "walking" ELSE "ok",
         page.more => v.key = {rows[Last(page.rows)].source}
  PROVE  LatestWalk(rows, v)
<1> DEFINE Source(i) == rows[i].source
           heads == {s \in {rows[i].source : i \in Ids} :
                       /\ w.request.sources = {} \/ s \in w.request.sources
                       /\ \A id \in w.key : s > id
                       /\ HeadOf(w.request.run, s) # {}}
           W == UNION {HeadOf(w.request.run, s) : s \in heads}
           key == [i \in Ids |-> rows[i].source]
           P == page.rows
           limit == w.request.limit
<1>0. Len(rows) \in Nat /\ Ids = 1 .. Len(rows) /\ \A i \in Ids : key[i] = Source(i) /\ Source(i) \in Int
  BY DEF Stored, Ids
<1>1. ASSUME NEW i
      PROVE i \in W <=> /\ i \in StatesOf(w.request.run, Source(i))
                        /\ w.request.sources = {} \/ Source(i) \in w.request.sources
                        /\ \A id \in w.key : Source(i) > id
                        /\ \A j \in StatesOf(w.request.run, Source(i)) : j <= i
  <2>1. ASSUME NEW s, i \in HeadOf(w.request.run, s) PROVE i \in Ids /\ s = Source(i)
    BY <2>1 DEF HeadOf, StatesOf
  <2>2. i \in W <=> \E s \in heads : i \in HeadOf(w.request.run, s)
    OBVIOUS
  <2>3. i \in W <=> Source(i) \in heads /\ i \in HeadOf(w.request.run, Source(i))
    BY <2>1, <2>2
  <2>4. i \in HeadOf(w.request.run, Source(i)) => Source(i) \in {rows[j].source : j \in Ids}
    BY <2>1
  <2>5. i \in HeadOf(w.request.run, Source(i)) <=>
          /\ i \in StatesOf(w.request.run, Source(i))
          /\ \A j \in StatesOf(w.request.run, Source(i)) : j <= i
    BY DEF HeadOf
  <2> QED BY <2>3, <2>4, <2>5
<1>2. \A i \in W : i \in Ids
  BY <1>1 DEF StatesOf
<1>3. page = Page(OrderedBy(W, key), limit) /\ limit \in Nat
  BY DEF Latest
<1> HIDE DEF W, key, limit, heads
<1>4. IsFiniteSet(W) /\ Keyed(W, key)
  <2>1. IsFiniteSet(Ids)
    BY <1>0, FS_Interval
  <2>2. IsFiniteSet(W)
    BY <2>1, <1>2, FS_Subset
  <2>3. ASSUME NEW i \in W, NEW j \in W, key[i] = key[j] PROVE i = j
    <3>1. i \in Ids /\ j \in Ids /\ Source(i) = Source(j)
      BY <1>0, <1>2, <2>3
    <3>2. i <= j /\ j <= i
      BY <1>1, <3>1
    <3> QED BY <3>1, <3>2, <1>0
  <2> QED BY <1>0, <1>2, <2>2, <2>3 DEF Keyed
<1>5. /\ P \in Seq(W) /\ Sorted(P, key) /\ page.more \in BOOLEAN
      /\ ~page.more => \A i \in W : \E q \in DOMAIN P : P[q] = i
      /\ page.more => /\ Last(P) \in W
                      /\ \A q \in DOMAIN P : key[P[q]] <= key[Last(P)]
                      /\ \A i \in W : key[i] <= key[Last(P)] => \E q \in DOMAIN P : P[q] = i
  <2>1. StartsWith(page, W, key)
    BY <1>3, <1>4, PageIs
  <2> QED BY <2>1 DEF StartsWith
<1>6. page.more => v.key = {Source(Last(P))}
  OBVIOUS
<1> HIDE DEF P
<1>7. States(rows, v) = States(rows, w) /\ v.seen = w.seen \o P
  BY DEF States, P
<1>8. v.seen \in Seq(Ids) /\ Joins(v.seen, w.seen, P)
  <2>1. W \subseteq Ids /\ w.seen \in Seq(Ids)
    BY <1>0, <1>2 DEF LatestOpen, LatestRead
  <2>2. P \in Seq(Ids)
    BY <2>1, <1>5, SeqMonotonic
  <2> QED BY <2>1, <2>2, <1>7, SeqsJoin
<1>9. \A q \in DOMAIN P : P[q] \in W /\ P[q] \in Ids
  BY <1>2, <1>5, <1>8 DEF Joins
<1>10. \A q \in DOMAIN w.seen : w.seen[q] \in Ids
  BY <1>0, <1>8 DEF LatestOpen, LatestRead, Joins
<1>11. \A j \in DOMAIN w.seen, i \in W : Source(w.seen[j]) < Source(i)
  <2> SUFFICES ASSUME NEW j \in DOMAIN w.seen, NEW i \in W PROVE Source(w.seen[j]) < Source(i)
    OBVIOUS
  <2>1. PICK id \in w.key : Source(w.seen[j]) <= id
    BY DEF LatestOpen
  <2>2. id \in Int /\ Source(i) > id
    BY <1>1 DEF LatestOpen
  <2>3. Source(w.seen[j]) \in Int /\ Source(i) \in Int
    BY <1>0, <1>2, <1>10
  <2> HIDE DEF Source
  <2> QED BY <2>1, <2>2, <2>3
<1>12. \A j, k \in DOMAIN v.seen : j < k => Source(v.seen[j]) < Source(v.seen[k])
  <2> SUFFICES ASSUME NEW j \in DOMAIN v.seen, NEW k \in DOMAIN v.seen, j < k PROVE Source(v.seen[j]) < Source(v.seen[k])
    OBVIOUS
  <2>1. CASE j \in DOMAIN w.seen /\ v.seen[j] = w.seen[j] /\ k \in DOMAIN w.seen /\ v.seen[k] = w.seen[k]
    BY <2>1 DEF LatestOpen, LatestRead
  <2>2. CASE j \in DOMAIN w.seen /\ v.seen[j] = w.seen[j] /\ k - Len(w.seen) \in DOMAIN P /\ v.seen[k] = P[k - Len(w.seen)]
    BY <2>2, <1>9, <1>11
  <2>3. CASE /\ j > Len(w.seen) /\ j - Len(w.seen) \in DOMAIN P /\ v.seen[j] = P[j - Len(w.seen)]
             /\ k - Len(w.seen) \in DOMAIN P /\ v.seen[k] = P[k - Len(w.seen)]
    <3> DEFINE a == j - Len(w.seen)
               b == k - Len(w.seen)
    <3>1. a \in DOMAIN P /\ b \in DOMAIN P /\ a < b
      BY <2>3, <1>8 DEF Joins
    <3> HIDE DEF a, b
    <3>2. key[P[a]] < key[P[b]]
      BY <3>1, <1>5 DEF Sorted
    <3>3. key[P[a]] = Source(P[a]) /\ key[P[b]] = Source(P[b])
      BY <3>1, <1>9, <1>0
    <3> QED BY <3>2, <3>3, <2>3 DEF a, b
  <2>4. j > Len(w.seen) => k \notin DOMAIN w.seen
    BY <1>8 DEF Joins
  <2> QED BY <2>1, <2>2, <2>3, <2>4, <1>8, Zenon DEF Joins
<1>13. ASSUME NEW k \in DOMAIN v.seen
       PROVE  /\ rows[v.seen[k]].charted
              /\ \A i \in States(rows, v) : Source(i) = Source(v.seen[k]) => i <= v.seen[k]
  <2>1. CASE k \in DOMAIN w.seen /\ v.seen[k] = w.seen[k]
    BY <2>1, <1>7 DEF LatestOpen, LatestRead
  <2>2. CASE k - Len(w.seen) \in DOMAIN P /\ v.seen[k] = P[k - Len(w.seen)]
    <3>1. v.seen[k] \in W
      BY <2>2, <1>9
    <3>2. /\ v.seen[k] \in StatesOf(w.request.run, Source(v.seen[k]))
          /\ \A j \in StatesOf(w.request.run, Source(v.seen[k])) : j <= v.seen[k]
      BY <1>1, <3>1
    <3>3. ASSUME NEW i \in States(rows, v), Source(i) = Source(v.seen[k]) PROVE i <= v.seen[k]
      <4>1. i \in StatesOf(w.request.run, Source(v.seen[k]))
        BY <3>3, <1>0 DEF States, Selects, StatesOf
      <4> QED BY <3>2, <4>1
    <3> QED BY <3>2, <3>3 DEF StatesOf
  <2> QED BY <2>1, <2>2, <1>8 DEF Joins
<1>14. LatestRead(rows, v)
  BY <1>0, <1>8, <1>12, <1>13 DEF LatestRead
<1>15. \A i \in Ids : ReadOf(rows, w, i) \/ (\E q \in DOMAIN P : Source(P[q]) = Source(i)) => ReadOf(rows, v, i)
  <2> SUFFICES ASSUME NEW i \in Ids, ReadOf(rows, w, i) \/ \E q \in DOMAIN P : Source(P[q]) = Source(i)
               PROVE  ReadOf(rows, v, i)
    OBVIOUS
  <2>1. ASSUME ReadOf(rows, w, i) PROVE ReadOf(rows, v, i)
    BY <2>1, <1>8 DEF ReadOf, Joins
  <2>2. ASSUME NEW q \in DOMAIN P, Source(P[q]) = Source(i) PROVE ReadOf(rows, v, i)
    <3>1. Len(w.seen) + q \in DOMAIN v.seen /\ v.seen[Len(w.seen) + q] = P[q]
      BY <1>8 DEF Joins
    <3> QED BY <3>1, <2>2, Zenon DEF ReadOf
  <2> QED BY <2>1, <2>2
<1>16. ASSUME NEW i \in States(rows, w), ~ReadOf(rows, w, i) PROVE \E h \in W : Source(h) = Source(i)
  <2> DEFINE S == StatesOf(w.request.run, Source(i))
  <2>1. i \in S /\ S \subseteq Ids
    BY <1>0 DEF States, Selects, StatesOf
  <2>2. IsFiniteSet(S) /\ S \subseteq Int
    <3>1. IsFiniteSet(Ids) /\ Ids \subseteq Int
      BY <1>0, FS_Interval
    <3> HIDE DEF S
    <3> QED BY <2>1, <3>1, FS_Subset
  <2>3. PICK h \in S : \A j \in S : j <= h
    <3> HIDE DEF S
    <3> QED BY <2>1, <2>2, LargestExists
  <2>4. Source(h) = Source(i)
    BY DEF StatesOf
  <2>5. /\ w.request.sources = {} \/ Source(h) \in w.request.sources
        /\ \A id \in w.key : Source(h) > id
    BY <2>4, <1>16 DEF LatestOpen, States, Selects
  <2>6. h \in W
    BY <1>1, <2>3, <2>4, <2>5
  <2> QED BY <2>4, <2>6
<1>17. States(rows, w) \subseteq Ids
  BY <1>0 DEF States
<1>18. ASSUME ~page.more, NEW i \in States(rows, v) PROVE ReadOf(rows, v, i)
  <2>1. CASE ReadOf(rows, w, i)
    BY <2>1, <1>7, <1>15, <1>17
  <2>2. CASE ~ReadOf(rows, w, i)
    <3>1. PICK h \in W : Source(h) = Source(i)
      BY <2>2, <1>7, <1>16
    <3>2. PICK q \in DOMAIN P : P[q] = h
      BY <1>5, <1>18
    <3> QED BY <3>1, <3>2, <1>7, <1>15, <1>17
  <2> QED BY <2>1, <2>2
<1>19. ASSUME page.more PROVE LatestOpen(rows, v)
  <2> DEFINE b == Last(P)
  <2>1. /\ b \in W /\ v.key = {Source(b)}
        /\ \A q \in DOMAIN P : key[P[q]] <= key[b]
        /\ \A i \in W : key[i] <= key[b] => \E q \in DOMAIN P : P[q] = i
    BY <1>19, <1>5, <1>6
  <2> HIDE DEF b
  <2>2. Source(b) \in Int /\ key[b] = Source(b)
    BY <2>1, <1>2, <1>0
  <2>3. ASSUME NEW q \in DOMAIN v.seen PROVE Source(v.seen[q]) <= Source(b)
    <3>1. CASE q \in DOMAIN w.seen /\ v.seen[q] = w.seen[q]
      <4>1. Source(w.seen[q]) < Source(b) /\ Source(w.seen[q]) \in Int
        BY <3>1, <1>11, <2>1, <1>10, <1>0
      <4> HIDE DEF Source
      <4> QED BY <3>1, <4>1, <2>2
    <3>2. CASE q - Len(w.seen) \in DOMAIN P /\ v.seen[q] = P[q - Len(w.seen)]
      BY <3>2, <2>1, <2>2, <1>9, <1>0
    <3> QED BY <3>1, <3>2, <1>8 DEF Joins
  <2>4. ASSUME NEW i \in States(rows, v) PROVE Source(i) > Source(b) \/ ReadOf(rows, v, i)
    <3>1. CASE ReadOf(rows, w, i)
      BY <3>1, <1>7, <1>15, <1>17
    <3>2. CASE ~ReadOf(rows, w, i) /\ ~(Source(i) > Source(b))
      <4>1. PICK h \in W : Source(h) = Source(i)
        BY <3>2, <1>7, <1>16
      <4>2. key[h] = Source(i) /\ Source(i) \in Int
        BY <4>1, <1>2, <1>0
      <4>3. key[h] <= key[b]
        BY <4>2, <3>2, <2>2
      <4>4. PICK q \in DOMAIN P : P[q] = h
        BY <4>3, <2>1
      <4> QED BY <4>1, <4>4, <1>7, <1>15, <1>17
    <3> QED BY <3>1, <3>2
  <2> QED BY <2>1, <2>2, <2>3, <2>4, <1>14 DEF LatestOpen
<1> QED BY <1>5, <1>14, <1>18, <1>19 DEF LatestWalk

-------------------------------------------------------------------------------
(* The invariant.                                                          *)
WalkIs(r, w) ==
  /\ w = NoWalk \/ (w.at \in {"walking", "ok", "invalid"} /\ w.request \in Listings /\ w.since \in 0 .. Len(r))
  /\ w.at \in {"walking", "ok"} =>
       IF w.request.kind = "history" THEN HistoryWalk(r, w) ELSE LatestWalk(r, w)

WalkInv == Stored(rows) /\ WalkIs(rows, walk)

LEMMA WalkTurns ==
  ASSUME Stored(rows), NEW w, w.request \in Listings, w.since \in 0 .. Len(rows),
         IF w.request.kind = "history" THEN HistoryOpen(rows, w) ELSE LatestOpen(rows, w),
         NEW page, page = IF w.request.kind = "history" THEN History(w.request, w.key) ELSE Latest(w.request, w.key),
         NEW v, v = [at |-> IF page.is = "ok" /\ page.more THEN "walking" ELSE page.is,
                     request |-> w.request, seen |-> w.seen \o page.rows, since |-> w.since,
                     key |-> IF page.is = "ok" THEN NextKey(w.request.kind, page) ELSE {}]
  PROVE  WalkIs(rows, v)
<1>1. page.is \in {"ok", "invalid"}
  BY DEF History, Latest, Page
<1>2. /\ v.request = w.request /\ v.since = w.since /\ v.seen = w.seen \o page.rows
      /\ v.at = IF page.is = "ok" /\ page.more THEN "walking" ELSE page.is
      /\ v.key = IF page.is = "ok" THEN NextKey(w.request.kind, page) ELSE {}
  OBVIOUS
<1>3. v.at \in {"walking", "ok", "invalid"} /\ w.request.limit \in Nat
  BY <1>1, <1>2, ChartsAssumption DEF ChartsAssumption
<1>4. ASSUME page.is = "ok"
      PROVE  /\ v.at = IF page.more THEN "walking" ELSE "ok"
             /\ w.request.kind = "history" /\ page.more => v.key = {Last(page.rows)}
             /\ w.request.kind # "history" /\ page.more => v.key = {rows[Last(page.rows)].source}
  BY <1>2, <1>4 DEF NextKey
<1>5. ASSUME page.is = "ok", w.request.kind = "history" PROVE HistoryWalk(rows, v)
  <2>1. PICK S : rows \in Seq(S)
    BY DEF Stored
  <2>2. HistoryOpen(rows, w) /\ page = History(w.request, w.key)
    BY <1>5
  <2> QED BY <2>1, <2>2, <1>2, <1>3, <1>4, <1>5, HistoryTurns
<1>6. ASSUME page.is = "ok", w.request.kind # "history" PROVE LatestWalk(rows, v)
  <2>1. LatestOpen(rows, w) /\ page = Latest(w.request, w.key)
    BY <1>6
  <2> QED BY <2>1, <1>2, <1>3, <1>4, <1>6, LatestTurns
<1> QED BY <1>1, <1>2, <1>3, <1>5, <1>6 DEF WalkIs

LEMMA WalkInit == ChartsInit => WalkInv
<1> SUFFICES ASSUME ChartsInit PROVE WalkInv
  OBVIOUS
<1>1. rows = <<>> /\ walk = NoWalk
  BY DEF ChartsInit
<1>2. Stored(rows)
  <2>1. rows \in Seq({}) /\ Len(rows) = 0
    BY <1>1
  <2> QED BY <2>1 DEF Stored
<1> QED BY <1>1, <1>2 DEF WalkInv, WalkIs, NoWalk

LEMMA WalkStep == WalkInv /\ [ChartsNext]_chartVars => WalkInv'
<1> SUFFICES ASSUME WalkInv, [ChartsNext]_chartVars PROVE WalkInv'
  OBVIOUS
<1>0. Stored(rows) /\ WalkIs(rows, walk)
  BY DEF WalkInv
<1>1. ASSUME NEW shot \in Shots, NEW delay \in Int, Ingest(shot, delay) PROVE WalkInv'
  <2> DEFINE observed == IF rows = <<>> THEN 0 ELSE rows[Len(rows)].observed + delay
  <2>1. walk' = walk /\ Insert(shot, observed)
    BY <1>1 DEF Ingest
  <2>2. \E e : rows' = Append(rows, e) /\ e.source = shot.source
    <3> HIDE DEF observed
    <3> DEFINE prior == {f.path : f \in KnownTo(shot.run, shot.source)}
               new == Admitted(prior, shot.state)
               paths == Indexed(prior, shot.state)
               values == [p \in DOMAIN shot.state |->
                            IF p \in paths /\ shot.state[p] >= 0 THEN shot.state[p] ELSE Nothing]
               exclusions == Skipped(shot.state) \cup ((Discovered(shot.state) \ prior) \ new)
               row == [run |-> shot.run, source |-> shot.source, observed |-> observed, step |-> shot.step,
                       state |-> shot.state, charted |-> ~shot.event, size |-> shot.size,
                       values |-> values, exclusions |-> exclusions]
    <3>1. rows' = Append(rows, row)
      BY <2>1 DEF Insert
    <3> HIDE DEF prior, new, paths, values, exclusions
    <3>2. row.source = shot.source
      OBVIOUS
    <3> HIDE DEF row
    <3> QED BY <3>1, <3>2
  <2>3. PICK e : rows' = Append(rows, e) /\ e.source = shot.source
    BY <2>2
  <2>4. PICK S : rows \in Seq(S)
    BY <1>0 DEF Stored
  <2>5. /\ Len(rows) \in Nat /\ Len(rows') = Len(rows) + 1
        /\ \A i \in 1 .. Len(rows) : rows'[i] = rows[i]
        /\ rows'[Len(rows) + 1] = e
    BY <2>3, <2>4, RowsGrow
  <2>6. Stored(rows')
    <3>1. rows' \in Seq(S \cup {e})
      BY <2>3, <2>4, AppendProperties, SeqMonotonic
    <3>2. shot.source \in Int
      BY ChartsAssumption DEF ChartsAssumption
    <3>3. \A i \in 1 .. Len(rows') : i \in 1 .. Len(rows) \/ i = Len(rows) + 1
      BY <2>5
    <3> QED BY <3>1, <3>2, <3>3, <2>3, <2>5, <1>0 DEF Stored
  <2>7. WalkIs(rows', walk)
    <3>1. CASE walk = NoWalk
      BY <3>1 DEF WalkIs, NoWalk
    <3>2. CASE walk # NoWalk
      <4>1. walk.at \in {"walking", "ok", "invalid"} /\ walk.request \in Listings /\ walk.since \in 0 .. Len(rows)
        BY <3>2, <1>0 DEF WalkIs
      <4>2. walk.since \in 0 .. Len(rows')
        BY <4>1, <2>5
      <4>3. HistoryWalk(rows, walk) => HistoryWalk(rows', walk)
        BY <4>1, <2>3, <2>4, HistoryWalkGrows
      <4>4. LatestWalk(rows, walk) => LatestWalk(rows', walk)
        BY <4>1, <2>3, <2>4, LatestWalkGrows
      <4> QED BY <4>1, <4>2, <4>3, <4>4, <1>0 DEF WalkIs
    <3> QED BY <3>1, <3>2
  <2> QED BY <2>1, <2>6, <2>7 DEF WalkInv
<1>2. ASSUME UNCHANGED <<rows, walk>> PROVE WalkInv'
  BY <1>2, <1>0 DEF WalkInv
<1>3. ASSUME NEW listing \in Listings, FirstPage(listing) PROVE WalkInv'
  <2> DEFINE w == [request |-> listing, key |-> {}, seen |-> <<>>, since |-> Len(rows)]
             page == IF listing.kind = "history" THEN History(listing, {}) ELSE Latest(listing, {})
  <2>0. Len(rows) \in Nat
    BY <1>0 DEF Stored
  <2>1. w.request = listing /\ w.key = {} /\ w.seen = <<>> /\ w.since = Len(rows)
    OBVIOUS
  <2>2. rows' = rows /\ walk' = [at |-> IF page.is = "ok" /\ page.more THEN "walking" ELSE page.is,
                     request |-> listing, seen |-> <<>> \o page.rows, since |-> Len(rows),
                     key |-> IF page.is = "ok" THEN NextKey(listing.kind, page) ELSE {}]
    BY <1>3 DEF FirstPage, Turn
  <2> HIDE DEF w
  <2>3. HistoryOpen(rows, w)
    <3>1. w.seen \in Seq(Wanted(rows, w)) /\ DOMAIN w.seen = {}
      BY <2>1
    <3>2. Ahead(rows, w) = Wanted(rows, w)
      BY <2>1 DEF Ahead, Wanted, Listed
    <3> QED BY <3>1, <3>2 DEF HistoryOpen, NewestFirst
  <2>4. LatestOpen(rows, w)
    <3>1. w.seen \in Seq(1 .. Len(rows)) /\ DOMAIN w.seen = {}
      BY <2>1
    <3> QED BY <3>1, <2>1 DEF LatestOpen, LatestRead
  <2>5. WalkIs(rows, walk')
    <3> HIDE DEF page
    <3>1. page = IF w.request.kind = "history" THEN History(w.request, w.key) ELSE Latest(w.request, w.key)
      BY <2>1 DEF page
    <3>2. walk' = [at |-> IF page.is = "ok" /\ page.more THEN "walking" ELSE page.is,
                     request |-> w.request, seen |-> w.seen \o page.rows, since |-> w.since,
                     key |-> IF page.is = "ok" THEN NextKey(w.request.kind, page) ELSE {}]
      BY <2>1, <2>2
    <3>3. w.request \in Listings /\ w.since \in 0 .. Len(rows)
      BY <2>0, <2>1
    <3> QED BY <3>1, <3>2, <3>3, <2>3, <2>4, <1>0, WalkTurns
  <2> QED BY <2>2, <2>5, <1>0 DEF WalkInv
<1>4. ASSUME NextPage PROVE WalkInv'
  <2> DEFINE page == IF walk.request.kind = "history" THEN History(walk.request, walk.key)
                     ELSE Latest(walk.request, walk.key)
  <2>1. /\ walk.at = "walking" /\ rows' = rows
        /\ walk' = [at |-> IF page.is = "ok" /\ page.more THEN "walking" ELSE page.is,
                     request |-> walk.request, seen |-> walk.seen \o page.rows, since |-> walk.since,
                     key |-> IF page.is = "ok" THEN NextKey(walk.request.kind, page) ELSE {}]
    BY <1>4 DEF NextPage, Turn
  <2>2. /\ walk.request \in Listings /\ walk.since \in 0 .. Len(rows)
        /\ IF walk.request.kind = "history" THEN HistoryOpen(rows, walk) ELSE LatestOpen(rows, walk)
    BY <2>1, <1>0 DEF WalkIs, NoWalk, HistoryWalk, LatestWalk
  <2> HIDE DEF page
  <2>3. page = IF walk.request.kind = "history" THEN History(walk.request, walk.key) ELSE Latest(walk.request, walk.key)
    BY DEF page
  <2>4. WalkIs(rows, walk')
    BY <2>1, <2>2, <2>3, <1>0, WalkTurns
  <2> QED BY <2>1, <2>4, <1>0 DEF WalkInv
<1>5. ASSUME NEW request, Ask(request) \/ Summarize(request) PROVE UNCHANGED <<rows, walk>>
  BY <1>5 DEF Ask, Summarize
<1>6. ASSUME QueryBounds \/ ReadWindow \/ Merge \/ Cancel PROVE UNCHANGED <<rows, walk>>
  BY <1>6 DEF QueryBounds, ReadWindow, Merge, Cancel
<1>7. ASSUME UNCHANGED chartVars PROVE UNCHANGED <<rows, walk>>
  BY <1>7 DEF chartVars
<1> QED BY <1>1, <1>2, <1>3, <1>4, <1>5, <1>6, <1>7 DEF ChartsNext

LEMMA WalkInvMeans == WalkInv => WalksAreComplete
<1> SUFFICES ASSUME WalkInv, walk.at \in {"walking", "ok"}
             PROVE  WalksAreComplete
  BY DEF WalksAreComplete
<1> DEFINE seen == [k \in DOMAIN walk.seen |-> rows[walk.seen[k]].source]
           wanted == Wanted(rows, walk)
           states == States(rows, walk)
<1>1. /\ walk.since \in Nat
      /\ IF walk.request.kind = "history" THEN HistoryWalk(rows, walk) ELSE LatestWalk(rows, walk)
      /\ Stored(rows) /\ walk.since \in 0 .. Len(rows) /\ Len(rows) \in Nat
  BY DEF WalkInv, WalkIs, NoWalk, Stored
<1>2. ASSUME walk.request.kind = "history"
      PROVE  /\ IsPrefix(walk.seen, Descending(wanted))
             /\ walk.at = "ok" => Len(walk.seen) = Cardinality(wanted)
  <2> DEFINE key == [i \in wanted |-> -i]
             n == Len(walk.seen)
             t == OrderedBy(wanted, key)
  <2>1. /\ walk.seen \in Seq(wanted) /\ NewestFirst(walk.seen)
        /\ walk.at = "walking" => HistoryOpen(rows, walk)
        /\ walk.at = "ok" => \A i \in wanted : Read(walk, i)
    BY <1>1, <1>2 DEF HistoryWalk
  <2>2. IsFiniteSet(wanted) /\ \A i \in wanted : i \in Nat /\ key[i] = -i
    <3>1. wanted \subseteq 1 .. walk.since /\ 1 .. walk.since \subseteq Nat
      BY <1>1 DEF Wanted
    <3>2. IsFiniteSet(1 .. walk.since)
      <4>1. walk.since \in Int
        BY <1>1
      <4> QED BY <4>1, FS_Interval
    <3> HIDE DEF wanted
    <3>3. IsFiniteSet(wanted)
      BY <3>1, <3>2, FS_Subset
    <3> QED BY <3>1, <3>3
  <2> HIDE DEF key, wanted
  <2>3. Keyed(wanted, key)
    BY <2>2 DEF Keyed
  <2>4. n \in Nat /\ walk.seen \in [1 .. n -> wanted] /\ DOMAIN walk.seen = 1 .. n
    BY <2>1, LenProperties
  <2>5. Sorted(walk.seen, key)
    <3> SUFFICES ASSUME NEW j \in 1 .. n, NEW k \in 1 .. n, j < k PROVE key[walk.seen[j]] < key[walk.seen[k]]
      BY <2>4 DEF Sorted
    <3>1. walk.seen[j] > walk.seen[k]
      BY <2>1, <2>4 DEF NewestFirst
    <3>2. walk.seen[j] \in wanted /\ walk.seen[k] \in wanted
      BY <2>4
    <3> QED BY <3>1, <3>2, <2>2
  <2>6. ASSUME NEW i \in wanted, NEW k \in 1 .. n, key[i] <= key[walk.seen[k]] PROVE \E q \in 1 .. n : walk.seen[q] = i
    <3>1. walk.seen[k] \in wanted /\ i >= walk.seen[k]
      BY <2>2, <2>4, <2>6
    <3>2. CASE walk.at = "ok"
      BY <3>2, <2>1, <2>4 DEF Read
    <3>3. CASE walk.at = "walking"
      <4>1. HistoryOpen(rows, walk)
        BY <3>3, <2>1
      <4>2. i \notin Ahead(rows, walk)
        <5>1. i \in Ahead(rows, walk) => i < walk.seen[k]
          BY <4>1, <2>4 DEF HistoryOpen
        <5> QED BY <5>1, <3>1, <2>2
      <4> QED BY <4>1, <4>2, <2>4 DEF HistoryOpen, Read, wanted
    <3> QED BY <3>2, <3>3
  <2>7. /\ n <= Cardinality(wanted)
        /\ \A k \in 1 .. n : walk.seen[k] = t[k]
        /\ (\A i \in wanted : \E q \in 1 .. n : walk.seen[q] = i) => n = Cardinality(wanted)
    <3> DEFINE u == walk.seen
    <3>1. IsFiniteSet(wanted) /\ Keyed(wanted, key) /\ n \in Nat
      BY <2>2, <2>3, <2>4
    <3>2. u \in [1 .. n -> wanted] /\ Sorted(u, key)
      BY <2>4, <2>5
    <3>3. \A i \in wanted, k \in 1 .. n : key[i] <= key[u[k]] => \E q \in 1 .. n : u[q] = i
      BY <2>6
    <3> HIDE DEF u, n, t
    <3>4. /\ n <= Cardinality(wanted)
          /\ \A k \in 1 .. n : u[k] = OrderedBy(wanted, key)[k]
          /\ (\A i \in wanted : \E q \in 1 .. n : u[q] = i) => n = Cardinality(wanted)
      BY <3>1, <3>2, <3>3, SortedPrefix
    <3>5. t = OrderedBy(wanted, key)
      BY DEF t
    <3> QED BY <3>4, <3>5 DEF u
  <2>8. Descending(wanted) = t
    BY DEF Descending, key
  <2>9. t \in Seq(wanted) /\ Len(t) = Cardinality(wanted)
    <3>1. Cardinality(wanted) \in Nat /\ t \in [1 .. Cardinality(wanted) -> wanted]
      BY <2>2, <2>3, OrderedByIs
    <3> HIDE DEF t
    <3> QED BY <3>1
  <2> HIDE DEF t
  <2>10. SubSeq(walk.seen, 1, n) = SubSeq(t, 1, n)
    <3>1. /\ SubSeq(walk.seen, 1, n) \in Seq(wanted) /\ Len(SubSeq(walk.seen, 1, n)) = n
          /\ \A i \in 1 .. n : SubSeq(walk.seen, 1, n)[i] = walk.seen[i]
      BY <2>1, <2>4, SubSeqFull
    <3>2. \A i \in 1 .. n : t[i] \in wanted
      BY <2>4, <2>7
    <3>3. /\ SubSeq(t, 1, n) \in Seq(wanted) /\ Len(SubSeq(t, 1, n)) = IF 1 <= n THEN n - 1 + 1 ELSE 0
          /\ \A i \in 1 .. n - 1 + 1 : SubSeq(t, 1, n)[i] = t[1 + i - 1]
      BY <3>2, <2>4, SubSeqProperties
    <3>4. Len(SubSeq(t, 1, n)) = n /\ \A i \in 1 .. n : SubSeq(t, 1, n)[i] = t[i]
      <4>1. \A i \in 1 .. n : i \in 1 .. n - 1 + 1 /\ 1 + i - 1 = i
        BY <2>4
      <4> QED BY <3>3, <4>1, <2>4
    <3> QED BY <3>1, <3>3, <3>4, <2>7, SeqEqual
  <2> QED BY <2>1, <2>4, <2>7, <2>8, <2>9, <2>10 DEF IsPrefix, Read
<1>3. ASSUME walk.request.kind # "history"
      PROVE  /\ \A k \in 1 .. Len(seen) - 1 : seen[k] < seen[k + 1]
             /\ walk.at = "ok" => {rows[i].source : i \in states} \subseteq ToSet(seen)
             /\ \A k \in DOMAIN seen :
                  /\ rows[walk.seen[k]].charted
                  /\ \A i \in states : rows[i].source = seen[k] => i <= walk.seen[k]
  <2>1. LatestRead(rows, walk) /\ (walk.at = "ok" => \A i \in states : ReadOf(rows, walk, i))
    BY <1>1, <1>3 DEF LatestWalk
  <2>2. /\ DOMAIN walk.seen = 1 .. Len(walk.seen) /\ Len(walk.seen) \in Nat
        /\ \A k \in 1 .. Len(walk.seen) : walk.seen[k] \in 1 .. Len(rows)
    BY <2>1, LenProperties DEF LatestRead
  <2>3. seen \in Seq(Int) /\ Len(seen) = Len(walk.seen) /\ DOMAIN seen = 1 .. Len(walk.seen)
    <3>1. seen \in [1 .. Len(walk.seen) -> Int]
      BY <2>2, <1>1 DEF Stored
    <3> HIDE DEF seen
    <3> QED BY <3>1, <2>2
  <2>4. \A k \in 1 .. Len(walk.seen) : seen[k] = rows[walk.seen[k]].source
    BY <2>2
  <2> HIDE DEF seen, states
  <2>5. ASSUME NEW k \in 1 .. Len(seen) - 1 PROVE seen[k] < seen[k + 1]
    <3>1. k \in 1 .. Len(walk.seen) /\ k + 1 \in 1 .. Len(walk.seen) /\ k < k + 1
      BY <2>2, <2>3
    <3> QED BY <3>1, <2>1, <2>2, <2>4 DEF LatestRead
  <2>6. ASSUME walk.at = "ok", NEW i \in states PROVE rows[i].source \in ToSet(seen)
    BY <2>1, <2>2, <2>3, <2>4, <2>6 DEF ReadOf, ToSet
  <2>7. ASSUME NEW k \in DOMAIN seen
        PROVE  /\ rows[walk.seen[k]].charted
               /\ \A i \in states : rows[i].source = seen[k] => i <= walk.seen[k]
    BY <2>1, <2>2, <2>3, <2>4 DEF LatestRead, states
  <2> QED BY <2>5, <2>6, <2>7
<1> DEFINE start == {i \in 1 .. walk.since :
                      /\ rows[i].run = walk.request.run
                      /\ walk.request.sources = {} \/ rows[i].source \in walk.request.sources}
<1>4. wanted = {i \in start : InRange(rows[i].observed, walk.request.from, walk.request.to)}
  BY DEF Wanted, Selects
<1>5. states = {i \in start : rows[i].charted}
  BY DEF States, Selects
<1> HIDE DEF wanted, states, start, seen
<1> QED BY <1>2, <1>3, <1>4, <1>5 DEF WalksAreComplete, start, seen

(* WalksAreComplete holds of every run: whatever is ingested between two   *)
(* pages, and wherever the byte budget cuts them, a client that follows    *)
(* next_before_id or next_source_id misses nothing and reads nothing twice *)
(* (snapshot_store.rs page).                                               *)
THEOREM WalksStayComplete == ChartsSpec => []WalksAreComplete
<1>1. ChartsInit => WalkInv
  BY WalkInit
<1>2. WalkInv /\ [ChartsNext]_chartVars => WalkInv'
  BY WalkStep
<1>3. WalkInv => WalksAreComplete
  BY WalkInvMeans
<1> QED BY <1>1, <1>2, <1>3, PTL DEF ChartsSpec

-------------------------------------------------------------------------------
(* The rows of a set in the order of a chart.                              *)

(* A strict total order, as its pairs.                                     *)
Orders(B, S) ==
  /\ \A i \in S : <<i, i>> \notin B
  /\ \A i, j, k \in S : <<i, j>> \in B /\ <<j, k>> \in B => <<i, k>> \in B
  /\ \A i, j \in S : i = j \/ <<i, j>> \in B \/ <<j, i>> \in B

LEMMA RankedIs ==
  ASSUME NEW S, IsFiniteSet(S), NEW B, Orders(B, S),
         NEW key, key = [i \in S |-> Cardinality({j \in S : <<j, i>> \in B})]
  PROVE  Keyed(S, key) /\ \A i, j \in S : key[i] < key[j] <=> <<i, j>> \in B
<1> DEFINE Below(i) == {j \in S : <<j, i>> \in B}
<1>1. ASSUME NEW i \in S
      PROVE  key[i] = Cardinality(Below(i)) /\ IsFiniteSet(Below(i)) /\ Cardinality(Below(i)) \in Nat
  <2>1. Below(i) \subseteq S
    OBVIOUS
  <2>2. key[i] = Cardinality(Below(i))
    OBVIOUS
  <2> HIDE DEF Below
  <2> QED BY <2>1, <2>2, FS_Subset, FS_CardinalityType
<1>2. ASSUME NEW i \in S, NEW j \in S, <<i, j>> \in B PROVE key[i] < key[j]
  <2>1. Below(i) \subseteq Below(j) /\ i \in Below(j) /\ i \notin Below(i)
    BY <1>2 DEF Orders
  <2> HIDE DEF Below
  <2>2. /\ IsFiniteSet(Below(j)) /\ key[i] = Cardinality(Below(i)) /\ key[j] = Cardinality(Below(j))
        /\ Cardinality(Below(i)) \in Nat /\ Cardinality(Below(j)) \in Nat
    BY <1>1
  <2>3. /\ Cardinality(Below(i)) <= Cardinality(Below(j))
        /\ Cardinality(Below(j)) = Cardinality(Below(i)) => Below(j) = Below(i)
    BY <2>1, <2>2, FS_Subset
  <2> QED BY <2>1, <2>2, <2>3
<1>3. \A i \in S : key[i] \in Nat
  BY <1>1
<1>4. \A i, j \in S : i = j \/ <<i, j>> \in B \/ <<j, i>> \in B
  BY DEF Orders
<1>5. ASSUME NEW i \in S, NEW j \in S PROVE (key[i] < key[j] <=> <<i, j>> \in B) /\ (key[i] = key[j] => i = j)
  <2>1. key[i] \in Nat /\ key[j] \in Nat
    BY <1>3
  <2>2. (<<i, j>> \in B => key[i] < key[j]) /\ (<<j, i>> \in B => key[j] < key[i])
    BY <1>2
  <2>3. i = j \/ <<i, j>> \in B \/ <<j, i>> \in B
    BY <1>4
  <2> QED BY <2>1, <2>2, <2>3
<1>6. \A i \in S : key[i] \in Int
  BY <1>3
<1> HIDE DEF Below
<1> QED BY <1>5, <1>6 DEF Keyed

(* Rows whose place on the axis is known.                                  *)
OnAxis(S, axis) ==
  IsFiniteSet(S) /\ S \subseteq Int /\ \A i \in S : AxisAt(i, axis) \in Int /\ rows[i].observed \in Int

LEMMA BeforeOrders ==
  ASSUME NEW S, NEW axis, OnAxis(S, axis)
  PROVE  /\ \A i \in S : ~Before(axis, i, i)
         /\ \A i, j, k \in S : Before(axis, i, j) /\ Before(axis, j, k) => Before(axis, i, k)
         /\ \A i, j \in S : i = j \/ Before(axis, i, j) \/ Before(axis, j, i)
<1> DEFINE at == [i \in S |-> AxisAt(i, axis)]
           on == [i \in S |-> rows[i].observed]
<1>1. \A i, j \in S : Before(axis, i, j) <=> \/ at[i] < at[j]
                                             \/ at[i] = at[j] /\ on[i] < on[j]
                                             \/ at[i] = at[j] /\ on[i] = on[j] /\ i < j
  BY DEF Before
<1>2. \A i \in S : at[i] \in Int /\ on[i] \in Int /\ i \in Int
  BY DEF OnAxis
<1> HIDE DEF at, on
<1> QED BY <1>1, <1>2

LEMMA OrderedIs ==
  ASSUME NEW S, NEW axis, OnAxis(S, axis), NEW o, o = Ordered(S, axis)
  PROVE  /\ Cardinality(S) \in Nat /\ o \in [1 .. Cardinality(S) -> S]
         /\ \A j, k \in 1 .. Cardinality(S) : j < k => Before(axis, o[j], o[k])
         /\ \A i \in S : \E k \in 1 .. Cardinality(S) : o[k] = i
<1> DEFINE B == {b \in S \X S : Before(axis, b[1], b[2])}
           key == [i \in S |-> Cardinality({j \in S : Before(axis, j, i)})]
<1>1. \A i, j \in S : <<i, j>> \in B <=> Before(axis, i, j)
  OBVIOUS
<1>2. key = [i \in S |-> Cardinality({j \in S : <<j, i>> \in B})]
  <2>1. \A i \in S : {j \in S : Before(axis, j, i)} = {j \in S : <<j, i>> \in B}
    BY <1>1
  <2> HIDE DEF B
  <2> QED BY <2>1
<1>3. o = OrderedBy(S, key)
  BY DEF Ordered
<1> HIDE DEF B, key
<1>4. Orders(B, S)
  BY <1>1, BeforeOrders DEF Orders
<1>5. IsFiniteSet(S)
  BY DEF OnAxis
<1>6. Keyed(S, key) /\ \A i, j \in S : key[i] < key[j] <=> <<i, j>> \in B
  BY <1>2, <1>4, <1>5, RankedIs
<1>7. /\ Cardinality(S) \in Nat /\ o \in [1 .. Cardinality(S) -> S] /\ Sorted(o, key)
      /\ \A i \in S : \E k \in 1 .. Cardinality(S) : o[k] = i
  BY <1>3, <1>5, <1>6, OrderedByIs
<1> QED BY <1>1, <1>6, <1>7 DEF Sorted

LEMMA MaxIs ==
  ASSUME NEW S, IsFiniteSet(S), S # {}, S \subseteq Int
  PROVE  Max(S) \in S /\ \A j \in S : j <= Max(S)
<1>1. PICK i \in S : \A j \in S : j <= i
  BY LargestExists
<1>2. \A j \in S : i >= j
  BY <1>1
<1>3. Max(S) \in S /\ \A j \in S : Max(S) >= j
  BY <1>2 DEF Max
<1> QED BY <1>3

LEMMA MinIs ==
  ASSUME NEW S, IsFiniteSet(S), S # {}, S \subseteq Int
  PROVE  Min(S) \in S /\ \A j \in S : Min(S) <= j
<1>1. PICK i \in S : \A j \in S : i <= j
  BY SmallestExists
<1>2. Min(S) \in S /\ \A j \in S : Min(S) <= j
  BY <1>1 DEF Min
<1> QED BY <1>2

-------------------------------------------------------------------------------
(* Sampling.                                                               *)

(* Positions in order, from the first to the last.                         *)
Spans(even, length, count) ==
  /\ even \in [1 .. count -> 1 .. length]
  /\ even[count] = length
  /\ even[1] = 1 \/ count = 1
  /\ \A j, k \in 1 .. count : j < k => even[j] < even[k]

LEMMA SpreadIs ==
  ASSUME NEW length \in Nat \ {0}, NEW count \in 1 .. length
  PROVE  Spans(Spread(length, count), length, count)
<1> DEFINE even == Spread(length, count)
<1> SUFFICES Spans(even, length, count)
  OBVIOUS
<1>1. CASE count = 1
  BY <1>1 DEF Spread, Spans
<1>2. CASE count # 1
  <2> DEFINE L == length - 1
             C == count - 1
             q == [k \in 1 .. count |-> ((k - 1) * L) \div C]
  <2>1. L \in Nat /\ C \in Nat \ {0} /\ C <= L
    BY <1>2
  <2>2. even = [k \in 1 .. count |-> q[k] + 1]
    BY <1>2 DEF Spread
  <2>3. q[1] = 0
    <3> HIDE DEF L, C
    <3>1. q[1] = (0 * L) \div C
      BY <2>1
    <3>2. 0 * L = 0
      BY <2>1
    <3> QED BY <2>1, <3>1, <3>2
  <2>4. q[count] = L
    <3>1. q[count] = (C * L) \div C
      OBVIOUS
    <3> HIDE DEF L, C, q
    <3> QED BY <2>1, <3>1
  <2>5. ASSUME NEW j \in 1 .. count, NEW k \in 1 .. count, j < k PROVE q[j] < q[k]
    <3> DEFINE a == (j - 1) * L
               b == (k - 1) * L
    <3>1. q[j] = a \div C /\ q[k] = b \div C
      OBVIOUS
    <3> HIDE DEF L, C, q
    <3>2. a \in Int /\ b \in Int /\ b - a = (k - j) * L
      BY <2>1
    <3>3. (k - j) * L >= L
      <4>1. \A d \in Nat \ {0}, e \in Nat : d * e >= e
        OBVIOUS
      <4>2. k - j \in Nat \ {0}
        BY <2>5
      <4> QED BY <4>1, <4>2, <2>1
    <3> HIDE DEF a, b
    <3>4. b >= a + C
      <4>1. (k - j) * L \in Int
        BY <2>1
      <4> QED BY <4>1, <3>2, <3>3, <2>1
    <3> QED BY <2>1, <3>1, <3>2, <3>4
  <2>6. \A k \in 1 .. count : q[k] \in Int
    <3> SUFFICES ASSUME NEW k \in 1 .. count PROVE q[k] \in Int
      OBVIOUS
    <3>1. (k - 1) * L \in Int
      BY <2>1
    <3> HIDE DEF L, C
    <3> QED BY <2>1, <3>1
  <2>7. \A k \in 1 .. count : q[k] \in 0 .. L
    <3> SUFFICES ASSUME NEW k \in 1 .. count PROVE q[k] \in 0 .. L
      OBVIOUS
    <3> HIDE DEF q, L
    <3>1. k = 1 \/ q[1] < q[k]
      BY <2>5
    <3>2. k = count \/ q[k] < q[count]
      BY <2>5
    <3> QED BY <3>1, <3>2, <2>1, <2>3, <2>4, <2>6
  <2> HIDE DEF q
  <2>8. \A k \in 1 .. count : even[k] = q[k] + 1
    BY <2>2
  <2>9. even \in [1 .. count -> 1 .. length]
    BY <2>2, <2>7
  <2>10. even[count] = length /\ even[1] = 1
    <3>1. count \in 1 .. count /\ 1 \in 1 .. count
      OBVIOUS
    <3> QED BY <3>1, <2>8, <2>3, <2>4
  <2>11. \A j, k \in 1 .. count : j < k => even[j] < even[k]
    BY <2>5, <2>6, <2>8
  <2> HIDE DEF even
  <2> QED BY <2>9, <2>10, <2>11 DEF Spans
<1> QED BY <1>1, <1>2

(* The k-th position, if the one after it is `next`.                       *)
Moved(length, count, missing, k, next) ==
  LET even == Spread(length, count)
      gaps == {g \in missing : even[k] < g /\ g < next} IN
  IF k < count /\ even[k] \notin missing /\ next \notin missing /\ gaps # {} THEN Max(gaps) ELSE even[k]

(* The positions are well defined: from the last one back.                 *)
LEMMA PositionsExist ==
  ASSUME NEW length \in Nat \ {0}, NEW count \in 1 .. length, NEW missing, NEW p, p = SamplePositions(length, count, missing)
  PROVE  p = [k \in 1 .. count |-> Moved(length, count, missing, k, p[k + 1])]
<1> DEFINE M(k, next) == Moved(length, count, missing, k, next)
           From(m) == \E g : g = [k \in m .. count |-> M(k, g[k + 1])]
           Bad == {m \in 1 .. count : ~From(m)}
<1>1. \A x, y : M(count, x) = M(count, y)
  BY DEF Moved
<1>2. From(count)
  <2> DEFINE g == [k \in count .. count |-> M(count, 0)]
  <2>1. \A k \in count .. count : k = count
    OBVIOUS
  <2> HIDE DEF M
  <2>2. g = [k \in count .. count |-> M(k, g[k + 1])]
    BY <2>1, <1>1
  <2> QED BY <2>2
<1>3. ASSUME NEW m \in 1 .. count - 1, From(m + 1) PROVE From(m)
  <2>1. PICK g : g = [k \in m + 1 .. count |-> M(k, g[k + 1])]
    BY <1>3
  <2> DEFINE h == [k \in m .. count |-> IF k = m THEN M(m, g[m + 1]) ELSE g[k]]
  <2> HIDE DEF M
  <2>2. ASSUME NEW k \in m .. count PROVE h[k] = M(k, h[k + 1])
    <3>1. CASE k = m
      <4>1. h[k] = M(m, g[m + 1]) /\ m + 1 \in m .. count /\ h[m + 1] = g[m + 1]
        BY <3>1
      <4> QED BY <4>1, <3>1
    <3>2. CASE k # m /\ k < count
      <4>1. /\ k \in m + 1 .. count /\ k + 1 \in m .. count /\ k + 1 # m /\ k \in m .. count
        BY <3>2
      <4>2. h[k] = g[k] /\ h[k + 1] = g[k + 1]
        BY <4>1, <3>2
      <4> HIDE DEF h
      <4>3. g[k] = M(k, g[k + 1])
        BY <2>1, <4>1
      <4> QED BY <4>2, <4>3
    <3>3. CASE k # m /\ k = count
      <4>1. k \in m + 1 .. count /\ h[k] = g[k]
        BY <3>3
      <4> HIDE DEF h
      <4>2. g[k] = M(k, g[k + 1])
        BY <2>1, <4>1
      <4> QED BY <4>1, <4>2, <1>1, <3>3
    <3> QED BY <3>1, <3>2, <3>3
  <2>3. h = [k \in m .. count |-> M(k, h[k + 1])]
    <3>1. h = [k \in m .. count |-> h[k]]
      OBVIOUS
    <3> HIDE DEF h
    <3> QED BY <2>2, <3>1
  <2> QED BY <2>3
<1> HIDE DEF From
<1>4. Bad = {}
  <2> SUFFICES ASSUME Bad # {} PROVE FALSE
    OBVIOUS
  <2>1. IsFiniteSet(1 .. count) /\ Bad \subseteq 1 .. count /\ Bad \subseteq Int
    BY FS_Interval
  <2>2. PICK m \in Bad : \A j \in Bad : j <= m
    <3> HIDE DEF Bad
    <3>1. IsFiniteSet(Bad)
      BY <2>1, FS_Subset
    <3> QED BY <3>1, <2>1, LargestExists
  <2>3. m # count /\ m \in 1 .. count
    BY <2>2, <1>2
  <2>4. m + 1 \in 1 .. count /\ m \in 1 .. count - 1
    BY <2>3
  <2>5. From(m + 1)
    <3>1. m + 1 \notin Bad
      BY <2>2, <2>3
    <3> QED BY <3>1, <2>4
  <2> QED BY <2>2, <2>4, <2>5, <1>3
<1>5. From(1)
  <2>1. 1 \in 1 .. count
    OBVIOUS
  <2> QED BY <1>4, <2>1
<1>6. p = CHOOSE g : g = [k \in 1 .. count |-> M(k, g[k + 1])]
  BY DEF SamplePositions, Moved
<1> HIDE DEF M
<1>7. p = [k \in 1 .. count |-> M(k, p[k + 1])]
  BY <1>5, <1>6 DEF From
<1> QED BY <1>7 DEF M

(* No two positions that are not missing join across one that is.          *)
Separates(p, length, count, missing) ==
  /\ p \in [1 .. count -> 1 .. length]
  /\ p[count] = length
  /\ p[1] = 1 \/ p[1] \in missing \/ count = 1
  /\ \A j, k \in 1 .. count : j < k => p[j] < p[k]
  /\ \A k \in 1 .. count - 1 :
       p[k] \in missing \/ p[k + 1] \in missing \/ \A g \in missing : ~(p[k] < g /\ g < p[k + 1])

LEMMA SamplePositionsIs ==
  ASSUME NEW length \in Nat \ {0}, NEW count \in 1 .. length, NEW missing, missing \subseteq 1 .. length
  PROVE  Separates(SamplePositions(length, count, missing), length, count, missing)
<1> SUFFICES ASSUME NEW p, p = SamplePositions(length, count, missing) PROVE Separates(p, length, count, missing)
  OBVIOUS
<1> DEFINE even == Spread(length, count)
           Gaps(k) == {g \in missing : even[k] < g /\ g < p[k + 1]}
           Shifts(k) == k < count /\ even[k] \notin missing /\ p[k + 1] \notin missing /\ Gaps(k) # {}
<1>1. /\ even \in [1 .. count -> 1 .. length]
      /\ even[count] = length
      /\ even[1] = 1 \/ count = 1
      /\ \A j, k \in 1 .. count : j < k => even[j] < even[k]
  BY SpreadIs DEF Spans
<1>2. /\ DOMAIN p = 1 .. count
      /\ p = [k \in 1 .. count |-> p[k]]
      /\ \A k \in 1 .. count : p[k] = IF Shifts(k) THEN Max(Gaps(k)) ELSE even[k]
  <2>1. p = [k \in 1 .. count |-> Moved(length, count, missing, k, p[k + 1])]
    BY PositionsExist
  <2>2. \A k \in 1 .. count : Moved(length, count, missing, k, p[k + 1]) = IF Shifts(k) THEN Max(Gaps(k)) ELSE even[k]
    BY DEF Moved
  <2> HIDE DEF Shifts, Gaps, even
  <2> QED BY <2>1, <2>2
<1> HIDE DEF even
<1>3. ASSUME NEW k \in 1 .. count, Shifts(k)
      PROVE  p[k] \in missing /\ even[k] < p[k] /\ p[k] < p[k + 1]
  <2>1. p[k] = Max(Gaps(k)) /\ Gaps(k) # {} /\ Gaps(k) \subseteq missing /\ Gaps(k) \subseteq 1 .. length
    BY <1>2, <1>3
  <2>2. \A g \in Gaps(k) : even[k] < g /\ g < p[k + 1]
    OBVIOUS
  <2> HIDE DEF Gaps
  <2>3. IsFiniteSet(Gaps(k)) /\ Gaps(k) \subseteq Int
    <3>1. IsFiniteSet(1 .. length) /\ 1 .. length \subseteq Int
      BY FS_Interval
    <3> QED BY <2>1, <3>1, FS_Subset
  <2>4. p[k] \in Gaps(k)
    BY <2>1, <2>3, MaxIs
  <2> QED BY <2>1, <2>2, <2>4
<1>4. ASSUME NEW k \in 1 .. count PROVE p[k] = even[k] \/ (p[k] \in missing /\ even[k] < p[k])
  BY <1>2, <1>3
<1>5. p \in [1 .. count -> 1 .. length]
  <2>1. \A k \in 1 .. count : p[k] \in 1 .. length
    <3> SUFFICES ASSUME NEW k \in 1 .. count PROVE p[k] \in 1 .. length
      OBVIOUS
    <3>1. even[k] \in 1 .. length
      BY <1>1
    <3> QED BY <1>4, <3>1
  <2>2. p = [k \in 1 .. count |-> p[k]]
    BY <1>2
  <2> QED BY <2>1, <2>2
<1>6. ASSUME NEW k \in 1 .. count - 1 PROVE p[k] < even[k + 1]
  <2>1. k \in 1 .. count /\ k + 1 \in 1 .. count
    OBVIOUS
  <2>2. CASE Shifts(k)
    <3>1. p[k] < p[k + 1] /\ p[k + 1] \notin missing
      BY <2>1, <2>2, <1>3
    <3> QED BY <3>1, <2>1, <1>4
  <2>3. CASE ~Shifts(k)
    <3>1. p[k] = even[k]
      BY <2>1, <2>3, <1>2
    <3> QED BY <3>1, <2>1, <1>1
  <2> QED BY <2>2, <2>3
<1>7. ASSUME NEW j \in 1 .. count, NEW k \in 1 .. count, j < k PROVE p[j] < p[k]
  <2>1. j \in 1 .. count - 1 /\ j + 1 \in 1 .. count
    BY <1>7
  <2>2. p[j] < even[j + 1]
    BY <2>1, <1>6
  <2>3. j + 1 = k \/ even[j + 1] < even[k]
    BY <1>1, <2>1, <1>7
  <2>4. even[j + 1] \in Int /\ even[k] \in Int /\ p[j] \in Int /\ p[k] \in Int
    <3>1. even[j + 1] \in 1 .. length /\ even[k] \in 1 .. length /\ p[j] \in 1 .. length /\ p[k] \in 1 .. length
      BY <1>1, <1>5, <2>1
    <3> QED BY <3>1
  <2>5. even[k] <= p[k]
    BY <1>4, <2>4
  <2> QED BY <2>2, <2>3, <2>4, <2>5
<1>8. p[count] = length
  <2>1. count \in 1 .. count /\ ~Shifts(count)
    OBVIOUS
  <2>2. p[count] = even[count]
    BY <2>1, <1>2
  <2> QED BY <2>2, <1>1
<1>9. p[1] = 1 \/ p[1] \in missing \/ count = 1
  <2>1. 1 \in 1 .. count
    OBVIOUS
  <2> QED BY <2>1, <1>1, <1>4
<1>10. ASSUME NEW k \in 1 .. count - 1
       PROVE  p[k] \in missing \/ p[k + 1] \in missing \/ \A g \in missing : ~(p[k] < g /\ g < p[k + 1])
  <2>1. k \in 1 .. count
    OBVIOUS
  <2>2. CASE Shifts(k)
    BY <2>1, <2>2, <1>3
  <2>3. CASE ~Shifts(k)
    <3>1. p[k] = even[k]
      BY <2>1, <2>3, <1>2
    <3> QED BY <3>1, <2>3
  <2> QED BY <2>2, <2>3
<1> HIDE DEF Shifts, Gaps
<1> QED BY <1>5, <1>7, <1>8, <1>9, <1>10 DEF Separates

(* p is where the sample s of a series takes its points from: the last one *)
(* and no two numbers with a point between them that has none.             *)
Picks(p, s, points, path) ==
  LET Null(i) == rows[i].values[path] = Nothing IN
  /\ Len(s) \in 1 .. Len(points) /\ p \in [1 .. Len(s) -> 1 .. Len(points)]
  /\ s = [k \in 1 .. Len(s) |-> points[p[k]]]
  /\ \A j, k \in 1 .. Len(s) : j < k => p[j] < p[k]
  /\ p[Len(s)] = Len(points)
  /\ p[1] = 1 \/ Null(s[1]) \/ Len(s) = 1
  /\ \A k \in 1 .. Len(s) - 1 :
       Null(s[k]) \/ Null(s[k + 1]) \/ \A q \in 1 .. Len(points) : p[k] < q /\ q < p[k + 1] => ~Null(points[q])

LEMMA SampledIs ==
  ASSUME NEW S, NEW points \in Seq(S), NEW path, NEW count \in 1 .. Len(points),
         NEW s, s = Sampled(points, path, count)
  PROVE  s \in Seq(S) /\ Len(s) = count /\ \E p : Picks(p, s, points, path)
<1> DEFINE missing == {k \in DOMAIN points : rows[points[k]].values[path] = Nothing}
           p == SamplePositions(Len(points), count, missing)
<1>1. Len(points) \in Nat \ {0} /\ DOMAIN points = 1 .. Len(points) /\ missing \subseteq 1 .. Len(points)
  OBVIOUS
<1>2. s = [k \in 1 .. count |-> points[p[k]]]
  BY DEF Sampled
<1>3. \A q \in 1 .. Len(points) : q \in missing <=> rows[points[q]].values[path] = Nothing
  BY <1>1
<1> HIDE DEF missing
<1>4. /\ p \in [1 .. count -> 1 .. Len(points)]
      /\ p[count] = Len(points)
      /\ p[1] = 1 \/ p[1] \in missing \/ count = 1
      /\ \A j, k \in 1 .. count : j < k => p[j] < p[k]
      /\ \A k \in 1 .. count - 1 :
           p[k] \in missing \/ p[k + 1] \in missing \/ \A g \in missing : ~(p[k] < g /\ g < p[k + 1])
  BY <1>1, SamplePositionsIs DEF Separates
<1> HIDE DEF p
<1>5. s \in Seq(S) /\ Len(s) = count
  <2>1. \A k \in 1 .. count : points[p[k]] \in S
    BY <1>4
  <2>2. s \in [1 .. count -> S] /\ count \in Nat
    BY <1>2, <2>1
  <2> QED BY <2>2
<1>6. \A k \in 1 .. count : s[k] = points[p[k]] /\ p[k] \in 1 .. Len(points)
  BY <1>2, <1>4
<1>7. 1 \in 1 .. count /\ \A k \in 1 .. count - 1 : k \in 1 .. count /\ k + 1 \in 1 .. count
  OBVIOUS
<1>8. Picks(p, s, points, path)
  BY <1>2, <1>3, <1>4, <1>5, <1>6, <1>7 DEF Picks
<1> QED BY <1>5, <1>8

-------------------------------------------------------------------------------
(* The index.                                                              *)
RowsFit ==
  /\ \E S : rows \in Seq(S)
  /\ \A i \in Ids : /\ rows[i].observed \in Int /\ rows[i].charted \in BOOLEAN
                    /\ rows[i].step \subseteq Int /\ \A m, n \in rows[i].step : m = n
                    /\ rows[i].state \in [Paths -> Nat \cup {Nothing, List}]

(* What the index holds of a row is what the state held; what it left out  *)
(* is excluded, and was not yet a field of the Source.                     *)
IndexFits ==
  /\ \A f \in fields : f.first \in Ids
  /\ \A i \in Ids, p \in Paths :
       LET prior == {f \in KnownTo(rows[i].run, rows[i].source) : f.path = p} IN
       /\ rows[i].values[p] # Nothing =>
            /\ rows[i].values[p] = rows[i].state[p] /\ rows[i].state[p] >= 0
            /\ rows[i].charted => \E f \in prior : f.first <= i
       /\ rows[i].values[p] = Nothing /\ rows[i].state[p] >= 0 =>
            Excludes(i, p) /\ \A f \in prior : i < f.first

LEMMA IngestIs ==
  ASSUME RowsFit, NEW shot \in Shots, NEW delay \in Int, Ingest(shot, delay)
  PROVE  /\ chart' = chart /\ Len(rows) \in Nat /\ Len(rows') = Len(rows) + 1
         /\ \A i \in Ids : rows'[i] = rows[i]
         /\ RowsFit'
<1> DEFINE observed == IF rows = <<>> THEN 0 ELSE rows[Len(rows)].observed + delay
<1>1. chart' = chart /\ Insert(shot, observed)
  BY DEF Ingest
<1>2. PICK e : /\ rows' = Append(rows, e) /\ e.observed = observed /\ e.charted = ~shot.event
               /\ e.step = shot.step /\ e.state = shot.state
  <2> HIDE DEF observed
  <2> DEFINE prior == {f.path : f \in KnownTo(shot.run, shot.source)}
             new == Admitted(prior, shot.state)
             values == [p \in DOMAIN shot.state |->
                          IF p \in Indexed(prior, shot.state) /\ shot.state[p] >= 0 THEN shot.state[p] ELSE Nothing]
             exclusions == Skipped(shot.state) \cup ((Discovered(shot.state) \ prior) \ new)
             row == [run |-> shot.run, source |-> shot.source, observed |-> observed, step |-> shot.step,
                     state |-> shot.state, charted |-> ~shot.event, size |-> shot.size,
                     values |-> values, exclusions |-> exclusions]
  <2>1. rows' = Append(rows, row)
    BY <1>1 DEF Insert
  <2> HIDE DEF values, exclusions
  <2>2. /\ row.observed = observed /\ row.charted = ~shot.event
        /\ row.step = shot.step /\ row.state = shot.state
    OBVIOUS
  <2> QED BY <2>1, <2>2
<1>3. PICK S : rows \in Seq(S)
  BY DEF RowsFit
<1>4. observed \in Int
  <2>1. rows # <<>> => Len(rows) \in Ids
    BY <1>3 DEF Ids
  <2> QED BY <2>1 DEF RowsFit
<1> HIDE DEF observed
<1>5. /\ Len(rows) \in Nat /\ Len(rows') = Len(rows) + 1
      /\ \A i \in 1 .. Len(rows) : rows'[i] = rows[i]
      /\ rows'[Len(rows) + 1] = e
      /\ rows' \in Seq(S \cup {e})
  BY <1>2, <1>3
<1>6. RowsFit'
  <2>1. \E T : rows' \in Seq(T)
    BY <1>5
  <2>2. ASSUME NEW i \in 1 .. Len(rows')
        PROVE /\ rows'[i].observed \in Int /\ rows'[i].charted \in BOOLEAN
              /\ rows'[i].step \subseteq Int /\ \A m, n \in rows'[i].step : m = n
              /\ rows'[i].state \in [Paths -> Nat \cup {Nothing, List}]
    <3>1. CASE i \in 1 .. Len(rows)
      BY <3>1, <1>5 DEF RowsFit, Ids
    <3>2. CASE i = Len(rows) + 1
      <4>1. rows'[i] = e
        BY <3>2, <1>5
      <4> QED BY <4>1, <1>2, <1>4, ChartsAssumption
    <3> QED BY <3>1, <3>2, <1>5
  <2> QED BY <2>1, <2>2 DEF RowsFit, Ids
<1> QED BY <1>1, <1>5, <1>6 DEF Ids

LEMMA IndexStaysExact ==
  ASSUME RowsFit, IndexFits, NEW shot \in Shots, NEW delay \in Int, Ingest(shot, delay)
  PROVE  IndexFits' /\ fields \subseteq fields'
<1> DEFINE n == Len(rows) + 1
           observed == IF rows = <<>> THEN 0 ELSE rows[Len(rows)].observed + delay
           prior == {f.path : f \in KnownTo(shot.run, shot.source)}
           new == Admitted(prior, shot.state)
           values == [p \in DOMAIN shot.state |->
                        IF p \in Indexed(prior, shot.state) /\ shot.state[p] >= 0 THEN shot.state[p] ELSE Nothing]
           exclusions == Skipped(shot.state) \cup ((Discovered(shot.state) \ prior) \ new)
           row == [run |-> shot.run, source |-> shot.source, observed |-> observed, step |-> shot.step,
                   state |-> shot.state, charted |-> ~shot.event, size |-> shot.size,
                   values |-> values, exclusions |-> exclusions]
           added == {[run |-> shot.run, source |-> shot.source, path |-> p, first |-> n] : p \in new}
<1>1. rows' = Append(rows, row) /\ fields' = IF shot.event THEN fields ELSE fields \cup added
  <2>1. Insert(shot, observed)
    BY DEF Ingest
  <2> HIDE DEF observed
  <2> QED BY <2>1 DEF Insert
<1>2. /\ Len(rows) \in Nat /\ Len(rows') = n /\ \A i \in 1 .. Len(rows) : rows'[i] = rows[i]
  BY IngestIs DEF Ids
<1>3. rows'[n] = row
  <2> HIDE DEF row
  <2>1. PICK S : rows \in Seq(S)
    BY DEF RowsFit
  <2> QED BY <1>1, <2>1
<1>4. shot.state \in [Paths -> Nat \cup {Nothing, List}] /\ shot.event \in BOOLEAN
  BY ChartsAssumption
<1>5. /\ rows'[n].run = shot.run /\ rows'[n].source = shot.source /\ rows'[n].charted = ~shot.event
      /\ rows'[n].state = shot.state /\ rows'[n].values = values /\ rows'[n].exclusions = exclusions
  <2> HIDE DEF values, exclusions, observed
  <2> QED BY <1>3
<1>6. \A p \in Paths : values[p] = IF (p \in new \/ p \in prior) /\ shot.state[p] >= 0 THEN shot.state[p] ELSE Nothing
  <2> HIDE DEF new, prior
  <2> QED BY <1>4 DEF Indexed, new
<1>7. \A p \in Paths : shot.state[p] >= 0 /\ p \notin prior /\ p \notin new => p \in exclusions
  <2> SUFFICES ASSUME NEW p \in Paths, shot.state[p] >= 0, p \notin prior, p \notin new PROVE p \in exclusions
    OBVIOUS
  <2> HIDE DEF prior, new
  <2>1. p \in DOMAIN shot.state
    BY <1>4
  <2>2. CASE TooWide(shot.state)
    BY <2>1, <2>2 DEF Skipped
  <2>3. CASE ~TooWide(shot.state)
    BY <2>1, <2>3 DEF Discovered, Numeric
  <2> QED BY <2>2, <2>3
<1> HIDE DEF row, values, exclusions, observed
<1>8. /\ \A f \in added : f.first = n /\ f.run = shot.run /\ f.source = shot.source /\ f.path \in new
      /\ \A p \in new : \E f \in added : f.path = p
  <2> HIDE DEF new, n
  <2>1. ASSUME NEW f \in added PROVE f.first = n /\ f.run = shot.run /\ f.source = shot.source /\ f.path \in new
    <3>1. PICK p \in new : f = [run |-> shot.run, source |-> shot.source, path |-> p, first |-> n]
      OBVIOUS
    <3> QED BY <3>1
  <2>2. ASSUME NEW p \in new PROVE \E f \in added : f.path = p
    <3> DEFINE f == [run |-> shot.run, source |-> shot.source, path |-> p, first |-> n]
    <3>1. f \in added /\ f.path = p
      OBVIOUS
    <3> QED BY <3>1
  <2> QED BY <2>1, <2>2
<1>9. \A p : p \in prior <=> \E f \in fields : f.run = shot.run /\ f.source = shot.source /\ f.path = p
  BY DEF KnownTo
<1> HIDE DEF added, prior, new
<1>10. fields \subseteq fields' /\ \A f \in fields' : f \in fields \/ (f \in added /\ ~shot.event)
  BY <1>1, <1>4
<1>11. \A f \in fields' : f.first \in 1 .. n
  <2>1. \A f \in fields : f.first \in 1 .. Len(rows)
    BY DEF IndexFits, Ids
  <2> QED BY <2>1, <1>2, <1>8, <1>10
<1>12. ASSUME NEW i \in 1 .. n, NEW p \in Paths
       PROVE  /\ rows'[i].values[p] # Nothing =>
                   /\ rows'[i].values[p] = rows'[i].state[p] /\ rows'[i].state[p] >= 0
                   /\ rows'[i].charted => \E f \in fields' : /\ f.run = rows'[i].run /\ f.source = rows'[i].source
                                                             /\ f.path = p /\ f.first <= i
              /\ rows'[i].values[p] = Nothing /\ rows'[i].state[p] >= 0 =>
                   /\ p \in rows'[i].exclusions
                   /\ \A f \in fields' : f.run = rows'[i].run /\ f.source = rows'[i].source /\ f.path = p => i < f.first
  <2>1. CASE i \in 1 .. Len(rows)
    <3>1. rows'[i] = rows[i]
      BY <2>1, <1>2
    <3>2. /\ rows[i].values[p] # Nothing =>
               /\ rows[i].values[p] = rows[i].state[p] /\ rows[i].state[p] >= 0
               /\ rows[i].charted => \E f \in fields : /\ f.run = rows[i].run /\ f.source = rows[i].source
                                                       /\ f.path = p /\ f.first <= i
          /\ rows[i].values[p] = Nothing /\ rows[i].state[p] >= 0 =>
               /\ p \in rows[i].exclusions
               /\ \A f \in fields : f.run = rows[i].run /\ f.source = rows[i].source /\ f.path = p => i < f.first
      BY <2>1 DEF IndexFits, KnownTo, Excludes, Ids
    <3>3. \A f \in fields' : f \in fields \/ i < f.first
      BY <1>8, <1>10, <2>1, <1>2
    <3> QED BY <3>1, <3>2, <3>3, <1>10
  <2>2. CASE i = n
    <3>1. CASE p \in prior
      <4>1. PICK f \in fields : f.run = shot.run /\ f.source = shot.source /\ f.path = p
        BY <3>1, <1>9
      <4>2. f.first <= n
        BY <1>2 DEF IndexFits, Ids
      <4>3. shot.state[p] >= 0 => rows'[i].values[p] = shot.state[p] /\ shot.state[p] # Nothing
        BY <2>2, <3>1, <1>5, <1>6, <1>4 DEF Nothing
      <4>4. ~(shot.state[p] >= 0) => rows'[i].values[p] = Nothing
        BY <2>2, <1>5, <1>6
      <4> HIDE DEF n
      <4> QED BY <4>1, <4>2, <4>3, <4>4, <1>5, <1>10, <2>2
    <3>2. CASE p \in new /\ p \notin prior
      <4>1. PICK f \in added : f.path = p
        BY <3>2, <1>8
      <4>2. f.first <= n /\ f.run = shot.run /\ f.source = shot.source /\ (~shot.event => f \in fields')
        BY <1>8, <1>1, <1>2
      <4>3. shot.state[p] >= 0 => rows'[i].values[p] = shot.state[p] /\ shot.state[p] # Nothing
        BY <2>2, <3>2, <1>5, <1>6, <1>4 DEF Nothing
      <4>4. ~(shot.state[p] >= 0) => rows'[i].values[p] = Nothing
        BY <2>2, <1>5, <1>6
      <4> HIDE DEF n
      <4> QED BY <4>1, <4>2, <4>3, <4>4, <1>5, <2>2
    <3>3. CASE p \notin new /\ p \notin prior
      <4>1. rows'[i].values[p] = Nothing
        BY <3>3, <2>2, <1>5, <1>6
      <4>2. shot.state[p] >= 0 => p \in rows'[i].exclusions
        BY <3>3, <2>2, <1>5, <1>7
      <4>3. \A f \in fields' : ~(f.run = shot.run /\ f.source = shot.source /\ f.path = p)
        BY <3>3, <1>8, <1>9, <1>10
      <4> QED BY <4>1, <4>2, <4>3, <2>2, <1>5
    <3> QED BY <3>1, <3>2, <3>3
  <2> QED BY <2>1, <2>2, <1>2
<1>13. IndexFits'
  <2>1. Ids' = 1 .. n
    BY <1>2 DEF Ids
  <2> HIDE DEF n
  <2> QED BY <2>1, <1>11, <1>12 DEF IndexFits, KnownTo, Excludes
<1> QED BY <1>10, <1>13

-------------------------------------------------------------------------------
(* A line: points of g in the order B that are true to what `old` held.    *)
Line(B, nulls, numbers, s, g, old) ==
  /\ s \in Seq(g) /\ Len(s) >= 1
  /\ \A j, k \in 1 .. Len(s) : j < k => <<s[j], s[k]>> \in B
  /\ \A i \in old : <<s[Len(s)], i>> \notin B
  /\ \A k \in 1 .. Len(s) - 1 :
       s[k] \in nulls \/ s[k + 1] \in nulls
         \/ \A i \in old : <<s[k], i>> \in B /\ <<i, s[k + 1]>> \in B => i \in numbers
  /\ \A k \in 1 .. Len(s) : s[k] \in nulls => s[k] \notin numbers

LEMMA LineKept ==
  ASSUME NEW B, NEW nulls, NEW numbers, NEW s, NEW g, NEW old, Line(B, nulls, numbers, s, g, old), old \subseteq g,
         NEW C, NEW others, NEW values, NEW h, NEW of, g \subseteq h, of \subseteq old,
         \A i, j \in g : <<i, j>> \in B <=> <<i, j>> \in C,
         \A i \in g : (i \in nulls <=> i \in others) /\ (i \in numbers <=> i \in values)
  PROVE  Line(C, others, values, s, h, of)
<1>1. Len(s) \in Nat /\ s \in Seq(g) /\ s \in Seq(h) /\ \A k \in 1 .. Len(s) : s[k] \in g
  <2>1. s \in Seq(g)
    BY DEF Line
  <2>2. s \in Seq(h)
    BY <2>1, SeqMonotonic
  <2> QED BY <2>1, <2>2
<1>2. 1 <= Len(s)
  BY <1>1 DEF Line
<1>3. \A k \in 1 .. Len(s) - 1 : k \in 1 .. Len(s) /\ k + 1 \in 1 .. Len(s)
  BY <1>1
<1>4. ASSUME NEW k \in 1 .. Len(s) - 1
      PROVE  s[k] \in others \/ s[k + 1] \in others
               \/ \A i \in of : <<s[k], i>> \in C /\ <<i, s[k + 1]>> \in C => i \in values
  <2>1. s[k] \in g /\ s[k + 1] \in g
    BY <1>1, <1>3
  <2>2. s[k] \in nulls \/ s[k + 1] \in nulls
          \/ \A i \in old : <<s[k], i>> \in B /\ <<i, s[k + 1]>> \in B => i \in numbers
    BY DEF Line
  <2> QED BY <2>1, <2>2
<1>5. \A i \in of : <<s[Len(s)], i>> \notin C
  <2>1. s[Len(s)] \in g
    BY <1>1, <1>2
  <2> QED BY <2>1 DEF Line
<1>6. \A j, k \in 1 .. Len(s) : j < k => <<s[j], s[k]>> \in C
  BY <1>1 DEF Line
<1>7. \A k \in 1 .. Len(s) : s[k] \in others => s[k] \notin values
  BY <1>1 DEF Line
<1> QED BY <1>1, <1>2, <1>4, <1>5, <1>6, <1>7 DEF Line

LEMMA OrderedLine ==
  ASSUME NEW g, NEW axis, OnAxis(g, axis), g # {}, NEW o, o = Ordered(g, axis),
         NEW B, \A i, j \in g : <<i, j>> \in B <=> Before(axis, i, j),
         NEW nulls, NEW numbers, \A i \in g : i \in nulls => i \notin numbers
  PROVE  Line(B, nulls, numbers, o, g, g) /\ Len(o) = Cardinality(g) /\ \A i \in g : <<i, o[1]>> \notin B
<1> DEFINE n == Cardinality(g)
<1>1. /\ n \in Nat /\ o \in [1 .. n -> g]
      /\ \A j, k \in 1 .. n : j < k => Before(axis, o[j], o[k])
      /\ \A i \in g : \E k \in 1 .. n : o[k] = i
  BY OrderedIs
<1> HIDE DEF n
<1>2. o \in Seq(g) /\ Len(o) = n /\ \A k \in 1 .. n : o[k] \in g
  BY <1>1
<1>3. 1 <= n
  <2>1. PICK i \in g : TRUE
    OBVIOUS
  <2> QED BY <1>1, <2>1
<1>4. /\ \A i, j, k \in g : Before(axis, i, j) /\ Before(axis, j, k) => Before(axis, i, k)
      /\ \A i \in g : ~Before(axis, i, i)
  BY BeforeOrders
<1>5. ASSUME NEW j \in 1 .. n, NEW k \in 1 .. n, Before(axis, o[j], o[k]) PROVE j < k
  <2>1. j = k \/ j < k \/ (k < j /\ Before(axis, o[k], o[j]))
    BY <1>1
  <2> QED BY <2>1, <1>2, <1>4, <1>5
<1>6. \A j, k \in 1 .. n : j < k => <<o[j], o[k]>> \in B
  BY <1>1, <1>2
<1>7. \A i \in g : <<o[n], i>> \notin B
  <2> SUFFICES ASSUME NEW i \in g, <<o[n], i>> \in B PROVE FALSE
    OBVIOUS
  <2>1. PICK k \in 1 .. n : o[k] = i
    BY <1>1
  <2>2. n \in 1 .. n /\ Before(axis, o[n], o[k])
    BY <2>1, <1>1, <1>2, <1>3
  <2> QED BY <2>2, <1>5, <1>1
<1>8. \A i \in g : <<i, o[1]>> \notin B
  <2> SUFFICES ASSUME NEW i \in g, <<i, o[1]>> \in B PROVE FALSE
    OBVIOUS
  <2>1. PICK k \in 1 .. n : o[k] = i
    BY <1>1
  <2>2. 1 \in 1 .. n /\ Before(axis, o[k], o[1])
    BY <2>1, <1>1, <1>2, <1>3
  <2> QED BY <2>2, <1>5, <1>1
<1>9. ASSUME NEW k \in 1 .. n - 1, NEW i \in g, <<o[k], i>> \in B, <<i, o[k + 1]>> \in B PROVE FALSE
  <2>1. PICK q \in 1 .. n : o[q] = i
    BY <1>1
  <2>2. k \in 1 .. n /\ k + 1 \in 1 .. n
    BY <1>1
  <2>3. Before(axis, o[k], o[q]) /\ Before(axis, o[q], o[k + 1])
    BY <2>1, <2>2, <1>2, <1>9
  <2>4. k < q /\ q < k + 1
    BY <2>2, <2>3, <1>5
  <2> QED BY <2>4, <1>1
<1> QED BY <1>2, <1>3, <1>6, <1>7, <1>8, <1>9 DEF Line, n

(* A sample of a line is a line.                                           *)
LEMMA SampleLine ==
  ASSUME NEW g, NEW old, old \subseteq g, NEW B, Orders(B, g),
         NEW nulls, NEW numbers, \A i \in g : i \notin nulls => i \in numbers,
         NEW points, Line(B, nulls, numbers, points, g, old),
         NEW path, \A i \in g : i \in nulls <=> rows[i].values[path] = Nothing,
         NEW s, NEW p, Picks(p, s, points, path)
  PROVE  Line(B, nulls, numbers, s, g, old) /\ (s[1] = points[1] \/ s[1] \in nulls \/ Len(s) = 1)
<1> DEFINE n == Len(points)
           m == Len(s)
<1>1. /\ n \in Nat /\ 1 <= n /\ points \in Seq(g) /\ \A k \in 1 .. n : points[k] \in g
      /\ \A j, k \in 1 .. n : j < k => <<points[j], points[k]>> \in B
  BY DEF Line
<1>2. /\ m \in 1 .. n /\ p \in [1 .. m -> 1 .. n] /\ p[m] = n
      /\ s = [k \in 1 .. m |-> points[p[k]]] /\ \A k \in 1 .. m : s[k] = points[p[k]]
      /\ \A j, k \in 1 .. m : j < k => p[j] < p[k]
  BY DEF Picks
<1>3. /\ p[1] = 1 \/ rows[s[1]].values[path] = Nothing \/ m = 1
      /\ \A k \in 1 .. m - 1 : \/ rows[s[k]].values[path] = Nothing
                               \/ rows[s[k + 1]].values[path] = Nothing
                               \/ \A q \in 1 .. n : p[k] < q /\ q < p[k + 1] => rows[points[q]].values[path] # Nothing
  BY DEF Picks
<1>4. \A i \in old : <<points[n], i>> \notin B
  BY DEF Line
<1>5. \A k \in 1 .. n - 1 :
        points[k] \in nulls \/ points[k + 1] \in nulls
          \/ \A i \in old : <<points[k], i>> \in B /\ <<i, points[k + 1]>> \in B => i \in numbers
  BY DEF Line
<1>6. \A k \in 1 .. n : points[k] \in nulls => points[k] \notin numbers
  BY DEF Line
<1>7. /\ \A i \in g : <<i, i>> \notin B
      /\ \A i, j, k \in g : <<i, j>> \in B /\ <<j, k>> \in B => <<i, k>> \in B
      /\ \A i, j \in g : i = j \/ <<i, j>> \in B \/ <<j, i>> \in B
  BY DEF Orders
<1> HIDE DEF n, m
<1>8. m \in Nat /\ 1 <= m /\ 1 \in 1 .. m /\ m \in 1 .. m /\ \A k \in 1 .. m : p[k] \in 1 .. n /\ s[k] \in g
  BY <1>1, <1>2
<1>9. s \in Seq(g) /\ Len(s) = m
  <2>1. s \in [1 .. m -> g]
    BY <1>2, <1>8
  <2> QED BY <2>1, <1>8
<1>10. \A j, k \in 1 .. m : j < k => <<s[j], s[k]>> \in B
  BY <1>1, <1>2, <1>8
<1>11. \A i \in old : <<s[m], i>> \notin B
  BY <1>2, <1>4, <1>8
<1>12. \A k \in 1 .. m : s[k] \in nulls => s[k] \notin numbers
  BY <1>2, <1>6, <1>8
<1>13. s[1] = points[1] \/ s[1] \in nulls \/ m = 1
  BY <1>2, <1>3, <1>8
<1>14. ASSUME NEW k \in 1 .. m - 1, s[k] \notin nulls, s[k + 1] \notin nulls,
              NEW i \in old, <<s[k], i>> \in B, <<i, s[k + 1]>> \in B
       PROVE  i \in numbers
  <2> DEFINE a == p[k]
             b == p[k + 1]
             Q == {q \in a .. b : <<points[q], i>> \in B}
  <2>1. /\ k \in 1 .. m /\ k + 1 \in 1 .. m /\ a \in 1 .. n /\ b \in 1 .. n /\ a < b
        /\ s[k] = points[a] /\ s[k + 1] = points[b] /\ s[k] \in g /\ s[k + 1] \in g /\ i \in g
    BY <1>2, <1>8
  <2>2. \A q \in 1 .. n : a < q /\ q < b => points[q] \notin nulls
    BY <1>1, <1>3, <1>14, <2>1
  <2>3. \A q \in a .. b : q \in 1 .. n /\ points[q] \in g /\ points[q] \notin nulls
    <3> SUFFICES ASSUME NEW q \in a .. b PROVE q \in 1 .. n /\ points[q] \in g /\ points[q] \notin nulls
      OBVIOUS
    <3>1. q \in 1 .. n /\ (q = a \/ q = b \/ (a < q /\ q < b))
      BY <2>1, <1>1
    <3> QED BY <3>1, <2>1, <2>2, <1>1, <1>14
  <2> HIDE DEF a, b
  <2>4. PICK q \in Q : \A r \in Q : r <= q
    <3>1. IsFiniteSet(a .. b) /\ Q \subseteq a .. b /\ Q \subseteq Int
      BY <2>1, <1>1, FS_Interval
    <3>2. a \in Q
      BY <2>1, <1>14, <1>1
    <3> HIDE DEF Q
    <3>3. IsFiniteSet(Q)
      BY <3>1, FS_Subset
    <3> QED BY <3>1, <3>2, <3>3, LargestExists
  <2>5. q # b
    <3>1. q = b => <<points[b], i>> \in B /\ <<i, points[b]>> \in B
      BY <2>1, <2>4, <1>14
    <3> QED BY <3>1, <2>1, <1>7
  <2>6. q \in a .. b /\ q + 1 \in a .. b /\ q + 1 \notin Q /\ q \in 1 .. n - 1
    BY <2>1, <2>4, <2>5, <1>1
  <2>7. <<points[q], i>> \in B /\ <<points[q + 1], i>> \notin B
    BY <2>4, <2>6
  <2>8. points[q + 1] = i \/ <<i, points[q + 1]>> \in B
    BY <2>3, <2>6, <2>7, <2>1, <1>7
  <2>9. CASE points[q + 1] = i
    BY <2>9, <2>3, <2>6
  <2>10. CASE <<i, points[q + 1]>> \in B
    BY <2>10, <2>3, <2>6, <2>7, <1>5
  <2> QED BY <2>8, <2>9, <2>10
<1>15. \A k \in 1 .. m - 1 : s[k] \in nulls \/ s[k + 1] \in nulls
         \/ \A i \in old : <<s[k], i>> \in B /\ <<i, s[k + 1]>> \in B => i \in numbers
  BY <1>14
<1> QED BY <1>8, <1>9, <1>10, <1>11, <1>12, <1>13, <1>15 DEF Line

(* A line that goes on where another ends is one line.                     *)
LEMMA JoinLine ==
  ASSUME NEW g, NEW before, NEW w, NEW old, before \subseteq g, w \subseteq g, old \subseteq before \cup w,
         NEW B, Orders(B, g), NEW nulls, NEW numbers,
         NEW s, Line(B, nulls, numbers, s, g, before),
         NEW t, Line(B, nulls, numbers, t, w, w),
         \A i \in before, j \in w : <<i, j>> \in B,
         \A k \in 1 .. Len(s), j \in w : <<s[k], j>> \in B,
         t[1] \in nulls \/ \A i \in w : <<i, t[1]>> \notin B
  PROVE  Line(B, nulls, numbers, s \o t, g, old)
<1> DEFINE u == s \o t
           m == Len(s)
           n == Len(t)
<1>1. /\ s \in Seq(g) /\ m \in Nat /\ 1 <= m /\ \A k \in 1 .. m : s[k] \in g
      /\ t \in Seq(w) /\ t \in Seq(g) /\ n \in Nat /\ 1 <= n /\ \A k \in 1 .. n : t[k] \in w /\ t[k] \in g
  <2>1. s \in Seq(g) /\ t \in Seq(w) /\ 1 <= m /\ 1 <= n
    BY DEF Line
  <2>2. t \in Seq(g)
    BY <2>1, SeqMonotonic
  <2> QED BY <2>1, <2>2
<1>2. /\ u \in Seq(g) /\ Len(u) = m + n
      /\ \A k \in 1 .. m : u[k] = s[k]
      /\ \A k \in 1 .. n : u[m + k] = t[k]
  BY <1>1
<1>3. /\ \A i \in g : <<i, i>> \notin B
      /\ \A i, j, k \in g : <<i, j>> \in B /\ <<j, k>> \in B => <<i, k>> \in B
  BY DEF Orders
<1>4. \A i, j \in g : ~(<<i, j>> \in B /\ <<j, i>> \in B)
  BY <1>3
<1>5. \A i \in before : <<s[m], i>> \notin B
  BY DEF Line
<1>6. \A i \in w : <<t[n], i>> \notin B
  BY DEF Line
<1>7. \A k \in 1 .. m - 1 : s[k] \in nulls \/ s[k + 1] \in nulls
        \/ \A i \in before : <<s[k], i>> \in B /\ <<i, s[k + 1]>> \in B => i \in numbers
  BY DEF Line
<1>8. \A k \in 1 .. n - 1 : t[k] \in nulls \/ t[k + 1] \in nulls
        \/ \A i \in w : <<t[k], i>> \in B /\ <<i, t[k + 1]>> \in B => i \in numbers
  BY DEF Line
<1>9. /\ \A j, k \in 1 .. m : j < k => <<s[j], s[k]>> \in B
      /\ \A j, k \in 1 .. n : j < k => <<t[j], t[k]>> \in B
      /\ \A k \in 1 .. m : s[k] \in nulls => s[k] \notin numbers
      /\ \A k \in 1 .. n : t[k] \in nulls => t[k] \notin numbers
  BY DEF Line
<1> HIDE DEF u, m, n
<1>10. \A k \in 1 .. m + n : k \in 1 .. m \/ (k - m \in 1 .. n /\ u[k] = t[k - m])
  <2> SUFFICES ASSUME NEW k \in 1 .. m + n, k \notin 1 .. m PROVE k - m \in 1 .. n /\ u[k] = t[k - m]
    OBVIOUS
  <2>1. k - m \in 1 .. n /\ m + (k - m) = k
    BY <1>1
  <2> QED BY <2>1, <1>2
<1>11. ASSUME NEW j \in 1 .. m + n, NEW k \in 1 .. m + n, j < k PROVE <<u[j], u[k]>> \in B
  <2>1. CASE j \in 1 .. m /\ k \in 1 .. m
    BY <2>1, <1>2, <1>9, <1>11
  <2>2. CASE j \in 1 .. m /\ k - m \in 1 .. n /\ u[k] = t[k - m]
    BY <2>2, <1>1, <1>2 DEF m
  <2>3. CASE j \notin 1 .. m /\ j - m \in 1 .. n /\ u[j] = t[j - m] /\ k - m \in 1 .. n /\ u[k] = t[k - m]
    <3>1. j - m < k - m
      BY <1>1, <1>11
    <3> QED BY <2>3, <3>1, <1>9
  <2>4. j \notin 1 .. m => k \notin 1 .. m
    BY <1>1, <1>11
  <2> QED BY <2>1, <2>2, <2>3, <2>4, <1>10
<1>12. u[m + n] = t[n] /\ t[n] \in w /\ \A i \in old : <<u[m + n], i>> \notin B
  <2>1. u[m + n] = t[n] /\ t[n] \in w /\ t[n] \in g
    BY <1>1, <1>2
  <2>2. ASSUME NEW i \in before PROVE <<t[n], i>> \notin B
    <3>1. <<i, t[n]>> \in B /\ i \in g
      BY <2>1
    <3> QED BY <3>1, <2>1, <1>4
  <2> QED BY <2>1, <2>2, <1>6
<1>13. ASSUME NEW k \in 1 .. m + n PROVE u[k] \in nulls => u[k] \notin numbers
  BY <1>2, <1>9, <1>10
<1>14. ASSUME NEW k \in 1 .. m + n - 1, u[k] \notin nulls, u[k + 1] \notin nulls,
              NEW i \in old, <<u[k], i>> \in B, <<i, u[k + 1]>> \in B
       PROVE  i \in numbers
  <2>0. i \in g /\ k \in 1 .. m + n /\ k + 1 \in 1 .. m + n
    BY <1>1
  <2>1. CASE k \in 1 .. m - 1
    <3>1. u[k] = s[k] /\ u[k + 1] = s[k + 1] /\ k + 1 \in 1 .. m /\ s[k + 1] \in g
      BY <2>1, <1>1, <1>2
    <3>2. i \notin w
      <4>1. i \in w => <<s[k + 1], i>> \in B
        BY <3>1 DEF m
      <4> QED BY <4>1, <3>1, <1>14, <1>4, <2>0
    <3> QED BY <3>1, <3>2, <2>1, <1>7, <1>14
  <2>2. CASE k = m
    <3>1. u[k] = s[m] /\ u[k + 1] = t[1] /\ 1 \in 1 .. n
      BY <2>2, <1>1, <1>2
    <3>2. i \notin before
      BY <3>1, <1>5, <1>14
    <3>3. i \notin w
      BY <3>1, <1>14
    <3> QED BY <3>2, <3>3
  <2>3. CASE k \in m + 1 .. m + n - 1
    <3>1. /\ k - m \in 1 .. n - 1 /\ u[k] = t[k - m] /\ u[k + 1] = t[(k - m) + 1]
          /\ t[k - m] \in w /\ t[k - m] \in g
      <4>1. k - m \in 1 .. n - 1 /\ k - m \in 1 .. n /\ (k - m) + 1 \in 1 .. n /\ m + (k - m) = k /\ m + ((k - m) + 1) = k + 1
        BY <2>3, <1>1
      <4> QED BY <4>1, <1>1, <1>2
    <3>2. i \notin before
      <4>1. i \in before => <<i, t[k - m]>> \in B
        BY <3>1
      <4> QED BY <4>1, <3>1, <1>14, <1>4, <2>0
    <3> QED BY <3>1, <3>2, <1>8, <1>14
  <2> QED BY <2>1, <2>2, <2>3, <1>1
<1>15. \A k \in 1 .. m + n - 1 : u[k] \in nulls \/ u[k + 1] \in nulls
         \/ \A i \in old : <<u[k], i>> \in B /\ <<i, u[k + 1]>> \in B => i \in numbers
  BY <1>14
<1>16. Len(u) >= 1
  BY <1>1, <1>2
<1>17. \A i \in old : <<u[m + n], i>> \notin B
  BY <1>12
<1>18. \A j, k \in 1 .. m + n : j < k => <<u[j], u[k]>> \in B
  BY <1>11
<1>19. Line(B, nulls, numbers, u, g, old)
  <2>1. u \in Seq(g) /\ Len(u) = m + n
    BY <1>2
  <2>2. \A k \in 1 .. m + n : u[k] \in nulls => u[k] \notin numbers
    BY <1>13
  <2>3. \A j, k \in 1 .. Len(u) : j < k => <<u[j], u[k]>> \in B
    BY <2>1, <1>18
  <2>4. \A i \in old : <<u[Len(u)], i>> \notin B
    BY <2>1, <1>17
  <2>5. \A k \in 1 .. Len(u) - 1 : u[k] \in nulls \/ u[k + 1] \in nulls
          \/ \A i \in old : <<u[k], i>> \in B /\ <<i, u[k + 1]>> \in B => i \in numbers
    <3>1. Len(u) - 1 = m + n - 1
      BY <2>1, <1>1
    <3> QED BY <3>1, <1>15, Zenon
  <2>6. \A k \in 1 .. Len(u) : u[k] \in nulls => u[k] \notin numbers
    BY <2>1, <2>2
  <2> QED BY <2>1, <2>3, <2>4, <2>5, <2>6, <1>16, Zenon DEF Line
<1> QED BY <1>19 DEF u

-------------------------------------------------------------------------------
(* The axis.                                                               *)
Earliest(r, S) == Min({r[i].observed : i \in S})

LEMMA EarliestIs ==
  ASSUME NEW S, IsFiniteSet(S), S # {}, NEW r, \A i \in S : r[i].observed \in Int
  PROVE  /\ Earliest(r, S) \in Int /\ \A j \in S : Earliest(r, S) <= r[j].observed
         /\ \E i \in S : Earliest(r, S) = r[i].observed
<1> DEFINE T == {r[i].observed : i \in S}
           f == [i \in S |-> r[i].observed]
<1>1. f \in Surjection(S, T)
  BY DEF Surjection
<1>2. T # {} /\ T \subseteq Int
  OBVIOUS
<1>3. \A i \in S : r[i].observed \in T
  OBVIOUS
<1>4. \A t \in T : \E i \in S : t = r[i].observed
  OBVIOUS
<1> HIDE DEF T, f
<1>5. IsFiniteSet(T)
  BY <1>1, FS_Surjection
<1>6. Min(T) \in T /\ \A j \in T : Min(T) <= j
  BY <1>2, <1>5, MinIs
<1>7. Min(T) \in Int /\ (\A j \in S : Min(T) <= r[j].observed) /\ \E i \in S : Min(T) = r[i].observed
  BY <1>2, <1>3, <1>4, <1>6
<1> QED BY <1>7 DEF T, Earliest

Charted(run) == {i \in Ids : rows[i].charted /\ rows[i].run = run}

LEMMA ChartedIs ==
  ASSUME RowsFit, NEW run
  PROVE  /\ IsFiniteSet(Charted(run)) /\ Charted(run) \subseteq Ids
         /\ \A i \in Charted(run) : rows[i].observed \in Int
<1>1. Len(rows) \in Nat
  BY DEF RowsFit
<1>2. IsFiniteSet(Ids)
  BY <1>1, FS_Interval DEF Ids
<1>3. Charted(run) \subseteq Ids
  BY DEF Charted
<1>4. IsFiniteSet(Charted(run))
  BY <1>2, <1>3, FS_Subset
<1> QED BY <1>3, <1>4 DEF RowsFit

LEMMA BaselineIs ==
  ASSUME RowsFit, NEW run, Charted(run) # {}
  PROVE  /\ Baseline(run) \in Int /\ \A j \in Charted(run) : Baseline(run) <= rows[j].observed
         /\ \E i \in Charted(run) : Baseline(run) = rows[i].observed
<1>1. IsFiniteSet(Charted(run)) /\ \A i \in Charted(run) : rows[i].observed \in Int
  BY ChartedIs
<1>2. Baseline(run) = Earliest(rows, Charted(run))
  BY DEF Baseline, Charted, Earliest
<1> QED BY <1>1, <1>2, EarliestIs

LEMMA AxisIs ==
  ASSUME RowsFit, NEW axis, NEW i \in Ids, rows[i].charted, AxisOf(i, axis) # {}
  PROVE  AxisAt(i, axis) \in Int /\ AxisOf(i, axis) = {AxisAt(i, axis)} /\ rows[i].observed \in Int
<1>1. rows[i].observed \in Int /\ rows[i].step \subseteq Int /\ \A m, n \in rows[i].step : m = n
  BY DEF RowsFit
<1>2. AxisAt(i, axis) \in AxisOf(i, axis)
  BY DEF AxisAt
<1>3. AxisOf(i, axis) \subseteq Int /\ \A m, n \in AxisOf(i, axis) : m = n
  <2>1. CASE axis = "wall_time"
    BY <2>1, <1>1 DEF AxisOf
  <2>2. CASE axis = "elapsed"
    <3>1. Baseline(rows[i].run) \in Int
      <4>1. i \in Charted(rows[i].run)
        BY DEF Charted
      <4> QED BY <4>1, BaselineIs
    <3>2. AxisOf(i, axis) = {rows[i].observed - Baseline(rows[i].run)}
      BY <2>2 DEF AxisOf
    <3> QED BY <3>1, <3>2, <1>1
  <2>3. CASE axis # "wall_time" /\ axis # "elapsed"
    BY <2>3, <1>1 DEF AxisOf
  <2> QED BY <2>1, <2>2, <2>3
<1> QED BY <1>1, <1>2, <1>3

LEMMA ScannedIs ==
  ASSUME RowsFit, NEW request
  PROVE  /\ Scanned(request) \subseteq Ids /\ IsFiniteSet(Scanned(request))
         /\ \A i \in Ids : i \in Scanned(request) <=>
              /\ rows[i].charted /\ InScope(request, rows[i].run, rows[i].source)
              /\ AxisOf(i, request.axis) # {}
              /\ InRange(AxisAt(i, request.axis), request.from, request.to)
         /\ \A i \in Scanned(request) :
              AxisAt(i, request.axis) \in Int /\ rows[i].observed \in Int
<1>1. Scanned(request) \subseteq Ids
  BY DEF Scanned
<1>2. IsFiniteSet(Scanned(request))
  <2>1. Len(rows) \in Nat
    BY DEF RowsFit
  <2>2. IsFiniteSet(Ids)
    BY <2>1, FS_Interval DEF Ids
  <2> QED BY <1>1, <2>2, FS_Subset
<1>3. ASSUME NEW i \in Ids, rows[i].charted, AxisOf(i, request.axis) # {}
      PROVE  /\ AxisOf(i, request.axis) = {AxisAt(i, request.axis)}
             /\ AxisAt(i, request.axis) \in Int /\ rows[i].observed \in Int
  BY <1>3, AxisIs
<1>4. ASSUME NEW i \in Ids
      PROVE  i \in Scanned(request) <=>
               /\ rows[i].charted /\ InScope(request, rows[i].run, rows[i].source)
               /\ AxisOf(i, request.axis) # {}
               /\ InRange(AxisAt(i, request.axis), request.from, request.to)
  BY <1>3 DEF Scanned
<1> QED BY <1>1, <1>2, <1>3, <1>4

LEMMA PlacedIs ==
  ASSUME RowsFit, NEW request, NEW S, S \subseteq Scanned(request)
  PROVE  OnAxis(S, request.axis)
<1>1. IsFiniteSet(S)
  BY ScannedIs, FS_Subset
<1>2. Ids \subseteq Int
  BY DEF Ids
<1> QED BY <1>1, <1>2, ScannedIs DEF OnAxis

-------------------------------------------------------------------------------
(* A page of a chart.                                                      *)
Earlier(axis) == {b \in Ids \X Ids : Before(axis, b[1], b[2])}

Nulls(path) == {i \in Ids : rows[i].values[path] = Nothing}

Numbers(path) == {i \in Ids : rows[i].state[path] >= 0}

OwnerOf(i) == <<rows[i].run, rows[i].source>>

(* Each series is a line through its group; every Source that had a number *)
(* in range, or has a field by now, has one.                               *)
SeriesFits(request, key, s) ==
  LET g == Group(Scanned(request), key[1]) IN
  /\ key = <<key[1], key[2]>> /\ key[2] \in request.paths /\ FirstIndexed(key[1], key[2]) # {} /\ g # {}
  /\ Line(Earlier(request.axis), Nulls(key[2]), Numbers(key[2]), s, g, g)
  /\ request.max > 1 => s[1] \in Nulls(key[2]) \/ \A i \in g : <<i, s[1]>> \notin Earlier(request.axis)
  /\ Len(s) <= request.max

PageFits(request, series) ==
  /\ \A key \in DOMAIN series : SeriesFits(request, key, series[key])
  /\ \A i \in Scanned(request), p \in request.paths :
       i \in Numbers(p) \/ FirstIndexed(OwnerOf(i), p) # {} => <<OwnerOf(i), p>> \in DOMAIN series

LEMMA EarlierOrders ==
  ASSUME RowsFit, NEW request, NEW g, g \subseteq Scanned(request)
  PROVE  /\ Orders(Earlier(request.axis), g)
         /\ \A i, j \in g : <<i, j>> \in Earlier(request.axis) <=> Before(request.axis, i, j)
<1>1. OnAxis(g, request.axis) /\ g \subseteq Ids
  BY PlacedIs, ScannedIs
<1>2. \A i, j \in g : <<i, j>> \in Earlier(request.axis) <=> Before(request.axis, i, j)
  BY <1>1 DEF Earlier
<1>3. /\ \A i \in g : ~Before(request.axis, i, i)
      /\ \A i, j, k \in g : Before(request.axis, i, j) /\ Before(request.axis, j, k) => Before(request.axis, i, k)
      /\ \A i, j \in g : i = j \/ Before(request.axis, i, j) \/ Before(request.axis, j, i)
  BY <1>1, BeforeOrders
<1> QED BY <1>2, <1>3 DEF Orders

(* A null that is shown is one: the index left nothing out in its place.   *)
LEMMA NullsAreTrue ==
  ASSUME RowsFit, IndexFits, NEW ids, ids \subseteq Ids, NEW source, \A i \in ids : OwnerOf(i) = source,
         NEW p \in Paths
  PROVE  /\ \A i \in ids : i \notin Nulls(p) => i \in Numbers(p)
         /\ ~Uncovered(ids, source, p) =>
              /\ \A i \in ids : i \in Nulls(p) => i \notin Numbers(p)
              /\ \A i \in ids : i \in Numbers(p) /\ rows[i].charted => FirstIndexed(source, p) # {}
<1>1. ASSUME NEW i \in ids
      PROVE  /\ rows[i].values[p] # Nothing =>
                  /\ rows[i].state[p] >= 0
                  /\ rows[i].charted => FirstIndexed(source, p) # {}
             /\ rows[i].values[p] = Nothing /\ rows[i].state[p] >= 0 =>
                  Excludes(i, p) /\ \A first \in FirstIndexed(source, p) : i < first
  <2>1. source[1] = rows[i].run /\ source[2] = rows[i].source
    BY DEF OwnerOf
  <2> DEFINE prior == {f \in KnownTo(rows[i].run, rows[i].source) : f.path = p}
  <2>2. FirstIndexed(source, p) = {f.first : f \in prior}
    BY <2>1 DEF FirstIndexed
  <2>3. /\ rows[i].values[p] # Nothing =>
             /\ rows[i].state[p] >= 0
             /\ rows[i].charted => \E f \in prior : f.first <= i
        /\ rows[i].values[p] = Nothing /\ rows[i].state[p] >= 0 =>
             Excludes(i, p) /\ \A f \in prior : i < f.first
    <3>1. i \in Ids
      OBVIOUS
    <3> QED BY <3>1 DEF IndexFits
  <2> HIDE DEF prior
  <2> QED BY <2>2, <2>3
<1>2. \A i \in ids : i \in Ids
  OBVIOUS
<1>3. ASSUME ~Uncovered(ids, source, p), NEW i \in ids, rows[i].values[p] = Nothing PROVE ~(rows[i].state[p] >= 0)
  BY <1>1, <1>3 DEF Uncovered
<1> QED BY <1>1, <1>2, <1>3 DEF Nulls, Numbers

LEMMA PageIsTrue ==
  ASSUME RowsFit, IndexFits, NEW request, request.paths \subseteq Paths, request.max \in Nat,
         QueryPage(request).is = "ok"
  PROVE  PageFits(request, QueryPage(request).series)
<1> DEFINE S == Scanned(request)
           axis == request.axis
           keys == SeriesKeys(request, S)
           Count(key) == AtMost(Cardinality(Group(S, key)), request.max)
           series == [key \in keys |-> Sampled(Ordered(Group(S, key[1]), axis), key[2], Count(key[1]))]
<1>1. /\ ValidChart(request) /\ \A key \in GroupsOf(S), p \in request.paths : ~Uncovered(Group(S, key), key, p)
      /\ QueryPage(request).series = series
  BY DEF QueryPage, Failed
<1>2. request.max > 0
  BY <1>1 DEF ValidChart
<1>3. S \subseteq Ids /\ IsFiniteSet(S) /\ \A i \in S : rows[i].charted
  BY ScannedIs
<1> HIDE DEF series, S
<1>4. \A i \in S : OwnerOf(i) \in GroupsOf(S) /\ i \in Group(S, OwnerOf(i))
  BY DEF GroupsOf, Group, OwnerOf
<1>5. \A source : Group(S, source) \subseteq S /\ \A i \in Group(S, source) : OwnerOf(i) = source
  BY DEF Group, OwnerOf
<1>6. ASSUME NEW source \in GroupsOf(S), NEW p \in request.paths
      PROVE  /\ \A i \in Group(S, source) : i \notin Nulls(p) => i \in Numbers(p)
             /\ \A i \in Group(S, source) : i \in Nulls(p) => i \notin Numbers(p)
             /\ \A i \in Group(S, source) : i \in Numbers(p) => FirstIndexed(source, p) # {}
  <2>1. Group(S, source) \subseteq Ids /\ \A i \in Group(S, source) : OwnerOf(i) = source
    BY <1>3, <1>5
  <2>2. ~Uncovered(Group(S, source), source, p) /\ p \in Paths
    BY <1>1
  <2>3. \A i \in Group(S, source) : rows[i].charted
    BY <1>3, <1>5
  <2> QED BY <2>1, <2>2, <2>3, NullsAreTrue
<1>7. DOMAIN series = {key \in GroupsOf(S) \X request.paths : FirstIndexed(key[1], key[2]) # {}}
  BY DEF series, SeriesKeys
<1>8. ASSUME NEW key \in DOMAIN series PROVE SeriesFits(request, key, series[key])
  <2> DEFINE g == Group(S, key[1])
             o == Ordered(g, axis)
             n == Count(key[1])
             s == series[key]
             B == Earlier(axis)
  <2>1. key = <<key[1], key[2]>> /\ key[1] \in GroupsOf(S) /\ key[2] \in request.paths /\ FirstIndexed(key[1], key[2]) # {}
    BY <1>7
  <2>2. g # {} /\ g \subseteq S
    <3>1. PICK i \in S : key[1] = OwnerOf(i)
      BY <2>1 DEF GroupsOf, OwnerOf
    <3> QED BY <3>1, <1>4, <1>5
  <2>3. s = Sampled(o, key[2], n)
    <3>1. key \in keys
      BY DEF series
    <3> QED BY <3>1 DEF series
  <2> HIDE DEF g, s, B
  <2>4. OnAxis(g, axis) /\ Orders(B, g) /\ \A i, j \in g : <<i, j>> \in B <=> Before(axis, i, j)
    <3>1. g \subseteq Scanned(request)
      BY <2>2 DEF S
    <3> QED BY <3>1, PlacedIs, EarlierOrders DEF B
  <2>5. /\ \A i \in g : i \notin Nulls(key[2]) => i \in Numbers(key[2])
        /\ \A i \in g : i \in Nulls(key[2]) => i \notin Numbers(key[2])
    BY <2>1, <1>6 DEF g
  <2>6. /\ Line(B, Nulls(key[2]), Numbers(key[2]), o, g, g) /\ Len(o) = Cardinality(g)
        /\ \A i \in g : <<i, o[1]>> \notin B
    <3> DEFINE nulls == Nulls(key[2])
               numbers == Numbers(key[2])
    <3>1. \A i \in g : i \in nulls => i \notin numbers
      BY <2>5
    <3> HIDE DEF nulls, numbers, o
    <3>2. o = Ordered(g, axis)
      BY DEF o
    <3>4. OnAxis(g, axis) /\ g # {} /\ \A i, j \in g : <<i, j>> \in B <=> Before(axis, i, j)
      BY <2>2, <2>4
    <3>5. \A C, P, Q : (\A i, j \in g : <<i, j>> \in C <=> Before(axis, i, j))
                         /\ (\A i \in g : i \in P => i \notin Q)
                         => /\ Line(C, P, Q, o, g, g) /\ Len(o) = Cardinality(g)
                            /\ \A i \in g : <<i, o[1]>> \notin C
      BY <3>2, <3>4, OrderedLine
    <3>3. /\ Line(B, nulls, numbers, o, g, g) /\ Len(o) = Cardinality(g)
          /\ \A i \in g : <<i, o[1]>> \notin B
      BY <3>1, <3>4, <3>5
    <3> QED BY <3>3 DEF nulls, numbers
  <2>7. n \in 1 .. Len(o) /\ n <= request.max /\ o \in Seq(g)
    <3>1. Len(o) \in Nat /\ Len(o) >= 1 /\ o \in Seq(g)
      BY <2>6 DEF Line
    <3>2. n = AtMost(Len(o), request.max)
      BY <2>6 DEF g
    <3> HIDE DEF n, o
    <3> QED BY <3>1, <3>2, <1>2 DEF AtMost
  <2> HIDE DEF n, o
  <2>8. PICK p : Picks(p, s, o, key[2])
    BY <2>3, <2>7, SampledIs
  <2>9. Len(s) = n /\ s \in Seq(g)
    BY <2>3, <2>7, SampledIs
  <2>10. \A i \in g : i \in Nulls(key[2]) <=> rows[i].values[key[2]] = Nothing
    BY <2>2, <1>3 DEF Nulls
  <2>11. /\ Line(B, Nulls(key[2]), Numbers(key[2]), s, g, g)
         /\ s[1] = o[1] \/ s[1] \in Nulls(key[2]) \/ Len(s) = 1
    <3> DEFINE nulls == Nulls(key[2])
               numbers == Numbers(key[2])
               q == key[2]
    <3>1. /\ \A i \in g : i \notin nulls => i \in numbers
          /\ \A i \in g : i \in nulls <=> rows[i].values[q] = Nothing
          /\ Line(B, nulls, numbers, o, g, g) /\ Picks(p, s, o, q)
      BY <2>5, <2>6, <2>8, <2>10
    <3> HIDE DEF nulls, numbers, q
    <3>2. g \subseteq g /\ Orders(B, g)
      BY <2>4
    <3>3. Line(B, nulls, numbers, s, g, g) /\ (s[1] = o[1] \/ s[1] \in nulls \/ Len(s) = 1)
      BY <3>1, <3>2, SampleLine
    <3> QED BY <3>3 DEF nulls, numbers
  <2>12. ASSUME request.max > 1 PROVE s[1] \in Nulls(key[2]) \/ \A i \in g : <<i, s[1]>> \notin B
    <3>1. CASE s[1] = o[1]
      BY <3>1, <2>6
    <3>2. CASE Len(s) = 1
      <4>1. n = AtMost(Len(o), request.max) /\ Len(o) \in Nat /\ n = 1
        <5>1. n = AtMost(Len(o), request.max)
          BY <2>6 DEF g, n
        <5> QED BY <5>1, <2>7, <2>9, <3>2
      <4>2. Len(o) = 1
        BY <4>1, <2>12 DEF AtMost
      <4>3. p[1] = Len(o) /\ s[1] = o[p[1]]
        BY <2>8, <3>2 DEF Picks
      <4> QED BY <4>2, <4>3, <3>1
    <3> QED BY <3>1, <3>2, <2>11
  <2>13. Len(s) <= request.max
    BY <2>7, <2>9
  <2> QED BY <2>1, <2>2, <2>11, <2>12, <2>13 DEF SeriesFits, g, s, S, B
<1>9. ASSUME NEW i \in S, NEW p \in request.paths, i \in Numbers(p) \/ FirstIndexed(OwnerOf(i), p) # {}
      PROVE  <<OwnerOf(i), p>> \in DOMAIN series
  BY <1>4, <1>6, <1>7, <1>9
<1> QED BY <1>1, <1>8, <1>9 DEF PageFits, S

-------------------------------------------------------------------------------
(* The windows.                                                            *)

(* Windows that follow one another from `from` to `upto`.                  *)
Tiles(windows, from, upto) ==
  /\ from \in Int /\ upto \in Int /\ windows \in Seq(Int \X Int)
  /\ \A k \in 1 .. Len(windows) : windows[k][1] <= windows[k][2] /\ windows[k][2] <= upto
  /\ windows = <<>> => from = upto + 1
  /\ windows # <<>> => windows[1][1] = from /\ windows[Len(windows)][2] = upto
  /\ \A k \in 1 .. Len(windows) - 1 : windows[k + 1][1] = windows[k][2] + 1

LEMMA PartitionIs ==
  ASSUME NEW low \in Int, NEW high \in Int, low <= high, NEW pages \in 1 .. high - low + 1
  PROVE  Tiles(Partition(low, high, pages), low, high)
<1> DEFINE span == high - low + 1
           cut == [k \in 0 .. pages |-> (span * k) \div pages]
           w == Partition(low, high, pages)
<1>1. span \in Nat /\ pages \in Nat /\ 1 <= pages /\ pages <= span
  OBVIOUS
<1>2. w = [k \in 1 .. pages |-> <<low + cut[k - 1], low + cut[k] - 1>>]
  BY DEF Partition
<1> HIDE DEF span, w
<1>3. \A k \in 0 .. pages : cut[k] \in Int
  <2> SUFFICES ASSUME NEW k \in 0 .. pages PROVE (span * k) \div pages \in Int
    OBVIOUS
  <2>1. span * k \in Int
    BY <1>1
  <2> QED BY <2>1, <1>1
<1>4. cut[0] = 0
  <2>1. span * 0 = 0
    BY <1>1
  <2> QED BY <2>1, <1>1
<1>5. cut[pages] = span
  BY <1>1
<1>6. ASSUME NEW k \in 1 .. pages PROVE cut[k - 1] < cut[k]
  <2> DEFINE a == span * (k - 1)
             b == span * k
  <2>1. a \in Nat /\ b \in Nat /\ b = a + span
    BY <1>1
  <2> HIDE DEF a, b
  <2>2. a \div pages < b \div pages
    BY <2>1, <1>1
  <2> QED BY <2>2 DEF a, b
<1> HIDE DEF cut
<1>7. \A k \in 1 .. pages : k - 1 \in 0 .. pages /\ k \in 0 .. pages
  BY <1>1
<1>8. w \in Seq(Int \X Int) /\ Len(w) = pages
  <2>1. \A k \in 1 .. pages : <<low + cut[k - 1], low + cut[k] - 1>> \in Int \X Int
    BY <1>3, <1>7
  <2>2. w \in [1 .. pages -> Int \X Int]
    BY <1>2, <2>1
  <2> QED BY <2>2, <1>1
<1>9. \A k \in 1 .. pages : w[k][1] = low + cut[k - 1] /\ w[k][2] = low + cut[k] - 1
  BY <1>2
<1>10. \A j \in 0 .. pages : cut[j] <= span
  <2> SUFFICES ASSUME NEW j \in 0 .. pages PROVE cut[j] <= span
    OBVIOUS
  <2>1. (span * j) \div pages <= span
    <3>1. span * j <= span * pages /\ span * j \in Nat
      BY <1>1
    <3>2. (span * pages) \div pages = span
      BY <1>1
    <3> QED BY <3>1, <3>2, <1>1
  <2> QED BY <2>1 DEF cut
<1>11. \A k \in 1 .. pages : w[k][1] <= w[k][2] /\ w[k][2] <= high
  <2> SUFFICES ASSUME NEW k \in 1 .. pages PROVE w[k][1] <= w[k][2] /\ w[k][2] <= high
    OBVIOUS
  <2>1. cut[k] <= high - low + 1 /\ cut[k - 1] < cut[k] /\ cut[k] \in Int /\ cut[k - 1] \in Int
    BY <1>3, <1>6, <1>7, <1>10 DEF span
  <2> QED BY <2>1, <1>9
<1>12. w[1][1] = low /\ w[pages][2] = high /\ w # <<>>
  <2>1. w[1][1] = low + cut[0] /\ w[pages][2] = low + cut[pages] - 1
    BY <1>1, <1>9
  <2> QED BY <2>1, <1>1, <1>4, <1>5, <1>8 DEF span
<1>13. \A k \in 1 .. pages - 1 : w[k + 1][1] = w[k][2] + 1
  <2> SUFFICES ASSUME NEW k \in 1 .. pages - 1 PROVE w[k + 1][1] = w[k][2] + 1
    OBVIOUS
  <2>1. k \in 1 .. pages /\ k + 1 \in 1 .. pages /\ (k + 1) - 1 = k
    BY <1>1
  <2>2. w[k + 1][1] = low + cut[k] /\ w[k][2] = low + cut[k] - 1 /\ cut[k] \in Int
    BY <2>1, <1>3, <1>7, <1>9
  <2> QED BY <2>2
<1> QED BY <1>8, <1>11, <1>12, <1>13 DEF Tiles, w

LEMMA TilesStart ==
  ASSUME NEW windows, NEW from, NEW upto, Tiles(windows, from, upto), windows # <<>>,
         NEW window, window = Head(windows)
  PROVE  /\ window[1] = from /\ window[2] \in Int /\ from \in Int /\ upto \in Int
         /\ from <= window[2] /\ window[2] <= upto
         /\ Tiles(Tail(windows), window[2] + 1, upto)
<1> DEFINE n == Len(windows)
           t == Tail(windows)
<1>1. /\ from \in Int /\ upto \in Int /\ windows \in Seq(Int \X Int) /\ n \in Nat /\ n >= 1
      /\ \A k \in 1 .. n : windows[k][1] <= windows[k][2] /\ windows[k][2] <= upto
      /\ windows[1][1] = from /\ windows[n][2] = upto
      /\ \A k \in 1 .. n - 1 : windows[k + 1][1] = windows[k][2] + 1
  BY DEF Tiles
<1>2. /\ window = windows[1] /\ t \in Seq(Int \X Int) /\ Len(t) = n - 1
      /\ \A k \in 1 .. n - 1 : t[k] = windows[k + 1]
  BY <1>1
<1>3. \A k \in 1 .. n : windows[k][1] \in Int /\ windows[k][2] \in Int
  BY <1>1
<1> HIDE DEF n, t
<1>4. 1 \in 1 .. n /\ n \in 1 .. n
  BY <1>1
<1>5. ASSUME t = <<>> PROVE n = 1
  BY <1>1, <1>2, <1>5
<1>6. ASSUME t # <<>> PROVE n > 1
  BY <1>1, <1>2, <1>6
<1>14. n \in Nat /\ n >= 1
  BY <1>1
<1>7. \A k \in 1 .. n - 1 : k \in 1 .. n /\ k + 1 \in 1 .. n
  BY <1>14
<1>8. \A k \in 1 .. (n - 1) - 1 : k \in 1 .. n - 1 /\ k + 1 \in 1 .. n - 1
  BY <1>14
<1>9. window[1] = from /\ window[2] \in Int /\ from <= window[2] /\ window[2] <= upto
  BY <1>1, <1>2, <1>3, <1>4
<1>10. \A k \in 1 .. n - 1 : t[k][1] <= t[k][2] /\ t[k][2] <= upto
  BY <1>1, <1>2, <1>7
<1>11. /\ t = <<>> => window[2] + 1 = upto + 1
       /\ t # <<>> => t[1][1] = window[2] + 1 /\ t[n - 1][2] = upto
  <2>1. CASE t = <<>>
    BY <2>1, <1>5, <1>1, <1>2
  <2>2. CASE t # <<>>
    <3>1. n > 1 /\ 1 \in 1 .. n - 1 /\ n - 1 \in 1 .. n - 1 /\ (n - 1) + 1 = n
      BY <2>2, <1>6, <1>14
    <3>2. t[1] = windows[2] /\ t[n - 1] = windows[n] /\ windows[2][1] = windows[1][2] + 1
      <4>1. 1 + 1 = 2
        OBVIOUS
      <4> QED BY <3>1, <4>1, <1>1, <1>2
    <3> QED BY <3>2, <2>2, <1>1, <1>2
  <2> QED BY <2>1, <2>2
<1>12. \A k \in 1 .. (n - 1) - 1 : t[k + 1][1] = t[k][2] + 1
  <2> SUFFICES ASSUME NEW k \in 1 .. (n - 1) - 1 PROVE t[k + 1][1] = t[k][2] + 1
    OBVIOUS
  <2>1. t[k] = windows[k + 1] /\ t[k + 1] = windows[(k + 1) + 1] /\ k + 1 \in 1 .. n - 1
    BY <1>2, <1>8
  <2> QED BY <2>1, <1>1
<1>13. Tiles(t, window[2] + 1, upto)
  <2>1. window[2] + 1 \in Int /\ upto \in Int /\ t \in Seq(Int \X Int)
    BY <1>1, <1>2, <1>9
  <2>2. \A k \in 1 .. Len(t) : t[k][1] <= t[k][2] /\ t[k][2] <= upto
    BY <1>2, <1>10
  <2>3. t # <<>> => t[1][1] = window[2] + 1 /\ t[Len(t)][2] = upto
    BY <1>2, <1>11
  <2>4. \A k \in 1 .. Len(t) - 1 : t[k + 1][1] = t[k][2] + 1
    BY <1>2, <1>12
  <2> QED BY <2>1, <2>2, <2>3, <2>4, <1>11 DEF Tiles
<1> QED BY <1>1, <1>9, <1>13 DEF t

(* A window cut in two.                                                    *)
LEMMA TilesSplit ==
  ASSUME NEW windows, NEW from, NEW upto, Tiles(windows, from, upto), windows # <<>>,
         NEW window, window = Head(windows), NEW middle \in Int, window[1] <= middle, middle < window[2],
         NEW w, w = <<<<window[1], middle>>, <<middle + 1, window[2]>>>> \o Tail(windows)
  PROVE  Tiles(w, from, upto)
<1> DEFINE t == Tail(windows)
<1>1. /\ window[1] = from /\ window[2] \in Int /\ from \in Int /\ upto \in Int
      /\ from <= window[2] /\ window[2] <= upto
      /\ Tiles(t, window[2] + 1, upto)
  BY TilesStart
<1>4. w = <<<<window[1], middle>>, <<middle + 1, window[2]>>>> \o t
  OBVIOUS
<1> HIDE DEF t
<1> DEFINE n == Len(t)
<1>2. /\ t \in Seq(Int \X Int) /\ n \in Nat
      /\ \A k \in 1 .. n : t[k][1] <= t[k][2] /\ t[k][2] <= upto
      /\ t = <<>> => window[2] + 1 = upto + 1
      /\ t # <<>> => t[1][1] = window[2] + 1 /\ t[n][2] = upto
      /\ \A k \in 1 .. n - 1 : t[k + 1][1] = t[k][2] + 1
  BY <1>1 DEF Tiles
<1> DEFINE a == <<<<window[1], middle>>, <<middle + 1, window[2]>>>>
<1>3. a \in Seq(Int \X Int) /\ Len(a) = 2 /\ a[1] = <<window[1], middle>> /\ a[2] = <<middle + 1, window[2]>>
  BY <1>1
<1>13. w = a \o t
  BY <1>4
<1> HIDE DEF a
<1>5. /\ w \in Seq(Int \X Int) /\ Len(w) = n + 2
      /\ w[1] = <<window[1], middle>> /\ w[2] = <<middle + 1, window[2]>>
      /\ \A k \in 3 .. n + 2 : w[k] = t[k - 2] /\ k - 2 \in 1 .. n
  <2>1. /\ w \in Seq(Int \X Int) /\ Len(w) = 2 + n
        /\ \A k \in 1 .. 2 + n : w[k] = IF k <= 2 THEN a[k] ELSE t[k - 2]
    <3>1. a \in Seq(Int \X Int) /\ t \in Seq(Int \X Int)
      BY <1>2, <1>3
    <3>2. /\ a \o t \in Seq(Int \X Int) /\ Len(a \o t) = Len(a) + Len(t)
          /\ \A k \in 1 .. Len(a) + Len(t) : (a \o t)[k] = IF k <= Len(a) THEN a[k] ELSE t[k - Len(a)]
      BY <3>1, ConcatProperties, Zenon
    <3> QED BY <3>2, <1>3, <1>13
  <2>2. w[1] = a[1] /\ w[2] = a[2]
    <3>1. 1 \in 1 .. 2 + n /\ 2 \in 1 .. 2 + n /\ 1 <= 2 /\ 2 <= 2
      BY <1>2
    <3>2. \A k \in 1 .. 2 + n : k <= 2 => w[k] = a[k]
      BY <2>1
    <3> QED BY <3>1, <3>2
  <2>3. ASSUME NEW k \in 3 .. n + 2 PROVE w[k] = t[k - 2] /\ k - 2 \in 1 .. n
    <3>1. k \in 1 .. 2 + n /\ ~(k <= 2)
      BY <1>2
    <3> QED BY <3>1, <2>1, <1>2
  <2> QED BY <2>1, <2>2, <2>3, <1>2, <1>3
<1> HIDE DEF n
<1>6. \A k \in 1 .. n + 2 : k = 1 \/ k = 2 \/ k \in 3 .. n + 2
  BY <1>2
<1>7. \A k \in 1 .. n + 2 : w[k][1] <= w[k][2] /\ w[k][2] <= upto
  <2> SUFFICES ASSUME NEW k \in 1 .. n + 2 PROVE w[k][1] <= w[k][2] /\ w[k][2] <= upto
    OBVIOUS
  <2>1. CASE k = 1
    BY <2>1, <1>1, <1>5
  <2>2. CASE k = 2
    BY <2>2, <1>1, <1>5
  <2>3. CASE k \in 3 .. n + 2
    BY <2>3, <1>2, <1>5
  <2> QED BY <2>1, <2>2, <2>3, <1>6
<1>8. t = <<>> <=> n = 0
  BY <1>2 DEF n
<1>9. w[n + 2][2] = upto
  <2>1. CASE n = 0
    BY <2>1, <1>1, <1>2, <1>5, <1>8
  <2>2. CASE n # 0
    <3>1. n + 2 \in 3 .. n + 2 /\ (n + 2) - 2 = n
      BY <2>2, <1>2
    <3> QED BY <3>1, <2>2, <1>2, <1>5, <1>8
  <2> QED BY <2>1, <2>2
<1>10. ASSUME NEW k \in 1 .. (n + 2) - 1 PROVE w[k + 1][1] = w[k][2] + 1
  <2>1. CASE k = 1
    BY <2>1, <1>5, <1>1
  <2>2. CASE k = 2
    <3>1. n # 0 /\ 3 \in 3 .. n + 2
      BY <2>2, <1>2, <1>10
    <3>2. w[3] = t[1]
      <4>1. 3 - 2 = 1
        OBVIOUS
      <4> QED BY <3>1, <4>1, <1>5
    <3>3. w[2][2] + 1 = window[2] + 1 /\ t[1][1] = window[2] + 1
      BY <3>1, <1>2, <1>5, <1>8
    <3>4. k + 1 = 3
      BY <2>2
    <3> QED BY <2>2, <3>2, <3>3, <3>4
  <2>3. CASE k \in 3 .. n + 2
    <3>1. k + 1 \in 3 .. n + 2 /\ k - 2 \in 1 .. n - 1 /\ (k + 1) - 2 = (k - 2) + 1
      BY <2>3, <1>2, <1>10
    <3>2. w[k] = t[k - 2] /\ w[k + 1] = t[(k - 2) + 1]
      BY <2>3, <3>1, <1>5
    <3> QED BY <3>1, <3>2, <1>2
  <2>4. k \in 1 .. n + 2
    BY <1>2
  <2> QED BY <2>1, <2>2, <2>3, <2>4, <1>6
<1>11. w # <<>> /\ w[1][1] = from
  BY <1>1, <1>2, <1>5
<1>12. \A k \in 1 .. (n + 2) - 1 : w[k + 1][1] = w[k][2] + 1
  BY <1>10
<1> QED BY <1>1, <1>5, <1>7, <1>9, <1>11, <1>12 DEF Tiles

(* A line that starts where others of its group came before it.            *)
LEMMA StartLine ==
  ASSUME NEW g, NEW before, NEW w, NEW old, before \subseteq g, w \subseteq g, old \subseteq before \cup w,
         NEW B, Orders(B, g), NEW nulls, NEW numbers,
         NEW t, Line(B, nulls, numbers, t, w, w),
         \A i \in before, j \in w : <<i, j>> \in B
  PROVE  Line(B, nulls, numbers, t, g, old)
<1> DEFINE n == Len(t)
<1>1. t \in Seq(w) /\ n \in Nat /\ 1 <= n /\ \A k \in 1 .. n : t[k] \in w
  BY DEF Line
<1>2. t \in Seq(g)
  BY <1>1, SeqMonotonic
<1>3. /\ \A j, k \in 1 .. n : j < k => <<t[j], t[k]>> \in B
      /\ \A i \in w : <<t[n], i>> \notin B
      /\ \A k \in 1 .. n - 1 :
           t[k] \in nulls \/ t[k + 1] \in nulls
             \/ \A i \in w : <<t[k], i>> \in B /\ <<i, t[k + 1]>> \in B => i \in numbers
      /\ \A k \in 1 .. n : t[k] \in nulls => t[k] \notin numbers
  BY DEF Line
<1>4. ASSUME NEW i \in before, NEW j \in w PROVE <<j, i>> \notin B
  BY <1>4 DEF Orders
<1>5. n \in 1 .. n /\ \A k \in 1 .. n - 1 : k \in 1 .. n
  BY <1>1
<1> HIDE DEF n
<1>6. \A i \in old : <<t[n], i>> \notin B
  BY <1>1, <1>3, <1>4, <1>5
<1>7. ASSUME NEW k \in 1 .. n - 1
      PROVE  t[k] \in nulls \/ t[k + 1] \in nulls
               \/ \A i \in old : <<t[k], i>> \in B /\ <<i, t[k + 1]>> \in B => i \in numbers
  <2>1. \A i \in before : <<t[k], i>> \notin B
    BY <1>1, <1>4, <1>5
  <2> QED BY <2>1, <1>3
<1> QED BY <1>1, <1>2, <1>3, <1>6, <1>7 DEF Line, n

LEMMA CeilingIs ==
  ASSUME NEW a \in Int, NEW b \in Nat \ {0}
  PROVE  Ceiling(a, b) \in Int
<1>1. a + b - 1 \in Int
  OBVIOUS
<1> QED BY <1>1 DEF Ceiling

(* How many windows a long history is read in.                             *)
LEMMA PagesAre ==
  ASSUME NEW request \in ChartRequests, ValidChart(request), NEW count \in Nat, NEW span \in Nat \ {0}
  PROVE  AtMost(AtMost(AtLeast(Ceiling(count, PageRows(request)), 2), MaxWindows), span) \in 1 .. span
<1> DEFINE paths == Cardinality(request.paths)
           pages == AtLeast(Ceiling(count, PageRows(request)), 2)
<1>1. /\ MaxScanRows \in Nat \ {0, 1} /\ MaxWindows \in Nat \ {0} /\ MaxOutputPoints \in Nat \ {0}
      /\ IsFiniteSet(request.paths) /\ paths <= MaxOutputPoints * 5
  BY ChartsAssumption
<1>2. paths \in Nat \ {0}
  <2>1. request.paths # {}
    BY DEF ValidChart
  <2> QED BY <2>1, <1>1, FS_CardinalityType, FS_EmptySet
<1>3. PageRows(request) \in Nat \ {0}
  <2>1. MaxScanRows \div 2 \in Nat \ {0}
    BY <1>1
  <2>2. (MaxOutputPoints * 5) \div paths \in Nat \ {0}
    <3> DEFINE a == MaxOutputPoints * 5
    <3>1. a \in Nat /\ paths <= a
      BY <1>1
    <3> HIDE DEF a, paths
    <3>2. a \div paths \in Nat \ {0}
      BY <3>1, <1>2
    <3> QED BY <3>2 DEF a
  <2> QED BY <2>1, <2>2 DEF PageRows, AtMost
<1>4. pages \in Int /\ pages >= 2
  <2>1. Ceiling(count, PageRows(request)) \in Int
    BY <1>3, CeilingIs
  <2> QED BY <2>1 DEF AtLeast
<1> HIDE DEF pages
<1>5. AtMost(AtMost(pages, MaxWindows), span) \in 1 .. span
  BY <1>1, <1>4 DEF AtMost
<1> QED BY <1>5 DEF pages

-------------------------------------------------------------------------------
(* Summaries.                                                              *)

(* What a row of a summary says, of the states and times it is about.      *)
Reports(row, numeric, ids, val, on) ==
  LET Reaching(v) == Cardinality({i \in numeric : val[i] <= v})
      values == {val[i] : i \in numeric} IN
  /\ row.count = Cardinality(numeric) /\ row.count + row.missing = Cardinality(ids)
  /\ row.p95 = {v \in values : /\ 20 * Reaching(v) >= 19 * row.count
                               /\ \A w \in values : w < v => 20 * Reaching(w) < 19 * row.count}
  /\ row.minimum = {v \in values : \A w \in values : v <= w}
  /\ row.maximum = {v \in values : \A w \in values : v >= w}
  /\ row.snapshot \subseteq ids
  /\ \A i \in row.snapshot : /\ \A j \in ids : on[j] <= on[i]
                             /\ row.current = {val[i]} \ {Nothing, List}

Tells(row, ids, val, on) == Reports(row, {i \in ids : val[i] >= 0}, ids, val, on)

(* s lists S in the order of the key.                                      *)
FirstOf(s, k) == {s[q] : q \in 1 .. k}

Lists(s, S, key) ==
  LET n == Cardinality(S) IN
  /\ n \in Nat /\ s \in [1 .. n -> S] /\ Len(s) = n /\ Sorted(s, key)
  /\ \A i \in S : \E k \in 1 .. n : s[k] = i
  /\ \A k \in 0 .. n : Cardinality(FirstOf(s, k)) = k

LEMMA OrderedByLists ==
  ASSUME NEW S, IsFiniteSet(S), NEW key, Keyed(S, key)
  PROVE  Lists(OrderedBy(S, key), S, key)
<1> DEFINE n == Cardinality(S)
           s == OrderedBy(S, key)
<1>1. /\ n \in Nat /\ s \in [1 .. n -> S] /\ Sorted(s, key)
      /\ \A i \in S : \E k \in 1 .. n : s[k] = i
  BY OrderedByIs
<1> HIDE DEF n, s
<1>2. Len(s) = n
  BY <1>1
<1>3. ASSUME NEW k \in 0 .. n PROVE Cardinality(FirstOf(s, k)) = k
  <2> DEFINE T == FirstOf(s, k)
  <2>1. T = {s[q] : q \in 1 .. k}
    BY DEF FirstOf
  <2> HIDE DEF T
  <2>2. IsFiniteSet(T) /\ Cardinality(T) = k
    BY <2>1, <1>1, SortedCounts
  <2> QED BY <2>2 DEF T
<1> QED BY <1>1, <1>2, <1>3 DEF Lists, n, s

(* The numbers in order of their values.                                   *)
Sorts(s, numeric, val) ==
  LET n == Cardinality(numeric) IN
  /\ n \in Nat /\ s \in [1 .. n -> numeric] /\ Len(s) = n
  /\ \A j, k \in 1 .. n : j < k => val[s[j]] <= val[s[k]]
  /\ \A i \in numeric : \E k \in 1 .. n : s[k] = i
  /\ \A k \in 0 .. n : Cardinality(FirstOf(s, k)) = k

Values(values, numeric, val) ==
  /\ IsFiniteSet(numeric)
  /\ \A i \in numeric : val[i] \in Int /\ val[i] \in values
  /\ \A v \in values : \E i \in numeric : v = val[i]

Least(values) == {v \in values : \A w \in values : v <= w}

Greatest(values) == {v \in values : \A w \in values : v >= w}

Reached95(values, numeric, val) ==
  {v \in values :
     /\ 20 * Cardinality({i \in numeric : val[i] <= v}) >= 19 * Cardinality(numeric)
     /\ \A w \in values :
          w < v => 20 * Cardinality({i \in numeric : val[i] <= w}) < 19 * Cardinality(numeric)}

LEMMA SortsExtremes ==
  ASSUME NEW numeric, NEW val, NEW values, Values(values, numeric, val), numeric # {},
         NEW s, Sorts(s, numeric, val)
  PROVE  {val[s[1]]} = Least(values) /\ {val[s[Len(s)]]} = Greatest(values)
<1> DEFINE n == Cardinality(numeric)
<1>0. /\ \A i \in numeric : val[i] \in Int /\ val[i] \in values
      /\ \A v \in values : \E i \in numeric : v = val[i]
  BY DEF Values
<1>1. /\ n \in Nat /\ s \in [1 .. n -> numeric] /\ Len(s) = n
      /\ \A j, k \in 1 .. n : j < k => val[s[j]] <= val[s[k]]
      /\ \A i \in numeric : \E k \in 1 .. n : s[k] = i
  BY DEF Sorts
<1> HIDE DEF n
<1>2. 1 \in 1 .. n /\ n \in 1 .. n
  <2>1. PICK i \in numeric : TRUE
    OBVIOUS
  <2> QED BY <2>1, <1>1
<1>3. val[s[1]] \in values /\ val[s[n]] \in values /\ \A v \in values : v \in Int
  BY <1>0, <1>1, <1>2
<1>4. \A w \in values : \E k \in 1 .. n : val[s[k]] = w
  BY <1>0, <1>1
<1>5. ASSUME NEW w \in values PROVE val[s[1]] <= w /\ w <= val[s[n]]
  <2>1. PICK k \in 1 .. n : val[s[k]] = w
    BY <1>4
  <2>2. (k = 1 \/ 1 < k) /\ (k = n \/ k < n)
    BY <1>1
  <2> QED BY <2>1, <2>2, <1>1, <1>2, <1>3
<1>6. \A v, w \in values : v <= w /\ w <= v => v = w
  BY <1>3
<1>7. {val[s[1]]} = {v \in values : \A w \in values : v <= w}
  BY <1>3, <1>5, <1>6
<1>8. {val[s[n]]} = {v \in values : \A w \in values : v >= w}
  <2>1. \A v, w \in values : v >= w <=> w <= v
    BY <1>3
  <2> QED BY <2>1, <1>3, <1>5, <1>6
<1> QED BY <1>1, <1>7, <1>8 DEF Least, Greatest

LEMMA PercentileIs ==
  ASSUME NEW n \in Nat \ {0}, NEW k, k = Percentile95(n)
  PROVE  k \in 1 .. n /\ 20 * k >= 19 * n /\ 20 * (k - 1) < 19 * n
<1>1. k = (95 * n + 100 - 1) \div 100
  BY DEF Percentile95, Ceiling
<1> QED BY <1>1

LEMMA SortsPercentile ==
  ASSUME NEW numeric, NEW val, NEW values, Values(values, numeric, val), numeric # {},
         NEW s, Sorts(s, numeric, val)
  PROVE  {val[s[Percentile95(Len(s))]]} = Reached95(values, numeric, val)
<1> DEFINE n == Cardinality(numeric)
           r == [v \in values |-> Cardinality({i \in numeric : val[i] <= v})]
           k == Percentile95(n)
<1>0. /\ IsFiniteSet(numeric)
      /\ \A i \in numeric : val[i] \in Int /\ val[i] \in values
      /\ \A v \in values : \E i \in numeric : v = val[i]
  BY DEF Values
<1>1. /\ n \in Nat /\ s \in [1 .. n -> numeric] /\ Len(s) = n
      /\ \A j, q \in 1 .. n : j < q => val[s[j]] <= val[s[q]]
      /\ \A i \in numeric : \E q \in 1 .. n : s[q] = i
      /\ \A q \in 0 .. n : Cardinality(FirstOf(s, q)) = q
  BY DEF Sorts
<1>2. \A v \in values : v \in Int
  BY <1>0
<1>3. n # 0
  BY <1>0, FS_EmptySet
<1> HIDE DEF n
<1>4. k \in 1 .. n /\ 20 * k >= 19 * n /\ 20 * (k - 1) < 19 * n /\ k \in Nat
  BY <1>1, <1>3, PercentileIs
<1> HIDE DEF k
<1>5. val[s[k]] \in values
  BY <1>0, <1>1, <1>4
<1>6. \A v \in values : r[v] = Cardinality({i \in numeric : val[i] <= v})
  OBVIOUS
<1> HIDE DEF r
<1>7. \A v \in values : r[v] \in Nat
  <2> SUFFICES ASSUME NEW v \in values PROVE r[v] \in Nat
    OBVIOUS
  <2> DEFINE T == {i \in numeric : val[i] <= v}
  <2>1. T \subseteq numeric /\ r[v] = Cardinality(T)
    BY <1>6
  <2> HIDE DEF T
  <2> QED BY <2>1, <1>0, FS_Subset, FS_CardinalityType
<1>8. r[val[s[k]]] >= k
  <2> DEFINE T == {i \in numeric : val[i] <= val[s[k]]}
             U == FirstOf(s, k)
  <2>1. T \subseteq numeric /\ r[val[s[k]]] = Cardinality(T)
    BY <1>5, <1>6
  <2>2. \A j \in 1 .. k : s[j] \in numeric /\ val[s[j]] <= val[s[k]]
    <3> SUFFICES ASSUME NEW j \in 1 .. k PROVE s[j] \in numeric /\ val[s[j]] <= val[s[k]]
      OBVIOUS
    <3>1. j \in 1 .. n /\ (j = k \/ j < k)
      BY <1>1, <1>4
    <3>2. s[j] \in numeric /\ s[k] \in numeric
      BY <3>1, <1>1, <1>4
    <3> QED BY <3>1, <3>2, <1>0, <1>1, <1>4
  <2>3. U \subseteq T
    BY <2>2 DEF FirstOf
  <2>4. Cardinality(U) = k
    <3>1. k \in 0 .. n
      BY <1>1, <1>4
    <3> QED BY <3>1, <1>1
  <2> HIDE DEF T, U
  <2>5. IsFiniteSet(T) /\ Cardinality(T) \in Nat
    BY <2>1, <1>0, FS_Subset, FS_CardinalityType
  <2>6. Cardinality(U) <= Cardinality(T)
    BY <2>3, <2>5, FS_Subset
  <2> QED BY <2>1, <2>4, <2>5, <2>6, <1>4
<1>9. ASSUME NEW w \in values, w < val[s[k]] PROVE r[w] <= k - 1
  <2> DEFINE T == {i \in numeric : val[i] <= w}
             U == FirstOf(s, k - 1)
  <2>1. r[w] = Cardinality(T)
    BY <1>6
  <2>2. ASSUME NEW i \in T PROVE i \in U
    <3>1. PICK j \in 1 .. n : s[j] = i
      BY <1>1
    <3>2. s[k] \in numeric /\ val[s[k]] \in Int /\ val[i] \in Int /\ w \in Int
      BY <1>0, <1>1, <1>2, <1>4
    <3>3. ~(k < j) /\ k # j
      <4>1. k < j => val[s[k]] <= val[s[j]]
        BY <1>1, <1>4
      <4>2. val[i] <= w
        OBVIOUS
      <4> QED BY <4>1, <4>2, <3>1, <3>2, <1>9
    <3>4. j \in 1 .. k - 1
      BY <3>3, <1>1, <1>4
    <3> QED BY <3>1, <3>4 DEF FirstOf
  <2>3. Cardinality(U) = k - 1 /\ IsFiniteSet(U)
    <3>1. k - 1 \in 0 .. n
      BY <1>1, <1>4
    <3>2. Cardinality(U) = k - 1
      BY <3>1, <1>1
    <3>3. U \subseteq numeric
      <4>1. \A j \in 1 .. k - 1 : j \in 1 .. n
        BY <1>1, <1>4
      <4> QED BY <4>1, <1>1 DEF FirstOf
    <3> HIDE DEF U
    <3> QED BY <3>2, <3>3, <1>0, FS_Subset
  <2>4. T \subseteq U
    BY <2>2
  <2> HIDE DEF T, U
  <2> QED BY <2>1, <2>3, <2>4, FS_Subset
<1>10. 20 * r[val[s[k]]] >= 19 * n
  BY <1>1, <1>4, <1>5, <1>7, <1>8
<1>11. \A w \in values : w < val[s[k]] => 20 * r[w] < 19 * n
  <2> SUFFICES ASSUME NEW w \in values, w < val[s[k]] PROVE 20 * r[w] < 19 * n
    OBVIOUS
  <2>1. r[w] \in Nat /\ r[w] <= k - 1
    BY <1>7, <1>9
  <2> QED BY <2>1, <1>1, <1>4
<1>12. {val[s[k]]} = {v \in values : 20 * r[v] >= 19 * n /\ \A w \in values : w < v => 20 * r[w] < 19 * n}
  <2>1. ASSUME NEW v \in values, 20 * r[v] >= 19 * n, \A w \in values : w < v => 20 * r[w] < 19 * n
        PROVE  v = val[s[k]]
    <3>1. ~(v < val[s[k]])
      <4>1. 20 * r[v] \in Int /\ 19 * n \in Int
        BY <1>1, <1>7
      <4> QED BY <4>1, <2>1, <1>11
    <3>2. ~(val[s[k]] < v)
      <4>1. 20 * r[val[s[k]]] \in Int /\ 19 * n \in Int
        BY <1>1, <1>5, <1>7
      <4> QED BY <4>1, <2>1, <1>5, <1>10
    <3> QED BY <3>1, <3>2, <1>2, <1>5
  <2> QED BY <2>1, <1>5, <1>10, <1>11
<1> DEFINE Reaches(v) == 20 * r[v] >= 19 * n /\ \A w \in values : w < v => 20 * r[w] < 19 * n
           Passes(v) == /\ 20 * Cardinality({i \in numeric : val[i] <= v}) >= 19 * n
                        /\ \A w \in values : w < v => 20 * Cardinality({i \in numeric : val[i] <= w}) < 19 * n
<1>13. \A v \in values : Reaches(v) <=> Passes(v)
  BY <1>6
<1>14. {val[s[k]]} = {v \in values : Reaches(v)}
  BY <1>12
<1> HIDE DEF Reaches, Passes
<1>15. {val[s[k]]} = {v \in values : Passes(v)}
  BY <1>13, <1>14
<1>16. {val[s[Percentile95(Len(s))]]} = {v \in values : Passes(v)}
  BY <1>1, <1>15 DEF k
<1> QED BY <1>16 DEF Passes, n, Reached95

(* The numbers of a summary, in the order of their values and then of      *)
(* their rows.                                                             *)
Lower(val, numeric) == {b \in numeric \X numeric : val[b[1]] < val[b[2]] \/ (val[b[1]] = val[b[2]] /\ b[1] < b[2])}

LEMMA LowerSorts ==
  ASSUME NEW numeric, IsFiniteSet(numeric), numeric \subseteq Int, NEW val, \A i \in numeric : val[i] \in Int,
         NEW key, key = [i \in numeric |-> Cardinality({j \in numeric : <<j, i>> \in Lower(val, numeric)})],
         NEW s, s = OrderedBy(numeric, key)
  PROVE  Sorts(s, numeric, val)
<1> DEFINE n == Cardinality(numeric)
           B == Lower(val, numeric)
<1>1. \A i, j \in numeric : <<i, j>> \in B <=> val[i] < val[j] \/ (val[i] = val[j] /\ i < j)
  BY DEF Lower
<1> HIDE DEF B
<1>2. Orders(B, numeric)
  <2>1. \A i \in numeric : val[i] \in Int /\ i \in Int
    OBVIOUS
  <2> QED BY <1>1, <2>1 DEF Orders
<1>3. key = [i \in numeric |-> Cardinality({j \in numeric : <<j, i>> \in B})]
  BY DEF B
<1>4. Keyed(numeric, key) /\ \A i, j \in numeric : key[i] < key[j] <=> <<i, j>> \in B
  BY <1>2, <1>3, RankedIs
<1>5. /\ n \in Nat /\ s \in [1 .. n -> numeric] /\ Sorted(s, key) /\ Len(s) = n
      /\ \A i \in numeric : \E k \in 1 .. n : s[k] = i
      /\ \A k \in 0 .. n : Cardinality(FirstOf(s, k)) = k
  <2>1. Lists(s, numeric, key)
    BY <1>4, OrderedByLists
  <2> QED BY <2>1 DEF Lists
<1> HIDE DEF n
<1>7. \A j, k \in 1 .. n : j < k => val[s[j]] <= val[s[k]]
  <2> SUFFICES ASSUME NEW j \in 1 .. n, NEW k \in 1 .. n, j < k PROVE val[s[j]] <= val[s[k]]
    OBVIOUS
  <2>1. s[j] \in numeric /\ s[k] \in numeric /\ key[s[j]] < key[s[k]]
    BY <1>5 DEF Sorted
  <2>2. val[s[j]] < val[s[k]] \/ val[s[j]] = val[s[k]]
    BY <2>1, <1>1, <1>4
  <2>3. val[s[j]] \in Int /\ val[s[k]] \in Int
    BY <2>1
  <2> QED BY <2>2, <2>3
<1> QED BY <1>5, <1>7 DEF Sorts, n

(* The index's values are the state's, and only numbers.                   *)
Exact(ids, path) ==
  \A i \in ids : /\ rows[i].values[path] # Nothing => rows[i].values[path] = rows[i].state[path]
                 /\ rows[i].values[path] # Nothing <=> rows[i].state[path] >= 0

LEMMA SummaryRowIs ==
  ASSUME RowsFit, NEW ids, ids \subseteq Ids, IsFiniteSet(ids), NEW path \in Paths, Exact(ids, path),
         NEW row, row = SummaryRow(ids, path),
         NEW val, val = [i \in ids |-> rows[i].state[path]],
         NEW on, on = [i \in ids |-> rows[i].observed]
  PROVE  Tells(row, ids, val, on)
<1> DEFINE Later(i) == {j \in ids : \/ rows[i].observed < rows[j].observed
                                    \/ rows[i].observed = rows[j].observed /\ i < j}
           newest == {i \in ids : Later(i) = {}}
           numeric == {i \in ids : rows[i].values[path] # Nothing}
           Below(i) == {j \in numeric : \/ rows[j].values[path] < rows[i].values[path]
                                        \/ rows[j].values[path] = rows[i].values[path] /\ j < i}
           sorted == OrderedBy(numeric, [i \in numeric |-> Cardinality(Below(i))])
           At(k) == IF numeric = {} THEN {} ELSE {rows[sorted[k]].values[path]}
           total == FoldSet(LAMBDA i, sum : sum + rows[i].values[path], 0, numeric)
<1>1. row = [observations |-> Cardinality(ids), count |-> Cardinality(numeric),
             missing |-> Cardinality(ids) - Cardinality(numeric),
             current |-> {rows[i].values[path] : i \in newest} \ {Nothing},
             minimum |-> At(1), p95 |-> At(Percentile95(Len(sorted))), maximum |-> At(Len(sorted)),
             sum |-> total, snapshot |-> newest]
  BY DEF SummaryRow
<1> HIDE DEF total, At, sorted, newest, numeric
<1>2. /\ row.count = Cardinality(numeric) /\ row.missing = Cardinality(ids) - Cardinality(numeric)
      /\ row.current = {rows[i].values[path] : i \in newest} \ {Nothing} /\ row.snapshot = newest
      /\ row.minimum = At(1) /\ row.p95 = At(Percentile95(Len(sorted))) /\ row.maximum = At(Len(sorted))
  BY <1>1
<1> USE DEF newest, numeric
<1>3. /\ \A i \in ids : val[i] = rows[i].state[path] /\ on[i] = rows[i].observed /\ on[i] \in Int /\ i \in Int
      /\ \A i \in ids : val[i] \in Nat \/ val[i] \in {Nothing, List}
  <2> SUFFICES ASSUME NEW i \in ids
               PROVE  /\ val[i] = rows[i].state[path] /\ on[i] = rows[i].observed /\ on[i] \in Int /\ i \in Int
                      /\ val[i] \in Nat \/ val[i] \in {Nothing, List}
    OBVIOUS
  <2>1. i \in Ids
    OBVIOUS
  <2>2. val[i] = rows[i].state[path] /\ on[i] = rows[i].observed
    OBVIOUS
  <2>3. rows[i].observed \in Int /\ rows[i].state \in [Paths -> Nat \cup {Nothing, List}]
    BY <2>1 DEF RowsFit
  <2>4. rows[i].state[path] \in Nat \cup {Nothing, List}
    BY <2>3
  <2>5. i \in Int
    BY <2>1 DEF Ids
  <2> QED BY <2>2, <2>3, <2>4, <2>5
<1>4. \A i \in ids : /\ val[i] >= 0 <=> rows[i].values[path] # Nothing
                     /\ rows[i].values[path] # Nothing => rows[i].values[path] = val[i]
  BY <1>3 DEF Exact
<1>5. numeric = {i \in ids : val[i] >= 0}
  BY <1>4
<1>6. \A i \in numeric : i \in ids /\ i \in Int /\ val[i] \in Int /\ rows[i].values[path] = val[i]
  BY <1>3, <1>4 DEF Nothing, List
<1>7. sorted = OrderedBy(numeric, [i \in numeric |-> Cardinality({j \in numeric : <<j, i>> \in Lower(val, numeric)})])
  <2>1. ASSUME NEW i \in numeric PROVE Below(i) = {j \in numeric : <<j, i>> \in Lower(val, numeric)}
    <3> HIDE DEF numeric
    <3> QED BY <1>6 DEF Lower
  <2> HIDE DEF Below
  <2>3. sorted = OrderedBy(numeric, [i \in numeric |-> Cardinality(Below(i))])
    BY DEF sorted
  <2> HIDE DEF numeric
  <2>2. [i \in numeric |-> Cardinality(Below(i))] =
          [i \in numeric |-> Cardinality({j \in numeric : <<j, i>> \in Lower(val, numeric)})]
    BY <2>1
  <2> QED BY <2>2, <2>3
<1>8. IsFiniteSet(numeric) /\ numeric \subseteq Int /\ \A i \in numeric : val[i] \in Int
  <2>1. numeric \subseteq ids
    OBVIOUS
  <2> HIDE DEF numeric
  <2> QED BY <2>1, <1>6, FS_Subset
<1>9. Cardinality(ids) \in Nat /\ Cardinality(numeric) \in Nat
  <2> HIDE DEF numeric
  <2> QED BY <1>8, FS_CardinalityType
<1>10. \A i \in newest : /\ \A j \in ids : on[j] <= on[i]
                         /\ row.current = {val[i]} \ {Nothing, List}
  <2> SUFFICES ASSUME NEW i \in newest
               PROVE  (\A j \in ids : on[j] <= on[i]) /\ row.current = {val[i]} \ {Nothing, List}
    OBVIOUS
  <2>1. i \in ids /\ \A j \in ids : ~(on[i] < on[j]) /\ ~(on[i] = on[j] /\ i < j)
    BY <1>3
  <2>2. \A j \in ids : on[j] <= on[i]
    BY <2>1, <1>3
  <2>3. \A j \in newest : j = i
    <3> SUFFICES ASSUME NEW j \in newest PROVE j = i
      OBVIOUS
    <3>1. j \in ids /\ ~(on[j] < on[i]) /\ ~(on[j] = on[i] /\ j < i)
      BY <1>3, <2>1
    <3>2. ~(on[i] < on[j]) /\ ~(on[i] = on[j] /\ i < j)
      BY <2>1, <3>1
    <3>3. on[i] \in Int /\ on[j] \in Int /\ i \in Int /\ j \in Int
      BY <1>3, <2>1, <3>1
    <3> QED BY <3>1, <3>2, <3>3
  <2> HIDE DEF newest
  <2>4. row.current = {rows[i].values[path]} \ {Nothing}
    BY <2>3, <1>2
  <2>5. CASE rows[i].values[path] = Nothing
    <3>1. val[i] \in {Nothing, List}
      BY <2>1, <2>5, <1>3, <1>4
    <3> QED BY <2>2, <2>4, <2>5, <3>1
  <2>6. CASE rows[i].values[path] # Nothing
    <3>1. rows[i].values[path] = val[i] /\ val[i] \notin {Nothing, List}
      BY <2>1, <2>6, <1>3, <1>4 DEF Nothing, List
    <3> QED BY <2>2, <2>4, <3>1
  <2> QED BY <2>5, <2>6
<1>16. newest \subseteq ids
  OBVIOUS
<1> HIDE DEF newest, sorted, numeric
<1> DEFINE values == {val[i] : i \in numeric}
<1>11. Sorts(sorted, numeric, val)
  BY <1>7, <1>8, LowerSorts
<1>12. /\ row.minimum = {v \in values : \A w \in values : v <= w}
       /\ row.maximum = {v \in values : \A w \in values : v >= w}
       /\ row.p95 = {v \in values :
            /\ 20 * Cardinality({i \in numeric : val[i] <= v}) >= 19 * Cardinality(numeric)
            /\ \A w \in values : w < v => 20 * Cardinality({i \in numeric : val[i] <= w}) < 19 * Cardinality(numeric)}
  <2>1. CASE numeric = {}
    <3>1. row.minimum = {} /\ row.maximum = {} /\ row.p95 = {} /\ values = {}
      BY <2>1, <1>2 DEF At
    <3> HIDE DEF values
    <3> QED BY <3>1
  <2>2. CASE numeric # {}
    <3>1. /\ Sorts(sorted, numeric, val) /\ Len(sorted) \in Nat \ {0} /\ 1 \in 1 .. Len(sorted)
          /\ \A k \in 1 .. Len(sorted) : sorted[k] \in numeric
      <4>1. Cardinality(numeric) # 0
        BY <2>2, <1>8, FS_EmptySet
      <4>2. sorted \in [1 .. Cardinality(numeric) -> numeric] /\ Len(sorted) = Cardinality(numeric)
        BY <1>11 DEF Sorts
      <4> QED BY <4>1, <4>2, <1>9, <1>11
    <3>2. Percentile95(Len(sorted)) \in 1 .. Len(sorted)
      BY <3>1, PercentileIs
    <3>3. \A k \in 1 .. Len(sorted) : At(k) = {val[sorted[k]]}
      BY <2>2, <3>1, <1>6 DEF At
    <3>4. /\ row.minimum = {val[sorted[1]]} /\ row.maximum = {val[sorted[Len(sorted)]]}
          /\ row.p95 = {val[sorted[Percentile95(Len(sorted))]]}
      <4>1. Len(sorted) \in 1 .. Len(sorted)
        BY <3>1
      <4> HIDE DEF values
      <4> QED BY <3>1, <3>2, <3>3, <4>1, <1>2
    <3>5. Values(values, numeric, val)
      BY <1>8 DEF Values
    <3> HIDE DEF values
    <3>6. {val[sorted[1]]} = Least(values) /\ {val[sorted[Len(sorted)]]} = Greatest(values)
      BY <2>2, <3>5, <1>11, SortsExtremes
    <3>7. {val[sorted[Percentile95(Len(sorted))]]} = Reached95(values, numeric, val)
      BY <2>2, <3>5, <1>11, SortsPercentile
    <3> QED BY <3>4, <3>6, <3>7 DEF Least, Greatest, Reached95
  <2> QED BY <2>1, <2>2
<1>13. row.count = Cardinality(numeric) /\ row.count + row.missing = Cardinality(ids)
  BY <1>2, <1>9
<1>14. /\ row.snapshot \subseteq ids
       /\ \A i \in row.snapshot : (\A j \in ids : on[j] <= on[i]) /\ row.current = {val[i]} \ {Nothing, List}
  BY <1>2, <1>10, <1>16
<1>15. Tells(row, ids, val, on)
  <2> HIDE DEF numeric
  <2>1. Reports(row, numeric, ids, val, on)
    BY <1>12, <1>13, <1>14 DEF Reports
  <2> QED BY <2>1, <1>5 DEF Tells
<1> QED BY <1>15

-------------------------------------------------------------------------------
(* What ingestion leaves as it was.                                        *)

(* Where the rows of the request's runs are on its axis.                   *)
AxesKept(request) ==
  \A i \in Ids : rows[i].charted /\ rows[i].run \in request.runs =>
    AxisOf(i, request.axis)' = AxisOf(i, request.axis)

SteadyRun(run) ==
  Charted(run) # {} => Charted(run) \cap Old # {} /\ Baseline(run) = Earliest(rows, Charted(run) \cap Old)

LEMMA SteadyIs ==
  Steady <=> (chart.request.axis = "elapsed" => \A run \in chart.request.runs : SteadyRun(run))
BY DEF Steady, SteadyRun, Charted, Earliest

LEMMA BaselineKept ==
  ASSUME RowsFit, RowsFit', NEW run, Ids \subseteq Ids', \A i \in Ids : rows'[i] = rows[i],
         Old \subseteq Ids, Old' = Old, SteadyRun(run)', Charted(run) # {}
  PROVE  SteadyRun(run) /\ Baseline(run)' = Baseline(run)
<1> DEFINE C == Charted(run)
           D == Charted(run)'
<1>1. C \subseteq D /\ D \cap Old = C \cap Old
  BY DEF Charted
<1>2. /\ IsFiniteSet(C) /\ C \subseteq Ids /\ \A i \in C : rows[i].observed \in Int
  BY ChartedIs
<1>3. /\ Baseline(run) \in Int /\ \A j \in C : Baseline(run) <= rows[j].observed
      /\ \E i \in C : Baseline(run) = rows[i].observed
  BY BaselineIs
<1>4. D # {}
  BY <1>1
<1>5. /\ Baseline(run)' \in Int /\ \A j \in D : Baseline(run)' <= rows'[j].observed
  <2>1. Len(rows') \in Nat /\ D \subseteq 1 .. Len(rows') /\ \A i \in 1 .. Len(rows') : rows'[i].observed \in Int
    BY DEF RowsFit, Ids, Charted
  <2>2. Baseline(run)' = Earliest(rows', D)
    BY DEF Baseline, Earliest, Charted
  <2> HIDE DEF D
  <2>3. IsFiniteSet(D)
    <3>1. IsFiniteSet(1 .. Len(rows'))
      BY <2>1, FS_Interval
    <3> QED BY <2>1, <3>1, FS_Subset
  <2>4. \A i \in D : rows'[i].observed \in Int
    BY <2>1
  <2> QED BY <1>4, <2>2, <2>3, <2>4, EarliestIs
<1>6. C \cap Old # {} /\ Baseline(run)' = Earliest(rows', D \cap Old)
  BY <1>1, <1>4 DEF SteadyRun
<1>7. Earliest(rows', D \cap Old) = Earliest(rows, C \cap Old)
  <2>1. \A i \in C \cap Old : rows'[i].observed = rows[i].observed
    BY <1>2
  <2> DEFINE T == C \cap Old
  <2>2. D \cap Old = T
    BY <1>1
  <2> HIDE DEF T, C, D
  <2>3. {rows'[i].observed : i \in T} = {rows[i].observed : i \in T}
    BY <2>1 DEF T
  <2> QED BY <2>2, <2>3 DEF Earliest, T
<1> HIDE DEF C, D
<1>8. \E i \in C \cap Old : Earliest(rows, C \cap Old) = rows[i].observed
  <2>1. IsFiniteSet(C \cap Old) /\ \A i \in C \cap Old : rows[i].observed \in Int
    <3>1. C \cap Old \subseteq C
      OBVIOUS
    <3> QED BY <3>1, <1>2, FS_Subset
  <2> QED BY <2>1, <1>6, EarliestIs
<1>9. Baseline(run)' = Baseline(run)
  <2>1. Baseline(run) <= Baseline(run)'
    BY <1>3, <1>6, <1>7, <1>8
  <2>2. Baseline(run)' <= Baseline(run)
    <3>1. PICK i \in C : Baseline(run) = rows[i].observed
      BY <1>3
    <3>2. i \in D /\ rows'[i] = rows[i]
      BY <1>1, <1>2
    <3> QED BY <3>1, <3>2, <1>5
  <2> QED BY <2>1, <2>2, <1>3, <1>5
<1> QED BY <1>6, <1>7, <1>9 DEF SteadyRun, C

LEMMA SteadyKept ==
  ASSUME RowsFit, NEW shot \in Shots, NEW delay \in Int, Ingest(shot, delay),
         chart.since \in 0 .. Len(rows), Steady'
  PROVE  Steady /\ AxesKept(chart.request)
<1> DEFINE axis == chart.request.axis
<1>1. /\ chart' = chart /\ Len(rows) \in Nat /\ Len(rows') = Len(rows) + 1
      /\ \A i \in Ids : rows'[i] = rows[i]
      /\ RowsFit'
  BY IngestIs
<1>2. Ids \subseteq Ids' /\ Old \subseteq Ids /\ Old' = Old
  BY <1>1 DEF Ids, Old
<1>3. CASE axis # "elapsed"
  <2>1. Steady
    BY <1>3 DEF Steady
  <2>2. ASSUME NEW i \in Ids PROVE AxisOf(i, axis)' = AxisOf(i, axis)
    <3>1. rows'[i] = rows[i] /\ axis' = axis
      BY <1>1
    <3> QED BY <3>1, <1>3 DEF AxisOf
  <2> QED BY <2>1, <2>2 DEF AxesKept
<1>4. CASE axis = "elapsed"
  <2>1. \A run \in chart.request.runs : SteadyRun(run)'
    <3>1. Steady' <=> (chart.request.axis = "elapsed" => \A run \in chart.request.runs : SteadyRun(run))'
      BY DEF Steady, SteadyRun, Charted, Earliest
    <3> QED BY <3>1, <1>1, <1>4
  <2>2. ASSUME NEW run \in chart.request.runs, Charted(run) # {}
        PROVE  SteadyRun(run) /\ Baseline(run)' = Baseline(run)
    <3>1. SteadyRun(run)'
      BY <2>1
    <3> QED BY <3>1, <2>2, <1>1, <1>2, BaselineKept
  <2>3. Steady
    <3>1. \A run \in chart.request.runs : SteadyRun(run)
      <4>1. \A run \in chart.request.runs : Charted(run) = {} => SteadyRun(run)
        BY DEF SteadyRun
      <4> QED BY <2>2, <4>1
    <3> QED BY <3>1, SteadyIs
  <2>4. ASSUME NEW i \in Ids, rows[i].charted, rows[i].run \in chart.request.runs
        PROVE  AxisOf(i, axis)' = AxisOf(i, axis)
    <3>1. i \in Charted(rows[i].run)
      BY <2>4 DEF Charted
    <3>2. Baseline(rows[i].run)' = Baseline(rows[i].run)
      <4> DEFINE run == rows[i].run
      <4>1. run \in chart.request.runs /\ Charted(run) # {}
        BY <3>1, <2>4
      <4>2. rows'[i].run = rows[i].run
        BY <1>1
      <4>3. ASSUME NEW r \in chart.request.runs, Charted(r) # {} PROVE Baseline(r)' = Baseline(r)
        BY <2>2, <4>3
      <4> QED BY <4>1, <4>2, <4>3 DEF Baseline
    <3>3. rows'[i] = rows[i] /\ axis' = axis
      BY <1>1
    <3> QED BY <3>2, <3>3, <1>4 DEF AxisOf
  <2> QED BY <2>3, <2>4 DEF AxesKept
<1> QED BY <1>3, <1>4

ScannedKept(request) ==
  /\ Scanned(request) \subseteq Scanned(request)'
  /\ \A i \in Ids : i \in Scanned(request)' => i \in Scanned(request)
  /\ \A i \in Scanned(request) : AxisAt(i, request.axis)' = AxisAt(i, request.axis)
  /\ \A i, j \in Scanned(request) : Before(request.axis, i, j)' <=> Before(request.axis, i, j)

LEMMA ScannedStays ==
  ASSUME RowsFit, NEW shot \in Shots, NEW delay \in Int, Ingest(shot, delay), NEW request, AxesKept(request)
  PROVE  ScannedKept(request)
<1>1. /\ Len(rows) \in Nat /\ Len(rows') = Len(rows) + 1
      /\ \A i \in Ids : rows'[i] = rows[i]
  BY IngestIs
<1>2. Ids \subseteq Ids'
  BY <1>1 DEF Ids
<1>3. ASSUME NEW i \in Ids PROVE i \in Scanned(request)' <=> i \in Scanned(request)
  <2>1. i \in Ids' /\ rows'[i] = rows[i]
    BY <1>1, <1>2
  <2>2. CASE rows[i].charted /\ rows[i].run \in request.runs
    <3>1. AxisOf(i, request.axis)' = AxisOf(i, request.axis)
      BY <2>2 DEF AxesKept
    <3> QED BY <2>1, <3>1 DEF Scanned
  <2>3. CASE ~(rows[i].charted /\ rows[i].run \in request.runs)
    BY <2>1, <2>3 DEF Scanned, InScope
  <2> QED BY <2>2, <2>3
<1>4. Scanned(request) \subseteq Ids
  BY DEF Scanned
<1>5. ASSUME NEW i \in Scanned(request) PROVE AxisAt(i, request.axis)' = AxisAt(i, request.axis)
  <2>1. i \in Ids /\ rows[i].charted /\ rows[i].run \in request.runs
    BY DEF Scanned, InScope
  <2>2. AxisOf(i, request.axis)' = AxisOf(i, request.axis)
    BY <2>1 DEF AxesKept
  <2> QED BY <2>2 DEF AxisAt
<1>6. ASSUME NEW i \in Scanned(request), NEW j \in Scanned(request)
      PROVE  Before(request.axis, i, j)' <=> Before(request.axis, i, j)
  <2>1. rows'[i] = rows[i] /\ rows'[j] = rows[j]
    BY <1>1, <1>4
  <2>2. AxisAt(i, request.axis)' = AxisAt(i, request.axis) /\ AxisAt(j, request.axis)' = AxisAt(j, request.axis)
    BY <1>5
  <2> QED BY <2>1, <2>2 DEF Before
<1> QED BY <1>3, <1>4, <1>5, <1>6, <1>2 DEF ScannedKept

(* The series are lines through their groups, true to the rows of `old`,   *)
(* and there is one for every Source that had a number among these.        *)
SeriesOver(request, key, s, old) ==
  LET g == Group(Scanned(request), key[1]) IN
  /\ key = <<key[1], key[2]>> /\ key[2] \in request.paths /\ FirstIndexed(key[1], key[2]) # {}
  /\ Line(Earlier(request.axis), Nulls(key[2]), Numbers(key[2]), s, g, g \cap old)

Covers(request, series, old) ==
  /\ \A key \in DOMAIN series : SeriesOver(request, key, series[key], old)
  /\ \A i \in Scanned(request) \cap old, p \in request.paths :
       i \in Numbers(p) => <<OwnerOf(i), p>> \in DOMAIN series

LEMMA SeriesStays ==
  ASSUME RowsFit, IndexFits, NEW shot \in Shots, NEW delay \in Int, Ingest(shot, delay), NEW request, AxesKept(request),
         NEW old, old \subseteq Ids, NEW key, NEW s, SeriesOver(request, key, s, old)
  PROVE  SeriesOver(request, key, s, old)'
<1> DEFINE g == Group(Scanned(request), key[1])
           h == Group(Scanned(request), key[1])'
           axis == request.axis
<1>1. /\ Len(rows) \in Nat /\ Len(rows') = Len(rows) + 1
      /\ \A i \in Ids : rows'[i] = rows[i]
  BY IngestIs
<1>2. Ids \subseteq Ids' /\ Scanned(request) \subseteq Ids
  BY <1>1 DEF Ids, Scanned
<1>3. fields \subseteq fields'
  BY IndexStaysExact
<1>4. ScannedKept(request)
  BY ScannedStays
<1>5. /\ key = <<key[1], key[2]>> /\ key[2] \in request.paths /\ FirstIndexed(key[1], key[2]) # {}
      /\ Line(Earlier(axis), Nulls(key[2]), Numbers(key[2]), s, g, g \cap old)
  BY DEF SeriesOver
<1>6. g \subseteq h /\ h \cap old = g \cap old /\ g \subseteq Scanned(request) /\ g \subseteq Ids
  BY <1>1, <1>2, <1>4 DEF ScannedKept, Group
<1>7. FirstIndexed(key[1], key[2])' # {}
  BY <1>3, <1>5 DEF FirstIndexed, KnownTo
<1>8. \A i, j \in g : <<i, j>> \in Earlier(axis) <=> <<i, j>> \in Earlier(axis)'
  BY <1>2, <1>4, <1>6 DEF ScannedKept, Earlier
<1>9. \A i \in g : (i \in Nulls(key[2]) <=> i \in Nulls(key[2])') /\ (i \in Numbers(key[2]) <=> i \in Numbers(key[2])')
  BY <1>1, <1>2, <1>6 DEF Nulls, Numbers
<1> DEFINE B == Earlier(axis)
           C == Earlier(axis)'
           nulls == Nulls(key[2])
           others == Nulls(key[2])'
           numbers == Numbers(key[2])
           values == Numbers(key[2])'
           o == g \cap old
<1>10. Line(C, others, values, s, h, o)
  <2>1. Line(B, nulls, numbers, s, g, o) /\ o \subseteq g /\ g \subseteq h /\ o \subseteq o
    BY <1>5, <1>6
  <2>2. /\ \A i, j \in g : <<i, j>> \in B <=> <<i, j>> \in C
        /\ \A i \in g : (i \in nulls <=> i \in others) /\ (i \in numbers <=> i \in values)
    BY <1>8, <1>9
  <2> HIDE DEF B, C, nulls, others, numbers, values, o, g, h
  <2> QED BY <2>1, <2>2, LineKept
<1>11. Line(Earlier(axis), Nulls(key[2]), Numbers(key[2]), s, Group(Scanned(request), key[1]),
            Group(Scanned(request), key[1]) \cap old)'
  BY <1>6, <1>10
<1> HIDE DEF g, h, B, C, nulls, others, numbers, values, o
<1> QED BY <1>5, <1>7, <1>11 DEF SeriesOver

LEMMA CoversStays ==
  ASSUME RowsFit, IndexFits, NEW shot \in Shots, NEW delay \in Int, Ingest(shot, delay), NEW request, AxesKept(request),
         NEW old, old \subseteq Ids, NEW series, Covers(request, series, old)
  PROVE  Covers(request, series, old)'
<1>1. \A i \in Ids : rows'[i] = rows[i]
  BY IngestIs
<1>2. ScannedKept(request)
  BY ScannedStays
<1>3. ASSUME NEW key \in DOMAIN series PROVE SeriesOver(request, key, series[key], old)'
  <2>1. SeriesOver(request, key, series[key], old)
    BY DEF Covers
  <2> QED BY <2>1, SeriesStays
<1>4. ASSUME NEW i \in Scanned(request)' \cap old, NEW p \in request.paths, i \in Numbers(p)'
      PROVE  (<<OwnerOf(i), p>>)' \in DOMAIN series
  <2>1. i \in Ids /\ i \in Scanned(request) \cap old /\ rows'[i] = rows[i]
    BY <1>1, <1>2 DEF ScannedKept
  <2>2. i \in Numbers(p) /\ OwnerOf(i)' = OwnerOf(i)
    BY <1>4, <2>1 DEF Numbers, OwnerOf
  <2>3. <<OwnerOf(i), p>> \in DOMAIN series
    BY <2>1, <2>2 DEF Covers
  <2> QED BY <2>2, <2>3
<1> QED BY <1>3, <1>4 DEF Covers

-------------------------------------------------------------------------------
(* The invariant.                                                          *)

(* A chart read up to `from`: `old` is what it has read of the rows it is  *)
(* to be true to.                                                          *)
ReadTo(from, upto, old) ==
  LET request == chart.request IN
  /\ Tiles(chart.windows, from, upto)
  /\ (\A low \in request.from : low <= from) /\ (\A high \in request.to : upto <= high)
  /\ old \subseteq Old
  /\ \A i \in Scanned(request) \cap Old :
       AxisAt(i, request.axis) <= upto /\ (i \in old <=> AxisAt(i, request.axis) < from)
  /\ Covers(request, chart.series, old)
  /\ \A key \in DOMAIN chart.series : \A k \in 1 .. Len(chart.series[key]) :
       AxisAt(chart.series[key][k], request.axis) < from

StatesIn(ids, path) == [i \in ids |-> rows[i].state[path]]

TimesIn(ids) == [i \in ids |-> rows[i].observed]

Summed(key, row) ==
  LET ids == Group(Scanned(chart.request) \cap Old, key[1]) IN
  Tells(row, ids, StatesIn(ids, key[2]), TimesIn(ids))

Reading == chart.at \in {"bounds", "window"}

Asked ==
  /\ chart.at \in {"idle", "bounds", "window", "done", "summary"}
  /\ chart.at # "idle" => chart.request \in ChartRequests /\ chart.since \in 0 .. Len(rows)
  /\ Reading => /\ ValidChart(chart.request)
                /\ DOMAIN chart = {"at", "request", "since", "is", "series", "windows", "reads", "span"}

SoFar ==
  /\ chart.at = "bounds" => chart.series = <<>> /\ Scanned(chart.request) # {}
  /\ chart.at = "window" => /\ chart.span \in Nat \ {0}
                            /\ \E from, upto, old : ReadTo(from, upto, old)
  /\ chart.at = "done" /\ chart.is = "ok" =>
       /\ Covers(chart.request, chart.series, Old)
       /\ \A key \in DOMAIN chart.series : Len(chart.series[key]) <= chart.request.max
  /\ chart.at = "summary" /\ chart.is = "ok" =>
       \A key \in DOMAIN chart.series : Summed(key, chart.series[key])

ChartFits == Asked /\ (chart.at # "idle" /\ Steady => SoFar)

LEMMA ReadToStays ==
  ASSUME RowsFit, IndexFits, NEW shot \in Shots, NEW delay \in Int, Ingest(shot, delay), AxesKept(chart.request),
         chart.since \in 0 .. Len(rows), NEW from, NEW upto, NEW old, ReadTo(from, upto, old)
  PROVE  ReadTo(from, upto, old)'
<1> DEFINE q == chart.request
           series == chart.series
<1>1. chart' = chart /\ Len(rows) \in Nat
  BY IngestIs
<1>2. Old \subseteq Ids /\ Old' = Old
  BY <1>1 DEF Ids, Old
<1>3. ScannedKept(q)
  BY ScannedStays
<1>4. /\ Tiles(chart.windows, from, upto)
      /\ (\A low \in q.from : low <= from) /\ (\A high \in q.to : upto <= high)
      /\ old \subseteq Old
      /\ \A i \in Scanned(q) \cap Old : AxisAt(i, q.axis) <= upto /\ (i \in old <=> AxisAt(i, q.axis) < from)
      /\ Covers(q, series, old)
      /\ \A key \in DOMAIN series : \A k \in 1 .. Len(series[key]) : AxisAt(series[key][k], q.axis) < from
  BY DEF ReadTo
<1>5. q' = q /\ series' = series /\ chart.windows' = chart.windows
  BY <1>1
<1>6. Covers(q, series, old)'
  <2>1. ASSUME NEW request, request = q PROVE Covers(request, series, old)'
    <3>1. AxesKept(request) /\ old \subseteq Ids
      BY <2>1, <1>2, <1>4
    <3>2. ASSUME NEW t, t = series PROVE Covers(request, t, old)'
      <4>1. Covers(request, t, old)
        BY <2>1, <3>2, <1>4
      <4> QED BY <3>1, <4>1, CoversStays
    <3> QED BY <3>2, <1>5
  <2> QED BY <2>1, <1>5
<1>7. \A i \in Ids : i \in Scanned(q)' => i \in Scanned(q) /\ AxisAt(i, q.axis)' = AxisAt(i, q.axis)
  BY <1>3 DEF ScannedKept
<1>8. ASSUME NEW key \in DOMAIN series, NEW k \in 1 .. Len(series[key])
      PROVE  AxisAt(series[key][k], q.axis)' = AxisAt(series[key][k], q.axis)
  <2>1. series[key] \in Seq(Group(Scanned(q), key[1]))
    BY <1>4 DEF Covers, SeriesOver, Line
  <2>2. series[key][k] \in Scanned(q)
    BY <2>1 DEF Group
  <2>3. \A i \in Scanned(q) : AxisAt(i, q.axis)' = AxisAt(i, q.axis)
    BY <1>3 DEF ScannedKept
  <2> QED BY <2>2, <2>3, <1>5
<1>9. \A i \in Scanned(q)' \cap Old : AxisAt(i, q.axis)' <= upto /\ (i \in old <=> AxisAt(i, q.axis)' < from)
  BY <1>2, <1>4, <1>7
<1>10. \A key \in DOMAIN series : \A k \in 1 .. Len(series[key]) : AxisAt(series[key][k], q.axis)' < from
  BY <1>4, <1>8
<1> HIDE DEF q, series
<1> QED BY <1>2, <1>4, <1>5, <1>6, <1>9, <1>10 DEF ReadTo, q, series

LEMMA SummedStays ==
  ASSUME RowsFit, NEW shot \in Shots, NEW delay \in Int, Ingest(shot, delay), AxesKept(chart.request),
         chart.since \in 0 .. Len(rows), NEW key, NEW row, Summed(key, row)
  PROVE  Summed(key, row)'
<1> DEFINE q == chart.request
           ids == Group(Scanned(q) \cap Old, key[1])
           next == Group(Scanned(q) \cap Old, key[1])'
           p == key[2]
<1>1. chart' = chart /\ Len(rows) \in Nat /\ \A i \in Ids : rows'[i] = rows[i]
  BY IngestIs
<1>2. Old \subseteq Ids /\ Old' = Old /\ q' = q
  BY <1>1 DEF Ids, Old
<1>3. ScannedKept(q)
  BY ScannedStays
<1>4. next = ids
  <2>1. Scanned(q) \subseteq Scanned(q)' /\ \A i \in Ids : i \in Scanned(q)' => i \in Scanned(q)
    BY <1>2, <1>3 DEF ScannedKept
  <2>2. \A i \in Old : i \in Scanned(q)' <=> i \in Scanned(q)
    BY <1>2, <2>1
  <2>3. \A i \in Old : rows'[i] = rows[i]
    BY <1>1, <1>2
  <2> HIDE DEF q
  <2> QED BY <1>2, <2>2, <2>3 DEF Group
<1>5. ids \subseteq Ids
  BY <1>2 DEF Group
<1> HIDE DEF ids, next
<1>6. [i \in ids |-> rows'[i].state[p]] = [i \in ids |-> rows[i].state[p]]
  BY <1>1, <1>5
<1>7. [i \in ids |-> rows'[i].observed] = [i \in ids |-> rows[i].observed]
  BY <1>1, <1>5
<1>8. Tells(row, ids, [i \in ids |-> rows[i].state[p]], [i \in ids |-> rows[i].observed])
  BY DEF Summed, ids, StatesIn, TimesIn
<1>9. Tells(row, next, [i \in next |-> rows'[i].state[p]], [i \in next |-> rows'[i].observed])
  BY <1>4, <1>6, <1>7, <1>8
<1> QED BY <1>9 DEF Summed, next, StatesIn, TimesIn

LEMMA IngestKeeps ==
  ASSUME RowsFit, IndexFits, ChartFits, NEW shot \in Shots, NEW delay \in Int, Ingest(shot, delay)
  PROVE  RowsFit' /\ IndexFits' /\ ChartFits'
<1>1. /\ chart' = chart /\ Len(rows) \in Nat /\ Len(rows') = Len(rows) + 1
      /\ RowsFit'
  BY IngestIs
<1>2. IndexFits'
  BY IndexStaysExact
<1>3. Asked'
  <2>1. Asked
    BY DEF ChartFits
  <2>2. chart.since \in 0 .. Len(rows) => chart.since \in 0 .. Len(rows')
    BY <1>1
  <2> QED BY <2>1, <2>2, <1>1 DEF Asked, Reading, ValidChart
<1>4. ASSUME chart.at # "idle", Steady' PROVE SoFar'
  <2>1. chart.since \in 0 .. Len(rows) /\ Old' = Old /\ Old \subseteq Ids
    BY <1>1, <1>4 DEF ChartFits, Asked, Old, Ids
  <2>2. Steady /\ AxesKept(chart.request)
    BY <1>4, <2>1, SteadyKept
  <2>3. SoFar
    BY <1>4, <2>2 DEF ChartFits
  <2>4. CASE chart.at = "bounds"
    <3>1. ScannedKept(chart.request)
      BY <2>2, ScannedStays
    <3>2. Scanned(chart.request)' # {}
      BY <3>1, <2>3, <2>4, <1>1 DEF SoFar, ScannedKept
    <3> QED BY <3>2, <2>3, <2>4, <1>1 DEF SoFar
  <2>5. CASE chart.at = "window"
    <3>1. PICK from, upto, old : ReadTo(from, upto, old)
      BY <2>3, <2>5 DEF SoFar
    <3>2. ReadTo(from, upto, old)'
      BY <2>1, <2>2, <3>1, ReadToStays
    <3>3. chart.span' \in Nat \ {0}
      BY <2>3, <2>5, <1>1 DEF SoFar
    <3> QED BY <3>2, <3>3, <2>5, <1>1 DEF SoFar
  <2>6. CASE chart.at = "done"
    <3>1. CASE chart.is = "ok"
      <4>1. Covers(chart.request, chart.series, Old) /\ \A key \in DOMAIN chart.series : Len(chart.series[key]) <= chart.request.max
        BY <2>3, <2>6, <3>1 DEF SoFar
      <4>2. ASSUME NEW request, request = chart.request, NEW series, series = chart.series, NEW old, old = Old
            PROVE  Covers(request, series, old)'
        <5>1. AxesKept(request) /\ old \subseteq Ids /\ Covers(request, series, old)
          BY <4>1, <4>2, <2>1, <2>2
        <5> QED BY <5>1, CoversStays
      <4>3. Covers(chart.request, chart.series, Old)'
        BY <4>2, <2>1, <1>1
      <4> QED BY <4>1, <4>3, <2>6, <1>1 DEF SoFar
    <3>2. CASE chart.is # "ok"
      BY <3>2, <2>6, <1>1 DEF SoFar
    <3> QED BY <3>1, <3>2
  <2>7. CASE chart.at = "summary"
    <3>1. CASE chart.is = "ok"
      <4>1. \A key \in DOMAIN chart.series : Summed(key, chart.series[key])
        BY <2>3, <2>7, <3>1 DEF SoFar
      <4>2. ASSUME NEW key \in DOMAIN chart.series, NEW row, row = chart.series[key] PROVE Summed(key, row)'
        BY <4>1, <4>2, <2>1, <2>2, SummedStays
      <4>3. \A key \in DOMAIN chart.series : Summed(key, chart.series[key])'
        BY <4>2, <1>1
      <4> QED BY <4>3, <2>7, <1>1 DEF SoFar
    <3>2. CASE chart.is # "ok"
      BY <3>2, <2>7, <1>1 DEF SoFar
    <3> QED BY <3>1, <3>2
  <2> QED BY <2>4, <2>5, <2>6, <2>7, <1>4 DEF ChartFits, Asked
<1>5. ChartFits'
  BY <1>1, <1>3, <1>4 DEF ChartFits
<1> QED BY <1>1, <1>2, <1>5

(* What a step that leaves the store alone leaves as it was.               *)
StillScanned(request) ==
  /\ Scanned(request)' = Scanned(request) /\ Ids' = Ids
  /\ \A i : AxisAt(i, request.axis)' = AxisAt(i, request.axis)
  /\ \A i, j : Before(request.axis, i, j)' <=> Before(request.axis, i, j)

LEMMA StillScannedIs ==
  ASSUME rows' = rows, NEW request
  PROVE  StillScanned(request)
<1>1. Ids' = Ids
  BY DEF Ids
<1>2. ASSUME NEW run PROVE Baseline(run)' = Baseline(run)
  BY <1>1 DEF Baseline
<1>3. ASSUME NEW i PROVE AxisOf(i, request.axis)' = AxisOf(i, request.axis)
  BY <1>2 DEF AxisOf
<1>4. ASSUME NEW i PROVE AxisAt(i, request.axis)' = AxisAt(i, request.axis)
  BY <1>3 DEF AxisAt
<1>5. Scanned(request)' = Scanned(request)
  BY <1>1, <1>3 DEF Scanned
<1>6. ASSUME NEW i, NEW j PROVE Before(request.axis, i, j)' <=> Before(request.axis, i, j)
  BY <1>4 DEF Before
<1> QED BY <1>1, <1>4, <1>5, <1>6 DEF StillScanned

LEMMA StillCovers ==
  ASSUME rows' = rows, fields' = fields, NEW request, NEW series, NEW old, Covers(request, series, old)
  PROVE  Covers(request, series, old)'
<1>1. StillScanned(request)
  BY StillScannedIs
<1>2. Scanned(request)' = Scanned(request)
  BY <1>1 DEF StillScanned
<1>3. Earlier(request.axis)' = Earlier(request.axis)
  BY <1>1 DEF StillScanned, Earlier
<1>4. ASSUME NEW path PROVE Nulls(path)' = Nulls(path) /\ Numbers(path)' = Numbers(path)
  BY <1>1 DEF StillScanned, Nulls, Numbers
<1>5. ASSUME NEW key PROVE Group(Scanned(request), key)' = Group(Scanned(request), key)
  BY <1>2 DEF Group
<1>6. ASSUME NEW key, NEW path PROVE FirstIndexed(key, path)' = FirstIndexed(key, path)
  BY DEF FirstIndexed, KnownTo
<1>7. ASSUME NEW key, NEW s, SeriesOver(request, key, s, old) PROVE SeriesOver(request, key, s, old)'
  BY <1>3, <1>4, <1>5, <1>6, <1>7 DEF SeriesOver
<1>8. ASSUME NEW i \in Scanned(request)' \cap old, NEW p \in request.paths, i \in Numbers(p)'
      PROVE  (<<OwnerOf(i), p>>)' \in DOMAIN series
  <2>1. i \in Scanned(request) \cap old /\ i \in Numbers(p) /\ OwnerOf(i)' = OwnerOf(i)
    BY <1>2, <1>4, <1>8 DEF OwnerOf
  <2> QED BY <2>1 DEF Covers
<1> QED BY <1>7, <1>8 DEF Covers

LEMMA StillRows ==
  ASSUME rows' = rows, fields' = fields, RowsFit, IndexFits
  PROVE  RowsFit' /\ IndexFits'
<1>1. RowsFit'
  BY DEF RowsFit, Ids
<1>2. IndexFits'
  <2>1. Ids' = Ids
    BY DEF Ids
  <2>2. ASSUME NEW run, NEW source PROVE KnownTo(run, source)' = KnownTo(run, source)
    BY DEF KnownTo
  <2>3. ASSUME NEW i, NEW p PROVE Excludes(i, p)' <=> Excludes(i, p)
    BY DEF Excludes
  <2> QED BY <2>1, <2>2, <2>3 DEF IndexFits
<1> QED BY <1>1, <1>2

PageCovers(request, series) ==
  /\ Covers(request, series, Ids)
  /\ \A key \in DOMAIN series : Len(series[key]) <= request.max

LEMMA PageCoversAll ==
  ASSUME RowsFit, NEW request, NEW series, PageFits(request, series)
  PROVE  PageCovers(request, series)
<1>1. Scanned(request) \subseteq Ids
  BY DEF Scanned
<1>2. ASSUME NEW key \in DOMAIN series
      PROVE  SeriesOver(request, key, series[key], Ids) /\ Len(series[key]) <= request.max
  <2> DEFINE g == Group(Scanned(request), key[1])
             s == series[key]
  <2>1. /\ key = <<key[1], key[2]>> /\ key[2] \in request.paths /\ FirstIndexed(key[1], key[2]) # {}
        /\ Line(Earlier(request.axis), Nulls(key[2]), Numbers(key[2]), s, g, g)
        /\ Len(s) <= request.max
    BY DEF PageFits, SeriesFits
  <2>2. g \cap Ids = g
    BY <1>1 DEF Group
  <2> QED BY <2>1, <2>2 DEF SeriesOver
<1>3. \A i \in Scanned(request), p \in request.paths : i \in Numbers(p) => <<OwnerOf(i), p>> \in DOMAIN series
  BY DEF PageFits
<1> QED BY <1>2, <1>3 DEF PageCovers, Covers

LEMMA PageAnswers ==
  ASSUME RowsFit, NEW request \in ChartRequests
  PROVE  /\ QueryPage(request).is \in {"ok", "invalid", "scan"}
         /\ QueryPage(request).is = "scan" =>
              ValidChart(request) /\ QueryPage(request).series = <<>> /\ Scanned(request) # {}
<1> DEFINE invalid == ~ValidChart(request) \/ \E p \in request.paths : ~KnownField(request, p)
           page == QueryPage(request)
<1>1. invalid => page = Failed("invalid")
  BY DEF QueryPage
<1>2. ~invalid /\ OverBudget(request) => page = Failed("scan")
  BY DEF QueryPage
<1>3. ~invalid /\ ~OverBudget(request) => page.is \in {"ok", "invalid"}
  BY DEF QueryPage, Failed
<1>4. Failed("scan").is = "scan" /\ Failed("scan").series = <<>> /\ Failed("invalid").is = "invalid"
  BY DEF Failed
<1>5. OverBudget(request) => Scanned(request) # {}
  <2>1. Cardinality(request.paths) \in Nat
    <3>1. IsFiniteSet(request.paths)
      BY ChartsAssumption
    <3> QED BY <3>1, FS_CardinalityType
  <2>2. MaxScanRows \in Nat /\ MaxOutputPoints * 10 \in Nat
    BY ChartsAssumption
  <2>3. ASSUME Scanned(request) = {} PROVE ~OverBudget(request)
    <3>1. Cardinality(Scanned(request)) = 0
      BY <2>3, FS_EmptySet
    <3>2. 0 * Cardinality(request.paths) = 0
      BY <2>1
    <3> QED BY <3>1, <3>2, <2>2 DEF OverBudget
  <2> QED BY <2>3
<1> HIDE DEF page
<1>6. ValidChart(request) \/ invalid
  OBVIOUS
<1> HIDE DEF invalid
<1>7. /\ page.is \in {"ok", "invalid", "scan"}
      /\ page.is = "scan" => ValidChart(request) /\ page.series = <<>> /\ Scanned(request) # {}
  BY <1>1, <1>2, <1>3, <1>4, <1>5, <1>6
<1> QED BY <1>7 DEF page

LEMMA AskKeeps ==
  ASSUME RowsFit, IndexFits, NEW request \in ChartRequests, Ask(request)
  PROVE  ChartFits'
<1> DEFINE page == QueryPage(request)
           at == IF page.is = "scan" THEN "bounds" ELSE "done"
<1>1. rows' = rows /\ fields' = fields
  BY DEF Ask
<1>2. chart' = [at |-> at, request |-> request, since |-> Len(rows), is |-> page.is, series |-> page.series,
                windows |-> <<>>, reads |-> 0, span |-> 0]
  BY DEF Ask
<1>3. /\ page.is \in {"ok", "invalid", "scan"}
      /\ page.is = "scan" => ValidChart(request) /\ page.series = <<>> /\ Scanned(request) # {}
  BY PageAnswers
<1>4. page.is = "ok" => PageCovers(request, page.series)
  <2>1. request.paths \subseteq Paths /\ request.max \in Nat
    BY ChartsAssumption
  <2>2. page.is = "ok" => PageFits(request, page.series)
    BY <2>1, PageIsTrue
  <2> HIDE DEF page
  <2> QED BY <2>2, PageCoversAll
<1>5. Len(rows) \in Nat
  BY DEF RowsFit
<1> HIDE DEF page
<1>6. /\ chart'.at = at /\ chart'.request = request /\ chart'.since = Len(rows) /\ chart'.is = page.is
      /\ chart'.series = page.series
      /\ DOMAIN chart' = {"at", "request", "since", "is", "series", "windows", "reads", "span"}
  BY <1>2
<1>7. Old' = Ids
  BY <1>6 DEF Old, Ids
<1>8. Asked'
  BY <1>1, <1>3, <1>5, <1>6 DEF Asked, Reading, ValidChart
<1>9. SoFar'
  <2>1. CASE page.is = "scan"
    <3>1. Scanned(request)' = Scanned(request)
      BY <1>1, StillScannedIs DEF StillScanned
    <3> QED BY <3>1, <2>1, <1>3, <1>6 DEF SoFar
  <2>2. CASE page.is = "ok"
    <3>1. ASSUME NEW series, series = page.series, NEW old, old = Ids PROVE Covers(request, series, old)'
      <4>1. Covers(request, series, old)
        BY <2>2, <3>1, <1>4 DEF PageCovers
      <4> QED BY <4>1, <1>1, StillCovers
    <3>2. \A key \in DOMAIN page.series : Len(page.series[key]) <= request.max
      BY <2>2, <1>4 DEF PageCovers
    <3>3. Covers(chart.request, chart.series, Old)'
      BY <3>1, <1>6, <1>7
    <3> QED BY <3>2, <3>3, <2>2, <1>6 DEF SoFar
  <2>3. CASE page.is = "invalid"
    BY <2>3, <1>6 DEF SoFar
  <2> QED BY <2>1, <2>2, <2>3, <1>3
<1> QED BY <1>8, <1>9 DEF ChartFits

LEMMA StillSteady ==
  ASSUME rows' = rows, chart'.request = chart.request, chart'.since = chart.since
  PROVE  Old' = Old /\ (Steady' <=> Steady)
<1>1. Old' = Old /\ Ids' = Ids
  BY DEF Old, Ids
<1>2. ASSUME NEW run PROVE SteadyRun(run)' <=> SteadyRun(run)
  <2>1. Charted(run)' = Charted(run)
    BY <1>1 DEF Charted
  <2>2. Baseline(run)' = Baseline(run)
    BY <1>1 DEF Baseline
  <2> QED BY <1>1, <2>1, <2>2 DEF SteadyRun
<1>3. Steady' <=> (chart.request.axis = "elapsed" => \A run \in chart.request.runs : SteadyRun(run))'
  BY DEF Steady, SteadyRun, Charted, Earliest
<1> QED BY <1>1, <1>2, <1>3, SteadyIs

LEMMA ExtremesAre ==
  ASSUME RowsFit, NEW request, Scanned(request) # {},
         NEW axes, axes = {AxisAt(i, request.axis) : i \in Scanned(request)}
  PROVE  /\ Min(axes) \in Int /\ Max(axes) \in Int /\ Min(axes) <= Max(axes)
         /\ \A i \in Scanned(request) : Min(axes) <= AxisAt(i, request.axis) /\ AxisAt(i, request.axis) <= Max(axes)
         /\ \A low \in request.from : request.from \subseteq Int => low <= Min(axes)
         /\ \A high \in request.to : request.to \subseteq Int => Max(axes) <= high
<1> DEFINE S == Scanned(request)
           f == [i \in S |-> AxisAt(i, request.axis)]
<1>1. /\ IsFiniteSet(S)
      /\ \A i \in S : AxisAt(i, request.axis) \in Int /\ InRange(AxisAt(i, request.axis), request.from, request.to)
  BY ScannedIs
<1> HIDE DEF S
<1>2. f \in Surjection(S, axes)
  BY DEF Surjection, S
<1>3. IsFiniteSet(axes)
  <2> HIDE DEF f
  <2> QED BY <1>1, <1>2, FS_Surjection
<1>4. axes # {} /\ axes \subseteq Int /\ (\A i \in S : AxisAt(i, request.axis) \in axes)
  BY <1>1 DEF S
<1>5. \A n \in axes : InRange(n, request.from, request.to)
  BY <1>1 DEF S
<1>6. Min(axes) \in axes /\ \A j \in axes : Min(axes) <= j
  BY <1>3, <1>4, MinIs
<1>7. Max(axes) \in axes /\ \A j \in axes : j <= Max(axes)
  BY <1>3, <1>4, MaxIs
<1>8. Min(axes) \in Int /\ Max(axes) \in Int
  BY <1>4, <1>6, <1>7
<1>9. \A low \in request.from : request.from \subseteq Int => low <= Min(axes)
  BY <1>5, <1>6, <1>8 DEF InRange
<1>10. \A high \in request.to : request.to \subseteq Int => Max(axes) <= high
  BY <1>5, <1>7, <1>8 DEF InRange
<1> QED BY <1>4, <1>6, <1>7, <1>8, <1>9, <1>10 DEF S

(* ReadTo, of values.                                                      *)
Reaches(request, windows, series, from, upto, old) ==
  /\ Tiles(windows, from, upto)
  /\ (\A low \in request.from : low <= from) /\ (\A high \in request.to : upto <= high)
  /\ old \subseteq Old
  /\ \A i \in Scanned(request) \cap Old :
       AxisAt(i, request.axis) <= upto /\ (i \in old <=> AxisAt(i, request.axis) < from)
  /\ Covers(request, series, old)
  /\ \A key \in DOMAIN series : \A k \in 1 .. Len(series[key]) : AxisAt(series[key][k], request.axis) < from

LEMMA ReadToIs ==
  ASSUME rows' = rows, fields' = fields, chart'.since = chart.since,
         NEW from, NEW upto, NEW old,
         Reaches(chart'.request, chart'.windows, chart'.series, from, upto, old)
  PROVE  ReadTo(from, upto, old)'
<1>0. PICK request, windows, series :
        request = chart'.request /\ windows = chart'.windows /\ series = chart'.series
  OBVIOUS
<1>7. Reaches(request, windows, series, from, upto, old)
  BY <1>0
<1>1. StillScanned(request)
  BY StillScannedIs
<1>2. Old' = Old
  BY DEF Old
<1>3. Covers(request, series, old)'
  BY <1>7, StillCovers DEF Reaches
<1>4. /\ Tiles(windows, from, upto)
      /\ (\A low \in request.from : low <= from) /\ (\A high \in request.to : upto <= high)
      /\ old \subseteq Old'
  BY <1>2, <1>7 DEF Reaches
<1>5. \A i \in Scanned(request)' \cap Old' :
        AxisAt(i, request.axis)' <= upto /\ (i \in old <=> AxisAt(i, request.axis)' < from)
  BY <1>1, <1>2, <1>7 DEF Reaches, StillScanned
<1>6. \A key \in DOMAIN series : \A k \in 1 .. Len(series[key]) : AxisAt(series[key][k], request.axis)' < from
  BY <1>1, <1>7 DEF Reaches, StillScanned
<1> QED BY <1>0, <1>3, <1>4, <1>5, <1>6 DEF ReadTo

LEMMA QueryBoundsKeeps ==
  ASSUME RowsFit, IndexFits, ChartFits, QueryBounds
  PROVE  ChartFits'
<1> DEFINE q == chart.request
           axes == {AxisAt(i, q.axis) : i \in Scanned(q)}
           count == Cardinality(Scanned(q))
           low == Min(axes)
           high == Max(axes)
           span == high - low + 1
           pages == AtMost(AtMost(AtLeast(Ceiling(count, PageRows(q)), 2), MaxWindows), span)
           windows == Partition(low, high, pages)
<1>1. /\ chart.at = "bounds" /\ rows' = rows /\ fields' = fields
      /\ chart' = [chart EXCEPT !.at = "window", !.windows = windows, !.span = span]
  BY DEF QueryBounds
<1>2. /\ q \in ChartRequests /\ chart.since \in 0 .. Len(rows) /\ ValidChart(q)
      /\ DOMAIN chart = {"at", "request", "since", "is", "series", "windows", "reads", "span"}
  BY <1>1 DEF ChartFits, Asked, Reading
<1> HIDE DEF windows, span
<1>3. /\ chart'.at = "window" /\ chart'.request = q /\ chart'.since = chart.since /\ chart'.series = chart.series
      /\ chart'.windows = windows /\ chart'.span = span
      /\ DOMAIN chart' = {"at", "request", "since", "is", "series", "windows", "reads", "span"}
  BY <1>1, <1>2
<1>4. Asked'
  <2>1. ValidChart(chart.request)'
    BY <1>2, <1>3 DEF ValidChart
  <2> HIDE DEF q
  <2> QED BY <2>1, <1>1, <1>2, <1>3 DEF Asked, Reading
<1>5. ASSUME Steady' PROVE SoFar'
  <2>1. Old' = Old /\ Steady
    BY <1>1, <1>3, <1>5, StillSteady
  <2>2. chart.series = <<>> /\ Scanned(q) # {}
    BY <1>1, <2>1 DEF ChartFits, SoFar
  <2> HIDE DEF q
  <2>3. /\ low \in Int /\ high \in Int /\ low <= high
        /\ \A i \in Scanned(q) : low <= AxisAt(i, q.axis) /\ AxisAt(i, q.axis) <= high
        /\ \A n \in q.from : q.from \subseteq Int => n <= low
        /\ \A n \in q.to : q.to \subseteq Int => high <= n
    <3> DEFINE all == axes
    <3>1. all = {AxisAt(i, q.axis) : i \in Scanned(q)}
      OBVIOUS
    <3> HIDE DEF all
    <3>2. /\ Min(all) \in Int /\ Max(all) \in Int /\ Min(all) <= Max(all)
          /\ \A i \in Scanned(q) : Min(all) <= AxisAt(i, q.axis) /\ AxisAt(i, q.axis) <= Max(all)
          /\ \A n \in q.from : q.from \subseteq Int => n <= Min(all)
          /\ \A n \in q.to : q.to \subseteq Int => Max(all) <= n
      BY <2>2, <3>1, ExtremesAre
    <3> QED BY <3>2 DEF all
  <2> HIDE DEF low, high
  <2>4. q.from \subseteq Int /\ q.to \subseteq Int
    BY <1>2, ChartsAssumption
  <2>5. span \in Nat \ {0}
    BY <2>3 DEF span
  <2>6. count \in Nat
    BY ScannedIs, FS_CardinalityType
  <2> HIDE DEF count
  <2>7. pages \in 1 .. span
    BY <1>2, <2>5, <2>6, PagesAre
  <2> HIDE DEF pages
  <2>8. Tiles(windows, low, high)
    BY <2>3, <2>7, PartitionIs DEF windows, span
  <2>9. Covers(q, <<>>, {})
    BY DEF Covers
  <2>10. \A i \in Scanned(q) \cap Old : AxisAt(i, q.axis) <= high /\ (i \in {} <=> AxisAt(i, q.axis) < low)
    <3>1. \A i \in Scanned(q) : AxisAt(i, q.axis) \in Int
      BY ScannedIs
    <3> QED BY <3>1, <2>3
  <2>11. Reaches(q, windows, <<>>, low, high, {})
    BY <2>3, <2>4, <2>8, <2>9, <2>10 DEF Reaches
  <2>12. \E from, upto, old : ReadTo(from, upto, old)'
    <3>1. PICK from, upto : Reaches(chart'.request, chart'.windows, chart'.series, from, upto, {})
      BY <2>2, <2>11, <1>3
    <3> QED BY <3>1, <1>1, <1>3, ReadToIs
  <2> QED BY <2>5, <2>12, <1>3 DEF SoFar
<1> QED BY <1>4, <1>5 DEF ChartFits

LEMMA EndedKeeps ==
  ASSUME rows' = rows, Asked, Reading, chart'.at = "done", chart'.request = chart.request, chart'.since = chart.since
  PROVE  Asked'
BY DEF Asked, Reading

LEMMA GivesKeeps ==
  ASSUME ChartFits, rows' = rows, Reading, NEW outcome, outcome # "ok", Gives(outcome)
  PROVE  ChartFits'
<1>1. DOMAIN chart = {"at", "request", "since", "is", "series", "windows", "reads", "span"}
  BY DEF ChartFits, Asked
<1>2. chart' = [chart EXCEPT !.at = "done", !.is = outcome]
  BY DEF Gives
<1>3. chart'.at = "done" /\ chart'.is = outcome /\ chart'.request = chart.request /\ chart'.since = chart.since
  BY <1>1, <1>2
<1>4. Asked'
  BY <1>3, EndedKeeps DEF ChartFits
<1>5. SoFar'
  BY <1>3 DEF SoFar
<1> QED BY <1>4, <1>5 DEF ChartFits

LEMMA CancelKeeps ==
  ASSUME ChartFits, Cancel
  PROVE  ChartFits'
<1>1. Reading /\ rows' = rows /\ Gives("cancelled")
  BY DEF Cancel, Reading
<1> QED BY <1>1, GivesKeeps

(* A sample of each series.                                                *)
LEMMA SampledCovers ==
  ASSUME RowsFit, IndexFits, NEW request, request.paths \subseteq Paths, request.max \in Nat \ {0},
         NEW series, NEW old, Covers(request, series, old),
         NEW final,
         final = [key \in DOMAIN series |-> Sampled(series[key], key[2], AtMost(request.max, Len(series[key])))]
  PROVE  Covers(request, final, old) /\ \A key \in DOMAIN final : Len(final[key]) <= request.max
<1>1. ASSUME NEW key \in DOMAIN series
      PROVE  SeriesOver(request, key, final[key], old) /\ Len(final[key]) <= request.max
  <2> DEFINE g == Group(Scanned(request), key[1])
             points == series[key]
             n == AtMost(request.max, Len(points))
             s == final[key]
             B == Earlier(request.axis)
             path == key[2]
             nulls == Nulls(path)
             numbers == Numbers(path)
             o == g \cap old
  <2>1. /\ key = <<key[1], path>> /\ path \in request.paths /\ FirstIndexed(key[1], path) # {}
        /\ Line(B, nulls, numbers, points, g, o)
    BY DEF Covers, SeriesOver
  <2>2. s = Sampled(points, path, n)
    OBVIOUS
  <2>3. g \subseteq Scanned(request) /\ g \subseteq Ids /\ o \subseteq g /\ \A i \in g : OwnerOf(i) = key[1]
    BY DEF Group, Scanned, OwnerOf
  <2> HIDE DEF g, points, s, B, nulls, numbers, o, path
  <2>4. points \in Seq(g) /\ Len(points) \in Nat /\ Len(points) >= 1
    BY <2>1 DEF Line
  <2>5. n \in 1 .. Len(points) /\ n <= request.max
    BY <2>4 DEF AtMost
  <2> HIDE DEF n
  <2>6. s \in Seq(g) /\ Len(s) = n
    BY <2>2, <2>4, <2>5, SampledIs
  <2>7. PICK p : Picks(p, s, points, path)
    BY <2>2, <2>4, <2>5, SampledIs
  <2>8. Orders(B, g)
    BY <2>3, EarlierOrders DEF B
  <2>9. \A i \in g : i \notin nulls => i \in numbers
    <3>1. path \in Paths
      BY <2>1
    <3> QED BY <3>1, <2>3, NullsAreTrue DEF nulls, numbers
  <2>10. \A i \in g : i \in nulls <=> rows[i].values[path] = Nothing
    BY <2>3 DEF nulls, Nulls
  <2>11. Line(B, nulls, numbers, s, g, o)
    BY <2>1, <2>3, <2>7, <2>8, <2>9, <2>10, SampleLine
  <2>12. SeriesOver(request, key, s, old)
    BY <2>1, <2>11 DEF SeriesOver, B, nulls, numbers, o, g, path
  <2> QED BY <2>5, <2>6, <2>12 DEF s
<1>2. DOMAIN final = DOMAIN series
  OBVIOUS
<1> QED BY <1>1, <1>2 DEF Covers

LEMMA MergeKeeps ==
  ASSUME RowsFit, IndexFits, ChartFits, Merge
  PROVE  ChartFits'
<1> DEFINE q == chart.request
           series == chart.series
           final == [key \in DOMAIN series |-> Sampled(series[key], key[2], AtMost(q.max, Len(series[key])))]
<1>1. chart.at = "window" /\ chart.windows = <<>> /\ rows' = rows /\ fields' = fields /\ Reading
  BY DEF Merge, Reading
<1>2. CASE Gives("invalid")
  BY <1>1, <1>2, GivesKeeps
<1>3. CASE chart' = [chart EXCEPT !.at = "done", !.is = "ok", !.series = final]
  <2>1. /\ q \in ChartRequests /\ chart.since \in 0 .. Len(rows) /\ ValidChart(q)
        /\ DOMAIN chart = {"at", "request", "since", "is", "series", "windows", "reads", "span"}
    BY <1>1 DEF ChartFits, Asked
  <2> HIDE DEF final
  <2>2. /\ chart'.at = "done" /\ chart'.is = "ok" /\ chart'.request = chart.request /\ chart'.since = chart.since
        /\ chart'.series = final
    BY <1>3, <2>1
  <2>3. Asked'
    BY <1>1, <2>2, EndedKeeps DEF ChartFits
  <2>4. ASSUME Steady' PROVE SoFar'
    <3>1. Old' = Old /\ Steady
      BY <1>1, <2>2, <2>4, StillSteady
    <3>2. PICK from, upto, old : ReadTo(from, upto, old)
      BY <1>1, <3>1 DEF ChartFits, SoFar
    <3>3. /\ from \in Int /\ upto \in Int /\ from = upto + 1 /\ Covers(q, series, old)
          /\ \A i \in Scanned(q) \cap Old : AxisAt(i, q.axis) <= upto /\ (i \in old <=> AxisAt(i, q.axis) < from)
          /\ old \subseteq Old
      BY <1>1, <3>2 DEF ReadTo, Tiles
    <3>4. Scanned(q) \cap old = Scanned(q) \cap Old
      <4>1. \A i \in Scanned(q) : AxisAt(i, q.axis) \in Int
        BY ScannedIs
      <4> QED BY <3>3, <4>1
    <3>5. Covers(q, series, Old)
      <4>1. ASSUME NEW key PROVE Group(Scanned(q), key) \cap old = Group(Scanned(q), key) \cap Old
        BY <3>4 DEF Group
      <4> HIDE DEF q, series
      <4> QED BY <3>3, <3>4, <4>1 DEF Covers, SeriesOver
    <3>6. q.paths \subseteq Paths /\ q.max \in Nat \ {0}
      BY <2>1, ChartsAssumption DEF ValidChart
    <3>7. Covers(q, final, Old) /\ \A key \in DOMAIN final : Len(final[key]) <= q.max
      <4>1. final = [key \in DOMAIN series |-> Sampled(series[key], key[2], AtMost(q.max, Len(series[key])))]
        BY DEF final
      <4> HIDE DEF q, series
      <4> QED BY <3>5, <3>6, <4>1, SampledCovers
    <3>8. Covers(chart.request, chart.series, Old)'
      <4>1. PICK request, t, since : request = q /\ t = final /\ since = Old
        OBVIOUS
      <4>2. Covers(request, t, since)
        BY <3>7, <4>1
      <4>3. Covers(request, t, since)'
        BY <1>1, <4>2, StillCovers
      <4> QED BY <4>1, <4>3, <2>2, <3>1
    <3> QED BY <3>7, <3>8, <2>2 DEF SoFar
  <2> QED BY <2>3, <2>4 DEF ChartFits
<1>4. Gives("invalid") \/ chart' = [chart EXCEPT !.at = "done", !.is = "ok", !.series = final]
  BY DEF Merge
<1> QED BY <1>2, <1>3, <1>4

(* A window's request: the chart's, between two places of the axis.        *)
Narrows(narrow, request, from, upto) ==
  /\ narrow.runs = request.runs /\ narrow.sources = request.sources
  /\ narrow.paths = request.paths /\ narrow.axis = request.axis
  /\ narrow.from = {from} /\ narrow.to = {upto} /\ narrow.max \in Nat /\ narrow.max > 1

LEMMA NarrowScans ==
  ASSUME RowsFit, NEW request, NEW from \in Int, NEW upto \in Int, NEW narrow, Narrows(narrow, request, from, upto),
         \A low \in request.from : low <= from, \A high \in request.to : upto <= high,
         request.from \subseteq Int, request.to \subseteq Int
  PROVE  /\ \A i \in Scanned(narrow) : i \in Scanned(request)
         /\ \A i \in Scanned(request) : i \in Scanned(narrow) <=>
              from <= AxisAt(i, request.axis) /\ AxisAt(i, request.axis) <= upto
<1>1. narrow.axis = request.axis /\ \A n : InRange(n, narrow.from, narrow.to) <=> n >= from /\ n <= upto
  BY DEF Narrows, InRange
<1>2. \A run, source : InScope(narrow, run, source) <=> InScope(request, run, source)
  BY DEF Narrows, InScope
<1>3. ASSUME NEW i \in Ids
      PROVE  /\ i \in Scanned(narrow) <=>
                  /\ rows[i].charted /\ InScope(narrow, rows[i].run, rows[i].source)
                  /\ AxisOf(i, narrow.axis) # {}
                  /\ InRange(AxisAt(i, narrow.axis), narrow.from, narrow.to)
             /\ i \in Scanned(request) <=>
                  /\ rows[i].charted /\ InScope(request, rows[i].run, rows[i].source)
                  /\ AxisOf(i, request.axis) # {}
                  /\ InRange(AxisAt(i, request.axis), request.from, request.to)
  BY ScannedIs
<1>4. \A i \in Scanned(narrow) : AxisAt(i, narrow.axis) \in Int
  BY ScannedIs
<1>5. \A i \in Scanned(request) : AxisAt(i, request.axis) \in Int
  BY ScannedIs
<1>6. Scanned(narrow) \subseteq Ids /\ Scanned(request) \subseteq Ids
  BY DEF Scanned
<1>7. ASSUME NEW i \in Scanned(narrow) PROVE i \in Scanned(request)
  <2>1. AxisAt(i, request.axis) >= from /\ AxisAt(i, request.axis) <= upto /\ AxisAt(i, request.axis) \in Int
    BY <1>1, <1>3, <1>4, <1>6
  <2>2. InRange(AxisAt(i, request.axis), request.from, request.to)
    BY <2>1 DEF InRange
  <2> QED BY <2>2, <1>1, <1>2, <1>3, <1>6
<1>8. ASSUME NEW i \in Scanned(request)
      PROVE  i \in Scanned(narrow) <=> from <= AxisAt(i, request.axis) /\ AxisAt(i, request.axis) <= upto
  BY <1>1, <1>2, <1>3, <1>5, <1>6
<1> QED BY <1>7, <1>8

(* The two lines of one series, before and in a window.                    *)
LEMMA MergedSeries ==
  ASSUME RowsFit, IndexFits, NEW request, NEW narrow, NEW from \in Int, NEW upto \in Int, from <= upto,
         Narrows(narrow, request, from, upto),
         \A low \in request.from : low <= from, \A high \in request.to : upto <= high,
         request.from \subseteq Int, request.to \subseteq Int,
         NEW series, NEW part, NEW old, NEW next, next \subseteq Ids,
         \A i \in Scanned(request) : /\ i \in old => AxisAt(i, request.axis) < from
                                     /\ i \in next => i \in old \/ i \in Scanned(narrow),
         Covers(request, series, old), PageFits(narrow, part),
         \A key \in DOMAIN series : \A k \in 1 .. Len(series[key]) : AxisAt(series[key][k], request.axis) < from,
         NEW key \in DOMAIN series \cup DOMAIN part,
         NEW s, s = Merged(series, part)[key]
  PROVE  /\ SeriesOver(request, key, s, next)
         /\ \A k \in 1 .. Len(s) : AxisAt(s[k], request.axis) < upto + 1
<1> DEFINE g == Group(Scanned(request), key[1])
           w == Group(Scanned(narrow), key[1])
           before == g \cap old
           o == g \cap next
           B == Earlier(request.axis)
           nulls == Nulls(key[2])
           numbers == Numbers(key[2])
           a == IF key \in DOMAIN series THEN series[key] ELSE <<>>
           t == IF key \in DOMAIN part THEN part[key] ELSE <<>>
<1>1. s = a \o t
  BY DEF Merged
<1>2. /\ \A i \in Scanned(narrow) : i \in Scanned(request)
      /\ \A i \in Scanned(request) : i \in Scanned(narrow) <=>
           from <= AxisAt(i, request.axis) /\ AxisAt(i, request.axis) <= upto
  BY NarrowScans
<1>3. Scanned(request) \subseteq Ids /\ \A i \in Scanned(request) : AxisAt(i, request.axis) \in Int
  BY ScannedIs
<1>4. /\ g \subseteq Scanned(request) /\ w \subseteq g /\ before \subseteq g /\ o \subseteq before \cup w
      /\ \A i \in w : i \in Scanned(narrow) /\ OwnerOf(i) = key[1]
  <2>1. \A i \in w : i \in g /\ i \in Scanned(narrow) /\ OwnerOf(i) = key[1]
    BY <1>2 DEF Group, OwnerOf
  <2>2. \A i \in g : i \in Scanned(request) /\ (i \in Scanned(narrow) => i \in w)
    BY DEF Group
  <2> QED BY <2>1, <2>2
<1>5. \A i, j \in g : AxisAt(i, request.axis) < AxisAt(j, request.axis) => <<i, j>> \in B
  BY <1>3, <1>4 DEF Before, Earlier
<1>6. Orders(B, g)
  BY <1>4, EarlierOrders
<1>7. \A i \in before : AxisAt(i, request.axis) < from
  BY <1>4
<1>8. \A i \in w : from <= AxisAt(i, request.axis) /\ AxisAt(i, request.axis) <= upto
  BY <1>2, <1>4
<1>9. key \in DOMAIN series =>
        /\ key = <<key[1], key[2]>> /\ key[2] \in request.paths /\ FirstIndexed(key[1], key[2]) # {}
        /\ Line(B, nulls, numbers, a, g, before)
        /\ \A k \in 1 .. Len(a) : AxisAt(a[k], request.axis) < from
  BY DEF Covers, SeriesOver
<1>10. key \in DOMAIN part =>
        /\ key = <<key[1], key[2]>> /\ key[2] \in request.paths /\ FirstIndexed(key[1], key[2]) # {}
        /\ Line(B, nulls, numbers, t, w, w)
        /\ t[1] \in nulls \/ \A i \in w : <<i, t[1]>> \notin B
  BY DEF PageFits, SeriesFits, Narrows
<1>11. key \notin DOMAIN part /\ key = <<key[1], key[2]>> /\ key[2] \in request.paths /\ FirstIndexed(key[1], key[2]) # {}
         => w = {}
  BY <1>4 DEF PageFits, Narrows
<1> HIDE DEF g, w, before, o, B, nulls, numbers, a, t
<1>12. \A i \in before, j \in w : <<i, j>> \in B
  <2> SUFFICES ASSUME NEW i \in before, NEW j \in w PROVE <<i, j>> \in B
    OBVIOUS
  <2>1. i \in g /\ j \in g /\ AxisAt(i, request.axis) \in Int /\ AxisAt(j, request.axis) \in Int
    BY <1>3, <1>4
  <2> QED BY <2>1, <1>5, <1>7, <1>8
<1>13. CASE key \in DOMAIN series /\ key \in DOMAIN part
  <2>1. a \in Seq(g) /\ Len(a) \in Nat /\ \A k \in 1 .. Len(a) : a[k] \in g
    BY <1>9, <1>13 DEF Line
  <2>2. t \in Seq(w) /\ t \in Seq(g) /\ Len(t) \in Nat /\ \A k \in 1 .. Len(t) : t[k] \in w
    <3>1. t \in Seq(w)
      BY <1>10, <1>13 DEF Line
    <3> QED BY <3>1, <1>4, SeqMonotonic
  <2>3. \A k \in 1 .. Len(a), j \in w : <<a[k], j>> \in B
    <3> SUFFICES ASSUME NEW k \in 1 .. Len(a), NEW j \in w PROVE <<a[k], j>> \in B
      OBVIOUS
    <3>1. a[k] \in g /\ j \in g /\ AxisAt(a[k], request.axis) \in Int /\ AxisAt(j, request.axis) \in Int
      BY <2>1, <1>3, <1>4
    <3> QED BY <3>1, <1>5, <1>8, <1>9, <1>13
  <2>4. Line(B, nulls, numbers, a \o t, g, o)
    <3>1. Line(B, nulls, numbers, a, g, before) /\ Line(B, nulls, numbers, t, w, w)
      BY <1>9, <1>10, <1>13
    <3>2. t[1] \in nulls \/ \A i \in w : <<i, t[1]>> \notin B
      BY <1>10, <1>13
    <3> QED BY <3>1, <3>2, <2>3, <1>4, <1>6, <1>12, JoinLine
  <2>5. \A k \in 1 .. Len(s) : AxisAt(s[k], request.axis) < upto + 1
    <3>1. /\ Len(a \o t) = Len(a) + Len(t)
          /\ \A k \in 1 .. Len(a) + Len(t) : (a \o t)[k] = IF k <= Len(a) THEN a[k] ELSE t[k - Len(a)]
      BY <2>1, <2>2, ConcatProperties, Zenon
    <3> SUFFICES ASSUME NEW k \in 1 .. Len(a) + Len(t) PROVE AxisAt((a \o t)[k], request.axis) < upto + 1
      BY <3>1, <1>1
    <3>2. CASE k <= Len(a)
      <4>1. k \in 1 .. Len(a) /\ (a \o t)[k] = a[k]
        BY <3>1, <3>2, <2>1, <2>2
      <4>2. AxisAt(a[k], request.axis) < from /\ AxisAt(a[k], request.axis) \in Int
        BY <4>1, <2>1, <1>3, <1>4, <1>9, <1>13
      <4> QED BY <4>1, <4>2
    <3>3. CASE ~(k <= Len(a))
      <4>1. k - Len(a) \in 1 .. Len(t) /\ (a \o t)[k] = t[k - Len(a)]
        BY <3>1, <3>3, <2>1, <2>2
      <4>2. t[k - Len(a)] \in w
        BY <4>1, <2>2
      <4>3. AxisAt(t[k - Len(a)], request.axis) <= upto /\ AxisAt(t[k - Len(a)], request.axis) \in Int
        BY <4>2, <1>3, <1>4, <1>8
      <4> QED BY <4>1, <4>3
    <3> QED BY <3>2, <3>3
  <2> QED BY <2>4, <2>5, <1>1, <1>9, <1>13 DEF SeriesOver, B, nulls, numbers, g, o
<1>14. CASE key \in DOMAIN series /\ key \notin DOMAIN part
  <2>1. a \in Seq(g) /\ t = <<>> /\ w = {}
    BY <1>9, <1>11, <1>14 DEF Line, t
  <2>2. s = a
    BY <2>1, <1>1, ConcatEmptySeq
  <2>3. o \subseteq before /\ g \subseteq g
    BY <2>1, <1>4
  <2>4. Line(B, nulls, numbers, a, g, o)
    <3>1. Line(B, nulls, numbers, a, g, before) /\ before \subseteq g
      BY <1>4, <1>9, <1>14
    <3> QED BY <3>1, <2>3, LineKept
  <2>5. \A k \in 1 .. Len(a) : AxisAt(a[k], request.axis) < upto + 1
    <3> SUFFICES ASSUME NEW k \in 1 .. Len(a) PROVE AxisAt(a[k], request.axis) < upto + 1
      OBVIOUS
    <3>1. a[k] \in g
      BY <2>1
    <3>2. AxisAt(a[k], request.axis) < from /\ AxisAt(a[k], request.axis) \in Int
      BY <3>1, <1>3, <1>4, <1>9, <1>14
    <3> QED BY <3>2
  <2> QED BY <2>2, <2>4, <2>5, <1>9, <1>14 DEF SeriesOver, B, nulls, numbers, g, o
<1>15. CASE key \notin DOMAIN series /\ key \in DOMAIN part
  <2>1. t \in Seq(w) /\ a = <<>> /\ \A k \in 1 .. Len(t) : t[k] \in w
    BY <1>10, <1>15 DEF Line, a
  <2>2. s = t
    BY <2>1, <1>1, ConcatEmptySeq
  <2>3. Line(B, nulls, numbers, t, g, o)
    <3>1. Line(B, nulls, numbers, t, w, w)
      BY <1>10, <1>15
    <3> QED BY <3>1, <1>4, <1>6, <1>12, StartLine
  <2>4. \A k \in 1 .. Len(t) : AxisAt(t[k], request.axis) < upto + 1
    <3> SUFFICES ASSUME NEW k \in 1 .. Len(t) PROVE AxisAt(t[k], request.axis) < upto + 1
      OBVIOUS
    <3>1. t[k] \in w
      BY <2>1
    <3>2. AxisAt(t[k], request.axis) <= upto /\ AxisAt(t[k], request.axis) \in Int
      BY <3>1, <1>3, <1>4, <1>8
    <3> QED BY <3>2
  <2> QED BY <2>2, <2>3, <2>4, <1>10, <1>15 DEF SeriesOver, B, nulls, numbers, g, o
<1> QED BY <1>13, <1>14, <1>15

LEMMA MergedReaches ==
  ASSUME RowsFit, IndexFits, NEW request, request.from \subseteq Int, request.to \subseteq Int,
         NEW windows, windows # <<>>, NEW series, NEW from, NEW upto, NEW old,
         Reaches(request, windows, series, from, upto, old), Old \subseteq Ids,
         NEW narrow, Narrows(narrow, request, from, Head(windows)[2]),
         NEW part, PageFits(narrow, part)
  PROVE  \E next : Reaches(request, Tail(windows), Merged(series, part), Head(windows)[2] + 1, upto, next)
<1> DEFINE end == Head(windows)[2]
           next == {i \in Old : i \in Scanned(request) /\ AxisAt(i, request.axis) <= end}
           merged == Merged(series, part)
<1>1. /\ Tiles(windows, from, upto)
      /\ (\A low \in request.from : low <= from) /\ (\A high \in request.to : upto <= high)
      /\ old \subseteq Old
      /\ \A i \in Scanned(request) \cap Old :
           AxisAt(i, request.axis) <= upto /\ (i \in old <=> AxisAt(i, request.axis) < from)
      /\ Covers(request, series, old)
      /\ \A key \in DOMAIN series : \A k \in 1 .. Len(series[key]) : AxisAt(series[key][k], request.axis) < from
  BY DEF Reaches
<1>2. /\ end \in Int /\ from \in Int /\ upto \in Int /\ from <= end /\ end <= upto
      /\ Tiles(Tail(windows), end + 1, upto)
  BY <1>1, TilesStart
<1> HIDE DEF end
<1>3. Narrows(narrow, request, from, end)
  BY DEF end
<1>4. \A high \in request.to : end <= high
  BY <1>1, <1>2
<1>5. /\ \A i \in Scanned(narrow) : i \in Scanned(request)
      /\ \A i \in Scanned(request) : i \in Scanned(narrow) <=>
           from <= AxisAt(i, request.axis) /\ AxisAt(i, request.axis) <= end
  BY <1>1, <1>2, <1>3, <1>4, NarrowScans
<1>6. \A i \in Scanned(request) : AxisAt(i, request.axis) \in Int
  BY ScannedIs
<1>7. \A i \in Scanned(request) : /\ i \in old => AxisAt(i, request.axis) < from
                                  /\ i \in next => i \in old \/ i \in Scanned(narrow)
  BY <1>1, <1>2, <1>5, <1>6
<1>8. next \subseteq Ids /\ next \subseteq Old
  OBVIOUS
<1>9. \A i \in Scanned(request) \cap Old :
        AxisAt(i, request.axis) <= upto /\ (i \in next <=> AxisAt(i, request.axis) < end + 1)
  BY <1>1, <1>2, <1>6
<1> HIDE DEF next
<1>10. DOMAIN merged = DOMAIN series \cup DOMAIN part
  BY DEF Merged
<1>11. ASSUME NEW key \in DOMAIN merged
       PROVE  /\ SeriesOver(request, key, merged[key], next)
              /\ \A k \in 1 .. Len(merged[key]) : AxisAt(merged[key][k], request.axis) < end + 1
  BY <1>1, <1>2, <1>3, <1>4, <1>7, <1>8, <1>10, MergedSeries
<1>12. ASSUME NEW i \in Scanned(request) \cap next, NEW p \in request.paths, i \in Numbers(p)
       PROVE  <<OwnerOf(i), p>> \in DOMAIN merged
  <2>1. CASE i \in old
    BY <2>1, <1>1, <1>10, <1>12 DEF Covers
  <2>2. CASE i \in Scanned(narrow)
    <3>1. p \in narrow.paths
      BY <1>3 DEF Narrows
    <3> QED BY <2>2, <3>1, <1>10, <1>12 DEF PageFits
  <2> QED BY <2>1, <2>2, <1>7
<1> HIDE DEF merged
<1>13. Covers(request, merged, next)
  BY <1>11, <1>12 DEF Covers
<1>14. Reaches(request, Tail(windows), merged, end + 1, upto, next)
  BY <1>1, <1>2, <1>8, <1>9, <1>11, <1>13 DEF Reaches
<1> QED BY <1>14 DEF merged, end

LEMMA ReadWindowKeeps ==
  ASSUME RowsFit, IndexFits, ChartFits, ReadWindow
  PROVE  ChartFits'
<1> DEFINE q == chart.request
           window == Head(chart.windows)
           middle == window[1] + (window[2] - window[1]) \div 2
           narrow == WindowRequest(window)
           page == QueryPage(narrow)
           merged == Merged(chart.series, page.series)
           Split == /\ window[1] < window[2]
                    /\ chart' = [chart EXCEPT !.reads = @ + 1,
                         !.windows = <<<<window[1], middle>>, <<middle + 1, window[2]>>>> \o Tail(@)]
           Reads == /\ page.is = "ok"
                    /\ chart' = [chart EXCEPT !.reads = @ + 1, !.windows = Tail(@), !.series = merged]
<1>1. chart.at = "window" /\ chart.windows # <<>> /\ rows' = rows /\ fields' = fields /\ Reading
  BY DEF ReadWindow, Reading
<1>2. (\E outcome : outcome # "ok" /\ Gives(outcome)) \/ Split \/ Reads
  BY DEF ReadWindow
<1>3. /\ q \in ChartRequests /\ chart.since \in 0 .. Len(rows) /\ ValidChart(q)
      /\ DOMAIN chart = {"at", "request", "since", "is", "series", "windows", "reads", "span"}
  BY <1>1 DEF ChartFits, Asked
<1>4. Old \subseteq Ids
  <2>1. Len(rows) \in Nat
    BY DEF RowsFit
  <2> QED BY <2>1, <1>3 DEF Old, Ids
<1>5. /\ q.paths \subseteq Paths /\ q.from \subseteq Int /\ q.to \subseteq Int /\ q.max \in Nat
      /\ {"runs", "sources", "paths", "axis", "from", "to", "max"} \subseteq DOMAIN q
  BY <1>3, ChartsAssumption
<1> HIDE DEF page, merged, narrow, middle, window
<1>6. ASSUME Split \/ Reads
      PROVE  /\ chart'.at = "window" /\ chart'.request = q /\ chart'.since = chart.since /\ chart'.span = chart.span
             /\ Asked'
             /\ Steady' => Steady
  <2>1. /\ chart'.at = "window" /\ chart'.request = q /\ chart'.since = chart.since /\ chart'.span = chart.span
        /\ DOMAIN chart' = {"at", "request", "since", "is", "series", "windows", "reads", "span"}
    <3>1. CASE Split
      BY <3>1, <1>1, <1>3
    <3>2. CASE Reads
      BY <3>2, <1>1, <1>3
    <3> QED BY <3>1, <3>2, <1>6
  <2>2. Asked'
    <3>1. ValidChart(chart.request)'
      BY <2>1, <1>3 DEF ValidChart
    <3> HIDE DEF q, Split, Reads
    <3> QED BY <3>1, <2>1, <1>1, <1>3 DEF Asked, Reading
  <2>3. Steady' => Steady
    BY <2>1, <1>1, StillSteady
  <2> QED BY <2>1, <2>2, <2>3
<1>7. ASSUME Steady
      PROVE  /\ chart.span \in Nat \ {0}
             /\ \E from, upto, old : Reaches(q, chart.windows, chart.series, from, upto, old)
  <2>1. chart.span \in Nat \ {0} /\ \E from, upto, old : ReadTo(from, upto, old)
    BY <1>1, <1>7 DEF ChartFits, SoFar
  <2> QED BY <2>1 DEF ReadTo, Reaches
<1>8. ASSUME Split \/ Reads, Steady,
             \E from, upto, old : Reaches(chart'.request, chart'.windows, chart'.series, from, upto, old)
      PROVE  ChartFits'
  <2>1. PICK from, upto, old : Reaches(chart'.request, chart'.windows, chart'.series, from, upto, old)
    BY <1>8
  <2>2. ReadTo(from, upto, old)'
    BY <2>1, <1>1, <1>6, <1>8, ReadToIs
  <2>3. chart'.at = "window" /\ chart'.span \in Nat \ {0} /\ Asked'
    BY <1>6, <1>7, <1>8
  <2> HIDE DEF q, Split, Reads
  <2> QED BY <2>2, <2>3 DEF ChartFits, SoFar
<1>9. ASSUME Split \/ Reads, ~Steady PROVE ChartFits'
  BY <1>6, <1>9 DEF ChartFits
<1>10. ASSUME Split, Steady PROVE ChartFits'
  <2>1. PICK from, upto, old : Reaches(q, chart.windows, chart.series, from, upto, old)
    BY <1>7, <1>10
  <2> DEFINE w == <<<<window[1], middle>>, <<middle + 1, window[2]>>>> \o Tail(chart.windows)
  <2>2. chart'.request = q /\ chart'.windows = w /\ chart'.series = chart.series
    BY <1>3, <1>6, <1>10
  <2>3. Tiles(chart.windows, from, upto)
    BY <2>1 DEF Reaches
  <2>4. window[1] \in Int /\ window[2] \in Int
    BY <2>3, <1>1, TilesStart DEF window
  <2>5. middle \in Int /\ window[1] <= middle /\ middle < window[2]
    <3>1. window[1] < window[2]
      BY <1>10
    <3> QED BY <3>1, <2>4 DEF middle
  <2>6. Tiles(w, from, upto)
    BY <2>3, <2>5, <1>1, TilesSplit DEF window
  <2> HIDE DEF w
  <2>7. Reaches(chart'.request, chart'.windows, chart'.series, from, upto, old)
    <3> HIDE DEF q
    <3> QED BY <2>1, <2>2, <2>6 DEF Reaches
  <2> QED BY <2>7, <1>8, <1>10
<1>11. ASSUME Reads, Steady PROVE ChartFits'
  <2>1. PICK from, upto, old : Reaches(q, chart.windows, chart.series, from, upto, old)
    BY <1>7, <1>11
  <2>2. chart'.request = q /\ chart'.windows = Tail(chart.windows) /\ chart'.series = merged /\ page.is = "ok"
    BY <1>3, <1>6, <1>11
  <2>3. Tiles(chart.windows, from, upto)
    BY <2>1 DEF Reaches
  <2>4. window[1] = from /\ from \in Int /\ window[2] \in Int
    BY <2>3, <1>1, TilesStart DEF window
  <2>5. Narrows(narrow, q, from, window[2]) /\ narrow.paths \subseteq Paths
    <3> DEFINE max == AtLeast(Ceiling(q.max * (window[2] - window[1] + 1), chart.span), 2)
    <3>1. max \in Nat /\ max > 1
      <4>1. q.max * (window[2] - window[1] + 1) \in Int
        BY <2>4, <1>5
      <4>2. chart.span \in Nat \ {0}
        BY <1>7, <1>11
      <4>3. Ceiling(q.max * (window[2] - window[1] + 1), chart.span) \in Int
        BY <4>1, <4>2, CeilingIs
      <4> QED BY <4>3 DEF AtLeast
    <3>2. narrow = [q EXCEPT !.from = {window[1]}, !.to = {window[2]}, !.max = max]
      BY DEF narrow, WindowRequest
    <3> HIDE DEF max, q
    <3> QED BY <3>1, <3>2, <2>4, <1>5 DEF Narrows
  <2>6. PageFits(narrow, page.series)
    <3>1. narrow.max \in Nat
      BY <2>5 DEF Narrows
    <3>2. QueryPage(narrow).is = "ok"
      BY <2>2 DEF page
    <3> QED BY <3>1, <3>2, <2>5, PageIsTrue DEF page
  <2>7. \E next : Reaches(q, Tail(chart.windows), merged, window[2] + 1, upto, next)
    <3> DEFINE part == page.series
    <3>1. PageFits(narrow, part) /\ merged = Merged(chart.series, part)
      BY <2>6 DEF merged
    <3> HIDE DEF part, q
    <3> QED BY <3>1, <2>1, <2>5, <1>1, <1>4, <1>5, MergedReaches DEF window
  <2>8. \E f, u, o : Reaches(chart'.request, chart'.windows, chart'.series, f, u, o)
    BY <2>2, <2>7
  <2> QED BY <2>8, <1>8, <1>11
<1>12. ASSUME NEW outcome, outcome # "ok", Gives(outcome) PROVE ChartFits'
  BY <1>1, <1>12, GivesKeeps
<1> QED BY <1>2, <1>9, <1>10, <1>11, <1>12

LEMMA CoveredIsExact ==
  ASSUME RowsFit, IndexFits, NEW ids, ids \subseteq Ids, NEW source, \A i \in ids : OwnerOf(i) = source,
         NEW p \in Paths, ~Uncovered(ids, source, p)
  PROVE  Exact(ids, p)
<1>1. /\ \A i \in ids : i \notin Nulls(p) => i \in Numbers(p)
      /\ \A i \in ids : i \in Nulls(p) => i \notin Numbers(p)
  BY NullsAreTrue
<1>2. \A i \in ids : rows[i].values[p] # Nothing => rows[i].values[p] = rows[i].state[p]
  BY DEF IndexFits
<1> QED BY <1>1, <1>2 DEF Exact, Nulls, Numbers

LEMMA SummarizeKeeps ==
  ASSUME RowsFit, IndexFits, NEW request \in ChartRequests, Summarize(request)
  PROVE  ChartFits'
<1> DEFINE summary == TableSummary(request)
           S == Scanned(request)
           keys == {key \in GroupsOf(Ids) : InScope(request, key[1], key[2])}
           failing == \/ ~ValidChart(request) \/ OverBudget(request)
                      \/ \E p \in request.paths : ~KnownField(request, p)
                      \/ \E key \in keys, p \in request.paths : Uncovered(Group(S, key), key, p)
<1>1. /\ rows' = rows /\ fields' = fields
      /\ chart' = [at |-> "summary", request |-> request, since |-> Len(rows),
                   is |-> summary.is, series |-> summary.series]
  BY DEF Summarize
<1>2. failing => summary = Failed("invalid")
  BY DEF TableSummary
<1>3. ~failing => summary = [is |-> "ok",
                             series |-> [key \in keys \X request.paths |-> SummaryRow(Group(S, key[1]), key[2])]]
  BY DEF TableSummary
<1> HIDE DEF summary
<1>4. /\ chart'.at = "summary" /\ chart'.request = request /\ chart'.since = Len(rows)
      /\ chart'.is = summary.is /\ chart'.series = summary.series
  BY <1>1
<1>5. Len(rows) \in Nat
  BY DEF RowsFit
<1>6. Old' = Ids
  BY <1>4 DEF Old, Ids
<1>7. Asked'
  BY <1>1, <1>4, <1>5 DEF Asked, Reading
<1>8. ASSUME ~failing, NEW key \in DOMAIN summary.series, NEW shown, shown = summary.series[key]
      PROVE  Summed(key, shown)'
  <2> DEFINE ids == Group(S, key[1])
             row == summary.series[key]
             p == key[2]
  <2>1. key[1] \in keys /\ p \in request.paths /\ row = SummaryRow(ids, p)
    <3> HIDE DEF keys, failing
    <3>1. summary.series = [k \in keys \X request.paths |-> SummaryRow(Group(S, k[1]), k[2])]
      BY <1>3, <1>8
    <3> HIDE DEF S
    <3> QED BY <3>1, <1>8
  <2>2. p \in Paths
    BY <2>1, ChartsAssumption
  <2>3. S \subseteq Ids /\ IsFiniteSet(S)
    BY ScannedIs
  <2>4. ids \subseteq S /\ \A i \in ids : OwnerOf(i) = key[1]
    BY DEF Group, OwnerOf
  <2>5. ~Uncovered(ids, key[1], p)
    BY <1>8, <2>1
  <2> HIDE DEF ids, row, p, S, keys, failing
  <2>6. ids \subseteq Ids /\ IsFiniteSet(ids)
    BY <2>3, <2>4, FS_Subset
  <2>7. Exact(ids, p)
    BY <2>2, <2>4, <2>5, <2>6, CoveredIsExact
  <2>8. Tells(row, ids, StatesIn(ids, p), TimesIn(ids))
    <3> DEFINE val == StatesIn(ids, p)
               on == TimesIn(ids)
    <3>1. val = [i \in ids |-> rows[i].state[p]] /\ on = [i \in ids |-> rows[i].observed]
      BY DEF StatesIn, TimesIn
    <3> HIDE DEF val, on
    <3>2. Tells(row, ids, val, on)
      BY <3>1, <2>1, <2>2, <2>6, <2>7, SummaryRowIs
    <3> QED BY <3>2 DEF val, on
  <2>9. Group(Scanned(chart.request) \cap Old, key[1])' = ids
    <3>1. Scanned(request)' = S
      BY <1>1, StillScannedIs DEF StillScanned, S
    <3>2. (Scanned(chart.request) \cap Old)' = S
      BY <3>1, <2>3, <1>4, <1>6
    <3> QED BY <3>2, <1>1 DEF Group, ids
  <2>10. Tells(shown, ids, [i \in ids |-> rows'[i].state[key[2]]], [i \in ids |-> rows'[i].observed])
    BY <2>8, <1>1, <1>8 DEF StatesIn, TimesIn, row, p
  <2> QED BY <2>9, <2>10 DEF Summed, StatesIn, TimesIn
<1>9. SoFar'
  <2>1. ASSUME summary.is = "ok", NEW key \in DOMAIN summary.series PROVE Summed(key, chart.series[key])'
    <3>1. ~failing
      BY <1>2, <2>1 DEF Failed
    <3>2. PICK shown : shown = summary.series[key]
      OBVIOUS
    <3>3. Summed(key, shown)'
      BY <3>1, <3>2, <1>8
    <3> QED BY <3>2, <3>3, <1>4
  <2> QED BY <2>1, <1>4 DEF SoFar
<1> QED BY <1>7, <1>9 DEF ChartFits

LEMMA StillKeeps ==
  ASSUME ChartFits, rows' = rows, fields' = fields, chart' = chart
  PROVE  ChartFits'
<1>1. Asked'
  BY DEF ChartFits, Asked, Reading, ValidChart
<1>2. ASSUME chart.at # "idle", Steady' PROVE SoFar'
  <2>1. Steady /\ Old' = Old
    BY <1>2, StillSteady
  <2>2. SoFar
    BY <1>2, <2>1 DEF ChartFits
  <2>3. StillScanned(chart.request)
    BY StillScannedIs
  <2>4. Scanned(chart.request)' = Scanned(chart.request)
    BY <2>3 DEF StillScanned
  <2>5. ASSUME NEW from, NEW upto, NEW old, ReadTo(from, upto, old) PROVE ReadTo(from, upto, old)'
    <3>1. Reaches(chart'.request, chart'.windows, chart'.series, from, upto, old)
      BY <2>5 DEF ReadTo, Reaches
    <3> QED BY <3>1, ReadToIs
  <2>6. ASSUME Covers(chart.request, chart.series, Old) PROVE Covers(chart.request, chart.series, Old)'
    <3>1. PICK request, series, old : request = chart.request /\ series = chart.series /\ old = Old
      OBVIOUS
    <3>2. Covers(request, series, old)'
      BY <2>6, <3>1, StillCovers
    <3> QED BY <2>1, <3>1, <3>2
  <2>7. ASSUME NEW key, NEW row, Summed(key, row) PROVE Summed(key, row)'
    <3>1. Group(Scanned(chart.request) \cap Old, key[1])' = Group(Scanned(chart.request) \cap Old, key[1])
      BY <2>1, <2>4 DEF Group
    <3> QED BY <2>7, <3>1 DEF Summed, StatesIn, TimesIn
  <2> QED BY <2>2, <2>4, <2>5, <2>6, <2>7 DEF SoFar
<1> QED BY <1>1, <1>2 DEF ChartFits

ChartInv == RowsFit /\ IndexFits /\ ChartFits

LEMMA ChartStarts ==
  ASSUME ChartsInit
  PROVE  ChartInv
<1>1. rows = <<>> /\ fields = {} /\ chart.at = "idle"
  BY DEF ChartsInit, NoChart
<1>2. Ids = {}
  BY <1>1 DEF Ids
<1>3. RowsFit
  BY <1>1, <1>2 DEF RowsFit
<1>4. IndexFits
  BY <1>1, <1>2 DEF IndexFits
<1> QED BY <1>1, <1>3, <1>4 DEF ChartInv, ChartFits, Asked, Reading

LEMMA ChartSteps ==
  ASSUME ChartInv, [ChartsNext]_chartVars
  PROVE  ChartInv'
<1> USE DEF ChartInv
<1>1. CASE \E shot \in Shots, delay \in Int : Ingest(shot, delay)
  BY <1>1, IngestKeeps
<1>2. ASSUME rows' = rows, fields' = fields, ChartFits' PROVE ChartInv'
  BY <1>2, StillRows
<1>3. CASE \E request \in ChartRequests : Ask(request)
  <2>1. rows' = rows /\ fields' = fields
    BY <1>3 DEF Ask
  <2> QED BY <1>2, <1>3, <2>1, AskKeeps
<1>4. CASE \E request \in ChartRequests : Summarize(request)
  <2>1. rows' = rows /\ fields' = fields
    BY <1>4 DEF Summarize
  <2> QED BY <1>2, <1>4, <2>1, SummarizeKeeps
<1>5. CASE QueryBounds
  <2>1. rows' = rows /\ fields' = fields
    BY <1>5 DEF QueryBounds
  <2> QED BY <1>2, <1>5, <2>1, QueryBoundsKeeps
<1>6. CASE ReadWindow
  <2>1. rows' = rows /\ fields' = fields
    BY <1>6 DEF ReadWindow
  <2> QED BY <1>2, <1>6, <2>1, ReadWindowKeeps
<1>7. CASE Merge
  <2>1. rows' = rows /\ fields' = fields
    BY <1>7 DEF Merge
  <2> QED BY <1>2, <1>7, <2>1, MergeKeeps
<1>8. CASE Cancel
  <2>1. rows' = rows /\ fields' = fields
    BY <1>8 DEF Cancel
  <2> QED BY <1>2, <1>8, <2>1, CancelKeeps
<1>9. CASE \E listing \in Listings : FirstPage(listing)
  <2>1. rows' = rows /\ fields' = fields /\ chart' = chart
    BY <1>9 DEF FirstPage
  <2> QED BY <1>2, <2>1, StillKeeps
<1>10. CASE NextPage
  <2>1. rows' = rows /\ fields' = fields /\ chart' = chart
    BY <1>10 DEF NextPage
  <2> QED BY <1>2, <2>1, StillKeeps
<1>11. CASE UNCHANGED chartVars
  <2>1. rows' = rows /\ fields' = fields /\ chart' = chart
    BY <1>11 DEF chartVars
  <2> QED BY <1>2, <2>1, StillKeeps
<1> HIDE DEF ChartInv
<1> QED BY <1>1, <1>3, <1>4, <1>5, <1>6, <1>7, <1>8, <1>9, <1>10, <1>11 DEF ChartsNext

LEMMA ChartMeans ==
  ASSUME ChartInv
  PROVE  AnswersAreTrueToTheStates
<1> SUFFICES ASSUME chart.at \in {"done", "summary"}, chart.is = "ok", Steady
             PROVE  AnswersAreTrueToTheStates
  BY DEF AnswersAreTrueToTheStates
<1> DEFINE q == chart.request
<1>1. RowsFit /\ SoFar /\ q \in ChartRequests /\ chart.since \in 0 .. Len(rows) /\ Len(rows) \in Nat
  BY DEF ChartInv, ChartFits, Asked, RowsFit
<1>2. q.paths \subseteq Paths /\ q.max \in Nat
  BY <1>1, ChartsAssumption
<1>3. Old \subseteq Ids /\ Scanned(q) \subseteq Ids
  BY <1>1 DEF Old, Ids, Scanned
<1>4. \A i \in Ids, p \in Paths : rows[i].state[p] \in Int
  BY <1>1 DEF RowsFit, Nothing, List
<1>5. CASE chart.at = "done"
  <2>1. /\ Covers(q, chart.series, Old)
        /\ \A key \in DOMAIN chart.series : Len(chart.series[key]) <= q.max
    BY <1>1, <1>5 DEF SoFar
  <2>2. ASSUME NEW key \in DOMAIN chart.series PROVE TrueTo(key[1], key[2], chart.series[key])
    <3> DEFINE s == chart.series[key]
               g == Group(Scanned(q), key[1])
               p == key[2]
    <3>1. p \in q.paths /\ Line(Earlier(q.axis), Nulls(p), Numbers(p), s, g, g \cap Old) /\ Len(s) <= q.max
      BY <2>1 DEF Covers, SeriesOver
    <3>2. g \subseteq Ids /\ p \in Paths
      BY <1>2, <1>3, <3>1 DEF Group
    <3> HIDE DEF s, g, p, q
    <3>3. /\ s \in Seq(g) /\ Len(s) \in Nat /\ Len(s) >= 1
          /\ \A j, k \in 1 .. Len(s) : j < k => <<s[j], s[k]>> \in Earlier(q.axis)
          /\ \A i \in g \cap Old : <<s[Len(s)], i>> \notin Earlier(q.axis)
          /\ \A k \in 1 .. Len(s) - 1 :
               s[k] \in Nulls(p) \/ s[k + 1] \in Nulls(p)
                 \/ \A i \in g \cap Old : <<s[k], i>> \in Earlier(q.axis) /\ <<i, s[k + 1]>> \in Earlier(q.axis)
                                            => i \in Numbers(p)
          /\ \A k \in 1 .. Len(s) : s[k] \in Nulls(p) => s[k] \notin Numbers(p)
      <4> DEFINE B == Earlier(q.axis)
                 nulls == Nulls(p)
                 numbers == Numbers(p)
                 o == g \cap Old
      <4>1. Line(B, nulls, numbers, s, g, o)
        BY <3>1
      <4> HIDE DEF B, nulls, numbers, o
      <4>2. /\ s \in Seq(g) /\ Len(s) >= 1
            /\ \A j, k \in 1 .. Len(s) : j < k => <<s[j], s[k]>> \in B
            /\ \A i \in o : <<s[Len(s)], i>> \notin B
            /\ \A k \in 1 .. Len(s) - 1 :
                 s[k] \in nulls \/ s[k + 1] \in nulls
                   \/ \A i \in o : <<s[k], i>> \in B /\ <<i, s[k + 1]>> \in B => i \in numbers
            /\ \A k \in 1 .. Len(s) : s[k] \in nulls => s[k] \notin numbers
        BY <4>1 DEF Line
      <4>3. Len(s) \in Nat
        BY <4>2
      <4> QED BY <4>2, <4>3 DEF B, nulls, numbers, o
    <3>4. \A k \in 1 .. Len(s) : s[k] \in g
      BY <3>3
    <3>5. \A i, j \in Ids : <<i, j>> \in Earlier(q.axis) <=> Before(q.axis, i, j)
      BY DEF Earlier
    <3>6. \A i \in Ids : (i \in Nulls(p) <=> rows[i].values[p] = Nothing) /\ (i \in Numbers(p) <=> rows[i].state[p] >= 0)
      BY DEF Nulls, Numbers
    <3>7. \A k \in 1 .. Len(s) - 1 : k \in 1 .. Len(s) /\ k + 1 \in 1 .. Len(s) /\ k < k + 1
      BY <3>3
    <3>8. Len(s) \in 1 .. q.max /\ DOMAIN s = 1 .. Len(s)
      BY <1>2, <3>1, <3>3 DEF q
    <3>9. \A k \in 1 .. Len(s) - 1 : Before(q.axis, s[k], s[k + 1])
      BY <3>2, <3>3, <3>4, <3>5, <3>7
    <3>10. \A i \in g \cap Old : ~Before(q.axis, Last(s), i)
      <4>1. Last(s) = s[Len(s)] /\ Len(s) \in 1 .. Len(s)
        BY <3>3 DEF Last
      <4> QED BY <4>1, <3>2, <3>3, <3>4, <3>5
    <3>11. \A k \in 1 .. Len(s) - 1 :
             \/ rows[s[k]].values[p] = Nothing
             \/ rows[s[k + 1]].values[p] = Nothing
             \/ \A i \in g \cap Old : Before(q.axis, s[k], i) /\ Before(q.axis, i, s[k + 1]) => rows[i].state[p] >= 0
      <4> SUFFICES ASSUME NEW k \in 1 .. Len(s) - 1, rows[s[k]].values[p] # Nothing, rows[s[k + 1]].values[p] # Nothing,
                          NEW i \in g \cap Old, Before(q.axis, s[k], i), Before(q.axis, i, s[k + 1])
                   PROVE  rows[i].state[p] >= 0
        OBVIOUS
      <4>1. s[k] \in Ids /\ s[k + 1] \in Ids /\ i \in Ids
        BY <3>2, <3>4, <3>7
      <4>2. s[k] \notin Nulls(p) /\ s[k + 1] \notin Nulls(p)
        BY <4>1, <3>6
      <4>3. <<s[k], i>> \in Earlier(q.axis) /\ <<i, s[k + 1]>> \in Earlier(q.axis)
        BY <4>1, <3>5
      <4> QED BY <4>1, <4>2, <4>3, <3>3, <3>6
    <3>12. \A k \in 1 .. Len(s) : rows[s[k]].values[p] = Nothing => rows[s[k]].state[p] < 0
      <4> SUFFICES ASSUME NEW k \in 1 .. Len(s), rows[s[k]].values[p] = Nothing PROVE rows[s[k]].state[p] < 0
        OBVIOUS
      <4>1. s[k] \in Ids /\ rows[s[k]].state[p] \in Int
        BY <1>4, <3>2, <3>4
      <4>2. ~(rows[s[k]].state[p] >= 0)
        BY <4>1, <3>3, <3>6
      <4> QED BY <4>1, <4>2
    <3> QED BY <3>4, <3>8, <3>9, <3>10, <3>11, <3>12 DEF TrueTo, s, g, p, q
  <2>3. \A i \in Scanned(q) \cap Old, p \in q.paths :
          rows[i].state[p] >= 0 => <<<<rows[i].run, rows[i].source>>, p>> \in DOMAIN chart.series
    BY <2>1, <1>3 DEF Covers, Numbers, OwnerOf
  <2> QED BY <2>2, <2>3, <1>5 DEF AnswersAreTrueToTheStates
<1>6. CASE chart.at = "summary"
  <2> DEFINE S == Scanned(q) \cap Old
             Facts(row, ids, p) ==
               LET numeric == {i \in ids : rows[i].state[p] >= 0}
                   Reaching(v) == Cardinality({i \in numeric : rows[i].state[p] <= v})
                   values == {rows[i].state[p] : i \in numeric} IN
               /\ row.count = Cardinality(numeric) /\ row.count + row.missing = Cardinality(ids)
               /\ row.p95 = {v \in values : /\ 20 * Reaching(v) >= 19 * row.count
                                            /\ \A w \in values : w < v => 20 * Reaching(w) < 19 * row.count}
               /\ row.minimum = {v \in values : \A w \in values : v <= w}
               /\ row.maximum = {v \in values : \A w \in values : v >= w}
               /\ \A i \in row.snapshot : /\ \A j \in ids : rows[j].observed <= rows[i].observed
                                          /\ row.current = {rows[i].state[p]} \ {Nothing, List}
  <2>1. ASSUME NEW key \in DOMAIN chart.series PROVE Facts(chart.series[key], Group(S, key[1]), key[2])
    <3>1. Summed(key, chart.series[key])
      BY <1>1, <1>6 DEF SoFar
    <3> DEFINE row == chart.series[key]
               ids == Group(S, key[1])
               p == key[2]
               val == StatesIn(ids, p)
               on == TimesIn(ids)
               numeric == {i \in ids : rows[i].state[p] >= 0}
               values == {rows[i].state[p] : i \in numeric}
               Reaching(v) == Cardinality({i \in numeric : rows[i].state[p] <= v})
               Reached(v) == Cardinality({i \in numeric : val[i] <= v})
    <3>2. Tells(row, ids, val, on)
      BY <3>1 DEF Summed
    <3>3. \A i \in ids : val[i] = rows[i].state[p] /\ on[i] = rows[i].observed
      BY DEF StatesIn, TimesIn
    <3> HIDE DEF row, ids, p, val, on
    <3>4. numeric = {i \in ids : val[i] >= 0}
      BY <3>3
    <3>5. \A i \in numeric : val[i] = rows[i].state[p]
      BY <3>3
    <3> HIDE DEF numeric
    <3>6. values = {val[i] : i \in numeric}
      BY <3>5
    <3>7. ASSUME NEW v PROVE Reaching(v) = Reached(v)
      <4>1. {i \in numeric : rows[i].state[p] <= v} = {i \in numeric : val[i] <= v}
        BY <3>5
      <4> QED BY <4>1
    <3>8. /\ row.count = Cardinality(numeric) /\ row.count + row.missing = Cardinality(ids)
          /\ row.p95 = {v \in values : /\ 20 * Reached(v) >= 19 * row.count
                                       /\ \A w \in values : w < v => 20 * Reached(w) < 19 * row.count}
          /\ row.minimum = {v \in values : \A w \in values : v <= w}
          /\ row.maximum = {v \in values : \A w \in values : v >= w}
          /\ row.snapshot \subseteq ids
          /\ \A i \in row.snapshot : /\ \A j \in ids : on[j] <= on[i]
                                     /\ row.current = {val[i]} \ {Nothing, List}
      <4> HIDE DEF values
      <4> QED BY <3>2, <3>4, <3>6 DEF Tells, Reports
    <3> HIDE DEF values, Reaching, Reached
    <3>9. row.p95 = {v \in values : /\ 20 * Reaching(v) >= 19 * row.count
                                    /\ \A w \in values : w < v => 20 * Reaching(w) < 19 * row.count}
      BY <3>7, <3>8
    <3>10. \A i \in row.snapshot : /\ \A j \in ids : rows[j].observed <= rows[i].observed
                                   /\ row.current = {rows[i].state[p]} \ {Nothing, List}
      BY <3>3, <3>8
    <3> QED BY <3>8, <3>9, <3>10 DEF numeric, values, Reaching, row, ids, p
  <2> QED BY <2>1, <1>6 DEF AnswersAreTrueToTheStates
<1> QED BY <1>5, <1>6

(* Every answered chart and summary is true to the states stored when it   *)
(* was asked for.                                                          *)
THEOREM AnswersStayTrueToTheStates ==
  ChartsSpec => []AnswersAreTrueToTheStates
<1>1. ChartsInit => ChartInv
  BY ChartStarts
<1>2. ChartInv /\ [ChartsNext]_chartVars => ChartInv'
  BY ChartSteps
<1>3. ChartInv => AnswersAreTrueToTheStates
  BY ChartMeans
<1> QED BY <1>1, <1>2, <1>3, PTL DEF ChartsSpec

===============================================================================
