--------------------------- MODULE BTCWalletProofs ---------------------------
(* Proofs about the Bitcoin wallet: what its operators make of a wallet whose *)
(* list is in order and whose ledger is right, for any transactions, any     *)
(* addresses and any list.  The node that applies them is in BTCChainProofs. *)
EXTENDS BTCWallet, SequenceTheorems, WellFoundedInduction, TLAPS

-----------------------------------------------------------------------------
(* Numbers: induction, and the least and the greatest of a set.              *)

(* A set of numbers with 0 and the successor of each of its elements up to a *)
(* bound has all numbers up to that bound.                                   *)
LEMMA UpTo ==
    ASSUME NEW N \in Nat, NEW S, 0 \in S,
           \A n \in 0..(N - 1) : n \in S => n + 1 \in S
    PROVE  \A n \in 0..N : n \in S
<1> DEFINE R == {p \in Nat \X Nat : p[1] < p[2]}
           Out == {n \in 0..N : n \notin S}
<1>1. IsWellFoundedOn(R, Nat)
  BY NatLessThanWellFounded, Zenon DEF OpToRel
<1> HIDE DEF R
<1>2. SUFFICES ASSUME Out # {} PROVE FALSE
  OBVIOUS
<1>3. Out \in SUBSET Nat
  OBVIOUS
<1>4. PICK x \in Out : \A y \in Out : ~ (<<y, x>> \in R)
  BY <1>1, <1>2, <1>3, WFMin
<1>5. x \in 1..N
  OBVIOUS
<1>6. x - 1 \in S
  <2> SUFFICES ASSUME x - 1 \notin S PROVE FALSE
    OBVIOUS
  <2>1. x - 1 \in Out
    BY <1>5
  <2>2. <<x - 1, x>> \in R
    BY <1>5 DEF R
  <2> QED
    BY <1>4, <2>1, <2>2
<1>7. x - 1 \in 0..(N - 1) /\ (x - 1) + 1 = x
  BY <1>5
<1>8. x \in S
  BY <1>6, <1>7
<1> QED
  BY <1>8

LEMMA MinIsLeast ==
    ASSUME NEW S \in SUBSET Nat, S # {}
    PROVE  Min(S) \in S /\ \A y \in S : Min(S) <= y
<1> DEFINE R == {p \in Nat \X Nat : p[1] < p[2]}
<1>1. IsWellFoundedOn(R, Nat)
  BY NatLessThanWellFounded, Zenon DEF OpToRel
<1> HIDE DEF R
<1>2. PICK x \in S : \A y \in S : ~ (<<y, x>> \in R)
  BY <1>1, WFMin
<1>3. \A y \in S : x <= y
  <2> SUFFICES ASSUME NEW y \in S PROVE x <= y
    OBVIOUS
  <2>1. x \in Nat /\ y \in Nat /\ <<y, x>> \in Nat \X Nat
    OBVIOUS
  <2>2. y < x => <<y, x>> \in R
    BY <2>1 DEF R
  <2> QED
    BY <1>2, <2>1, <2>2
<1> QED
  BY <1>3 DEF Min

LEMMA MaxIsGreatest ==
    ASSUME NEW n \in Nat, NEW S \in SUBSET (0..n), S # {}
    PROVE  Max(S) \in S /\ \A y \in S : y <= Max(S)
<1> DEFINE T == {n - y : y \in S}
<1>1. T \in SUBSET Nat /\ T # {}
  <2>1. \A y \in S : n - y \in Nat
    OBVIOUS
  <2>2. PICK y \in S : TRUE
    OBVIOUS
  <2> QED
    BY <2>1, <2>2
<1>2. Min(T) \in T /\ \A y \in T : Min(T) <= y
  BY <1>1, MinIsLeast
<1>3. PICK x \in S : Min(T) = n - x
  BY <1>2
<1>4. \A y \in S : x >= y
  <2> SUFFICES ASSUME NEW y \in S PROVE x >= y
    OBVIOUS
  <2>1. Min(T) <= n - y
    BY <1>2
  <2> QED
    BY <1>3, <2>1
<1> HIDE DEF T
<1> QED
  BY <1>4 DEF Max

-----------------------------------------------------------------------------
(* Inserting in and removing from a list, by position.                     *)

LEMMA InsertAtList ==
    ASSUME NEW s \in Seq(Tx), NEW k \in 1..Len(s) + 1, NEW e \in Tx
    PROVE  /\ InsertAt(s, k, e) \in Seq(Tx)
           /\ Len(InsertAt(s, k, e)) = Len(s) + 1
           /\ \A j \in 1..Len(s) + 1 : InsertAt(s, k, e)[j] =
                  IF j < k THEN s[j] ELSE IF j = k THEN e ELSE s[j - 1]
<1> DEFINE a == SubSeq(s, 1, k - 1)
           b == SubSeq(s, k, Len(s))
<1>1. /\ a \in Seq(Tx) /\ Len(a) = k - 1
      /\ \A j \in 1..k - 1 : a[j] = s[j]
  BY SubSeqProperties, Z3
<1>2. /\ b \in Seq(Tx) /\ Len(b) = Len(s) - k + 1
      /\ \A j \in 1..Len(s) - k + 1 : b[j] = s[k + j - 1]
  BY SubSeqProperties, Z3
<1>3. /\ <<e>> \in Seq(Tx) /\ Len(<<e>>) = 1 /\ <<e>>[1] = e
  OBVIOUS
<1>4. InsertAt(s, k, e) = (a \o <<e>>) \o b
  BY DEF InsertAt
<1> HIDE DEF a, b
<1>5. /\ a \o <<e>> \in Seq(Tx) /\ Len(a \o <<e>>) = k
      /\ \A j \in 1..k : (a \o <<e>>)[j] = IF j < k THEN s[j] ELSE e
  BY <1>1, <1>3
<1> QED
  BY <1>2, <1>4, <1>5, ConcatProperties

-----------------------------------------------------------------------------
(* What Within leaves of a sequence: its elements in the set, in their order. *)

OfPrefix(s, n, T, r) ==
    \E m \in [1..Len(r) -> 1..n] :
       /\ \A i \in 1..Len(r) : r[i] = s[m[i]] /\ s[m[i]] \in T
       /\ \A i, j \in 1..Len(r) : i < j => m[i] < m[j]
       /\ \A k \in 1..n : s[k] \in T => \E i \in 1..Len(r) : m[i] = k

LEMMA NotLast ==
    ASSUME NEW n \in Nat, NEW j \in 1..(n + 1), j # n + 1
    PROVE  j \in 1..n
OBVIOUS

LEMMA OfPrefixStep ==
    ASSUME NEW S, NEW s \in Seq(S), NEW T, NEW n \in 0..(Len(s) - 1), NEW r \in Seq(S),
           OfPrefix(s, n, T, r)
    PROVE  LET x == IF s[n + 1] \in T THEN Append(r, s[n + 1]) ELSE r
           IN  x \in Seq(S) /\ OfPrefix(s, n + 1, T, x)
<1>1. PICK m \in [1..Len(r) -> 1..n] :
         /\ \A i \in 1..Len(r) : r[i] = s[m[i]] /\ s[m[i]] \in T
         /\ \A i, j \in 1..Len(r) : i < j => m[i] < m[j]
         /\ \A k \in 1..n : s[k] \in T => \E i \in 1..Len(r) : m[i] = k
  BY DEF OfPrefix
<1>2. s[n + 1] \in S /\ Len(r) \in Nat /\ n \in Nat /\ Len(s) \in Nat
  OBVIOUS
<1>3. CASE s[n + 1] \in T
  <2> DEFINE x == Append(r, s[n + 1])
             l == [i \in 1..(Len(r) + 1) |-> IF i <= Len(r) THEN m[i] ELSE n + 1]
  <2>1. /\ x \in Seq(S) /\ Len(x) = Len(r) + 1
        /\ \A i \in 1..Len(r) : x[i] = r[i]
        /\ x[Len(r) + 1] = s[n + 1]
    BY <1>2
  <2> HIDE DEF x
  <2>2. /\ l \in [1..Len(x) -> 1..(n + 1)]
        /\ \A i \in 1..Len(r) : l[i] = m[i] /\ l[i] \in 1..n
        /\ l[Len(r) + 1] = n + 1
    <3>1. \A i \in 1..Len(r) : m[i] \in 1..n
      OBVIOUS
    <3>2. \A i \in 1..(Len(r) + 1) : i \notin 1..Len(r) => i = Len(r) + 1
      BY <1>2
    <3>3. \A i \in 1..Len(r) : l[i] = m[i]
      BY <1>2
    <3>4. l[Len(r) + 1] = n + 1
      BY <1>2
    <3>5. \A i \in 1..(Len(r) + 1) : l[i] \in 1..(n + 1)
      BY <1>2, <3>1, <3>2, <3>3, <3>4
    <3> QED
      BY <2>1, <3>1, <3>3, <3>4, <3>5
  <2> HIDE DEF l
  <2>3. \A i \in 1..Len(x) : x[i] = s[l[i]] /\ s[l[i]] \in T
    BY <1>1, <1>2, <1>3, <2>1, <2>2
  <2>4. \A i, j \in 1..Len(x) : i < j => l[i] < l[j]
    <3> SUFFICES ASSUME NEW i \in 1..Len(x), NEW j \in 1..Len(x), i < j PROVE l[i] < l[j]
      OBVIOUS
    <3>4. Len(r) \in Nat /\ Len(x) = Len(r) + 1 /\ n \in Nat
      BY <1>2, <2>1
    <3>5. i \in 1..Len(r)
      BY <3>4
    <3>1. i \in 1..Len(r) /\ l[i] = m[i] /\ m[i] \in 1..n
      BY <2>2, <3>5
    <3>2. CASE j = Len(r) + 1
      BY <2>2, <3>1, <3>2, <3>4
    <3>3. CASE j # Len(r) + 1
      <4>3. j \in 1..(Len(r) + 1)
        BY <3>4, Zenon
      <4>1. j \in 1..Len(r)
        BY <3>3, <3>4, <4>3, NotLast, Zenon
      <4>2. m[i] < m[j]
        BY <1>1, <3>1, <4>1
      <4>4. l[j] = m[j]
        BY <2>2, <4>1
      <4> QED
        BY <3>1, <4>2, <4>4
    <3> QED
      BY <3>2, <3>3
  <2>5. ASSUME NEW k \in 1..(n + 1), s[k] \in T PROVE \E i \in 1..Len(x) : l[i] = k
    <3>3. Len(r) \in Nat /\ Len(x) = Len(r) + 1 /\ n \in Nat
      BY <1>2, <2>1
    <3>4. \A i \in 1..Len(r) : i \in 1..Len(x)
      BY <3>3
    <3>1. CASE k = n + 1
      <4>1. Len(r) + 1 \in 1..Len(x)
        BY <3>3
      <4> QED
        BY <2>2, <3>1, <4>1
    <3>2. CASE k # n + 1
      <4>2. k \in 1..n
        BY <3>2, <3>3
      <4>1. PICK i \in 1..Len(r) : m[i] = k
        BY <1>1, <2>5, <4>2
      <4> QED
        BY <2>2, <3>4, <4>1
    <3> QED
      BY <3>1, <3>2
  <2>6. OfPrefix(s, n + 1, T, x)
    BY <2>2, <2>3, <2>4, <2>5 DEF OfPrefix
  <2> QED
    BY <1>3, <2>1, <2>6 DEF x
<1>4. CASE s[n + 1] \notin T
  <2>1. m \in [1..Len(r) -> 1..(n + 1)]
    BY <1>2
  <2>2. \A k \in 1..(n + 1) : s[k] \in T => \E i \in 1..Len(r) : m[i] = k
    BY <1>1, <1>2, <1>4
  <2>3. OfPrefix(s, n + 1, T, r)
    BY <1>1, <2>1, <2>2, SMT DEF OfPrefix
  <2> QED
    BY <1>4, <2>3
<1> QED
  BY <1>3, <1>4

(* Within is a recursive function: it exists, and obeys its equations.        *)
LEMMA WithinEquations ==
    ASSUME NEW S, NEW s \in Seq(S), NEW T
    PROVE  \E f : /\ Within(s, T) = f[Len(s)]
                  /\ f[0] = << >>
                  /\ \A n \in 0..(Len(s) - 1) :
                        f[n + 1] = IF s[n + 1] \in T THEN Append(f[n], s[n + 1]) ELSE f[n]
<1> DEFINE N == Len(s)
           step(x, n) == IF s[n] \in T THEN Append(x, s[n]) ELSE x
           is(h, k) == h = [n \in 0..k |-> IF n = 0 THEN << >> ELSE step(h[n - 1], n)]
           K == {k \in 0..N : \E h : is(h, k)}
           f == CHOOSE h : is(h, N)
<1>1. Within(s, T) = f[N] /\ N \in Nat
  <2>1. Within(s, T) = f[N]
    BY Zenon DEF Within
  <2>2. N \in Nat
    OBVIOUS
  <2> QED
    BY <2>1, <2>2
<1>2. \A k \in 0..N : k \in K
  <2> HIDE DEF step
  <2>1. 0 \in K
    <3>1. is([n \in 0..0 |-> << >>], 0)
      OBVIOUS
    <3>2. 0 \in 0..N
      BY <1>1
    <3> HIDE DEF is
    <3> QED
      BY <3>1, <3>2
  <2>2. ASSUME NEW k \in 0..(N - 1), k \in K PROVE k + 1 \in K
    <3>1. PICK h : is(h, k)
      BY <2>2
    <3> DEFINE g == [n \in 0..(k + 1) |-> IF n <= k THEN h[n] ELSE step(h[k], k + 1)]
    <3>2. is(g, k + 1)
      BY <1>1, <3>1
    <3>3. k + 1 \in 0..N
      BY <1>1
    <3> HIDE DEF is
    <3> QED
      BY <3>2, <3>3
  <2> HIDE DEF K
  <2> QED
    BY <1>1, <2>1, <2>2, UpTo
<1>3. is(f, N)
  <2>1. N \in 0..N
    BY <1>1
  <2>2. \E h : is(h, N)
    BY <1>2, <2>1
  <2> QED
    BY <2>2, Zenon
<1> HIDE DEF f
<1>4. f[0] = << >> /\ \A n \in 0..(N - 1) : f[n + 1] = step(f[n], n + 1)
  <2> HIDE DEF step
  <2> QED
    BY <1>1, <1>3
<1> QED
  BY <1>1, <1>4

(* It lists, once for each position, what of the sequence is in the set.      *)
LEMMA WithinList ==
    ASSUME NEW S, NEW s \in Seq(S), NEW T
    PROVE  /\ Within(s, T) \in Seq(S)
           /\ OfPrefix(s, Len(s), T, Within(s, T))
<1>1. PICK f : /\ Within(s, T) = f[Len(s)]
               /\ f[0] = << >>
               /\ \A n \in 0..(Len(s) - 1) :
                     f[n + 1] = IF s[n + 1] \in T THEN Append(f[n], s[n + 1]) ELSE f[n]
  BY WithinEquations
<1> DEFINE N == Len(s)
           G == {n \in 0..N : f[n] \in Seq(S) /\ OfPrefix(s, n, T, f[n])}
<1>2. N \in Nat
  OBVIOUS
<1>3. 0 \in G
  <2>1. /\ << >> \in Seq(S) /\ Len(<< >>) = 0
        /\ [i \in 1..0 |-> i] \in [1..0 -> 1..0]
    OBVIOUS
  <2>2. OfPrefix(s, 0, T, << >>)
    <3> DEFINE m == [i \in 1..0 |-> i]
    <3>1. m \in [1..Len(<< >>) -> 1..0] /\ \A i \in 1..Len(<< >>) : FALSE
      BY <2>1
    <3>2. \A k \in 1..0 : FALSE
      OBVIOUS
    <3> HIDE DEF m
    <3> QED
      BY <3>1, <3>2 DEF OfPrefix
  <2>3. 0 \in 0..N
    BY <1>2
  <2> QED
    BY <1>1, <2>1, <2>2, <2>3
<1>4. ASSUME NEW n \in 0..(N - 1), n \in G PROVE n + 1 \in G
  <2> DEFINE r == f[n]
             x == IF s[n + 1] \in T THEN Append(r, s[n + 1]) ELSE r
  <2>1. f[n + 1] = x
    BY <1>1
  <2>2. r \in Seq(S) /\ OfPrefix(s, n, T, r)
    BY <1>4
  <2> HIDE DEF r
  <2>3. x \in Seq(S) /\ OfPrefix(s, n + 1, T, x)
    BY <2>2, OfPrefixStep
  <2> HIDE DEF x
  <2>4. f[n + 1] \in Seq(S) /\ OfPrefix(s, n + 1, T, f[n + 1])
    BY <2>1, <2>3
  <2> QED
    BY <1>2, <2>4
<1> HIDE DEF G
<1>5. \A n \in 0..N : n \in G
  BY <1>2, <1>3, <1>4, UpTo
<1> QED
  BY <1>1, <1>2, <1>5 DEF G

(* A sorted list of different elements stays one.                            *)
LEMMA WithinSet ==
    ASSUME NEW S, NEW s \in Seq(S), NEW T
    PROVE  /\ Range(Within(s, T)) = Range(s) \cap T
           /\ IsInjective(s) => IsInjective(Within(s, T))
           /\ \A h : (\A i, j \in 1..Len(s) : i < j => h[s[i]] <= h[s[j]])
                  => \A i, j \in 1..Len(Within(s, T)) :
                        i < j => h[Within(s, T)[i]] <= h[Within(s, T)[j]]
<1> DEFINE r == Within(s, T)
<1>1. r \in Seq(S) /\ OfPrefix(s, Len(s), T, r)
  BY WithinList
<1> HIDE DEF r
<1>2. PICK m \in [1..Len(r) -> 1..Len(s)] :
         /\ \A i \in 1..Len(r) : r[i] = s[m[i]] /\ s[m[i]] \in T
         /\ \A i, j \in 1..Len(r) : i < j => m[i] < m[j]
         /\ \A k \in 1..Len(s) : s[k] \in T => \E i \in 1..Len(r) : m[i] = k
  BY <1>1 DEF OfPrefix
<1>3. DOMAIN r = 1..Len(r) /\ DOMAIN s = 1..Len(s) /\ Len(r) \in Nat /\ Len(s) \in Nat
  BY <1>1
<1>4. Range(r) = Range(s) \cap T
  <2>1. Range(r) = {r[i] : i \in 1..Len(r)} /\ Range(s) = {s[i] : i \in 1..Len(s)}
    BY <1>3 DEF Range
  <2>2. \A x \in Range(r) : x \in Range(s) /\ x \in T
    BY <1>2, <2>1
  <2>3. ASSUME NEW x \in Range(s), x \in T PROVE x \in Range(r)
    <3>1. PICK k \in 1..Len(s) : x = s[k]
      BY <2>1
    <3>2. PICK i \in 1..Len(r) : m[i] = k
      BY <1>2, <2>3, <3>1
    <3> QED
      BY <1>2, <2>1, <3>1, <3>2
  <2> QED
    BY <2>2, <2>3
<1>5. IsInjective(s) => IsInjective(r)
  <2> SUFFICES ASSUME IsInjective(s), NEW i \in 1..Len(r), NEW j \in 1..Len(r), r[i] = r[j]
               PROVE  i = j
    BY <1>3 DEF IsInjective
  <2>1. m[i] \in 1..Len(s) /\ m[j] \in 1..Len(s) /\ s[m[i]] = s[m[j]]
    BY <1>2
  <2>2. m[i] = m[j]
    BY <1>3, <2>1 DEF IsInjective
  <2>3. ~ (i < j) /\ ~ (j < i)
    BY <1>2, <1>3, <2>1, <2>2
  <2> QED
    BY <1>3, <2>3
<1>6. ASSUME NEW h, \A i, j \in 1..Len(s) : i < j => h[s[i]] <= h[s[j]],
             NEW i \in 1..Len(r), NEW j \in 1..Len(r), i < j
      PROVE  h[r[i]] <= h[r[j]]
  <2>1. m[i] \in 1..Len(s) /\ m[j] \in 1..Len(s) /\ m[i] < m[j]
    BY <1>2, <1>6
  <2> QED
    BY <1>2, <1>6, <2>1
<1> QED
  BY <1>4, <1>5, <1>6 DEF r

LEMMA WithoutSet ==
    ASSUME NEW S, NEW s \in Seq(S), NEW T
    PROVE  /\ Without(s, T) \in Seq(S)
           /\ Range(Without(s, T)) = Range(s) \ T
           /\ IsInjective(s) => IsInjective(Without(s, T))
           /\ \A h : (\A i, j \in 1..Len(s) : i < j => h[s[i]] <= h[s[j]])
                  => \A i, j \in 1..Len(Without(s, T)) :
                        i < j => h[Without(s, T)[i]] <= h[Without(s, T)[j]]
<1> DEFINE R == Range(s) \ T
<1>1. Without(s, T) = Within(s, R)
  BY DEF Without
<1>2. Range(s) \cap R = Range(s) \ T
  OBVIOUS
<1> HIDE DEF R
<1> QED
  BY <1>1, <1>2, WithinList, WithinSet

-----------------------------------------------------------------------------
(* Sums of amounts. *)

(* An output that a transaction has. *)
Output == {u \in Tx \X Nat : u[2] + 1 \in DOMAIN Outputs[u[1]]}

LEMMA AmountOfType ==
    ASSUME NEW u \in Output
    PROVE  AmountOf(u) \in Nat
<1>1. u[1] \in Tx /\ u[2] + 1 \in DOMAIN Outputs[u[1]]
  BY DEF Output
<1>2. Outputs[u[1]] \in Seq([address : STRING \X Nat, amount : Nat])
  BY <1>1, TxAssumption
<1> DEFINE R == [address : STRING \X Nat, amount : Nat]
           o == Outputs[u[1]]
           k == u[2] + 1
<1>3. o \in Seq(R) /\ k \in DOMAIN o
  BY <1>1, <1>2
<1> HIDE DEF R, o, k
<1>4. o[k] \in R
  BY <1>3
<1> QED
  BY <1>4 DEF AmountOf, R, o, k

(* f[n] is the sum of the first n outputs of the list s. *)
Summing(s, f) ==
    /\ f[0] = 0
    /\ \A n \in 0..(Len(s) - 1) : f[n + 1] = f[n] + AmountOf(s[n + 1])

LEMMA AmountsEquations ==
    ASSUME NEW s \in Seq(Output)
    PROVE  \E f : AmountsOf(s) = f[Len(s)] /\ Summing(s, f)
<1> DEFINE N == Len(s)
           step(x, n) == x + AmountOf(s[n])
           is(h, k) == h = [n \in 0..k |-> IF n = 0 THEN 0 ELSE step(h[n - 1], n)]
           K == {k \in 0..N : \E h : is(h, k)}
           f == CHOOSE h : is(h, N)
<1>1. AmountsOf(s) = f[N] /\ N \in Nat
  <2>1. AmountsOf(s) = f[N]
    BY Zenon DEF AmountsOf
  <2>2. N \in Nat
    OBVIOUS
  <2> QED
    BY <2>1, <2>2
<1>2. \A k \in 0..N : k \in K
  <2> HIDE DEF step
  <2>1. 0 \in K
    <3>1. is([n \in 0..0 |-> 0], 0)
      OBVIOUS
    <3>2. 0 \in 0..N
      BY <1>1
    <3> HIDE DEF is
    <3> QED
      BY <3>1, <3>2
  <2>2. ASSUME NEW k \in 0..(N - 1), k \in K PROVE k + 1 \in K
    <3>1. PICK h : is(h, k)
      BY <2>2
    <3> DEFINE g == [n \in 0..(k + 1) |-> IF n <= k THEN h[n] ELSE step(h[k], k + 1)]
    <3>2. is(g, k + 1)
      BY <1>1, <3>1
    <3>3. k + 1 \in 0..N
      BY <1>1
    <3> HIDE DEF is
    <3> QED
      BY <3>2, <3>3
  <2> HIDE DEF K
  <2> QED
    BY <1>1, <2>1, <2>2, UpTo
<1>3. is(f, N)
  <2>1. N \in 0..N
    BY <1>1
  <2>2. \E h : is(h, N)
    BY <1>2, <2>1
  <2> QED
    BY <2>2, Zenon
<1> HIDE DEF f
<1>4. f[0] = 0 /\ \A n \in 0..(N - 1) : f[n + 1] = step(f[n], n + 1)
  <2> HIDE DEF step
  <2> QED
    BY <1>1, <1>3
<1>5. Summing(s, f)
  BY <1>4 DEF Summing
<1> QED
  BY <1>1, <1>5

(* The sums of two lists with a common prefix agree on it.                    *)
LEMMA AmountsPrefix ==
    ASSUME NEW s \in Seq(Output), NEW t \in Seq(Output), NEW N \in Nat,
           N <= Len(s), N <= Len(t), \A n \in 1..N : s[n] = t[n],
           NEW f, NEW g, Summing(s, f), Summing(t, g)
    PROVE  f[N] = g[N]
<1> DEFINE G == {n \in 0..N : f[n] = g[n]}
<1>4. /\ f[0] = 0 /\ g[0] = 0
      /\ \A n \in 0..(Len(s) - 1) : f[n + 1] = f[n] + AmountOf(s[n + 1])
      /\ \A n \in 0..(Len(t) - 1) : g[n + 1] = g[n] + AmountOf(t[n + 1])
  BY DEF Summing
<1>1. 0 \in G
  BY <1>4
<1>2. ASSUME NEW n \in 0..(N - 1), n \in G PROVE n + 1 \in G
  <2>1. /\ n \in 0..(Len(s) - 1) /\ n \in 0..(Len(t) - 1)
        /\ n + 1 \in 1..N /\ n + 1 \in 0..N /\ f[n] = g[n]
    BY <1>2
  <2>2. f[n + 1] = f[n] + AmountOf(s[n + 1]) /\ g[n + 1] = g[n] + AmountOf(t[n + 1])
    BY <1>4, <2>1
  <2> QED
    BY <2>1, <2>2
<1> HIDE DEF G
<1>3. \A n \in 0..N : n \in G
  BY <1>1, <1>2, UpTo
<1> QED
  BY <1>3 DEF G

LEMMA AmountsOfEmpty == AmountsOf(<< >>) = 0
<1>1. << >> \in Seq(Output) /\ Len(<< >>) = 0
  OBVIOUS
<1> QED
  BY <1>1, AmountsEquations DEF Summing

LEMMA AmountsOfType ==
    ASSUME NEW s \in Seq(Output)
    PROVE  AmountsOf(s) \in Nat
<1>10. PICK f : AmountsOf(s) = f[Len(s)] /\ Summing(s, f)
  BY AmountsEquations
<1>1. /\ AmountsOf(s) = f[Len(s)]
      /\ f[0] = 0
      /\ \A n \in 0..(Len(s) - 1) : f[n + 1] = f[n] + AmountOf(s[n + 1])
  BY <1>10 DEF Summing
<1> DEFINE N == Len(s)
           G == {n \in 0..N : f[n] \in Nat}
<1>2. N \in Nat
  OBVIOUS
<1>3. 0 \in G
  BY <1>1, <1>2
<1>4. ASSUME NEW n \in 0..(N - 1), n \in G PROVE n + 1 \in G
  <2>1. s[n + 1] \in Output /\ f[n] \in Nat /\ n + 1 \in 0..N
    BY <1>2, <1>4
  <2>2. AmountOf(s[n + 1]) \in Nat
    BY <2>1, AmountOfType
  <2> QED
    BY <1>1, <2>1, <2>2
<1> HIDE DEF G
<1>5. \A n \in 0..N : n \in G
  BY <1>2, <1>3, <1>4, UpTo
<1> QED
  BY <1>1, <1>2, <1>5 DEF G

LEMMA AmountsOfAppend ==
    ASSUME NEW s \in Seq(Output), NEW u \in Output
    PROVE  AmountsOf(Append(s, u)) = AmountsOf(s) + AmountOf(u)
<1> DEFINE t == Append(s, u)
           N == Len(s)
<1>1. /\ t \in Seq(Output) /\ Len(t) = N + 1 /\ t[N + 1] = u /\ N \in Nat
      /\ \A n \in 1..N : s[n] = t[n]
  OBVIOUS
<1> HIDE DEF t
<1>20. PICK f : AmountsOf(s) = f[Len(s)] /\ Summing(s, f)
  BY AmountsEquations
<1>2. /\ AmountsOf(s) = f[Len(s)]
      /\ f[0] = 0
      /\ \A n \in 0..(Len(s) - 1) : f[n + 1] = f[n] + AmountOf(s[n + 1])
  BY <1>20 DEF Summing
<1>30. PICK g : AmountsOf(t) = g[Len(t)] /\ Summing(t, g)
  BY <1>1, AmountsEquations
<1>3. /\ AmountsOf(t) = g[Len(t)]
      /\ g[0] = 0
      /\ \A n \in 0..(Len(t) - 1) : g[n + 1] = g[n] + AmountOf(t[n + 1])
  BY <1>30 DEF Summing
<1>4. f[N] = g[N]
  <2>1. N <= Len(s) /\ N <= Len(t)
    BY <1>1
  <2> QED
    BY <1>1, <1>20, <1>30, <2>1, AmountsPrefix
<1>5. N \in 0..(Len(t) - 1)
  BY <1>1
<1>6. g[N + 1] = g[N] + AmountOf(t[N + 1])
  BY <1>3, <1>5
<1> QED
  BY <1>1, <1>2, <1>3, <1>4, <1>6 DEF t

(* What is added to a list adds to its sum.                                   *)
LEMMA AmountsOfConcat ==
    ASSUME NEW s \in Seq(Output), NEW t \in Seq(Output)
    PROVE  AmountsOf(s \o t) = AmountsOf(s) + AmountsOf(t)
<1> DEFINE r == s \o t
           M == Len(s)
           N == Len(t)
<1>1. /\ r \in Seq(Output) /\ Len(r) = M + N /\ M \in Nat /\ N \in Nat
      /\ \A n \in 1..M : s[n] = r[n]
      /\ \A n \in 1..N : r[M + n] = t[n]
  OBVIOUS
<1> HIDE DEF r
<1>20. PICK f : AmountsOf(s) = f[Len(s)] /\ Summing(s, f)
  BY AmountsEquations
<1>2. /\ AmountsOf(s) = f[Len(s)]
      /\ f[0] = 0
      /\ \A n \in 0..(Len(s) - 1) : f[n + 1] = f[n] + AmountOf(s[n + 1])
  BY <1>20 DEF Summing
<1>30. PICK g : AmountsOf(t) = g[Len(t)] /\ Summing(t, g)
  BY AmountsEquations
<1>3. /\ AmountsOf(t) = g[Len(t)]
      /\ g[0] = 0
      /\ \A n \in 0..(Len(t) - 1) : g[n + 1] = g[n] + AmountOf(t[n + 1])
  BY <1>30 DEF Summing
<1>40. PICK h : AmountsOf(r) = h[Len(r)] /\ Summing(r, h)
  BY <1>1, AmountsEquations
<1>4. /\ AmountsOf(r) = h[Len(r)]
      /\ h[0] = 0
      /\ \A n \in 0..(Len(r) - 1) : h[n + 1] = h[n] + AmountOf(r[n + 1])
  BY <1>40 DEF Summing
<1>5. f[M] = h[M]
  <2>1. M <= Len(s) /\ M <= Len(r)
    BY <1>1
  <2>2. r \in Seq(Output) /\ M \in Nat /\ \A n \in 1..M : s[n] = r[n]
    BY <1>1
  <2>3. Summing(s, f) /\ Summing(r, h)
    BY <1>20, <1>40
  <2> HIDE DEF M, N
  <2> QED
    BY <2>1, <2>2, <2>3, AmountsPrefix
<1>6. f[M] \in Nat
  BY <1>2, AmountsOfType
<1> DEFINE G == {n \in 0..N : g[n] \in Nat /\ h[M + n] = f[M] + g[n]}
<1>7. 0 \in G
  BY <1>1, <1>3, <1>5, <1>6
<1>8. ASSUME NEW n \in 0..(N - 1), n \in G PROVE n + 1 \in G
  <2>1. /\ n + 1 \in 1..N /\ n + 1 \in 0..N /\ M + n \in 0..(Len(r) - 1)
        /\ g[n] \in Nat /\ h[M + n] = f[M] + g[n]
        /\ M + (n + 1) = (M + n) + 1
    BY <1>1, <1>8
  <2>2. t[n + 1] \in Output /\ r[M + (n + 1)] = t[n + 1]
    BY <1>1, <2>1
  <2>3. AmountOf(t[n + 1]) \in Nat
    BY <2>2, AmountOfType
  <2>4. g[n + 1] = g[n] + AmountOf(t[n + 1])
    BY <1>3, <2>1
  <2>5. h[(M + n) + 1] = h[M + n] + AmountOf(r[(M + n) + 1])
    BY <1>4, <2>1
  <2>6. h[M + (n + 1)] = h[M + n] + AmountOf(t[n + 1])
    BY <2>1, <2>2, <2>5
  <2> QED
    BY <1>6, <2>1, <2>3, <2>4, <2>6
<1> HIDE DEF G
<1>9. \A n \in 0..N : n \in G
  BY <1>1, <1>7, <1>8, UpTo
<1> QED
  BY <1>1, <1>2, <1>3, <1>4, <1>9 DEF G, r

(* What is kept of a list and what is dropped add up to its sum.              *)
LEMMA AmountsOfSplit ==
    ASSUME NEW s \in Seq(Output), NEW T
    PROVE  AmountsOf(s) = AmountsOf(Within(s, T)) + AmountsOf(Without(s, T))
<1> DEFINE N == Len(s)
           R == Range(s) \ T
<1>1. N \in Nat /\ \A n \in 1..N : s[n] \in Output /\ (s[n] \in R <=> s[n] \notin T)
  BY DEF Range
<1>2. Without(s, T) = Within(s, R)
  BY DEF Without
<1> HIDE DEF R
<1>3. PICK f : /\ Within(s, T) = f[Len(s)]
               /\ f[0] = << >>
               /\ \A n \in 0..(Len(s) - 1) :
                     f[n + 1] = IF s[n + 1] \in T THEN Append(f[n], s[n + 1]) ELSE f[n]
  BY WithinEquations
<1>4. PICK g : /\ Within(s, R) = g[Len(s)]
               /\ g[0] = << >>
               /\ \A n \in 0..(Len(s) - 1) :
                     g[n + 1] = IF s[n + 1] \in R THEN Append(g[n], s[n + 1]) ELSE g[n]
  BY WithinEquations
<1>50. PICK h : AmountsOf(s) = h[Len(s)] /\ Summing(s, h)
  BY AmountsEquations
<1>5. /\ AmountsOf(s) = h[Len(s)]
      /\ h[0] = 0
      /\ \A n \in 0..(Len(s) - 1) : h[n + 1] = h[n] + AmountOf(s[n + 1])
  BY <1>50 DEF Summing
<1> DEFINE G == {n \in 0..N : /\ f[n] \in Seq(Output) /\ g[n] \in Seq(Output)
                              /\ h[n] = AmountsOf(f[n]) + AmountsOf(g[n])}
<1>6. 0 \in G
  <2>1. << >> \in Seq(Output) /\ 0 \in 0..N
    BY <1>1
  <2>2. AmountsOf(f[0]) = 0 /\ AmountsOf(g[0]) = 0 /\ h[0] = 0
    BY <1>3, <1>4, <1>5, AmountsOfEmpty
  <2>3. f[0] \in Seq(Output) /\ g[0] \in Seq(Output)
    BY <1>3, <1>4, <2>1
  <2> QED
    BY <2>1, <2>2, <2>3
<1>7. ASSUME NEW n \in 0..(N - 1), n \in G PROVE n + 1 \in G
  <2> DEFINE x == f[n]
             y == g[n]
             u == s[n + 1]
  <2>1. /\ x \in Seq(Output) /\ y \in Seq(Output) /\ h[n] = AmountsOf(x) + AmountsOf(y)
        /\ u \in Output /\ n + 1 \in 0..N /\ (u \in R <=> u \notin T)
    BY <1>1, <1>7
  <2>2. f[n + 1] = IF u \in T THEN Append(x, u) ELSE x
    BY <1>3
  <2>3. g[n + 1] = IF u \in R THEN Append(y, u) ELSE y
    BY <1>4
  <2>4. h[n + 1] = h[n] + AmountOf(u)
    BY <1>5
  <2> HIDE DEF x, y, u
  <2>5. /\ AmountsOf(Append(x, u)) = AmountsOf(x) + AmountOf(u)
        /\ AmountsOf(Append(y, u)) = AmountsOf(y) + AmountOf(u)
        /\ AmountsOf(x) \in Nat /\ AmountsOf(y) \in Nat /\ AmountOf(u) \in Nat
    BY <2>1, AmountsOfAppend, AmountsOfType, AmountOfType
  <2>6. Append(x, u) \in Seq(Output) /\ Append(y, u) \in Seq(Output)
    BY <2>1
  <2>7. h[n + 1] = AmountsOf(f[n + 1]) + AmountsOf(g[n + 1])
    BY <2>1, <2>2, <2>3, <2>4, <2>5
  <2>8. f[n + 1] \in Seq(Output) /\ g[n + 1] \in Seq(Output)
    BY <2>1, <2>2, <2>3, <2>6
  <2> QED
    BY <2>1, <2>7, <2>8
<1> HIDE DEF G
<1>8. \A n \in 0..N : n \in G
  BY <1>1, <1>6, <1>7, UpTo
<1> QED
  BY <1>1, <1>2, <1>3, <1>4, <1>5, <1>8 DEF G

-----------------------------------------------------------------------------
(* The wallet: its type, and its list, which is in order: no transaction     *)
(* twice, none that is not in allTx, and sorted by height.                   *)

Wallet ==
    [transactions : Seq(Tx), allTx : SUBSET Tx, blockHeight : Nat,
     height : [Tx -> 0..TX_UNCONFIRMED], timestamp : [Tx -> {0, 1}],
     utxos : Seq(Output), balance : Int, spentOutputs : SUBSET UNION {Inputs[t] : t \in Tx},
     invalidTx : SUBSET Tx, pendingTx : SUBSET Tx, usedAddrs : SUBSET (STRING \X Nat),
     ledgerAddrs : SUBSET (Chains \X Nat), chain : [Chains -> Nat]]

Sorted(w) ==
    \A i, j \in 1..Len(w.transactions) :
        i < j => w.height[w.transactions[i]] <= w.height[w.transactions[j]]

LEMMA TxUnconfirmedNat == TX_UNCONFIRMED \in Nat
  BY SMT DEF TX_UNCONFIRMED

LEMMA WalletFields ==
    ASSUME NEW w \in Wallet
    PROVE  /\ w.transactions \in Seq(Tx) /\ w.allTx \in SUBSET Tx /\ w.blockHeight \in Nat
           /\ w.height \in [Tx -> 0..TX_UNCONFIRMED] /\ w.timestamp \in [Tx -> {0, 1}]
           /\ w.utxos \in Seq(Output) /\ w.balance \in Int
           /\ w.spentOutputs \in SUBSET UNION {Inputs[t] : t \in Tx}
           /\ w.invalidTx \in SUBSET Tx /\ w.pendingTx \in SUBSET Tx
           /\ w.usedAddrs \in SUBSET (STRING \X Nat)
           /\ w.ledgerAddrs \in SUBSET (Chains \X Nat) /\ w.chain \in [Chains -> Nat]
           /\ \A t \in Tx : w.height[t] \in Int /\ w.height[t] \in 0..TX_UNCONFIRMED
  BY TxUnconfirmedNat, SMT DEF Wallet

InOrder(w) ==
    /\ IsInjective(w.transactions)
    /\ Range(w.transactions) \subseteq w.allTx
    /\ Sorted(w)

LEMMA AfterByHeight ==
    ASSUME NEW w \in Wallet, NEW t \in Tx, NEW u \in Tx
    PROVE  /\ TxIsAfter(w, u, t) => w.height[t] <= w.height[u]
           /\ ~TxIsAfter(w, u, t) => w.height[u] <= w.height[t]
<1>1. w.height[t] \in Int /\ w.height[u] \in Int
  BY WalletFields
<1>2. \A x, y \in Tx :
         /\ TxIsAscending(w, x, y) => w.height[x] > w.height[y] \/ w.height[x] = w.height[y]
         /\ ~TxIsAscending(w, x, y) => ~ (w.height[x] > w.height[y])
  BY Zenon DEF TxIsAscending
<1>3. TxIsAfter(w, u, t) => TxIsAscending(w, u, t) \/ ~TxIsAscending(w, t, u)
  BY Zenon DEF TxIsAfter
<1>4. ~TxIsAfter(w, u, t) => ~TxIsAscending(w, u, t)
  BY Zenon DEF TxIsAfter
<1> QED
  BY <1>1, <1>2, <1>3, <1>4

(* Inserting keeps the order: the transactions up to the one it goes after   *)
(* are no higher, those beyond no lower.                                     *)
LEMMA InsertTxList ==
    ASSUME NEW w \in Wallet, InOrder(w), NEW t \in w.allTx, t \notin Range(w.transactions)
    PROVE  /\ InsertTx(w, t) = [w EXCEPT !.transactions = InsertTx(w, t).transactions]
           /\ InsertTx(w, t).transactions \in Seq(Tx)
           /\ InsertTx(w, t) \in Wallet
           /\ InOrder(InsertTx(w, t))
           /\ Range(InsertTx(w, t).transactions) = Range(w.transactions) \cup {t}
<1> DEFINE txs == w.transactions
           h == w.height
           N == Len(txs)
           K == {0} \cup {i \in DOMAIN txs : ~TxIsAfter(w, txs[i], t)}
           k == Max(K)
           new == InsertAt(txs, k + 1, t)
           v == InsertTx(w, t)
<1>1. /\ txs \in Seq(Tx) /\ w.allTx \subseteq Tx /\ t \in Tx /\ h \in [Tx -> 0..TX_UNCONFIRMED]
  BY WalletFields
<1>2. v = [w EXCEPT !.transactions = new]
  BY Zenon DEF InsertTx
<1>3. /\ N \in Nat /\ DOMAIN txs = 1..N /\ \A i \in 1..N : txs[i] \in Tx
  BY <1>1
<1>4. k \in K /\ \A i \in K : i <= k
  <2>1. K \in SUBSET (0..N) /\ K # {}
    BY <1>3
  <2> HIDE DEF K
  <2> QED
    BY <1>3, <2>1, MaxIsGreatest
<1>5. k \in 0..N /\ k + 1 \in 1..N + 1 /\ (k # 0 => k \in 1..N)
  BY <1>3, <1>4
<1>14. \A i \in 1..N : i \in K <=> ~TxIsAfter(w, txs[i], t)
  BY <1>3
<1>15. \A a, b \in 1..N : a < b => h[txs[a]] <= h[txs[b]]
  BY DEF InOrder, Sorted
<1> HIDE DEF K, k
<1>6. \A i \in 1..k : h[txs[i]] <= h[t]
  <2> SUFFICES ASSUME NEW i \in 1..k PROVE h[txs[i]] <= h[t]
    OBVIOUS
  <2>1. /\ i \in 1..N /\ k \in 1..N /\ ~TxIsAfter(w, txs[k], t)
        /\ txs[i] \in Tx /\ txs[k] \in Tx
    BY <1>3, <1>4, <1>5, <1>14
  <2>2. h[txs[k]] <= h[t]
    BY <1>1, <2>1, AfterByHeight
  <2>3. i = k \/ h[txs[i]] <= h[txs[k]]
    BY <1>15, <2>1
  <2>4. h[t] \in Int /\ h[txs[k]] \in Int /\ h[txs[i]] \in Int
    BY <2>1, <1>1, WalletFields
  <2> QED
    BY <2>2, <2>3, <2>4
<1>7. \A i \in (k + 1)..N : h[t] <= h[txs[i]]
  <2> SUFFICES ASSUME NEW i \in (k + 1)..N PROVE h[t] <= h[txs[i]]
    OBVIOUS
  <2>1. i \in 1..N /\ i \notin K
    BY <1>3, <1>4, <1>5
  <2>2. txs[i] \in Tx /\ TxIsAfter(w, txs[i], t)
    BY <1>3, <1>14, <2>1
  <2> QED
    BY <1>1, <2>2, AfterByHeight
<1>8. /\ new \in Seq(Tx) /\ Len(new) = N + 1
      /\ \A j \in 1..N + 1 : new[j] = IF j < k + 1 THEN txs[j]
                                      ELSE IF j = k + 1 THEN t ELSE txs[j - 1]
  <2> DEFINE q == k + 1
  <2>1. q \in 1..Len(txs) + 1 /\ txs \in Seq(Tx) /\ t \in Tx
    BY <1>1, <1>5
  <2> HIDE DEF q, txs
  <2> USE <2>1
  <2>2. InsertAt(txs, q, t) \in Seq(Tx) /\ Len(InsertAt(txs, q, t)) = Len(txs) + 1
    BY InsertAtList
  <2>3. \A j \in 1..Len(txs) + 1 : j < q => InsertAt(txs, q, t)[j] = txs[j]
    BY InsertAtList
  <2>4. InsertAt(txs, q, t)[q] = t
    BY InsertAtList
  <2>5. \A j \in 1..Len(txs) + 1 : j > q => InsertAt(txs, q, t)[j] = txs[j - 1]
    BY InsertAtList
  <2> QED
    BY <2>2, <2>3, <2>4, <2>5 DEF q
<1> HIDE DEF new
<1>9. Range(new) = Range(txs) \cup {t}
  <2>1. DOMAIN new = 1..(N + 1)
    BY <1>8
  <2>2. \A j \in 1..(N + 1) : new[j] \in Range(txs) \cup {t}
    <3> SUFFICES ASSUME NEW j \in 1..(N + 1), j # k + 1 PROVE new[j] \in Range(txs)
      BY <1>5, <1>8
    <3>1. CASE j < k + 1
      <4>1. j \in 1..N /\ new[j] = txs[j]
        BY <1>3, <1>5, <1>8, <3>1
      <4> QED
        BY <1>3, <4>1 DEF Range
    <3>2. CASE j > k + 1
      <4>1. j - 1 \in 1..N /\ new[j] = txs[j - 1]
        BY <1>3, <1>5, <1>8, <3>2
      <4> QED
        BY <1>3, <4>1 DEF Range
    <3> QED
      BY <1>5, <3>1, <3>2
  <2>3. \A i \in 1..N : \E j \in 1..(N + 1) : new[j] = txs[i]
    <3> SUFFICES ASSUME NEW i \in 1..N PROVE \E j \in 1..(N + 1) : new[j] = txs[i]
      OBVIOUS
    <3>1. CASE i < k + 1
      BY <1>3, <1>5, <1>8, <3>1
    <3>2. CASE i >= k + 1
      <4>1. i + 1 \in 1..(N + 1) /\ (i + 1) - 1 = i /\ ~(i + 1 < k + 1) /\ i + 1 # k + 1
        BY <1>3, <1>5, <3>2
      <4> QED
        BY <1>8, <4>1
    <3> QED
      BY <1>5, <3>1, <3>2
  <2>4. new[k + 1] = t
    BY <1>5, <1>8
  <2>5. /\ Range(new) = {new[j] : j \in 1..(N + 1)}
        /\ Range(txs) = {txs[i] : i \in 1..N}
    BY <1>3, <2>1 DEF Range
  <2> QED
    BY <1>5, <2>2, <2>3, <2>4, <2>5
<1>10. IsInjective(new)
  <2>1. \A i \in 1..N : txs[i] # t
    BY <1>3 DEF Range
  <2>2. \A i, j \in 1..N : txs[i] = txs[j] => i = j
    BY <1>3 DEF InOrder, IsInjective
  <2>3. DOMAIN new = 1..(N + 1)
    BY <1>8
  <2>4. ASSUME NEW i \in 1..(N + 1), NEW j \in 1..(N + 1), i < j PROVE new[i] # new[j]
    <3> DEFINE p == IF i < k + 1 THEN i ELSE i - 1
               q == IF j < k + 1 THEN j ELSE j - 1
    <3>1. CASE i = k + 1 \/ j = k + 1
      <4>1. CASE i = k + 1
        <5>1. j \in 1..(N + 1) /\ ~(j < k + 1) /\ j # k + 1 /\ j - 1 \in 1..N
          BY <1>3, <1>5, <2>4, <4>1
        <5>2. new[i] = t /\ new[j] = txs[j - 1]
          BY <1>8, <4>1, <5>1
        <5> QED
          BY <2>1, <5>1, <5>2
      <4>2. CASE j = k + 1
        <5>1. i \in 1..(N + 1) /\ i < k + 1 /\ i \in 1..N
          BY <1>3, <1>5, <2>4, <4>2
        <5>2. new[j] = t /\ new[i] = txs[i]
          BY <1>8, <2>4, <4>2, <5>1
        <5> QED
          BY <2>1, <5>1, <5>2
      <4> QED
        BY <3>1, <4>1, <4>2
    <3>2. CASE i # k + 1 /\ j # k + 1
      <4>1. p \in 1..N /\ q \in 1..N /\ p # q
        BY <1>3, <1>5, <2>4, <3>2
      <4>2. new[i] = txs[p] /\ new[j] = txs[q]
        BY <1>8, <3>2
      <4> QED
        BY <2>2, <4>1, <4>2
    <3> QED
      BY <3>1, <3>2
  <2>5. \A i, j \in 1..(N + 1) : new[i] = new[j] => i = j
    BY <1>3, <2>4
  <2> QED
    BY <2>3, <2>5 DEF IsInjective
<1>11. ASSUME NEW i \in 1..Len(new), NEW j \in 1..Len(new), i < j PROVE h[new[i]] <= h[new[j]]
  <2>1. i \in 1..(N + 1) /\ j \in 1..(N + 1)
    BY <1>8
  <2>3. CASE j < k + 1
    <3>1. i < k + 1 /\ i \in 1..N /\ j \in 1..N
      BY <1>3, <1>5, <1>11, <2>1, <2>3
    <3>2. new[i] = txs[i] /\ new[j] = txs[j]
      BY <1>8, <2>1, <2>3, <3>1
    <3> QED
      BY <1>11, <1>15, <3>1, <3>2
  <2>4. CASE j = k + 1
    BY <1>3, <1>5, <1>6, <1>8, <1>11, <2>1, <2>4
  <2>5. CASE j > k + 1
    <3>1. j - 1 \in 1..N /\ j - 1 \in (k + 1)..N /\ new[j] = txs[j - 1]
      BY <1>3, <1>5, <1>8, <2>1, <2>5
    <3>2. CASE i < k + 1
      <4>1. (i \in 1..N /\ i < j - 1) \/ i = j - 1
        BY <1>3, <1>5, <2>1, <2>5, <3>2
      <4>2. new[i] = txs[i] /\ i \in 1..N
        BY <1>3, <1>5, <1>8, <2>1, <3>2
      <4>3. CASE i = j - 1
        <5>1. txs[i] \in Tx
          BY <1>3, <4>2
        <5>2. h[txs[i]] \in Int
          BY <5>1, WalletFields
        <5> QED
          BY <3>1, <4>2, <4>3, <5>2
      <4> QED
        BY <1>15, <3>1, <4>1, <4>2, <4>3
    <3>3. CASE i = k + 1
      BY <1>7, <1>8, <2>1, <3>1, <3>3
    <3>4. CASE i > k + 1
      <4>1. i - 1 \in 1..N /\ i - 1 < j - 1 /\ new[i] = txs[i - 1]
        BY <1>3, <1>5, <1>8, <1>11, <2>1, <3>4
      <4> QED
        BY <1>15, <3>1, <4>1
    <3> QED
      BY <1>5, <2>1, <3>2, <3>3, <3>4
  <2> QED
    BY <1>5, <2>1, <2>3, <2>4, <2>5
<1>12. v \in Wallet /\ v.transactions = new /\ v.height = h /\ v.allTx = w.allTx
  BY <1>2, <1>8 DEF Wallet
<1> HIDE DEF v
<1>13. InOrder(v)
  <2>1. Range(v.transactions) \subseteq v.allTx
    BY <1>9, <1>12 DEF InOrder
  <2>2. Sorted(v)
    BY <1>11, <1>12 DEF Sorted
  <2> QED
    BY <1>10, <1>12, <2>1, <2>2 DEF InOrder
<1> QED
  BY <1>2, <1>8, <1>9, <1>12, <1>13 DEF v

-----------------------------------------------------------------------------
(* The ledger of a set of transactions: what the walk of UpdateBalance over   *)
(* them leaves.                                                              *)

Spent(ts) == UNION {Inputs[t] : t \in ts}
PaidBy(ts, addrs) == UNION {PaidTo(t, addrs) : t \in ts}

NonInvalid(w, ts) == ts \ w.invalidTx
CountedOf(w, ts) == ts \ (w.invalidTx \cup w.pendingTx)

Ledger(w, ts) ==
    /\ w.invalidTx \subseteq ts /\ w.pendingTx \subseteq ts
    /\ \A t \in w.invalidTx : Unconfirmed(w, t)
    /\ w.spentOutputs = Spent(NonInvalid(w, ts))
    /\ Range(w.utxos) \subseteq PaidBy(CountedOf(w, ts), w.ledgerAddrs) \ Spent(CountedOf(w, ts))
    /\ PaidBy(CountedOf(w, ts), w.ledgerAddrs) \ w.spentOutputs \subseteq Range(w.utxos)
    /\ \A t, u \in NonInvalid(w, ts) :
          t # u /\ Inputs[t] \cap Inputs[u] # {} => ~Unconfirmed(w, t) /\ ~Unconfirmed(w, u)
    /\ w.balance = AmountsOf(w.utxos)

LedgerOK(w) == Ledger(w, Range(w.transactions))

(* An address of a set that a transaction pays; none of its positions is     *)
(* above some bound.                                                         *)
AddrBound(addrs) == \E B \in Nat : \A a \in addrs : a[2] <= B

LEMMA OutputsType ==
    ASSUME NEW t \in Tx
    PROVE  /\ Len(Outputs[t]) \in Nat /\ DOMAIN Outputs[t] = 1..Len(Outputs[t])
           /\ \A i \in 1..Len(Outputs[t]) : Outputs[t][i].address \in STRING \X Nat
<1> DEFINE R == [address : STRING \X Nat, amount : Nat]
           o == Outputs[t]
<1>1. o \in Seq(R)
  BY TxAssumption
<1> HIDE DEF R, o
<1>2. /\ Len(o) \in Nat /\ DOMAIN o = 1..Len(o)
      /\ \A i \in 1..Len(o) : o[i] \in R
  BY <1>1
<1>3. \A x \in R : x.address \in STRING \X Nat
  BY DEF R
<1> QED
  BY <1>2, <1>3 DEF o

LEMMA AddrBoundUnion ==
    ASSUME NEW A \in SUBSET (STRING \X Nat), NEW B \in SUBSET (STRING \X Nat),
           AddrBound(A), AddrBound(B)
    PROVE  AddrBound(A \cup B)
<1>1. PICK m \in Nat : \A a \in A : a[2] <= m
  BY DEF AddrBound
<1>2. PICK n \in Nat : \A a \in B : a[2] <= n
  BY DEF AddrBound
<1>3. \A a \in A \cup B : a[2] \in Nat
  OBVIOUS
<1>4. m + n \in Nat /\ \A a \in A \cup B : a[2] <= m + n
  BY <1>1, <1>2, <1>3
<1> QED
  BY <1>4 DEF AddrBound

LEMMA AddrsOfTx ==
    ASSUME NEW t \in Tx
    PROVE  /\ {Outputs[t][i].address : i \in DOMAIN Outputs[t]} \in SUBSET (STRING \X Nat)
           /\ AddrBound({Outputs[t][i].address : i \in DOMAIN Outputs[t]})
<1> DEFINE N == Len(Outputs[t])
           a(i) == Outputs[t][i].address
           A(n) == {a(i) : i \in 1..n}
           K == {n \in 0..N : AddrBound(A(n))}
<1>1. N \in Nat /\ DOMAIN Outputs[t] = 1..N /\ \A i \in 1..N : a(i) \in STRING \X Nat
  BY OutputsType
<1> HIDE DEF a, N
<1>2. 0 \in K
  BY <1>1 DEF AddrBound
<1>3. ASSUME NEW n \in 0..(N - 1), n \in K PROVE n + 1 \in K
  <2>1. A(n + 1) = A(n) \cup {a(n + 1)} /\ n + 1 \in 0..N /\ n + 1 \in 1..N
    BY <1>1
  <2>2. A(n) \in SUBSET (STRING \X Nat) /\ {a(n + 1)} \in SUBSET (STRING \X Nat)
    BY <1>1, <2>1
  <2>3. AddrBound({a(n + 1)})
    <3>1. a(n + 1)[2] \in Nat
      BY <1>1, <2>1
    <3> QED
      BY <3>1 DEF AddrBound
  <2>4. AddrBound(A(n))
    BY <1>3
  <2> HIDE DEF A
  <2>5. AddrBound(A(n + 1))
    BY <2>1, <2>2, <2>3, <2>4, AddrBoundUnion
  <2> QED
    BY <2>1, <2>5
<1> HIDE DEF K
<1>4. \A n \in 0..N : n \in K
  BY <1>1, <1>2, <1>3, UpTo
<1>5. N \in K
  BY <1>1, <1>4
<1>6. AddrBound(A(N)) /\ A(N) \in SUBSET (STRING \X Nat)
  BY <1>1, <1>5 DEF K
<1>7. A(N) = {Outputs[t][i].address : i \in DOMAIN Outputs[t]}
  BY <1>1 DEF a
<1> HIDE DEF A
<1> QED
  BY <1>6, <1>7

LEMMA PaidToOutput ==
    ASSUME NEW t \in Tx, NEW addrs
    PROVE  PaidTo(t, addrs) \subseteq Output
<1>1. \A i \in 1..Len(Outputs[t]) : i - 1 \in Nat /\ (i - 1) + 1 = i
  BY OutputsType
<1>2. \A i \in DOMAIN Outputs[t] : <<t, i - 1>> \in Output
  BY <1>1, OutputsType DEF Output
<1> QED
  BY <1>2 DEF PaidTo, Utxo

LEMMA ReceivedList ==
    ASSUME NEW w, NEW t \in Tx
    PROVE  /\ Received(w, t) \in Seq(Output)
           /\ Range(Received(w, t)) = PaidTo(t, AllAddrs(w))
<1> DEFINE s == [i \in DOMAIN Outputs[t] |-> Utxo(t, i)]
           P == PaidTo(t, AllAddrs(w))
<1>1. \A i \in 1..Len(Outputs[t]) : Utxo(t, i) \in Output
  <2>1. \A i \in 1..Len(Outputs[t]) : i - 1 \in Nat /\ (i - 1) + 1 = i
    BY OutputsType
  <2> QED
    BY <2>1, OutputsType DEF Output, Utxo
<1>2. s \in Seq(Output)
  BY <1>1, OutputsType
<1>3. P \subseteq Range(s)
  BY DEF PaidTo, Range
<1>4. Received(w, t) = Within(s, P)
  BY DEF Received
<1> HIDE DEF s, P
<1>5. Range(s) \cap P = P
  BY <1>3
<1>6. Received(w, t) \in Seq(Output)
  BY <1>2, <1>4, WithinList
<1>7. Range(Within(s, P)) = Range(s) \cap P
  BY <1>2, WithinSet
<1>8. Range(Received(w, t)) = P
  BY <1>4, <1>5, <1>7
<1> QED
  BY <1>6, <1>8 DEF P

(* What a round of the walk leaves as it is. *)
SameList(v, w) ==
    /\ v.transactions = w.transactions /\ v.allTx = w.allTx
    /\ v.blockHeight = w.blockHeight /\ v.height = w.height /\ v.timestamp = w.timestamp
    /\ v.chain = w.chain

LEMMA AccountTxStep ==
    ASSUME NEW w \in Wallet, NEW t \in Tx, NEW L \in SUBSET Tx, t \notin L,
           Ledger(w, L), w.ledgerAddrs = AllAddrs(w), AddrBound(w.usedAddrs),
           \A u \in L : w.height[u] <= w.height[t]
    PROVE  /\ AccountTx(w, t) \in Wallet
           /\ SameList(AccountTx(w, t), w) /\ AccountTx(w, t).ledgerAddrs = w.ledgerAddrs
           /\ Ledger(AccountTx(w, t), L \cup {t})
           /\ AddrBound(AccountTx(w, t).usedAddrs)
<1> DEFINE v == AccountTx(w, t)
           M == L \cup {t}
           spent == w.spentOutputs \cup Inputs[t]
           got == Received(w, t)
           grown == w.utxos \o got
           dropped == Within(grown, spent)
           left == Without(grown, spent)
           addrs == {Outputs[t][i].address : i \in DOMAIN Outputs[t]}
           paid == PaidTo(t, w.ledgerAddrs)
<1>1. /\ w.utxos \in Seq(Output) /\ w.balance \in Int
      /\ w.invalidTx \in SUBSET Tx /\ w.pendingTx \in SUBSET Tx
      /\ w.spentOutputs \in SUBSET UNION {Inputs[u] : u \in Tx}
      /\ w.usedAddrs \in SUBSET (STRING \X Nat)
      /\ M \in SUBSET Tx
  BY WalletFields
<1>2. \A u \in Tx : w.height[u] \in Int /\ w.height[u] \in 0..TX_UNCONFIRMED
  BY WalletFields
<1>3. /\ w.invalidTx \subseteq L /\ w.pendingTx \subseteq L
      /\ \A u \in w.invalidTx : Unconfirmed(w, u)
      /\ w.spentOutputs = Spent(NonInvalid(w, L))
      /\ Range(w.utxos) \subseteq PaidBy(CountedOf(w, L), w.ledgerAddrs) \ Spent(CountedOf(w, L))
      /\ PaidBy(CountedOf(w, L), w.ledgerAddrs) \ w.spentOutputs \subseteq Range(w.utxos)
      /\ \A x, u \in NonInvalid(w, L) :
            x # u /\ Inputs[x] \cap Inputs[u] # {} => ~Unconfirmed(w, x) /\ ~Unconfirmed(w, u)
      /\ w.balance = AmountsOf(w.utxos)
  BY DEF Ledger
<1>4. spent \in SUBSET UNION {Inputs[u] : u \in Tx}
  BY <1>1
<1>5. CASE SpendsInvalid(w, t)
  <2>1. v = [w EXCEPT !.invalidTx = w.invalidTx \cup {t}]
    BY <1>5, Zenon DEF AccountTx
  <2>2. v \in Wallet
    BY <1>1, <2>1 DEF Wallet
  <2>3. /\ SameList(v, w) /\ v.ledgerAddrs = w.ledgerAddrs /\ v.usedAddrs = w.usedAddrs
        /\ v.invalidTx = w.invalidTx \cup {t} /\ v.pendingTx = w.pendingTx
        /\ v.spentOutputs = w.spentOutputs /\ v.utxos = w.utxos /\ v.balance = w.balance
    BY <2>1 DEF Wallet, SameList
  <2> HIDE DEF v
  <2>4. /\ NonInvalid(v, M) = NonInvalid(w, L) /\ CountedOf(v, M) = CountedOf(w, L)
    BY <1>3, <2>3 DEF NonInvalid, CountedOf
  <2>5. \A u \in Tx : Unconfirmed(v, u) <=> Unconfirmed(w, u)
    BY <2>3 DEF Unconfirmed, SameList
  <2>6. Unconfirmed(w, t)
    BY <1>5 DEF SpendsInvalid
  <2>7. \A u \in v.invalidTx : Unconfirmed(v, u)
    BY <1>1, <1>3, <2>3, <2>5, <2>6
  <2>8. \A x, u \in NonInvalid(v, M) :
           x # u /\ Inputs[x] \cap Inputs[u] # {} => ~Unconfirmed(v, x) /\ ~Unconfirmed(v, u)
    BY <1>3, <2>3, <2>4 DEF Unconfirmed, SameList
  <2>9. v.invalidTx \subseteq M /\ v.pendingTx \subseteq M
    BY <1>3, <2>3
  <2>10. Ledger(v, M)
    BY <1>3, <2>3, <2>4, <2>7, <2>8, <2>9 DEF Ledger
  <2> QED
    BY <2>2, <2>3, <2>10 DEF v
<1>6. CASE ~SpendsInvalid(w, t)
  <2>1. t \notin w.invalidTx /\ NonInvalid(w, M) = NonInvalid(w, L) \cup {t}
    BY <1>3 DEF NonInvalid
  <2>2. spent = Spent(NonInvalid(w, M))
    <3> DEFINE I == NonInvalid(w, L)
    <3>1. Spent(I \cup {t}) = Spent(I) \cup Inputs[t]
      BY DEF Spent
    <3> HIDE DEF I
    <3> QED
      BY <1>3, <2>1, <3>1 DEF I
  <2>3. ASSUME NEW u \in NonInvalid(w, L), Inputs[t] \cap Inputs[u] # {}
        PROVE  ~Unconfirmed(w, t) /\ ~Unconfirmed(w, u)
    <3>1. PICK i \in Inputs[t] : i \in w.spentOutputs
      BY <1>3, <2>3 DEF Spent
    <3>2. ~Unconfirmed(w, t)
      BY <1>6, <3>1 DEF SpendsInvalid
    <3>3. u \in L /\ u \in Tx
      BY <2>3 DEF NonInvalid
    <3>4. w.height[u] <= w.height[t] /\ w.height[t] # TX_UNCONFIRMED
      BY <3>2, <3>3 DEF Unconfirmed
    <3>5. w.height[u] # TX_UNCONFIRMED
      BY <1>2, <3>3, <3>4, TxUnconfirmedNat
    <3> QED
      BY <3>2, <3>5 DEF Unconfirmed
  <2>4. \A x, u \in NonInvalid(w, M) :
           x # u /\ Inputs[x] \cap Inputs[u] # {} => ~Unconfirmed(w, x) /\ ~Unconfirmed(w, u)
    <3> SUFFICES ASSUME NEW x \in NonInvalid(w, M), NEW u \in NonInvalid(w, M),
                        x # u, Inputs[x] \cap Inputs[u] # {}
                 PROVE  ~Unconfirmed(w, x) /\ ~Unconfirmed(w, u)
      OBVIOUS
    <3>1. Inputs[u] \cap Inputs[x] # {}
      OBVIOUS
    <3>2. CASE x = t
      BY <2>1, <2>3, <3>2
    <3>3. CASE u = t
      BY <2>1, <2>3, <3>1, <3>3
    <3>4. CASE x # t /\ u # t
      BY <1>3, <2>1, <3>4
    <3> QED
      BY <3>2, <3>3, <3>4
  <2>5. CASE IsPostdated(w, t)
    <3>1. v = [w EXCEPT !.spentOutputs = spent, !.pendingTx = w.pendingTx \cup {t}]
      BY <1>6, <2>5, Zenon DEF AccountTx
    <3> HIDE DEF spent
    <3>2. v \in Wallet
      BY <1>1, <1>4, <3>1 DEF Wallet
    <3>3. /\ SameList(v, w) /\ v.ledgerAddrs = w.ledgerAddrs /\ v.usedAddrs = w.usedAddrs
          /\ v.invalidTx = w.invalidTx /\ v.pendingTx = w.pendingTx \cup {t}
          /\ v.spentOutputs = spent /\ v.utxos = w.utxos /\ v.balance = w.balance
      BY <3>1 DEF Wallet, SameList
    <3> HIDE DEF v
    <3>4. /\ NonInvalid(v, M) = NonInvalid(w, M) /\ CountedOf(v, M) = CountedOf(w, L)
      BY <1>3, <3>3 DEF NonInvalid, CountedOf
    <3>5. w.spentOutputs \subseteq spent
      BY DEF spent
    <3>6. \A u \in v.invalidTx : Unconfirmed(v, u)
      BY <1>3, <3>3 DEF Unconfirmed, SameList
    <3>7. \A x, u \in NonInvalid(v, M) :
             x # u /\ Inputs[x] \cap Inputs[u] # {} => ~Unconfirmed(v, x) /\ ~Unconfirmed(v, u)
      BY <2>4, <3>3, <3>4 DEF Unconfirmed, SameList
    <3>8. v.invalidTx \subseteq M /\ v.pendingTx \subseteq M
      BY <1>3, <3>3
    <3>9. PaidBy(CountedOf(w, L), w.ledgerAddrs) \ spent \subseteq Range(w.utxos)
      BY <1>3, <3>5
    <3>10. Ledger(v, M)
      BY <1>3, <2>2, <3>3, <3>4, <3>6, <3>7, <3>8, <3>9 DEF Ledger
    <3> QED
      BY <3>2, <3>3, <3>10 DEF v
  <2>6. CASE ~IsPostdated(w, t)
    <3>1. v = [w EXCEPT !.spentOutputs = spent, !.usedAddrs = w.usedAddrs \cup addrs,
                        !.utxos = left,
                        !.balance = w.balance + AmountsOf(got) - AmountsOf(dropped)]
      BY <1>6, <2>6, Zenon DEF AccountTx
    <3>2. got \in Seq(Output) /\ Range(got) = paid
      BY ReceivedList
    <3>3. addrs \in SUBSET (STRING \X Nat) /\ AddrBound(addrs)
      BY AddrsOfTx
    <3>4. AddrBound(w.usedAddrs \cup addrs)
      BY <1>1, <3>3, AddrBoundUnion
    <3> HIDE DEF got, spent, addrs, paid
    <3>5. grown \in Seq(Output) /\ Range(grown) = Range(w.utxos) \cup paid
      BY <1>1, <3>2, RangeConcatenation
    <3>6. AmountsOf(grown) = AmountsOf(w.utxos) + AmountsOf(got)
      BY <1>1, <3>2, AmountsOfConcat
    <3> HIDE DEF grown
    <3>7. AmountsOf(grown) = AmountsOf(dropped) + AmountsOf(left)
      BY <3>5, AmountsOfSplit
    <3>8. left \in Seq(Output) /\ Range(left) = Range(grown) \ spent
      BY <3>5, WithoutSet
    <3>9. dropped \in Seq(Output)
      BY <3>5, WithinList
    <3> HIDE DEF dropped, left
    <3>10. /\ AmountsOf(got) \in Nat /\ AmountsOf(dropped) \in Nat /\ AmountsOf(left) \in Nat
           /\ AmountsOf(w.utxos) \in Nat
      BY <1>1, <3>2, <3>8, <3>9, AmountsOfType
    <3> DEFINE bal == w.balance + AmountsOf(got) - AmountsOf(dropped)
    <3>11. bal = AmountsOf(left) /\ bal \in Int
      BY <1>3, <3>6, <3>7, <3>10
    <3> HIDE DEF bal
    <3>12. v = [w EXCEPT !.spentOutputs = spent, !.usedAddrs = w.usedAddrs \cup addrs,
                         !.utxos = left, !.balance = bal]
      BY <3>1 DEF bal
    <3>13. v \in Wallet
      <4> DEFINE used == w.usedAddrs \cup addrs
      <4>1. used \in SUBSET (STRING \X Nat)
        BY <1>1, <3>3
      <4> HIDE DEF used
      <4>2. v = [w EXCEPT !.spentOutputs = spent, !.usedAddrs = used,
                          !.utxos = left, !.balance = bal]
        BY <3>12 DEF used
      <4> QED
        BY <1>4, <3>8, <3>11, <4>1, <4>2 DEF Wallet
    <3>14. /\ SameList(v, w) /\ v.ledgerAddrs = w.ledgerAddrs
           /\ v.usedAddrs = w.usedAddrs \cup addrs
           /\ v.invalidTx = w.invalidTx /\ v.pendingTx = w.pendingTx
           /\ v.spentOutputs = spent /\ v.utxos = left /\ v.balance = bal
      BY <3>12 DEF Wallet, SameList
    <3> HIDE DEF v
    <3>15. /\ NonInvalid(v, M) = NonInvalid(w, M)
           /\ CountedOf(v, M) = CountedOf(w, L) \cup {t}
      BY <1>3, <3>14 DEF NonInvalid, CountedOf
    <3>16. \A u \in v.invalidTx : Unconfirmed(v, u)
      BY <1>3, <3>14 DEF Unconfirmed, SameList
    <3>17. \A x, u \in NonInvalid(v, M) :
              x # u /\ Inputs[x] \cap Inputs[u] # {} => ~Unconfirmed(v, x) /\ ~Unconfirmed(v, u)
      BY <2>4, <3>14, <3>15 DEF Unconfirmed, SameList
    <3>18. v.invalidTx \subseteq M /\ v.pendingTx \subseteq M
      BY <1>3, <3>14
    <3>19. PaidBy(CountedOf(v, M), v.ledgerAddrs) =
             PaidBy(CountedOf(w, L), w.ledgerAddrs) \cup paid
      BY <3>14, <3>15 DEF PaidBy, paid
    <3>20. Spent(CountedOf(v, M)) \subseteq spent
      <4>1. CountedOf(v, M) \subseteq NonInvalid(w, M)
        BY <3>14 DEF CountedOf, NonInvalid
      <4> QED
        BY <2>2, <4>1 DEF Spent
    <3>21. w.spentOutputs \subseteq spent
      BY DEF spent
    <3>22. Range(left) \subseteq PaidBy(CountedOf(v, M), v.ledgerAddrs) \ Spent(CountedOf(v, M))
      BY <1>3, <3>5, <3>8, <3>19, <3>20
    <3>23. PaidBy(CountedOf(v, M), v.ledgerAddrs) \ spent \subseteq Range(left)
      BY <1>3, <3>5, <3>8, <3>19, <3>21
    <3>24. Ledger(v, M)
      BY <2>2, <3>11, <3>14, <3>15, <3>16, <3>17, <3>18, <3>22, <3>23 DEF Ledger
    <3> QED
      BY <3>4, <3>13, <3>14, <3>24 DEF v
  <2> QED
    BY <2>5, <2>6
<1> QED
  BY <1>5, <1>6

-----------------------------------------------------------------------------
(* UpdateBalance: the walk over the whole list. *)

LEMMA WalkEquations ==
    ASSUME NEW w \in Wallet
    PROVE  \E f : /\ UpdateBalance(w) = f[Len(w.transactions)]
                  /\ f[0] = ClearedLedger(w)
                  /\ \A n \in 0..(Len(w.transactions) - 1) :
                        f[n + 1] = AccountTx(f[n], w.transactions[n + 1])
<1> DEFINE N == Len(w.transactions)
           step(x, n) == AccountTx(x, w.transactions[n])
           is(h, k) == h = [n \in 0..k |-> IF n = 0 THEN ClearedLedger(w) ELSE step(h[n - 1], n)]
           K == {k \in 0..N : \E h : is(h, k)}
           f == CHOOSE h : is(h, N)
<1>1. UpdateBalance(w) = f[N] /\ N \in Nat
  <2>1. UpdateBalance(w) = f[N]
    BY Zenon DEF UpdateBalance
  <2>2. N \in Nat
    BY WalletFields
  <2> QED
    BY <2>1, <2>2
<1> HIDE DEF N
<1>2. \A k \in 0..N : k \in K
  <2> HIDE DEF step
  <2>1. 0 \in K
    <3>1. is([n \in 0..0 |-> ClearedLedger(w)], 0)
      OBVIOUS
    <3>2. 0 \in 0..N
      BY <1>1
    <3> HIDE DEF is
    <3> QED
      BY <3>1, <3>2
  <2>2. ASSUME NEW k \in 0..(N - 1), k \in K PROVE k + 1 \in K
    <3>1. PICK h : is(h, k)
      BY <2>2
    <3> DEFINE g == [n \in 0..(k + 1) |-> IF n <= k THEN h[n] ELSE step(h[k], k + 1)]
    <3>2. is(g, k + 1)
      BY <1>1, <3>1
    <3>3. k + 1 \in 0..N
      BY <1>1
    <3> HIDE DEF is
    <3> QED
      BY <3>2, <3>3
  <2> HIDE DEF K
  <2> QED
    BY <1>1, <2>1, <2>2, UpTo
<1>3. is(f, N)
  <2>1. N \in 0..N
    BY <1>1
  <2>2. \E h : is(h, N)
    BY <1>2, <2>1
  <2> QED
    BY <2>2, Zenon
<1> HIDE DEF f
<1>4. f[0] = ClearedLedger(w) /\ \A n \in 0..(N - 1) : f[n + 1] = step(f[n], n + 1)
  <2> HIDE DEF step
  <2> QED
    BY <1>1, <1>3
<1> QED
  BY <1>1, <1>4 DEF N

LEMMA AllAddrsType ==
    ASSUME NEW w \in Wallet
    PROVE  AllAddrs(w) \in SUBSET (Chains \X Nat)
<1>1. \A c \in Chains : w.chain[c] \in Nat
  BY WalletFields
<1>2. \A c \in Chains : 0..(w.chain[c] - 1) \subseteq Nat
  BY <1>1
<1>3. \A c \in Chains : {c} \X (0..(w.chain[c] - 1)) \subseteq Chains \X Nat
  BY <1>1, <1>2
<1> QED
  BY <1>3 DEF AllAddrs

(* Whatever the ledger was, it is then that of the list.                      *)
LEMMA UpdateBalanceLedger ==
    ASSUME NEW w \in Wallet, InOrder(w)
    PROVE  /\ UpdateBalance(w) \in Wallet
           /\ SameList(UpdateBalance(w), w) /\ UpdateBalance(w).ledgerAddrs = AllAddrs(w)
           /\ LedgerOK(UpdateBalance(w)) /\ AddrBound(UpdateBalance(w).usedAddrs)
<1> DEFINE txs == w.transactions
           N == Len(txs)
           L(n) == {txs[i] : i \in 1..n}
           c == ClearedLedger(w)
<1>1. txs \in Seq(Tx) /\ N \in Nat /\ \A i \in 1..N : txs[i] \in Tx
  BY WalletFields
<1>2. PICK f : /\ UpdateBalance(w) = f[N]
               /\ f[0] = c
               /\ \A n \in 0..(N - 1) : f[n + 1] = AccountTx(f[n], txs[n + 1])
  BY WalkEquations
<1> DEFINE P(v, n) == /\ v \in Wallet /\ SameList(v, w) /\ v.ledgerAddrs = AllAddrs(w)
                      /\ Ledger(v, L(n)) /\ AddrBound(v.usedAddrs)
           G == {n \in 0..N : P(f[n], n)}
<1>3. P(c, 0)
  <2>1. c \in Wallet
    <3>1. AllAddrs(w) \in SUBSET (Chains \X Nat) /\ << >> \in Seq(Output)
      BY AllAddrsType
    <3> DEFINE S == UNION {Inputs[t] : t \in Tx}
               e == << >>
               A == AllAddrs(w)
    <3>2. /\ {} \in SUBSET S /\ {} \in SUBSET Tx /\ 0 \in Int /\ {} \in SUBSET (STRING \X Nat)
          /\ e \in Seq(Output) /\ A \in SUBSET (Chains \X Nat)
      BY <3>1
    <3>3. c = [w EXCEPT !.utxos = e, !.balance = 0, !.spentOutputs = {}, !.invalidTx = {},
                        !.pendingTx = {}, !.usedAddrs = {}, !.ledgerAddrs = A]
      BY DEF ClearedLedger
    <3> HIDE DEF S, e, A, c
    <3> QED
      BY <3>2, <3>3 DEF Wallet, S
  <2>2. /\ SameList(c, w) /\ c.ledgerAddrs = AllAddrs(w)
        /\ c.utxos = << >> /\ c.balance = 0 /\ c.spentOutputs = {} /\ c.usedAddrs = {}
        /\ c.invalidTx = {} /\ c.pendingTx = {}
    BY DEF ClearedLedger, Wallet, SameList
  <2>3. L(0) = {}
    OBVIOUS
  <2> HIDE DEF c, L
  <2>4. NonInvalid(c, L(0)) = {} /\ CountedOf(c, L(0)) = {} /\ Range(c.utxos) = {}
    BY <2>2, <2>3 DEF NonInvalid, CountedOf, Range
  <2>5. Spent({}) = {} /\ \A A : PaidBy({}, A) = {}
    BY DEF Spent, PaidBy
  <2>6. Ledger(c, L(0))
    BY <2>2, <2>3, <2>4, <2>5, AmountsOfEmpty DEF Ledger
  <2>7. AddrBound(c.usedAddrs)
    BY <2>2 DEF AddrBound
  <2> QED
    BY <2>1, <2>2, <2>6, <2>7
<1>4. ASSUME NEW n \in 0..(N - 1), NEW v, P(v, n) PROVE P(AccountTx(v, txs[n + 1]), n + 1)
  <2> DEFINE t == txs[n + 1]
  <2>1. n + 1 \in 1..N /\ t \in Tx /\ \A i \in 1..n : i \in 1..N /\ i < n + 1
    BY <1>1
  <2>2. L(n + 1) = L(n) \cup {t}
    BY <2>1
  <2>3. L(n) \in SUBSET Tx
    BY <1>1, <2>1
  <2>4. t \notin L(n)
    <3>1. \A i, j \in 1..N : txs[i] = txs[j] => i = j
      BY <1>1 DEF InOrder, IsInjective
    <3>2. n + 1 \notin 1..n
      BY <2>1
    <3> QED
      BY <2>1, <3>1, <3>2
  <2>5. \A u \in L(n) : v.height[u] <= v.height[t]
    <3>1. v.height = w.height
      BY <1>4 DEF SameList
    <3>2. \A i, j \in 1..N : i < j => w.height[txs[i]] <= w.height[txs[j]]
      BY DEF InOrder, Sorted
    <3> QED
      BY <2>1, <3>1, <3>2
  <2>6. AllAddrs(v) = AllAddrs(w)
    BY <1>4 DEF AllAddrs, SameList
  <2>7. /\ v \in Wallet /\ SameList(v, w) /\ v.ledgerAddrs = AllAddrs(v)
        /\ Ledger(v, L(n)) /\ AddrBound(v.usedAddrs)
    BY <1>4, <2>6
  <2> HIDE DEF L, t
  <2>8. /\ AccountTx(v, t) \in Wallet
        /\ SameList(AccountTx(v, t), v) /\ AccountTx(v, t).ledgerAddrs = v.ledgerAddrs
        /\ Ledger(AccountTx(v, t), L(n) \cup {t})
        /\ AddrBound(AccountTx(v, t).usedAddrs)
    BY <2>1, <2>3, <2>4, <2>5, <2>7, AccountTxStep
  <2>9. SameList(AccountTx(v, t), w)
    BY <2>7, <2>8 DEF SameList
  <2>10. P(AccountTx(v, t), n + 1)
    BY <2>2, <2>6, <2>7, <2>8, <2>9
  <2> QED
    BY <2>10 DEF t
<1>5. L(N) = Range(txs)
  BY <1>1 DEF Range
<1> HIDE DEF P, c, L
<1>6. 0 \in G
  BY <1>1, <1>2, <1>3
<1>7. ASSUME NEW n \in 0..(N - 1), n \in G PROVE n + 1 \in G
  <2>1. P(f[n], n) /\ n + 1 \in 0..N
    BY <1>1, <1>7
  <2>2. P(AccountTx(f[n], txs[n + 1]), n + 1)
    BY <1>4, <2>1
  <2> QED
    BY <1>2, <2>1, <2>2
<1> HIDE DEF G
<1>8. \A n \in 0..N : n \in G
  BY <1>1, <1>6, <1>7, UpTo
<1>9. P(f[N], N)
  BY <1>1, <1>8 DEF G
<1> DEFINE v == UpdateBalance(w)
<1>10. /\ v \in Wallet /\ SameList(v, w) /\ v.ledgerAddrs = AllAddrs(w)
       /\ Ledger(v, Range(txs)) /\ AddrBound(v.usedAddrs)
  BY <1>2, <1>5, <1>9 DEF P
<1>11. LedgerOK(v)
  BY <1>10 DEF LedgerOK, SameList
<1> QED
  BY <1>10, <1>11

-----------------------------------------------------------------------------
(* The addresses: a chain of them only grows, and nothing else changes.       *)

LEMMA UnusedAddrsChain ==
    ASSUME NEW w \in Wallet, AddrBound(w.usedAddrs), NEW c \in Chains, NEW gap \in Nat
    PROVE  /\ UnusedAddrs(w, c, gap) = [w EXCEPT !.chain = UnusedAddrs(w, c, gap).chain]
           /\ UnusedAddrs(w, c, gap).chain \in [Chains -> Nat]
           /\ UnusedAddrs(w, c, gap) \in Wallet
           /\ \A d \in Chains : w.chain[d] <= UnusedAddrs(w, c, gap).chain[d]
           /\ \A d \in Chains : d # c => UnusedAddrs(w, c, gap).chain[d] = w.chain[d]
           /\ FirstUnused(w, c, UnusedAddrs(w, c, gap).chain[c]) + gap
                <= UnusedAddrs(w, c, gap).chain[c]
<1> DEFINE mine == {u \in w.usedAddrs : u[1] = c}
           used == {a[2] : a \in mine}
           T == {w.chain[c]} \cup {k + 1 : k \in used}
           enough == Max(T) + gap
           S == {n \in w.chain[c]..enough : FirstUnused(w, c, n) + gap <= n}
           v == UnusedAddrs(w, c, gap)
<1>1. v = [w EXCEPT !.chain[c] = Min(S)]
  BY Zenon DEF UnusedAddrs
<1>2. PICK B \in Nat : \A a \in w.usedAddrs : a[2] <= B
  BY DEF AddrBound
<1>3. w.chain \in [Chains -> Nat] /\ w.chain[c] \in Nat
  BY WalletFields
<1>4. \A a \in mine : a[2] \in Nat /\ a[2] <= B
  BY <1>2, WalletFields
<1> HIDE DEF mine
<1>5. Max(T) \in T /\ \A x \in T : x <= Max(T)
  <2> DEFINE m == w.chain[c] + B + 1
  <2>1. m \in Nat
    BY <1>3
  <2>2. T \in SUBSET (0..m)
    BY <1>3, <1>4
  <2>3. T # {}
    OBVIOUS
  <2> HIDE DEF T, m
  <2> QED
    BY <2>1, <2>2, <2>3, MaxIsGreatest
<1>6. T \in SUBSET Nat
  BY <1>3, <1>4
<1> DEFINE M == Max(T)
<1>7. M \in Nat /\ w.chain[c] <= M /\ \A a \in mine : a[2] + 1 <= M
  BY <1>5, <1>6
<1> HIDE DEF T, M
<1>8. enough \in Nat /\ enough = M + gap /\ w.chain[c] <= enough
  BY <1>3, <1>7 DEF M
<1>9. FirstUnused(w, c, enough) \in Nat /\ FirstUnused(w, c, enough) <= M
  <2> DEFINE A == {u \in w.usedAddrs : u[1] = c /\ u[2] < enough}
             U == {0} \cup {a[2] + 1 : a \in A}
  <2>1. A \subseteq mine
    BY DEF mine
  <2>2. FirstUnused(w, c, enough) = Max(U)
    BY Zenon DEF FirstUnused
  <2> HIDE DEF A, enough
  <2>3. U \in SUBSET (0..M) /\ U # {}
    BY <1>4, <1>7, <2>1
  <2> HIDE DEF U
  <2>4. Max(U) \in U
    BY <1>7, <2>3, MaxIsGreatest
  <2>6. M \in Nat
    BY <1>7
  <2>7. Max(U) \in 0..M
    BY <2>3, <2>4, Zenon
  <2>5. Max(U) \in Nat /\ Max(U) <= M
    BY <2>6, <2>7
  <2> QED
    BY <2>2, <2>5
<1>10. enough \in S
  <2> HIDE DEF enough
  <2> QED
    BY <1>3, <1>7, <1>8, <1>9
<1>11. S \in SUBSET Nat
  <2> HIDE DEF enough
  <2> QED
    BY <1>3, <1>8
<1>12. Min(S) \in S
  <2> HIDE DEF S
  <2> QED
    BY <1>10, <1>11, MinIsLeast
<1> DEFINE k == Min(S)
<1>13. k \in Nat /\ w.chain[c] <= k
  <2> HIDE DEF enough
  <2> QED
    BY <1>3, <1>8, <1>11, <1>12
<1>18. FirstUnused(w, c, k) + gap <= k
  <2>1. \A n \in S : FirstUnused(w, c, n) + gap <= n
    OBVIOUS
  <2> HIDE DEF S
  <2> QED
    BY <1>12, <2>1
<1> HIDE DEF S, k
<1>14. v = [w EXCEPT !.chain[c] = k]
  BY <1>1 DEF k
<1> HIDE DEF v
<1> DEFINE ch == [w.chain EXCEPT ![c] = k]
<1>15. ch \in [Chains -> Nat] /\ \A d \in Chains : w.chain[d] <= ch[d]
  BY <1>3, <1>13
<1>16. v = [w EXCEPT !.chain = ch]
  BY <1>14
<1> HIDE DEF ch
<1>17. v \in Wallet /\ v.chain = ch
  BY <1>15, <1>16 DEF Wallet
<1>19. v.chain[c] = k /\ \A d \in Chains : d # c => v.chain[d] = w.chain[d]
  BY <1>3, <1>17 DEF ch
<1>20. FirstUnused(w, c, v.chain[c]) + gap <= v.chain[c]
  BY <1>18, <1>19
<1> QED
  BY <1>15, <1>16, <1>17, <1>19, <1>20 DEF v

LEMMA GrowChainsChain ==
    ASSUME NEW w \in Wallet, AddrBound(w.usedAddrs), NEW more \in Nat
    PROVE  /\ GrowChains(w, more) = [w EXCEPT !.chain = GrowChains(w, more).chain]
           /\ GrowChains(w, more) \in Wallet
           /\ \A d \in Chains : w.chain[d] <= GrowChains(w, more).chain[d]
           /\ \A d \in Chains : FirstUnused(w, d, GrowChains(w, more).chain[d])
                + (GapLimit[d] + more) <= GrowChains(w, more).chain[d]
<1> DEFINE g == GapLimit["external"] + more
           h == GapLimit["internal"] + more
           u == UnusedAddrs(w, "external", g)
           v == UnusedAddrs(u, "internal", h)
<1>1. "external" \in Chains /\ "internal" \in Chains
  BY DEF Chains
<1>2. g \in Nat /\ h \in Nat
  BY <1>1, TxAssumption
<1> HIDE DEF g, h
<1>3. /\ u = [w EXCEPT !.chain = u.chain] /\ u \in Wallet
      /\ \A d \in Chains : w.chain[d] <= u.chain[d]
      /\ FirstUnused(w, "external", u.chain["external"]) + g <= u.chain["external"]
  <2>1. "external" \in Chains /\ g \in Nat
    BY <1>1, <1>2
  <2> QED
    BY <2>1, UnusedAddrsChain
<1> HIDE DEF u
<1>4. AddrBound(u.usedAddrs)
  <2>1. u.usedAddrs = w.usedAddrs
    BY <1>3 DEF Wallet
  <2> QED
    BY <2>1
<1>5. /\ v = [u EXCEPT !.chain = v.chain] /\ v \in Wallet
      /\ \A d \in Chains : u.chain[d] <= v.chain[d]
      /\ FirstUnused(u, "internal", v.chain["internal"]) + h <= v.chain["internal"]
      /\ \A d \in Chains : d # "internal" => v.chain[d] = u.chain[d]
  <2>1. u \in Wallet /\ AddrBound(u.usedAddrs) /\ "internal" \in Chains /\ h \in Nat
    BY <1>1, <1>2, <1>3, <1>4
  <2> QED
    BY <2>1, UnusedAddrsChain
<1>6. GrowChains(w, more) = v
  BY Zenon DEF GrowChains, g, h, u
<1> HIDE DEF v
<1>7. v = [w EXCEPT !.chain = v.chain]
  <2> DEFINE a == u.chain
             b == v.chain
  <2>1. u = [w EXCEPT !.chain = a] /\ v = [u EXCEPT !.chain = b]
    BY <1>3, <1>5
  <2> HIDE DEF a, b
  <2>2. v = [w EXCEPT !.chain = b]
    BY <2>1 DEF Wallet
  <2> QED
    BY <2>2 DEF b
<1>8. \A d \in Chains : w.chain[d] <= v.chain[d]
  <2>1. \A d \in Chains : w.chain[d] \in Nat /\ u.chain[d] \in Nat /\ v.chain[d] \in Nat
    BY <1>3, <1>5, WalletFields
  <2> QED
    BY <1>3, <1>5, <2>1
<1>9. FirstUnused(u, "internal", v.chain["internal"]) = FirstUnused(w, "internal", v.chain["internal"])
  <2>1. u.usedAddrs = w.usedAddrs
    BY <1>3 DEF Wallet
  <2> QED
    BY <2>1 DEF FirstUnused
<1>10. \A d \in Chains : FirstUnused(w, d, v.chain[d]) + (GapLimit[d] + more) <= v.chain[d]
  <2>1. v.chain["external"] = u.chain["external"]
    BY <1>1, <1>5
  <2>2. FirstUnused(w, "external", v.chain["external"]) + g <= v.chain["external"]
    BY <1>3, <2>1
  <2>3. FirstUnused(w, "internal", v.chain["internal"]) + h <= v.chain["internal"]
    BY <1>5, <1>9
  <2> QED
    BY <2>2, <2>3 DEF g, h, Chains
<1> QED
  BY <1>5, <1>6, <1>7, <1>8, <1>10

-----------------------------------------------------------------------------
(* The invariant of a wallet.  The ledger may lag behind the chain of         *)
(* addresses, never behind the list.                                         *)

Shape(w) ==
    /\ w \in Wallet /\ InOrder(w) /\ AddrBound(w.usedAddrs)
    /\ \A t \in Tx \ w.allTx : Unconfirmed(w, t)

WalletOK(w) == Shape(w) /\ LedgerOK(w)

SameLedger(v, w) ==
    /\ v.utxos = w.utxos /\ v.balance = w.balance /\ v.spentOutputs = w.spentOutputs
    /\ v.invalidTx = w.invalidTx /\ v.pendingTx = w.pendingTx
    /\ v.ledgerAddrs = w.ledgerAddrs /\ v.usedAddrs = w.usedAddrs

(* The ledger stays right while the same transactions are listed, none of     *)
(* them becomes unconfirmed, and no invalid one confirmed.                    *)
LEMMA LedgerKept ==
    ASSUME NEW v, NEW w, LedgerOK(w), SameLedger(v, w),
           Range(v.transactions) = Range(w.transactions),
           \A t \in Range(w.transactions) : ~Unconfirmed(w, t) => ~Unconfirmed(v, t),
           \A t \in w.invalidTx : Unconfirmed(v, t)
    PROVE  LedgerOK(v)
<1> DEFINE L == Range(w.transactions)
<1>1. Ledger(w, L)
  BY DEF LedgerOK
<1>2. NonInvalid(v, L) = NonInvalid(w, L) /\ CountedOf(v, L) = CountedOf(w, L)
  BY DEF NonInvalid, CountedOf, SameLedger
<1>3. NonInvalid(w, L) \subseteq L
  BY DEF NonInvalid
<1> HIDE DEF L
<1>4. \A t, u \in NonInvalid(v, L) :
         t # u /\ Inputs[t] \cap Inputs[u] # {} => ~Unconfirmed(v, t) /\ ~Unconfirmed(v, u)
  <2> SUFFICES ASSUME NEW t \in NonInvalid(v, L), NEW u \in NonInvalid(v, L),
                      t # u, Inputs[t] \cap Inputs[u] # {}
               PROVE  ~Unconfirmed(v, t) /\ ~Unconfirmed(v, u)
    OBVIOUS
  <2>1. ~Unconfirmed(w, t) /\ ~Unconfirmed(w, u)
    BY <1>1, <1>2 DEF Ledger
  <2>2. t \in L /\ u \in L
    BY <1>2, <1>3
  <2> QED
    BY <2>1, <2>2 DEF L
<1>5. Ledger(v, L)
  BY <1>1, <1>2, <1>4 DEF Ledger, SameLedger
<1> QED
  BY <1>5 DEF LedgerOK, L

LEMMA SameListShape ==
    ASSUME NEW v \in Wallet, NEW w, Shape(w), SameList(v, w), AddrBound(v.usedAddrs)
    PROVE  Shape(v)
  BY DEF Shape, SameList, InOrder, Sorted, Unconfirmed

(* UpdateBalance makes of any list in order a wallet that is right.           *)
LEMMA UpdateBalanceOK ==
    ASSUME NEW w, Shape(w)
    PROVE  /\ WalletOK(UpdateBalance(w)) /\ SameList(UpdateBalance(w), w)
           /\ UpdateBalance(w).ledgerAddrs = AllAddrs(w)
<1> DEFINE v == UpdateBalance(w)
<1>1. w \in Wallet /\ InOrder(w)
  BY DEF Shape
<1>2. /\ v \in Wallet /\ SameList(v, w) /\ v.ledgerAddrs = AllAddrs(w)
      /\ LedgerOK(v) /\ AddrBound(v.usedAddrs)
  BY <1>1, UpdateBalanceLedger
<1> HIDE DEF v
<1>3. Shape(v)
  BY <1>2, SameListShape
<1> QED
  BY <1>2, <1>3 DEF WalletOK, v

LEMMA GrowChainsOK ==
    ASSUME NEW w, Shape(w), NEW more \in Nat
    PROVE  /\ Shape(GrowChains(w, more))
           /\ LedgerOK(w) => LedgerOK(GrowChains(w, more))
           /\ GrowChains(w, more) = [w EXCEPT !.chain = GrowChains(w, more).chain]
<1> DEFINE v == GrowChains(w, more)
           ch == v.chain
<1>1. w \in Wallet /\ AddrBound(w.usedAddrs)
  BY DEF Shape
<1>2. v = [w EXCEPT !.chain = ch] /\ v \in Wallet
  BY <1>1, GrowChainsChain
<1> HIDE DEF v, ch
<1>3. /\ v.transactions = w.transactions /\ v.allTx = w.allTx /\ v.height = w.height
      /\ v.usedAddrs = w.usedAddrs /\ SameLedger(v, w)
  BY <1>1, <1>2 DEF Wallet, SameLedger
<1>4. Shape(v)
  BY <1>1, <1>2, <1>3 DEF Shape, InOrder, Sorted, Unconfirmed
<1>5. LedgerOK(w) => LedgerOK(v)
  <2> SUFFICES ASSUME LedgerOK(w) PROVE LedgerOK(v)
    OBVIOUS
  <2>1. \A t : Unconfirmed(v, t) <=> Unconfirmed(w, t)
    BY <1>3 DEF Unconfirmed
  <2>2. \A t \in w.invalidTx : Unconfirmed(v, t)
    BY <2>1 DEF LedgerOK, Ledger
  <2> QED
    BY <1>3, <2>1, <2>2, LedgerKept
<1> QED
  BY <1>2, <1>4, <1>5 DEF v, ch

(* BRWalletRegisterTransaction.  What it adds is unconfirmed.                 *)
LEMMA RegisterOK ==
    ASSUME NEW w, WalletOK(w), NEW t \in Tx
    PROVE  /\ WalletOK(RegisterTransaction(w, t))
           /\ RegisterTransaction(w, t).height = w.height
           /\ w.allTx \subseteq RegisterTransaction(w, t).allTx
           /\ \/ Range(RegisterTransaction(w, t).transactions) = Range(w.transactions)
              \/ /\ Range(RegisterTransaction(w, t).transactions) = Range(w.transactions) \cup {t}
                 /\ ContainsTx(w, t) /\ Unconfirmed(w, t)
<1> DEFINE v == RegisterTransaction(w, t)
           m == [w EXCEPT !.allTx = w.allTx \cup {t}]
           i == InsertTx(m, t)
           u == UpdateBalance(i)
<1>1. w \in Wallet /\ Shape(w) /\ LedgerOK(w)
  BY DEF WalletOK, Shape
<1>2. CASE t \in w.allTx
  <2>1. v = w
    BY <1>2, Zenon DEF RegisterTransaction
  <2> QED
    BY <2>1
<1>3. CASE t \notin w.allTx
  <2>1. w.allTx \cup {t} \in SUBSET Tx
    BY <1>1, WalletFields
  <2>2. m \in Wallet
    BY <1>1, <2>1 DEF Wallet
  <2>3. /\ m.transactions = w.transactions /\ m.allTx = w.allTx \cup {t} /\ m.height = w.height
        /\ m.usedAddrs = w.usedAddrs /\ SameLedger(m, w)
    BY <1>1 DEF Wallet, SameLedger
  <2> HIDE DEF m
  <2>4. Shape(m)
    BY <1>1, <2>2, <2>3 DEF Shape, InOrder, Sorted, Unconfirmed
  <2>5. LedgerOK(m)
    <3>1. \A x : Unconfirmed(m, x) <=> Unconfirmed(w, x)
      BY <2>3 DEF Unconfirmed
    <3>2. \A x \in w.invalidTx : Unconfirmed(m, x)
      BY <1>1, <3>1 DEF LedgerOK, Ledger
    <3> QED
      BY <1>1, <2>3, <3>1, <3>2, LedgerKept
  <2>6. Unconfirmed(w, t)
    BY <1>1, <1>3 DEF Shape
  <2>7. CASE ContainsTx(w, t)
    <3>1. v = GrowChains(u, 0)
      BY <1>3, <2>7, Zenon DEF RegisterTransaction, m, i, u
    <3>2. InOrder(m) /\ t \in m.allTx /\ t \notin Range(m.transactions)
      BY <1>1, <1>3, <2>3, <2>4 DEF Shape, InOrder
    <3> DEFINE txs == i.transactions
    <3>3. /\ i = [m EXCEPT !.transactions = txs] /\ txs \in Seq(Tx) /\ i \in Wallet /\ InOrder(i)
          /\ Range(txs) = Range(m.transactions) \cup {t}
      BY <2>2, <3>2, InsertTxList
    <3>10. Range(i.transactions) = Range(w.transactions) \cup {t}
      BY <2>3, <3>3
    <3> HIDE DEF i, txs
    <3>4. i.allTx = m.allTx /\ i.height = m.height /\ i.usedAddrs = m.usedAddrs
      BY <2>2, <3>3 DEF Wallet
    <3>5. Shape(i)
      BY <2>4, <3>3, <3>4 DEF Shape, Unconfirmed
    <3>6. WalletOK(u) /\ SameList(u, i)
      BY <3>5, UpdateBalanceOK
    <3> HIDE DEF u
    <3> DEFINE ch == v.chain
    <3>7. Shape(v) /\ LedgerOK(v) /\ v = [u EXCEPT !.chain = ch]
      BY <3>1, <3>6, GrowChainsOK DEF WalletOK
    <3> HIDE DEF v, ch
    <3>8. v.transactions = u.transactions /\ v.allTx = u.allTx /\ v.height = u.height
      BY <3>6, <3>7 DEF WalletOK, Shape, Wallet
    <3>9. v.height = w.height /\ w.allTx \subseteq v.allTx
      BY <2>3, <3>4, <3>6, <3>8 DEF SameList
    <3>11. Range(v.transactions) = Range(w.transactions) \cup {t}
      BY <3>6, <3>8, <3>10 DEF SameList
    <3> QED
      BY <2>6, <2>7, <3>7, <3>9, <3>11 DEF WalletOK, v
  <2>8. CASE ~ContainsTx(w, t)
    <3>1. v = m
      BY <1>3, <2>6, <2>8, Zenon DEF RegisterTransaction, m
    <3>2. w.allTx \subseteq m.allTx
      BY <2>3
    <3> QED
      BY <2>3, <2>4, <2>5, <3>1, <3>2 DEF WalletOK, v
  <2> QED
    BY <2>7, <2>8
<1> QED
  BY <1>2, <1>3

-----------------------------------------------------------------------------
(* BRWalletRemoveTransaction: one of its calls, and the scan it starts with.  *)

LEMMA RemoveLeafOK ==
    ASSUME NEW w, WalletOK(w), NEW t
    PROVE  /\ WalletOK(RemoveLeaf(w, t))
           /\ RemoveLeaf(w, t).height = w.height /\ RemoveLeaf(w, t).allTx = w.allTx
           /\ Range(RemoveLeaf(w, t).transactions) = Range(w.transactions) \ {t}
<1> DEFINE v == RemoveLeaf(w, t)
           txs == Without(w.transactions, {t})
           m == [w EXCEPT !.transactions = txs]
<1>1. w \in Wallet /\ Shape(w) /\ w.transactions \in Seq(Tx) /\ w.allTx \in SUBSET Tx
  BY WalletFields DEF WalletOK, Shape
<1>2. /\ txs \in Seq(Tx) /\ Range(txs) = Range(w.transactions) \ {t}
      /\ IsInjective(w.transactions) => IsInjective(txs)
      /\ \A h : (\A i, j \in 1..Len(w.transactions) : i < j => h[w.transactions[i]] <= h[w.transactions[j]])
                  => \A i, j \in 1..Len(txs) : i < j => h[txs[i]] <= h[txs[j]]
  BY <1>1, WithoutSet
<1>3. v = UpdateBalance(m)
  BY Zenon DEF RemoveLeaf
<1> HIDE DEF txs
<1>4. m \in Wallet
  BY <1>1, <1>2 DEF Wallet
<1>5. /\ m.transactions = txs /\ m.allTx = w.allTx /\ m.height = w.height
      /\ m.usedAddrs = w.usedAddrs
  BY <1>1 DEF Wallet
<1> HIDE DEF m
<1>6. \A i, j \in 1..Len(txs) : i < j => w.height[txs[i]] <= w.height[txs[j]]
  BY <1>1, <1>2 DEF Shape, InOrder, Sorted
<1>7. InOrder(m)
  <2>1. Sorted(m)
    BY <1>5, <1>6 DEF Sorted
  <2>2. IsInjective(txs)
    BY <1>1, <1>2 DEF Shape, InOrder
  <2>3. Range(txs) \subseteq w.allTx
    BY <1>1, <1>2 DEF Shape, InOrder
  <2> QED
    BY <1>5, <2>1, <2>2, <2>3 DEF InOrder
<1>8. Shape(m)
  BY <1>1, <1>4, <1>5, <1>7 DEF Shape, Unconfirmed
<1>9. WalletOK(v) /\ SameList(v, m)
  BY <1>3, <1>8, UpdateBalanceOK
<1> HIDE DEF v
<1> QED
  BY <1>2, <1>5, <1>9 DEF SameList, v

(* The scan misses no dependent that is not lower than the transaction.       *)
LEMMA DependentsFound ==
    ASSUME NEW w, Shape(w), NEW t \in Tx
    PROVE  /\ Dependents(w, t) \in Seq(Tx)
           /\ Range(Dependents(w, t)) \subseteq Range(w.transactions)
           /\ \A u \in Range(w.transactions) :
                 u # t /\ t \in Parents(u) /\ w.height[t] <= w.height[u]
                 => u \in Range(Dependents(w, t))
<1> DEFINE txs == w.transactions
           h == w.height
           N == Len(txs)
           F == {0} \cup {i \in DOMAIN txs : h[txs[i]] < h[t]}
           from == Max(F)
           sub == SubSeq(txs, from + 1, N)
           rev == Reverse(sub)
           D == {u \in Tx : u # t /\ t \in Parents(u)}
<1>1. /\ w \in Wallet /\ txs \in Seq(Tx) /\ N \in Nat /\ DOMAIN txs = 1..N
      /\ \A i \in 1..N : txs[i] \in Tx
  BY WalletFields DEF Shape
<1>2. Dependents(w, t) = Within(rev, D)
  BY Zenon DEF Dependents
<1>3. from \in F /\ \A i \in F : i <= from
  <2>1. F \in SUBSET (0..N) /\ F # {}
    BY <1>1
  <2> HIDE DEF F
  <2> QED
    BY <1>1, <2>1, MaxIsGreatest
<1>4. from \in 0..N /\ (from # 0 => from \in 1..N /\ h[txs[from]] < h[t])
  <2>1. from = 0 \/ (from \in DOMAIN txs /\ h[txs[from]] < h[t])
    BY <1>3, Zenon
  <2>2. from = 0 \/ (from \in 1..N /\ h[txs[from]] < h[t])
    BY <1>1, <2>1, Zenon
  <2>3. N \in Nat
    BY <1>1
  <2> HIDE DEF from, N, F
  <2>4. from \in 0..N
    BY <2>2, <2>3
  <2> QED
    BY <2>2, <2>4, Zenon
<1> HIDE DEF F, from
<1>5. /\ sub \in Seq(Tx) /\ Len(sub) = N - from
      /\ \A i \in 1..(N - from) : sub[i] = txs[from + i]
  <2>1. from + 1 \in 1..(N + 1) /\ from \in Nat
    BY <1>1, <1>4
  <2>2. \A i \in 1..(N - from) : (from + 1) + i - 1 = from + i
    BY <1>1, <2>1
  <2> DEFINE q == from + 1
  <2>3. q \in 1..(N + 1) /\ N - q + 1 = N - from
    BY <1>1, <2>1
  <2> HIDE DEF q
  <2>4. SubSeq(txs, q, N) \in Seq(Tx)
    BY <1>1, <2>3
  <2>5. Len(SubSeq(txs, q, N)) = N - q + 1
    BY <1>1, <2>3
  <2>6. \A i \in 1..(N - q + 1) : SubSeq(txs, q, N)[i] = txs[q + i - 1]
    BY <1>1, <2>3
  <2> QED
    BY <2>2, <2>3, <2>4, <2>5, <2>6 DEF q
<1> HIDE DEF sub
<1>6. /\ rev \in Seq(Tx) /\ Range(rev) = Range(sub)
  <2> DEFINE M == N - from
  <2>1. M \in Nat /\ Len(sub) = M /\ \A i \in 1..M : (M - i) + 1 \in 1..M
    BY <1>1, <1>4, <1>5
  <2> HIDE DEF M
  <2>2. rev = [i \in 1..M |-> sub[(M - i) + 1]]
    BY <2>1 DEF Reverse
  <2> HIDE DEF rev
  <2>3. \A i \in 1..M : sub[i] \in Tx
    BY <1>5, <2>1
  <2>4. rev \in Seq(Tx)
    BY <2>1, <2>2, <2>3
  <2>5. DOMAIN rev = 1..M /\ DOMAIN sub = 1..M
    BY <1>5, <2>1, <2>2
  <2>6. \A i \in 1..M : rev[i] = sub[(M - i) + 1] /\ rev[(M - i) + 1] = sub[i]
    <3>1. \A i \in 1..M : (M - ((M - i) + 1)) + 1 = i
      BY <2>1
    <3> QED
      BY <2>1, <2>2, <3>1
  <2>7. Range(rev) = Range(sub)
    BY <2>1, <2>5, <2>6 DEF Range
  <2> QED
    BY <2>4, <2>7
<1> HIDE DEF rev
<1>7. Within(rev, D) \in Seq(Tx) /\ Range(Within(rev, D)) = Range(sub) \cap D
  <2>1. Within(rev, D) \in Seq(Tx)
    BY <1>6, WithinList
  <2>2. Range(Within(rev, D)) = Range(rev) \cap D
    BY <1>6, WithinSet
  <2> QED
    BY <1>6, <2>1, <2>2
<1>8. Range(sub) = {txs[i] : i \in (from + 1)..N}
  <2>1. DOMAIN sub = 1..(N - from)
    BY <1>5
  <2>2. \A i \in 1..(N - from) : from + i \in (from + 1)..N
    BY <1>1, <1>4
  <2>3. \A i \in (from + 1)..N : i - from \in 1..(N - from) /\ from + (i - from) = i
    BY <1>1, <1>4
  <2>4. \A x \in Range(sub) : \E i \in (from + 1)..N : x = txs[i]
    BY <1>5, <2>1, <2>2 DEF Range
  <2>5. \A i \in (from + 1)..N : sub[i - from] = txs[i] /\ i - from \in DOMAIN sub
    BY <1>5, <2>1, <2>3
  <2>6. \A i \in (from + 1)..N : txs[i] \in Range(sub)
    BY <2>5 DEF Range
  <2> QED
    BY <2>4, <2>6
<1>9. Range(sub) \subseteq Range(txs)
  <2>1. \A i \in (from + 1)..N : i \in 1..N
    BY <1>1, <1>4
  <2> QED
    BY <1>1, <1>8, <2>1 DEF Range
<1>10. ASSUME NEW u \in Range(txs), u # t, t \in Parents(u), h[t] <= h[u]
       PROVE  u \in Range(sub) \cap D
  <2>1. PICK i \in 1..N : u = txs[i]
    BY <1>1, <1>10 DEF Range
  <2>2. u \in Tx /\ h[u] \in Int /\ h[t] \in Int
    BY <1>1, <2>1, WalletFields
  <2>3. ~ (i <= from)
    <3> SUFFICES ASSUME i <= from PROVE FALSE
      OBVIOUS
    <3>1. from \in 1..N /\ h[txs[from]] < h[t]
      BY <1>1, <1>4, <2>1
    <3>2. h[txs[from]] \in Int
      BY <1>1, <3>1, WalletFields
    <3>3. i = from \/ h[txs[i]] <= h[txs[from]]
      BY <3>1 DEF Shape, InOrder, Sorted
    <3> QED
      BY <1>10, <2>1, <2>2, <3>1, <3>2, <3>3
  <2>4. i \in (from + 1)..N
    BY <1>1, <1>4, <2>1, <2>3
  <2> QED
    BY <1>8, <1>10, <2>1, <2>2, <2>4
<1> QED
  BY <1>2, <1>7, <1>9, <1>10

-----------------------------------------------------------------------------
(* BRWalletSetTxUnconfirmedAfter: as the list is sorted, the walk from its    *)
(* end meets every transaction above the height.                             *)

LEMMA SetTxUnconfirmedAfterOK ==
    ASSUME NEW w, WalletOK(w), NEW height \in Nat
    PROVE  /\ WalletOK(SetTxUnconfirmedAfter(w, height))
           /\ SetTxUnconfirmedAfter(w, height).allTx = w.allTx
           /\ SetTxUnconfirmedAfter(w, height).chain = w.chain
           /\ SetTxUnconfirmedAfter(w, height).transactions = w.transactions
           /\ \A t \in Range(w.transactions) :
                 /\ w.height[t] > height =>
                       SetTxUnconfirmedAfter(w, height).height[t] = TX_UNCONFIRMED
                 /\ w.height[t] <= height =>
                       SetTxUnconfirmedAfter(w, height).height[t] = w.height[t]
<1> DEFINE u == SetTxUnconfirmedAfter(w, height)
           txs == w.transactions
           h == w.height
           N == Len(txs)
           F == {0} \cup {i \in DOMAIN txs : h[txs[i]] <= height}
           k == Max(F)
           after == {txs[i] : i \in (k + 1)..N}
           new == [t \in Tx |-> IF t \in after THEN TX_UNCONFIRMED ELSE h[t]]
           v == [w EXCEPT !.blockHeight = height, !.height = new]
<1>1. /\ w \in Wallet /\ Shape(w) /\ LedgerOK(w)
      /\ txs \in Seq(Tx) /\ N \in Nat /\ DOMAIN txs = 1..N
      /\ \A i \in 1..N : txs[i] \in Tx
      /\ h \in [Tx -> 0..TX_UNCONFIRMED] /\ \A t \in Tx : h[t] \in Int
  BY WalletFields DEF WalletOK, Shape
<1>2. u = IF after = {} THEN v ELSE UpdateBalance(v)
  BY Zenon DEF SetTxUnconfirmedAfter
<1>3. k \in F /\ \A i \in F : i <= k
  <2>1. F \in SUBSET (0..N) /\ F # {}
    BY <1>1
  <2> HIDE DEF F
  <2> QED
    BY <1>1, <2>1, MaxIsGreatest
<1>4. /\ k \in 0..N /\ (k # 0 => k \in 1..N /\ h[txs[k]] <= height)
      /\ \A i \in 1..N : h[txs[i]] <= height => i <= k
  <2>1. k = 0 \/ (k \in DOMAIN txs /\ h[txs[k]] <= height)
    BY <1>3, Zenon
  <2>2. k = 0 \/ (k \in 1..N /\ h[txs[k]] <= height)
    BY <1>1, <2>1, Zenon
  <2>3. \A i \in 1..N : h[txs[i]] <= height => i \in F
    BY <1>1, Zenon
  <2>4. N \in Nat
    BY <1>1
  <2>5. \A i \in F : i <= k
    BY <1>3, Zenon
  <2> HIDE DEF k, N, F
  <2>6. k \in 0..N
    BY <2>2, <2>4
  <2>7. \A i \in 1..N : h[txs[i]] <= height => i <= k
    BY <2>3, <2>5, Zenon
  <2> QED
    BY <2>2, <2>6, <2>7, Zenon
<1> HIDE DEF F, k
<1>5. \A i, j \in 1..N : i < j => h[txs[i]] <= h[txs[j]]
  BY <1>1 DEF Shape, InOrder, Sorted
<1>6. \A t \in Range(txs) : t \in Tx /\ h[t] \in Int /\ (t \in after <=> h[t] > height)
  <2> SUFFICES ASSUME NEW t \in Range(txs)
               PROVE  t \in Tx /\ h[t] \in Int /\ (t \in after <=> h[t] > height)
    OBVIOUS
  <2>1. PICK i \in 1..N : t = txs[i]
    BY <1>1 DEF Range
  <2>2. t \in Tx /\ h[t] \in Int
    BY <1>1, <2>1
  <2>3. ASSUME t \in after PROVE h[t] > height
    <3>1. PICK j \in (k + 1)..N : t = txs[j]
      BY <2>3
    <3>2. j \in 1..N /\ ~ (j <= k)
      BY <1>1, <1>4
    <3> QED
      BY <1>4, <2>2, <3>1, <3>2
  <2>4. ASSUME h[t] > height PROVE t \in after
    <3>1. ~ (i <= k)
      <4> SUFFICES ASSUME i <= k PROVE FALSE
        OBVIOUS
      <4>1. k \in 1..N /\ h[txs[k]] <= height /\ txs[k] \in Tx
        BY <1>1, <1>4, <2>1
      <4>2. h[txs[k]] \in Int
        BY <1>1, <4>1
      <4>3. i = k \/ h[txs[i]] <= h[txs[k]]
        BY <1>5, <4>1
      <4> QED
        BY <2>1, <2>2, <2>4, <4>1, <4>2, <4>3
    <3>2. i \in (k + 1)..N
      BY <1>1, <1>4, <2>1, <3>1
    <3> QED
      BY <2>1, <3>2
  <2> QED
    BY <2>2, <2>3, <2>4
<1>7. after \subseteq Range(txs)
  <2>1. \A i \in (k + 1)..N : i \in 1..N
    BY <1>1, <1>4
  <2> QED
    BY <1>1, <2>1 DEF Range
<1> HIDE DEF after
<1>8. /\ new \in [Tx -> 0..TX_UNCONFIRMED]
      /\ \A t \in Tx : new[t] = IF t \in after THEN TX_UNCONFIRMED ELSE h[t]
  BY <1>1, TxUnconfirmedNat
<1> HIDE DEF new
<1>9. v \in Wallet
  BY <1>1, <1>8 DEF Wallet
<1>10. /\ v.transactions = txs /\ v.allTx = w.allTx /\ v.height = new /\ v.chain = w.chain
       /\ v.usedAddrs = w.usedAddrs /\ SameLedger(v, w)
  BY <1>1 DEF Wallet, SameLedger
<1> HIDE DEF v
<1>11. \A i, j \in 1..N : i < j => new[txs[i]] <= new[txs[j]]
  <2> SUFFICES ASSUME NEW i \in 1..N, NEW j \in 1..N, i < j PROVE new[txs[i]] <= new[txs[j]]
    OBVIOUS
  <2> DEFINE x == txs[i]
             y == txs[j]
  <2>1. x \in Range(txs) /\ y \in Range(txs) /\ x \in Tx /\ y \in Tx /\ h[x] <= h[y]
    BY <1>1, <1>5 DEF Range
  <2> HIDE DEF x, y
  <2>2. /\ h[x] \in Int /\ h[y] \in Int /\ (x \in after <=> h[x] > height)
        /\ (y \in after <=> h[y] > height) /\ h[x] \in 0..TX_UNCONFIRMED
    BY <1>1, <1>6, <2>1
  <2>3. new[x] <= new[y]
    <3>1. CASE y \in after
      <4>1. new[y] = TX_UNCONFIRMED /\ (new[x] = TX_UNCONFIRMED \/ new[x] = h[x])
        BY <1>8, <2>1, <3>1
      <4> QED
        BY <2>2, <4>1, TxUnconfirmedNat
    <3>2. CASE y \notin after
      <4>1. x \notin after
        BY <2>1, <2>2, <3>2
      <4> QED
        BY <1>8, <2>1, <3>2, <4>1
    <3> QED
      BY <3>1, <3>2
  <2> QED
    BY <2>3 DEF x, y
<1>12. Shape(v)
  <2>1. InOrder(v)
    <3>1. Sorted(v)
      BY <1>10, <1>11 DEF Sorted
    <3> QED
      BY <1>1, <1>10, <3>1 DEF Shape, InOrder
  <2>2. \A t \in Tx \ v.allTx : Unconfirmed(v, t)
    <3>1. \A t \in Tx \ w.allTx : h[t] = TX_UNCONFIRMED
      BY <1>1 DEF Shape, Unconfirmed
    <3> QED
      BY <1>8, <1>10, <3>1 DEF Unconfirmed
  <2>3. AddrBound(v.usedAddrs)
    BY <1>1, <1>10 DEF Shape
  <2> QED
    BY <1>9, <2>1, <2>2, <2>3 DEF Shape
<1>13. \A t \in Range(txs) : /\ h[t] > height => new[t] = TX_UNCONFIRMED
                             /\ h[t] <= height => new[t] = h[t]
  <2> TAKE t \in Range(txs)
  <2>1. t \in Tx /\ h[t] \in Int /\ (t \in after <=> h[t] > height)
    BY <1>6
  <2> QED
    BY <1>8, <2>1
<1>14. CASE after = {}
  <2>1. u = v
    BY <1>2, <1>14
  <2>2. \A t \in Tx : new[t] = h[t]
    BY <1>8, <1>14
  <2>3. \A t \in Tx : Unconfirmed(v, t) <=> Unconfirmed(w, t)
    BY <1>10, <2>2 DEF Unconfirmed
  <2>4. w.invalidTx \subseteq Tx /\ Range(txs) \subseteq Tx
    BY <1>1, <1>6, WalletFields
  <2>5. \A t \in w.invalidTx : Unconfirmed(v, t)
    BY <1>1, <2>3, <2>4 DEF LedgerOK, Ledger
  <2>6. \A t \in Range(w.transactions) : ~Unconfirmed(w, t) => ~Unconfirmed(v, t)
    BY <2>3, <2>4
  <2>7. LedgerOK(v)
    BY <1>1, <1>10, <2>5, <2>6, LedgerKept
  <2> HIDE DEF u
  <2> QED
    BY <1>10, <1>12, <1>13, <2>1, <2>7 DEF WalletOK, u
<1>15. CASE after # {}
  <2>1. u = UpdateBalance(v)
    BY <1>2, <1>15
  <2>2. WalletOK(u) /\ SameList(u, v)
    BY <1>12, <2>1, UpdateBalanceOK
  <2>3. u.height = new /\ u.allTx = w.allTx /\ u.chain = w.chain /\ u.transactions = txs
    BY <1>10, <2>2 DEF SameList
  <2> HIDE DEF u
  <2> QED
    BY <1>13, <2>2, <2>3 DEF u
<1> QED
  BY <1>14, <1>15

-----------------------------------------------------------------------------
(* BRWalletUpdateTransactions. *)

(* What the heights of some transactions can be changed from: the list is of  *)
(* the same transactions, the ledger as it was, and what was forgotten does   *)
(* not pay the wallet, so that what was the wallet's still is.                *)
Rebased(v, w) ==
    /\ Shape(v) /\ SameLedger(v, w) /\ v.chain = w.chain
    /\ Range(v.transactions) = Range(w.transactions)
    /\ v.allTx \subseteq w.allTx
    /\ \A p \in w.allTx \ v.allTx : ~Pays(p, AllAddrs(w))

LEMMA ContainsKept ==
    ASSUME NEW v, NEW w, Rebased(v, w), NEW t \in Tx, ContainsTx(w, t)
    PROVE  ContainsTx(v, t)
<1>1. AllAddrs(v) = AllAddrs(w)
  BY DEF AllAddrs, Rebased
<1>2. CASE Pays(t, AllAddrs(w))
  BY <1>1, <1>2 DEF ContainsTx
<1>3. CASE \E i \in Inputs[t] :
              /\ i[1] \in w.allTx
              /\ i[2] + 1 \in DOMAIN Outputs[i[1]]
              /\ Outputs[i[1]][i[2] + 1].address \in AllAddrs(w)
  <2>1. PICK i \in Inputs[t] :
           /\ i[1] \in w.allTx
           /\ i[2] + 1 \in DOMAIN Outputs[i[1]]
           /\ Outputs[i[1]][i[2] + 1].address \in AllAddrs(w)
    BY <1>3
  <2>2. Pays(i[1], AllAddrs(w))
    BY <2>1 DEF Pays
  <2>3. i[1] \in v.allTx
    BY <2>1, <2>2 DEF Rebased
  <2> QED
    BY <1>1, <2>1, <2>3 DEF ContainsTx
<1> QED
  BY <1>2, <1>3 DEF ContainsTx

(* A listed transaction whose height was changed is put back in order.        *)
LEMMA ReinsertOK ==
    ASSUME NEW v, Shape(v), NEW t \in Range(v.transactions), NEW m \in Wallet,
           m.transactions = v.transactions, m.allTx = v.allTx, m.usedAddrs = v.usedAddrs,
           m.chain = v.chain, SameLedger(m, v),
           \A u \in Tx : u # t => m.height[u] = v.height[u]
    PROVE  /\ Shape(Reinsert(m, t)) /\ SameLedger(Reinsert(m, t), v)
           /\ Reinsert(m, t).chain = v.chain /\ Reinsert(m, t).allTx = v.allTx
           /\ Reinsert(m, t).height = m.height
           /\ Range(Reinsert(m, t).transactions) = Range(v.transactions)
<1> DEFINE txs == v.transactions
           rest == Without(txs, {t})
           y == [m EXCEPT !.transactions = rest]
           x == InsertTx(y, t)
           list == x.transactions
<1>1. /\ v \in Wallet /\ txs \in Seq(Tx) /\ InOrder(v) /\ t \in v.allTx /\ t \in Tx
      /\ v.allTx \in SUBSET Tx
  <2>1. v \in Wallet /\ InOrder(v)
    BY DEF Shape
  <2>2. txs \in Seq(Tx) /\ v.allTx \in SUBSET Tx
    BY <2>1, WalletFields
  <2> QED
    BY <2>1, <2>2 DEF InOrder
<1>2. /\ rest \in Seq(Tx) /\ Range(rest) = Range(txs) \ {t}
      /\ IsInjective(txs) => IsInjective(rest)
      /\ \A h : (\A i, j \in 1..Len(txs) : i < j => h[txs[i]] <= h[txs[j]])
                  => \A i, j \in 1..Len(rest) : i < j => h[rest[i]] <= h[rest[j]]
  BY <1>1, WithoutSet
<1>3. Reinsert(m, t) = x
  BY Zenon DEF Reinsert
<1> HIDE DEF rest
<1>4. y \in Wallet
  BY <1>2 DEF Wallet
<1>5. /\ y.transactions = rest /\ y.allTx = v.allTx /\ y.height = m.height
      /\ y.usedAddrs = v.usedAddrs /\ y.chain = v.chain /\ SameLedger(y, v)
  BY DEF Wallet, SameLedger
<1> HIDE DEF y
<1>6. \A i, j \in 1..Len(rest) : i < j => m.height[rest[i]] <= m.height[rest[j]]
  <2>1. \A i, j \in 1..Len(rest) : i < j => v.height[rest[i]] <= v.height[rest[j]]
    BY <1>1, <1>2 DEF InOrder, Sorted
  <2>2. \A i \in 1..Len(rest) : rest[i] \in Tx /\ rest[i] # t
    <3>1. \A i \in 1..Len(rest) : rest[i] \in Range(rest)
      BY <1>2 DEF Range
    <3> QED
      BY <1>2, <3>1
  <2> QED
    BY <2>1, <2>2
<1>7. InOrder(y)
  <2>1. IsInjective(rest)
    BY <1>1, <1>2 DEF InOrder
  <2>2. Range(rest) \subseteq v.allTx
    BY <1>1, <1>2 DEF InOrder
  <2>3. Sorted(y)
    BY <1>5, <1>6 DEF Sorted
  <2> QED
    BY <1>5, <2>1, <2>2, <2>3 DEF InOrder
<1>8. t \in y.allTx /\ t \notin Range(y.transactions)
  BY <1>1, <1>2, <1>5
<1>9. /\ x = [y EXCEPT !.transactions = list] /\ x \in Wallet /\ InOrder(x)
      /\ Range(list) = Range(y.transactions) \cup {t}
  BY <1>4, <1>7, <1>8, InsertTxList
<1>10. Range(x.transactions) = Range(txs)
  BY <1>2, <1>5, <1>9
<1> HIDE DEF x, list
<1>11. /\ x.allTx = v.allTx /\ x.height = m.height /\ x.usedAddrs = v.usedAddrs
       /\ x.chain = v.chain /\ SameLedger(x, v)
  BY <1>4, <1>5, <1>9 DEF Wallet, SameLedger
<1>12. Shape(x)
  <2>1. \A u \in Tx \ x.allTx : Unconfirmed(x, u)
    BY <1>1, <1>11 DEF Shape, Unconfirmed
  <2> QED
    BY <1>9, <1>11, <2>1 DEF Shape
<1> QED
  BY <1>3, <1>10, <1>11, <1>12

LEMMA SetHeightStep ==
    ASSUME NEW w, NEW v, Rebased(v, w), NEW t \in Tx,
           NEW height \in 0..TX_UNCONFIRMED, NEW timestamp \in {0, 1},
           height # TX_UNCONFIRMED /\ t \in Range(w.transactions) => ContainsTx(w, t),
           height = TX_UNCONFIRMED /\ t \in Range(w.transactions) => Unconfirmed(v, t)
    PROVE  /\ Rebased(SetHeight(v, t, height, timestamp), w)
           /\ t \in Range(w.transactions) =>
                 SetHeight(v, t, height, timestamp).height[t] = height
           /\ \A u \in Range(w.transactions) : u # t =>
                 SetHeight(v, t, height, timestamp).height[u] = v.height[u]
<1> DEFINE x == SetHeight(v, t, height, timestamp)
           m == [v EXCEPT !.height[t] = height, !.timestamp[t] = timestamp]
           g == [v EXCEPT !.allTx = v.allTx \ {t}, !.height[t] = TX_UNCONFIRMED,
                          !.timestamp[t] = 0]
           same == t \notin v.allTx \/ (v.height[t] = height /\ v.timestamp[t] = timestamp)
           L == Range(w.transactions)
<1>1. /\ v \in Wallet /\ Shape(v) /\ Range(v.transactions) = L /\ v.allTx \in SUBSET Tx
      /\ L \subseteq v.allTx /\ v.height \in [Tx -> 0..TX_UNCONFIRMED]
      /\ v.timestamp \in [Tx -> {0, 1}] /\ L \subseteq Tx
  <2>1. v \in Wallet /\ Shape(v) /\ Range(v.transactions) = L
    BY DEF Rebased, Shape
  <2>2. L \subseteq v.allTx
    BY <2>1 DEF Shape, InOrder
  <2> QED
    BY <2>1, <2>2, WalletFields
<1>2. x = IF same THEN v ELSE IF ContainsTx(m, t) THEN Reinsert(m, t)
          ELSE IF height # TX_UNCONFIRMED THEN g ELSE m
  BY Zenon DEF SetHeight
<1> HIDE DEF x, L
<1>3. CASE same
  <2>1. x = v
    BY <1>2, <1>3
  <2>2. t \in L => v.height[t] = height
    BY <1>1, <1>3
  <2> QED
    BY <2>1, <2>2 DEF x, L
<1>4. CASE ~same
  <2>1. t \in v.allTx
    BY <1>4
  <2> HIDE DEF same
  <2>2. m \in Wallet
    BY <1>1 DEF Wallet
  <2>3. /\ m.transactions = v.transactions /\ m.allTx = v.allTx /\ m.usedAddrs = v.usedAddrs
        /\ m.chain = v.chain /\ SameLedger(m, v)
        /\ m.height[t] = height /\ \A u \in Tx : u # t => m.height[u] = v.height[u]
    BY <1>1 DEF Wallet, SameLedger
  <2>4. ContainsTx(w, t) => ContainsTx(m, t)
    <3>1. ContainsTx(v, t) => ContainsTx(m, t)
      <4>1. AllAddrs(m) = AllAddrs(v)
        BY <2>3 DEF AllAddrs
      <4> QED
        BY <2>3, <4>1 DEF ContainsTx
    <3> QED
      BY <3>1, ContainsKept
  <2> HIDE DEF m
  <2>5. CASE ContainsTx(m, t) /\ t \in L
    <3>1. x = Reinsert(m, t)
      BY <1>2, <1>4, <2>5
    <3>2. t \in Range(v.transactions)
      BY <1>1, <2>5
    <3>3. /\ Shape(x) /\ SameLedger(x, v) /\ x.chain = v.chain /\ x.allTx = v.allTx
          /\ x.height = m.height /\ Range(x.transactions) = Range(v.transactions)
      BY <1>1, <2>2, <2>3, <3>1, <3>2, ReinsertOK
    <3>4. Rebased(x, w)
      BY <3>3 DEF Rebased, SameLedger
    <3> QED
      BY <1>1, <2>3, <3>3, <3>4 DEF x, L
  <2>6. ASSUME t \notin L \/ (Unconfirmed(v, t) /\ height = TX_UNCONFIRMED)
        PROVE  Rebased(m, w)
    <3>1. \A u \in L : m.height[u] = v.height[u]
      BY <1>1, <2>3, <2>6 DEF Unconfirmed
    <3>2. InOrder(m)
      <4>1. \A i \in 1..Len(v.transactions) : v.transactions[i] \in L
        BY <1>1, WalletFields DEF Range
      <4>2. Sorted(m)
        BY <1>1, <2>3, <3>1, <4>1 DEF Shape, InOrder, Sorted
      <4> QED
        BY <1>1, <2>3, <4>2 DEF Shape, InOrder
    <3>3. \A u \in Tx \ m.allTx : Unconfirmed(m, u)
      BY <1>1, <2>1, <2>3 DEF Shape, Unconfirmed
    <3>4. Shape(m)
      BY <1>1, <2>2, <2>3, <3>2, <3>3 DEF Shape
    <3> QED
      BY <2>3, <3>4 DEF Rebased, SameLedger
  <2>7. CASE ContainsTx(m, t) /\ t \notin L
    <3>1. x = m
      <4>1. t \notin Range(m.transactions)
        BY <1>1, <2>3, <2>7
      <4>2. Reinsert(m, t) = m
        BY <4>1, Zenon DEF Reinsert
      <4> QED
        BY <1>2, <1>4, <2>7, <4>2
    <3> QED
      <4>3. t \notin L
        BY <2>7
      <4>4. Rebased(m, w)
        BY <2>6, <4>3
      <4>1. Rebased(x, w) /\ t \notin L
        BY <3>1, <4>3, <4>4
      <4>2. \A u \in L : u # t => x.height[u] = v.height[u]
        BY <1>1, <2>3, <3>1
      <4> QED
        BY <4>1, <4>2 DEF x, L
  <2>8. CASE ~ContainsTx(m, t) /\ height = TX_UNCONFIRMED
    <3>1. x = m
      BY <1>2, <1>4, <2>8
    <3>2. t \notin L \/ (Unconfirmed(v, t) /\ height = TX_UNCONFIRMED)
      BY <2>8 DEF L
    <3> QED
      BY <1>1, <2>3, <2>6, <3>1, <3>2 DEF x, L
  <2>9. CASE ~ContainsTx(m, t) /\ height # TX_UNCONFIRMED
    <3>1. x = g
      BY <1>2, <1>4, <2>9
    <3>2. t \notin L
      BY <2>4, <2>9 DEF L
    <3>3. TX_UNCONFIRMED \in 0..TX_UNCONFIRMED
      BY TxUnconfirmedNat
    <3>4. g \in Wallet
      BY <1>1, <3>3 DEF Wallet
    <3>5. /\ g.transactions = v.transactions /\ g.allTx = v.allTx \ {t}
          /\ g.usedAddrs = v.usedAddrs /\ g.chain = v.chain /\ SameLedger(g, v)
          /\ g.height[t] = TX_UNCONFIRMED /\ \A u \in Tx : u # t => g.height[u] = v.height[u]
      BY <1>1 DEF Wallet, SameLedger
    <3> HIDE DEF g
    <3>6. \A u \in L : g.height[u] = v.height[u]
      BY <1>1, <3>2, <3>5
    <3>7. InOrder(g)
      <4>1. \A i \in 1..Len(v.transactions) : v.transactions[i] \in L
        BY <1>1, WalletFields DEF Range
      <4>2. Sorted(g)
        BY <1>1, <3>5, <3>6, <4>1 DEF Shape, InOrder, Sorted
      <4>3. Range(g.transactions) \subseteq g.allTx
        BY <1>1, <3>2, <3>5
      <4> QED
        BY <1>1, <3>5, <4>2, <4>3 DEF Shape, InOrder
    <3>8. \A u \in Tx \ g.allTx : Unconfirmed(g, u)
      BY <1>1, <3>5 DEF Shape, Unconfirmed
    <3>9. Shape(g)
      BY <1>1, <3>4, <3>5, <3>7, <3>8 DEF Shape
    <3>10. ~Pays(t, AllAddrs(w))
      <4>1. AllAddrs(m) = AllAddrs(w)
        BY <2>3 DEF AllAddrs, Rebased
      <4> QED
        BY <2>9, <4>1 DEF ContainsTx
    <3>11. Rebased(g, w)
      BY <3>5, <3>9, <3>10 DEF Rebased, SameLedger
    <3> QED
      BY <3>1, <3>2, <3>6, <3>11 DEF x, L
  <2> QED
    BY <2>5, <2>7, <2>8, <2>9
<1> QED
  BY <1>3, <1>4

SettingHeights(f, w, hashes, height, timestamp) ==
    /\ SetHeights(w, hashes, height, timestamp) = f[Len(hashes)]
    /\ f[0] = w
    /\ \A n \in 0..(Len(hashes) - 1) :
          f[n + 1] = SetHeight(f[n], hashes[n + 1], height, timestamp)

LEMMA SetHeightsEquations ==
    ASSUME NEW w, NEW hashes \in Seq(Tx),
           NEW height \in 0..TX_UNCONFIRMED, NEW timestamp \in {0, 1}
    PROVE  \E f : SettingHeights(f, w, hashes, height, timestamp)
<1> DEFINE N == Len(hashes)
           step(x, n) == SetHeight(x, hashes[n], height, timestamp)
           is(h, k) == h = [n \in 0..k |-> IF n = 0 THEN w ELSE step(h[n - 1], n)]
           K == {k \in 0..N : \E h : is(h, k)}
           f == CHOOSE h : is(h, N)
<1>1. SetHeights(w, hashes, height, timestamp) = f[N] /\ N \in Nat
  <2>1. SetHeights(w, hashes, height, timestamp) = f[N]
    BY Zenon DEF SetHeights
  <2>2. N \in Nat
    OBVIOUS
  <2> QED
    BY <2>1, <2>2
<1> HIDE DEF N
<1>2. \A k \in 0..N : k \in K
  <2> HIDE DEF step
  <2>1. 0 \in K
    <3>1. is([n \in 0..0 |-> w], 0)
      OBVIOUS
    <3>2. 0 \in 0..N
      BY <1>1
    <3> HIDE DEF is
    <3> QED
      BY <3>1, <3>2
  <2>2. ASSUME NEW k \in 0..(N - 1), k \in K PROVE k + 1 \in K
    <3>1. PICK h : is(h, k)
      BY <2>2
    <3> DEFINE g == [n \in 0..(k + 1) |-> IF n <= k THEN h[n] ELSE step(h[k], k + 1)]
    <3>2. is(g, k + 1)
      BY <1>1, <3>1
    <3>3. k + 1 \in 0..N
      BY <1>1
    <3> HIDE DEF is
    <3> QED
      BY <3>2, <3>3
  <2> HIDE DEF K
  <2> QED
    BY <1>1, <2>1, <2>2, UpTo
<1>3. is(f, N)
  <2>1. N \in 0..N
    BY <1>1
  <2>2. \E h : is(h, N)
    BY <1>2, <2>1
  <2> QED
    BY <2>2, Zenon
<1> HIDE DEF f
<1>4. f[0] = w /\ \A n \in 0..(N - 1) : f[n + 1] = step(f[n], n + 1)
  <2> HIDE DEF step
  <2> QED
    BY <1>1, <1>3
<1> QED
  BY <1>1, <1>4 DEF N, SettingHeights

(* Every transaction of the list that is named gets the height, no other.     *)
LEMMA SetHeightsOK ==
    ASSUME NEW w, Shape(w), NEW hashes \in Seq(Tx),
           NEW height \in 0..TX_UNCONFIRMED, NEW timestamp \in {0, 1},
           \A t \in Range(hashes) \cap Range(w.transactions) :
              IF height = TX_UNCONFIRMED THEN Unconfirmed(w, t) ELSE ContainsTx(w, t)
    PROVE  /\ Rebased(SetHeights(w, hashes, height, timestamp), w)
           /\ \A t \in Range(w.transactions) :
                 /\ t \in Range(hashes) =>
                       SetHeights(w, hashes, height, timestamp).height[t] = height
                 /\ t \notin Range(hashes) =>
                       SetHeights(w, hashes, height, timestamp).height[t] = w.height[t]
<1> DEFINE N == Len(hashes)
           L == Range(w.transactions)
           H(n) == {hashes[i] : i \in 1..n}
           P(v, n) == /\ Rebased(v, w)
                      /\ \A t \in L : t \in H(n) => v.height[t] = height
                      /\ \A t \in L : t \notin H(n) => v.height[t] = w.height[t]
<1>1. N \in Nat /\ \A i \in 1..N : hashes[i] \in Tx
  OBVIOUS
<1>2. PICK f : /\ SetHeights(w, hashes, height, timestamp) = f[N]
               /\ f[0] = w
               /\ \A n \in 0..(N - 1) :
                     f[n + 1] = SetHeight(f[n], hashes[n + 1], height, timestamp)
  <2>1. PICK f : SettingHeights(f, w, hashes, height, timestamp)
    BY SetHeightsEquations
  <2> QED
    BY <2>1, Zenon DEF SettingHeights
<1>3. P(w, 0)
  <2>1. H(0) = {}
    OBVIOUS
  <2>2. Rebased(w, w)
    BY DEF Rebased, SameLedger
  <2> HIDE DEF H
  <2> QED
    BY <2>1, <2>2
<1>4. ASSUME NEW n \in 0..(N - 1), NEW v, P(v, n)
      PROVE  P(SetHeight(v, hashes[n + 1], height, timestamp), n + 1)
  <2> DEFINE t == hashes[n + 1]
             x == SetHeight(v, t, height, timestamp)
  <2>1. n + 1 \in 1..N /\ t \in Tx /\ t \in Range(hashes)
    BY <1>1 DEF Range
  <2>2. H(n + 1) = H(n) \cup {t}
    BY <1>1, <2>1
  <2>3. height # TX_UNCONFIRMED /\ t \in L => ContainsTx(w, t)
    BY <2>1
  <2>4. height = TX_UNCONFIRMED /\ t \in L => Unconfirmed(v, t)
    <3> SUFFICES ASSUME height = TX_UNCONFIRMED, t \in L PROVE Unconfirmed(v, t)
      OBVIOUS
    <3>1. w.height[t] = TX_UNCONFIRMED
      BY <2>1 DEF Unconfirmed
    <3>2. v.height[t] = TX_UNCONFIRMED
      BY <1>4, <3>1
    <3> QED
      BY <3>2 DEF Unconfirmed
  <2>5. Rebased(v, w)
    BY <1>4
  <2> HIDE DEF H, t
  <2>6. /\ Rebased(x, w)
        /\ t \in L => x.height[t] = height
        /\ \A u \in L : u # t => x.height[u] = v.height[u]
    BY <2>1, <2>3, <2>4, <2>5, SetHeightStep
  <2> HIDE DEF x, L
  <2>7. \A u \in L : u \in H(n + 1) => x.height[u] = height
    BY <1>4, <2>2, <2>6
  <2>8. \A u \in L : u \notin H(n + 1) => x.height[u] = w.height[u]
    BY <1>4, <2>2, <2>6
  <2>9. P(x, n + 1)
    BY <2>6, <2>7, <2>8
  <2> QED
    BY <2>9 DEF x, t
<1>5. H(N) = Range(hashes)
  BY <1>1 DEF Range
<1> HIDE DEF P, H
<1> DEFINE G == {n \in 0..N : P(f[n], n)}
<1>6. 0 \in G
  BY <1>1, <1>2, <1>3
<1>7. ASSUME NEW n \in 0..(N - 1), n \in G PROVE n + 1 \in G
  <2>1. P(f[n], n) /\ n + 1 \in 0..N
    BY <1>1, <1>7
  <2>2. P(SetHeight(f[n], hashes[n + 1], height, timestamp), n + 1)
    BY <1>4, <2>1
  <2> QED
    BY <1>2, <2>1, <2>2
<1> HIDE DEF G
<1>8. \A n \in 0..N : n \in G
  BY <1>1, <1>6, <1>7, UpTo
<1>9. P(f[N], N)
  BY <1>1, <1>8 DEF G
<1> QED
  BY <1>2, <1>5, <1>9 DEF P

LEMMA UpdateTransactionsOK ==
    ASSUME NEW w, WalletOK(w), NEW hashes \in Seq(Tx),
           NEW height \in 0..TX_UNCONFIRMED, NEW timestamp \in {0, 1},
           \A t \in Range(hashes) \cap Range(w.transactions) :
              IF height = TX_UNCONFIRMED THEN Unconfirmed(w, t) ELSE ContainsTx(w, t)
    PROVE  /\ WalletOK(UpdateTransactions(w, hashes, height, timestamp))
           /\ Range(UpdateTransactions(w, hashes, height, timestamp).transactions)
                = Range(w.transactions)
           /\ UpdateTransactions(w, hashes, height, timestamp).allTx \subseteq w.allTx
           /\ \A t \in Tx : ContainsTx(w, t) =>
                 ContainsTx(UpdateTransactions(w, hashes, height, timestamp), t)
           /\ \A t \in Range(w.transactions) :
                 /\ t \in Range(hashes) =>
                       UpdateTransactions(w, hashes, height, timestamp).height[t] = height
                 /\ t \notin Range(hashes) =>
                       UpdateTransactions(w, hashes, height, timestamp).height[t] = w.height[t]
<1> DEFINE x == UpdateTransactions(w, hashes, height, timestamp)
           top == Max({w.blockHeight, height})
           r == [w EXCEPT !.blockHeight = top]
           v == SetHeights(r, hashes, height, timestamp)
           needsUpdate == \E t \in Range(hashes) \cap w.allTx :
                             /\ w.height[t] # height \/ w.timestamp[t] # timestamp
                             /\ ContainsTx(w, t) /\ t \in w.pendingTx \cup w.invalidTx
           L == Range(w.transactions)
<1>1. x = IF needsUpdate THEN UpdateBalance(v) ELSE v
  BY Zenon DEF UpdateTransactions
<1>2. w \in Wallet /\ Shape(w) /\ LedgerOK(w)
  BY DEF WalletOK, Shape
<1>3. top \in Nat
  <2>1. w.blockHeight \in Nat /\ height \in Nat
    BY <1>2, WalletFields, TxUnconfirmedNat
  <2> DEFINE S == {w.blockHeight, height}
             b == w.blockHeight + height
  <2>2. S \in SUBSET (0..b) /\ S # {} /\ b \in Nat
    BY <2>1
  <2> HIDE DEF S, b
  <2>3. Max(S) \in S
    BY <2>2, MaxIsGreatest
  <2>4. Max(S) \in 0..b /\ b \in Nat
    BY <2>2, <2>3, Zenon
  <2>5. Max(S) \in Nat
    BY <2>4
  <2> QED
    BY <2>5 DEF S
<1> HIDE DEF top
<1>4. r \in Wallet
  BY <1>2, <1>3 DEF Wallet
<1>5. /\ r.transactions = w.transactions /\ r.allTx = w.allTx /\ r.height = w.height
      /\ r.usedAddrs = w.usedAddrs /\ r.chain = w.chain /\ SameLedger(r, w)
      /\ r.timestamp = w.timestamp
  BY <1>2 DEF Wallet, SameLedger
<1> HIDE DEF r
<1>6. Shape(r)
  BY <1>2, <1>4, <1>5 DEF Shape, InOrder, Sorted, Unconfirmed
<1>7. AllAddrs(r) = AllAddrs(w) /\ \A t : ContainsTx(r, t) <=> ContainsTx(w, t)
  <2>1. AllAddrs(r) = AllAddrs(w)
    BY <1>5 DEF AllAddrs
  <2> QED
    BY <1>5, <2>1 DEF ContainsTx
<1>8. \A t \in Range(hashes) \cap Range(r.transactions) :
         IF height = TX_UNCONFIRMED THEN Unconfirmed(r, t) ELSE ContainsTx(r, t)
  BY <1>5, <1>7 DEF Unconfirmed
<1>9. /\ Rebased(v, r)
      /\ \A t \in Range(r.transactions) :
            /\ t \in Range(hashes) => v.height[t] = height
            /\ t \notin Range(hashes) => v.height[t] = r.height[t]
  BY <1>6, <1>8, SetHeightsOK
<1> HIDE DEF v, L
<1>10. /\ Shape(v) /\ SameLedger(v, w) /\ v.chain = w.chain
       /\ Range(v.transactions) = L /\ v.allTx \subseteq w.allTx
       /\ \A t \in L : /\ t \in Range(hashes) => v.height[t] = height
                       /\ t \notin Range(hashes) => v.height[t] = w.height[t]
  BY <1>5, <1>9 DEF Rebased, SameLedger, L
<1>11. \A t \in Tx : ContainsTx(w, t) => ContainsTx(v, t)
  BY <1>7, <1>9, ContainsKept
<1>12. CASE needsUpdate
  <2>1. x = UpdateBalance(v)
    BY <1>1, <1>12
  <2>2. WalletOK(x) /\ SameList(x, v)
    BY <1>10, <2>1, UpdateBalanceOK
  <2> HIDE DEF x
  <2>3. \A t \in Tx : ContainsTx(v, t) => ContainsTx(x, t)
    <3>1. AllAddrs(x) = AllAddrs(v)
      BY <2>2 DEF AllAddrs, SameList
    <3> QED
      BY <2>2, <3>1 DEF ContainsTx, SameList
  <2> QED
    BY <1>10, <1>11, <2>2, <2>3 DEF SameList, x, L
<1>13. CASE ~needsUpdate
  <2>1. x = v
    BY <1>1, <1>13
  <2>2. \A t \in L : ~Unconfirmed(w, t) => ~Unconfirmed(v, t)
    <3> SUFFICES ASSUME NEW t \in L, ~Unconfirmed(w, t) PROVE ~Unconfirmed(v, t)
      OBVIOUS
    <3>1. CASE t \in Range(hashes)
      <4>1. height # TX_UNCONFIRMED
        BY <3>1 DEF L
      <4> QED
        BY <1>10, <3>1, <4>1 DEF Unconfirmed
    <3>2. CASE t \notin Range(hashes)
      BY <1>10, <3>2 DEF Unconfirmed
    <3> QED
      BY <3>1, <3>2
  <2>3. \A t \in w.invalidTx : Unconfirmed(v, t)
    <3> SUFFICES ASSUME NEW t \in w.invalidTx PROVE Unconfirmed(v, t)
      OBVIOUS
    <3>1. t \in L /\ Unconfirmed(w, t) /\ t \in w.allTx
      BY <1>2 DEF LedgerOK, Ledger, Shape, InOrder, L
    <3>2. CASE t \in Range(hashes)
      <4>1. CASE height = TX_UNCONFIRMED
        BY <1>10, <3>1, <3>2, <4>1 DEF Unconfirmed
      <4>2. CASE height # TX_UNCONFIRMED
        <5>1. ContainsTx(w, t) /\ w.height[t] # height
          BY <3>1, <3>2, <4>2 DEF L, Unconfirmed
        <5> QED
          BY <1>13, <3>1, <3>2, <5>1
      <4> QED
        BY <4>1, <4>2
    <3>3. CASE t \notin Range(hashes)
      BY <1>10, <3>1, <3>3 DEF Unconfirmed
    <3> QED
      BY <3>2, <3>3
  <2>4. LedgerOK(v)
    BY <1>2, <1>10, <2>2, <2>3, LedgerKept DEF L
  <2> HIDE DEF x
  <2> QED
    BY <1>10, <1>11, <2>1, <2>4 DEF WalletOK, x, L
<1> QED
  BY <1>12, <1>13

-----------------------------------------------------------------------------
(* BRWalletNew: from any order of the stored transactions.                    *)

LEMMA EmptyWalletShape == Shape(EmptyWallet)
<1> DEFINE w == EmptyWallet
           S == UNION {Inputs[t] : t \in Tx}
           h == [t \in Tx |-> TX_UNCONFIRMED]
           s == [t \in Tx |-> 0]
           ch == [c \in Chains |-> 0]
<1>1. /\ << >> \in Seq(Tx) /\ << >> \in Seq(Output) /\ Len(<< >>) = 0
      /\ h \in [Tx -> 0..TX_UNCONFIRMED] /\ s \in [Tx -> {0, 1}] /\ ch \in [Chains -> Nat]
  BY TxUnconfirmedNat
<1>2. \A t \in Tx : h[t] = TX_UNCONFIRMED
  OBVIOUS
<1>3. w = [transactions |-> << >>, allTx |-> {}, blockHeight |-> 0,
           height |-> h, timestamp |-> s,
           utxos |-> << >>, balance |-> 0, spentOutputs |-> {}, invalidTx |-> {},
           pendingTx |-> {}, usedAddrs |-> {}, ledgerAddrs |-> {}, chain |-> ch]
  BY Zenon DEF EmptyWallet
<1> HIDE DEF h, s, ch, w
<1>4. w \in Wallet
  BY <1>1, <1>3 DEF Wallet
<1>5. w.transactions = << >> /\ w.allTx = {} /\ w.height = h /\ w.usedAddrs = {}
  BY <1>3
<1>6. InOrder(w)
  BY <1>1, <1>5 DEF InOrder, Sorted, IsInjective, Range
<1>7. AddrBound(w.usedAddrs)
  BY <1>5 DEF AddrBound
<1>8. \A t \in Tx \ w.allTx : Unconfirmed(w, t)
  BY <1>2, <1>5 DEF Unconfirmed
<1> QED
  BY <1>4, <1>6, <1>7, <1>8 DEF Shape, w

LEMMA LoadTxOK ==
    ASSUME NEW w, Shape(w), w.allTx = Range(w.transactions), NEW t \in Tx, t \notin w.allTx,
           NEW height, NEW timestamp, height[t] \in 0..TX_UNCONFIRMED, timestamp[t] \in {0, 1}
    PROVE  /\ Shape(LoadTx(w, t, height, timestamp))
           /\ LoadTx(w, t, height, timestamp).allTx = w.allTx \cup {t}
           /\ Range(LoadTx(w, t, height, timestamp).transactions) = w.allTx \cup {t}
           /\ LoadTx(w, t, height, timestamp).height = [w.height EXCEPT ![t] = height[t]]
<1> DEFINE addrs == {Outputs[t][i].address : i \in DOMAIN Outputs[t]}
           a == height[t]
           b == timestamp[t]
           used == w.usedAddrs \cup addrs
           m == [w EXCEPT !.allTx = w.allTx \cup {t}, !.height[t] = a,
                          !.timestamp[t] = b, !.usedAddrs = used]
           x == LoadTx(w, t, height, timestamp)
<1>1. x = InsertTx(m, t)
  BY Zenon DEF LoadTx
<1>2. /\ w \in Wallet /\ w.allTx \in SUBSET Tx /\ w.transactions \in Seq(Tx)
      /\ w.height \in [Tx -> 0..TX_UNCONFIRMED] /\ w.timestamp \in [Tx -> {0, 1}]
      /\ w.usedAddrs \in SUBSET (STRING \X Nat) /\ AddrBound(w.usedAddrs)
  BY WalletFields DEF Shape
<1>3. used \in SUBSET (STRING \X Nat) /\ AddrBound(used)
  <2>1. addrs \in SUBSET (STRING \X Nat) /\ AddrBound(addrs)
    BY AddrsOfTx
  <2> HIDE DEF addrs
  <2> QED
    BY <1>2, <2>1, AddrBoundUnion
<1>4. a \in 0..TX_UNCONFIRMED /\ b \in {0, 1}
  OBVIOUS
<1> HIDE DEF a, b, used
<1>5. m \in Wallet
  BY <1>2, <1>3, <1>4 DEF Wallet
<1>6. /\ m.transactions = w.transactions /\ m.allTx = w.allTx \cup {t}
      /\ m.height = [w.height EXCEPT ![t] = a] /\ m.usedAddrs = used
  BY <1>2 DEF Wallet
<1> HIDE DEF m
<1>7. \A u \in Tx : u # t => m.height[u] = w.height[u]
  BY <1>2, <1>6
<1>8. InOrder(m)
  <2>1. \A i \in 1..Len(w.transactions) : w.transactions[i] \in Tx /\ w.transactions[i] # t
    <3>1. \A i \in 1..Len(w.transactions) : w.transactions[i] \in Range(w.transactions)
      BY <1>2 DEF Range
    <3> QED
      BY <1>2, <3>1
  <2>2. Sorted(m)
    BY <1>6, <1>7, <2>1 DEF Shape, InOrder, Sorted
  <2>3. IsInjective(m.transactions)
    BY <1>6 DEF Shape, InOrder
  <2>4. Range(m.transactions) \subseteq m.allTx
    BY <1>6
  <2> QED
    BY <2>2, <2>3, <2>4 DEF InOrder
<1>9. t \in m.allTx /\ t \notin Range(m.transactions)
  BY <1>6
<1> DEFINE list == x.transactions
<1>10. /\ x = [m EXCEPT !.transactions = list] /\ x \in Wallet /\ InOrder(x)
       /\ Range(list) = Range(m.transactions) \cup {t}
  BY <1>1, <1>5, <1>8, <1>9, InsertTxList
<1>11. Range(x.transactions) = w.allTx \cup {t}
  BY <1>6, <1>10
<1> HIDE DEF x, list
<1>12. /\ x.allTx = w.allTx \cup {t} /\ x.height = [w.height EXCEPT ![t] = a]
       /\ x.usedAddrs = used
  BY <1>5, <1>6, <1>10 DEF Wallet
<1>13. \A u \in Tx \ x.allTx : Unconfirmed(x, u)
  BY <1>6, <1>7, <1>12 DEF Shape, Unconfirmed
<1>14. Shape(x)
  BY <1>3, <1>10, <1>12, <1>13 DEF Shape
<1> QED
  BY <1>11, <1>12, <1>14 DEF x, a

Loading(f, txs, height, timestamp) ==
    /\ Loaded(txs, height, timestamp) = f[Len(txs)]
    /\ f[0] = EmptyWallet
    /\ \A n \in 0..(Len(txs) - 1) : f[n + 1] = LoadTx(f[n], txs[n + 1], height, timestamp)

LEMMA LoadedEquations ==
    ASSUME NEW txs \in Seq(Tx), NEW height, NEW timestamp
    PROVE  \E f : Loading(f, txs, height, timestamp)
<1> DEFINE N == Len(txs)
           step(x, n) == LoadTx(x, txs[n], height, timestamp)
           is(h, k) == h = [n \in 0..k |-> IF n = 0 THEN EmptyWallet ELSE step(h[n - 1], n)]
           K == {k \in 0..N : \E h : is(h, k)}
           f == CHOOSE h : is(h, N)
<1>1. Loaded(txs, height, timestamp) = f[N] /\ N \in Nat
  <2>1. Loaded(txs, height, timestamp) = f[N]
    BY Zenon DEF Loaded
  <2>2. N \in Nat
    OBVIOUS
  <2> QED
    BY <2>1, <2>2
<1> HIDE DEF N
<1>2. \A k \in 0..N : k \in K
  <2> HIDE DEF step
  <2>1. 0 \in K
    <3>1. is([n \in 0..0 |-> EmptyWallet], 0)
      OBVIOUS
    <3>2. 0 \in 0..N
      BY <1>1
    <3> HIDE DEF is
    <3> QED
      BY <3>1, <3>2
  <2>2. ASSUME NEW k \in 0..(N - 1), k \in K PROVE k + 1 \in K
    <3>1. PICK h : is(h, k)
      BY <2>2
    <3> DEFINE g == [n \in 0..(k + 1) |-> IF n <= k THEN h[n] ELSE step(h[k], k + 1)]
    <3>2. is(g, k + 1)
      BY <1>1, <3>1
    <3>3. k + 1 \in 0..N
      BY <1>1
    <3> HIDE DEF is
    <3> QED
      BY <3>2, <3>3
  <2> HIDE DEF K
  <2> QED
    BY <1>1, <2>1, <2>2, UpTo
<1>3. is(f, N)
  <2>1. N \in 0..N
    BY <1>1
  <2>2. \E h : is(h, N)
    BY <1>2, <2>1
  <2> QED
    BY <2>2, Zenon
<1> HIDE DEF f
<1>4. f[0] = EmptyWallet /\ \A n \in 0..(N - 1) : f[n + 1] = step(f[n], n + 1)
  <2> HIDE DEF step
  <2> QED
    BY <1>1, <1>3
<1> QED
  BY <1>1, <1>4 DEF N, Loading

LEMMA LoadedOK ==
    ASSUME NEW txs \in Seq(Tx), IsInjective(txs), NEW height, NEW timestamp,
           \A t \in Range(txs) : height[t] \in 0..TX_UNCONFIRMED /\ timestamp[t] \in {0, 1}
    PROVE  /\ Shape(Loaded(txs, height, timestamp))
           /\ Loaded(txs, height, timestamp).allTx = Range(txs)
           /\ Range(Loaded(txs, height, timestamp).transactions) = Range(txs)
           /\ \A t \in Range(txs) : Loaded(txs, height, timestamp).height[t] = height[t]
<1> DEFINE N == Len(txs)
           H(n) == {txs[i] : i \in 1..n}
           P(v, n) == /\ Shape(v) /\ v.allTx = H(n) /\ Range(v.transactions) = H(n)
                      /\ \A t \in H(n) : v.height[t] = height[t]
<1>1. N \in Nat /\ \A i \in 1..N : txs[i] \in Tx /\ txs[i] \in Range(txs)
  BY DEF Range
<1>2. PICK f : Loading(f, txs, height, timestamp)
  BY LoadedEquations
<1>3. /\ Loaded(txs, height, timestamp) = f[N]
      /\ f[0] = EmptyWallet
      /\ \A n \in 0..(N - 1) : f[n + 1] = LoadTx(f[n], txs[n + 1], height, timestamp)
  BY <1>2, Zenon DEF Loading
<1>4. P(EmptyWallet, 0)
  <2>1. H(0) = {}
    OBVIOUS
  <2>2. EmptyWallet.allTx = {} /\ EmptyWallet.transactions = << >>
    BY DEF EmptyWallet
  <2>3. Range(<< >>) = {}
    BY DEF Range
  <2> HIDE DEF H
  <2> QED
    BY <2>1, <2>2, <2>3, EmptyWalletShape
<1>5. ASSUME NEW n \in 0..(N - 1), NEW v, P(v, n)
      PROVE  P(LoadTx(v, txs[n + 1], height, timestamp), n + 1)
  <2> DEFINE t == txs[n + 1]
             x == LoadTx(v, t, height, timestamp)
  <2>1. /\ n + 1 \in 1..N /\ t \in Tx /\ t \in Range(txs) /\ n + 1 \notin 1..n
        /\ \A i \in 1..n : i \in 1..N
    BY <1>1
  <2>2. H(n + 1) = H(n) \cup {t}
    BY <1>1, <2>1
  <2>3. t \notin H(n)
    <3>1. \A i, j \in 1..N : txs[i] = txs[j] => i = j
      BY <1>1 DEF IsInjective
    <3> QED
      BY <2>1, <3>1
  <2>4. \A u \in H(n) : u \in Tx
    BY <1>1, <2>1
  <2>5. Shape(v) /\ v.allTx = H(n) /\ Range(v.transactions) = H(n)
    BY <1>5
  <2>6. height[t] \in 0..TX_UNCONFIRMED /\ timestamp[t] \in {0, 1}
    BY <2>1
  <2> HIDE DEF H, t
  <2>7. /\ Shape(x) /\ x.allTx = v.allTx \cup {t} /\ Range(x.transactions) = v.allTx \cup {t}
        /\ x.height = [v.height EXCEPT ![t] = height[t]]
    BY <2>1, <2>3, <2>5, <2>6, LoadTxOK
  <2> HIDE DEF x
  <2>8. DOMAIN v.height = Tx
    BY <2>5, WalletFields DEF Shape
  <2>9. \A u \in H(n + 1) : x.height[u] = height[u]
    BY <1>5, <2>1, <2>2, <2>3, <2>4, <2>7, <2>8
  <2>10. P(x, n + 1)
    BY <2>2, <2>5, <2>7, <2>9
  <2> QED
    BY <2>10 DEF x, t
<1>6. H(N) = Range(txs)
  BY <1>1 DEF Range
<1> HIDE DEF P, H
<1> DEFINE G == {n \in 0..N : P(f[n], n)}
<1>7. 0 \in G
  BY <1>1, <1>3, <1>4
<1>8. ASSUME NEW n \in 0..(N - 1), n \in G PROVE n + 1 \in G
  <2>1. P(f[n], n) /\ n + 1 \in 0..N
    BY <1>1, <1>8
  <2>2. P(LoadTx(f[n], txs[n + 1], height, timestamp), n + 1)
    BY <1>5, <2>1
  <2> QED
    BY <1>3, <2>1, <2>2
<1> HIDE DEF G
<1>9. \A n \in 0..N : n \in G
  BY <1>1, <1>7, <1>8, UpTo
<1>10. P(f[N], N)
  BY <1>1, <1>9 DEF G
<1> QED
  BY <1>3, <1>6, <1>10 DEF P

LEMMA WalletNewOK ==
    ASSUME NEW txs \in Seq(Tx), IsInjective(txs), NEW height, NEW timestamp,
           \A t \in Range(txs) : height[t] \in 0..TX_UNCONFIRMED /\ timestamp[t] \in {0, 1}
    PROVE  /\ WalletOK(WalletNew(txs, height, timestamp))
           /\ WalletNew(txs, height, timestamp).allTx = Range(txs)
           /\ Range(WalletNew(txs, height, timestamp).transactions) = Range(txs)
           /\ \A t \in Range(txs) : WalletNew(txs, height, timestamp).height[t] = height[t]
<1> DEFINE l == Loaded(txs, height, timestamp)
           g == GrowChains(l, 0)
           u == UpdateBalance(g)
           ch == g.chain
<1>1. WalletNew(txs, height, timestamp) = u
  BY Zenon DEF WalletNew
<1>2. /\ Shape(l) /\ l.allTx = Range(txs) /\ Range(l.transactions) = Range(txs)
      /\ \A t \in Range(txs) : l.height[t] = height[t]
  BY LoadedOK
<1> HIDE DEF l
<1>3. Shape(g) /\ g = [l EXCEPT !.chain = ch]
  BY <1>2, GrowChainsOK
<1> HIDE DEF g, ch
<1>4. g.transactions = l.transactions /\ g.allTx = l.allTx /\ g.height = l.height
  BY <1>2, <1>3 DEF Shape, Wallet
<1>5. WalletOK(u) /\ SameList(u, g)
  BY <1>3, UpdateBalanceOK
<1> HIDE DEF u
<1> QED
  BY <1>1, <1>2, <1>4, <1>5 DEF SameList

=============================================================================
