------------------------- MODULE EthLightNodeProofs -------------------------
(***************************************************************************)
(* Proofs about the light node, for any tokens, any number of transactions *)
(* and blocks, and answers in any order: its types, its wallets, the order *)
(* in a wallet, and the nonces.                                            *)
(***************************************************************************)
EXTENDS EthLightNode, SequenceTheorems, FiniteSetTheorems, TLAPS

-----------------------------------------------------------------------------
(* The least and the greatest number of a set, which Min and Max choose.   *)

LEMMA MinIsLeast ==
    ASSUME NEW S \in SUBSET Nat, S # {}
    PROVE  Min(S) \in S /\ \A y \in S : Min(S) <= y
<1> DEFINE R == {p \in Nat \X Nat : p[1] < p[2]}
<1>1. IsWellFoundedOn(R, Nat)
  BY NatLessThanWellFounded, Zenon DEF OpToRel
<1> HIDE DEF R
<1>2. PICK x \in S : \A y \in S : ~ (<<y, x>> \in R)
  BY <1>1, WFMin
<1>3. \A y \in S : x <= y
  <2> SUFFICES ASSUME NEW y \in S PROVE x <= y
    OBVIOUS
  <2>1. x \in Nat /\ y \in Nat /\ <<y, x>> \in Nat \X Nat
    OBVIOUS
  <2>2. y < x => <<y, x>> \in R
    BY <2>1 DEF R
  <2> QED
    BY <1>2, <2>1, <2>2
<1> QED
  BY <1>3 DEF Min

LEMMA MaxIsGreatest ==
    ASSUME NEW n \in Nat, NEW S \in SUBSET (0..n), S # {}
    PROVE  Max(S) \in S /\ \A y \in S : y <= Max(S)
<1> DEFINE T == {n - y : y \in S}
<1>1. T \in SUBSET Nat /\ T # {}
  <2>1. \A y \in S : n - y \in Nat
    OBVIOUS
  <2>2. PICK y \in S : TRUE
    OBVIOUS
  <2> QED
    BY <2>1, <2>2
<1>2. Min(T) \in T /\ \A y \in T : Min(T) <= y
  BY <1>1, MinIsLeast
<1>3. PICK x \in S : Min(T) = n - x
  BY <1>2
<1>4. \A y \in S : x >= y
  <2> SUFFICES ASSUME NEW y \in S PROVE x >= y
    OBVIOUS
  <2>1. Min(T) <= n - y
    BY <1>2
  <2> QED
    BY <1>3, <2>1
<1> HIDE DEF T
<1> QED
  BY <1>4 DEF Max

-----------------------------------------------------------------------------
(* Inserting in and removing from a list, by position.                     *)

LEMMA InsertAtList ==
    ASSUME NEW S, NEW s \in Seq(S), NEW k \in 1..Len(s) + 1, NEW e \in S
    PROVE  /\ InsertAt(s, k, e) \in Seq(S)
           /\ Len(InsertAt(s, k, e)) = Len(s) + 1
           /\ \A j \in 1..Len(s) + 1 : InsertAt(s, k, e)[j] =
                  IF j < k THEN s[j] ELSE IF j = k THEN e ELSE s[j - 1]
<1> DEFINE a == SubSeq(s, 1, k - 1)
           b == SubSeq(s, k, Len(s))
<1>1. /\ a \in Seq(S) /\ Len(a) = k - 1
      /\ \A j \in 1..k - 1 : a[j] = s[j]
  BY SubSeqProperties, Z3
<1>2. /\ b \in Seq(S) /\ Len(b) = Len(s) - k + 1
      /\ \A j \in 1..Len(s) - k + 1 : b[j] = s[k + j - 1]
  BY SubSeqProperties, Z3
<1>3. /\ <<e>> \in Seq(S) /\ Len(<<e>>) = 1 /\ <<e>>[1] = e
  OBVIOUS
<1>4. InsertAt(s, k, e) = (a \o <<e>>) \o b
  BY DEF InsertAt
<1> HIDE DEF a, b
<1>5. /\ a \o <<e>> \in Seq(S) /\ Len(a \o <<e>>) = k
      /\ \A j \in 1..k : (a \o <<e>>)[j] = IF j < k THEN s[j] ELSE e
  BY <1>1, <1>3
<1> QED
  BY <1>2, <1>4, <1>5, ConcatProperties

LEMMA RemoveAtList ==
    ASSUME NEW S, NEW s \in Seq(S), NEW k \in 1..Len(s)
    PROVE  /\ RemoveAt(s, k) \in Seq(S)
           /\ Len(RemoveAt(s, k)) = Len(s) - 1
           /\ \A j \in 1..Len(s) - 1 :
                  RemoveAt(s, k)[j] = IF j < k THEN s[j] ELSE s[j + 1]
<1> DEFINE a == SubSeq(s, 1, k - 1)
           b == SubSeq(s, k + 1, Len(s))
<1>1. /\ a \in Seq(S) /\ Len(a) = k - 1
      /\ \A j \in 1..k - 1 : a[j] = s[j]
  BY SubSeqProperties, Z3
<1>2. /\ b \in Seq(S) /\ Len(b) = Len(s) - k
      /\ \A j \in 1..Len(s) - k : b[j] = s[k + j]
  BY SubSeqProperties, Z3
<1>3. RemoveAt(s, k) = a \o b
  BY DEF RemoveAt
<1> HIDE DEF a, b
<1> QED
  BY <1>1, <1>2, <1>3, ConcatProperties
-----------------------------------------------------------------------------
(* The list of a wallet: every id once, and what has a block in the order  *)
(* of the chain.                                                           *)

OnceEach(list) == \A i, j \in 1..Len(list) : list[i] = list[j] => i = j

Ordered(txs, list) ==
    \A i, j \in 1..Len(list) :
        i < j /\ Blocked(txs[list[i]]) /\ Blocked(txs[list[j]])
        => ChainOrder(txs[list[i]], txs[list[j]])

(* Where the scan from the end of the list stops. *)
LEMMA InsertSortedPlace ==
    ASSUME NEW S, NEW list \in Seq(S), NEW txs, NEW t
    PROVE  \E k \in 1..Len(list) + 1 :
              /\ InsertSorted(txs, list, t) = InsertAt(list, k, t)
              /\ \A j \in k..Len(list) : Before(txs[t], txs[list[j]])
              /\ k > 1 => ~Before(txs[t], txs[list[k - 1]])
<1> DEFINE stops == {i \in 1..Len(list) : ~Before(txs[t], txs[list[i]])}
           top == Max(stops \cup {0})
<1>1. InsertSorted(txs, list, t) = InsertAt(list, top + 1, t)
  BY Zenon DEF InsertSorted
<1>2. Len(list) \in Nat /\ stops \cup {0} \in SUBSET (0..Len(list)) /\ stops \cup {0} # {}
  OBVIOUS
<1>3. top \in stops \cup {0} /\ \A y \in stops \cup {0} : y <= top
  <2> HIDE DEF stops
  <2> QED
    BY <1>2, MaxIsGreatest
<1> HIDE DEF top
<1>4. top + 1 \in 1..Len(list) + 1
  BY <1>2, <1>3
<1>5. \A j \in top + 1..Len(list) : Before(txs[t], txs[list[j]])
  <2> SUFFICES ASSUME NEW j \in top + 1..Len(list), ~Before(txs[t], txs[list[j]])
               PROVE  FALSE
    OBVIOUS
  <2>1. top \in Nat /\ j \in 1..Len(list)
    BY <1>2, <1>3
  <2>2. j \in stops
    BY <2>1
  <2> QED
    BY <1>3, <2>1, <2>2
<1>6. top + 1 > 1 => ~Before(txs[t], txs[list[(top + 1) - 1]])
  <2>1. top # 0 => ~Before(txs[t], txs[list[top]])
    BY <1>3
  <2> QED
    BY <1>2, <1>3, <2>1
<1> QED
  BY <1>1, <1>4, <1>5, <1>6

LEMMA InsertSortedContains ==
    ASSUME NEW S, NEW list \in Seq(S), NEW txs, NEW t \in S
    PROVE  /\ InsertSorted(txs, list, t) \in Seq(S)
           /\ \A u : Contains(InsertSorted(txs, list, t), u)
                     <=> Contains(list, u) \/ u = t
           /\ OnceEach(list) /\ ~Contains(list, t)
              => OnceEach(InsertSorted(txs, list, t))
<1>1. PICK k \in 1..Len(list) + 1 : InsertSorted(txs, list, t) = InsertAt(list, k, t)
  BY InsertSortedPlace
<1> DEFINE new == InsertSorted(txs, list, t)
<1>2. /\ new \in Seq(S) /\ Len(new) = Len(list) + 1
      /\ \A j \in 1..Len(list) + 1 :
             new[j] = IF j < k THEN list[j] ELSE IF j = k THEN t ELSE list[j - 1]
  <2>1. /\ InsertAt(list, k, t) \in Seq(S) /\ Len(InsertAt(list, k, t)) = Len(list) + 1
        /\ \A j \in 1..Len(list) + 1 : InsertAt(list, k, t)[j] =
               IF j < k THEN list[j] ELSE IF j = k THEN t ELSE list[j - 1]
    BY InsertAtList
  <2> QED
    BY <1>1, <2>1
<1> HIDE DEF new
<1>3. ASSUME NEW u PROVE Contains(new, u) <=> Contains(list, u) \/ u = t
  <2>1. ASSUME Contains(new, u) PROVE Contains(list, u) \/ u = t
    <3>1. PICK j \in 1..Len(list) + 1 : new[j] = u
      BY <1>2, <2>1 DEF Contains
    <3>2. CASE j < k
      BY <1>2, <3>1, <3>2 DEF Contains
    <3>3. CASE j = k
      BY <1>2, <3>1, <3>3
    <3>4. CASE j > k
      <4>1. j - 1 \in 1..Len(list) /\ list[j - 1] = u
        BY <1>2, <3>1, <3>4
      <4> QED
        BY <4>1 DEF Contains
    <3> QED
      BY <3>2, <3>3, <3>4
  <2>2. ASSUME Contains(list, u) PROVE Contains(new, u)
    <3>1. PICK i \in 1..Len(list) : list[i] = u
      BY <2>2 DEF Contains
    <3>2. CASE i < k
      <4>1. i \in 1..Len(new) /\ new[i] = u
        BY <1>2, <3>1, <3>2
      <4> QED
        BY <4>1 DEF Contains
    <3>3. CASE i >= k
      <4>1. i + 1 \in 1..Len(new) /\ new[i + 1] = u
        BY <1>2, <3>1, <3>3
      <4> QED
        BY <4>1 DEF Contains
    <3> QED
      BY <3>2, <3>3
  <2>3. Contains(new, t)
    <3>1. k \in 1..Len(new) /\ new[k] = t
      BY <1>2
    <3> QED
      BY <3>1 DEF Contains
  <2> QED
    BY <2>1, <2>2, <2>3
<1>4. ASSUME OnceEach(list), ~Contains(list, t) PROVE OnceEach(new)
  <2> SUFFICES ASSUME NEW i \in 1..Len(new), NEW j \in 1..Len(new), new[i] = new[j], i < j
               PROVE  FALSE
    BY <1>2 DEF OnceEach
  <2>1. \A l \in 1..Len(list) : list[l] # t
    BY <1>4 DEF Contains
  <2>2. \A a, b \in 1..Len(list) : list[a] = list[b] => a = b
    BY <1>4 DEF OnceEach
  <2>3. Len(list) \in Nat /\ i \in 1..Len(list) + 1 /\ j \in 1..Len(list) + 1
    BY <1>2
  <2> DEFINE before(x) == IF x < k THEN x ELSE x - 1
  <2>4. \A x \in 1..Len(list) + 1 : x # k =>
          before(x) \in 1..Len(list) /\ new[x] = list[before(x)]
    BY <1>2, <2>3
  <2>5. new[k] = t
    BY <1>2, <2>3
  <2>6. i # k /\ j # k
    BY <2>1, <2>3, <2>4, <2>5
  <2>7. /\ before(i) \in 1..Len(list) /\ before(j) \in 1..Len(list)
        /\ list[before(i)] = list[before(j)]
    BY <2>3, <2>4, <2>6
  <2>8. before(i) # before(j)
    BY <2>3, <2>6
  <2> QED
    BY <2>2, <2>7, <2>8
<1> QED
  BY <1>2, <1>3, <1>4 DEF new

(* The place that walletLookupTransactionIndex finds. *)
LEMMA PlaceOf ==
    ASSUME NEW list, NEW t, Len(list) \in Nat, Contains(list, t)
    PROVE  /\ SelectInSeq(list, LAMBDA u : u = t) \in 1..Len(list)
           /\ list[SelectInSeq(list, LAMBDA u : u = t)] = t
<1> DEFINE places == {i \in 1..Len(list) : list[i] = t}
<1>1. places \in SUBSET Nat /\ places # {}
  BY DEF Contains
<1>2. SelectInSeq(list, LAMBDA u : u = t) = Min(places)
  BY <1>1, Zenon DEF SelectInSeq
<1>3. Min(places) \in places
  <2> HIDE DEF places
  <2> QED
    BY <1>1, MinIsLeast
<1> QED
  BY <1>2, <1>3

(* Removing an id that is in the list once. *)
LEMMA RemovedFrom ==
    ASSUME NEW S, NEW list \in Seq(S), NEW t, Contains(list, t), OnceEach(list)
    PROVE  LET rest == RemoveAt(list, SelectInSeq(list, LAMBDA u : u = t))
           IN  /\ rest \in Seq(S) /\ OnceEach(rest)
               /\ \A u : Contains(rest, u) <=> Contains(list, u) /\ u # t
               /\ \A txs : Ordered(txs, list) => Ordered(txs, rest)
<1> DEFINE k == SelectInSeq(list, LAMBDA u : u = t)
           rest == RemoveAt(list, k)
<1>1. k \in 1..Len(list) /\ list[k] = t
  <2>1. Len(list) \in Nat
    OBVIOUS
  <2> QED
    BY <2>1, PlaceOf, Zenon
<1> HIDE DEF k
<1>2. /\ rest \in Seq(S) /\ Len(rest) = Len(list) - 1
      /\ \A j \in 1..Len(list) - 1 : rest[j] = IF j < k THEN list[j] ELSE list[j + 1]
  BY <1>1, RemoveAtList
<1> HIDE DEF rest
<1>3. OnceEach(rest)
  BY <1>1, <1>2 DEF OnceEach
<1>4. ASSUME NEW u PROVE Contains(rest, u) <=> Contains(list, u) /\ u # t
  <2>1. ASSUME Contains(rest, u) PROVE Contains(list, u) /\ u # t
    <3>1. PICK j \in 1..Len(list) - 1 : rest[j] = u
      BY <1>2, <2>1 DEF Contains
    <3>2. PICK l \in 1..Len(list) : list[l] = u /\ l # k
      BY <1>1, <1>2, <3>1
    <3> QED
      BY <1>1, <3>2 DEF Contains, OnceEach
  <2>2. ASSUME Contains(list, u), u # t PROVE Contains(rest, u)
    <3>1. PICK i \in 1..Len(list) : list[i] = u
      BY <2>2 DEF Contains
    <3>2. CASE i < k
      <4>1. i \in 1..Len(rest) /\ rest[i] = u
        BY <1>1, <1>2, <3>1, <3>2
      <4> QED
        BY <4>1 DEF Contains
    <3>3. CASE i > k
      <4>1. i - 1 \in 1..Len(rest) /\ rest[i - 1] = u
        BY <1>1, <1>2, <3>1, <3>3
      <4> QED
        BY <4>1 DEF Contains
    <3> QED
      BY <1>1, <2>2, <3>1, <3>2, <3>3
  <2> QED
    BY <2>1, <2>2
<1>5. ASSUME NEW txs, Ordered(txs, list) PROVE Ordered(txs, rest)
  <2> SUFFICES ASSUME NEW i \in 1..Len(rest), NEW j \in 1..Len(rest), i < j,
                      Blocked(txs[rest[i]]), Blocked(txs[rest[j]])
               PROVE  ChainOrder(txs[rest[i]], txs[rest[j]])
    BY DEF Ordered
  <2>1. PICK a \in 1..Len(list), b \in 1..Len(list) :
            a < b /\ rest[i] = list[a] /\ rest[j] = list[b]
    <3> DEFINE at(x) == IF x < k THEN x ELSE x + 1
    <3>1. /\ at(i) \in 1..Len(list) /\ at(j) \in 1..Len(list) /\ at(i) < at(j)
          /\ rest[i] = list[at(i)] /\ rest[j] = list[at(j)]
      BY <1>1, <1>2
    <3> QED
      BY <3>1
  <2> QED
    BY <1>5, <2>1 DEF Ordered
<1> QED
  BY <1>2, <1>3, <1>4, <1>5 DEF rest, k

(* walletUpdateTransactionSorted keeps the ids of the list, once each. *)
LEMMA UpdateSortedContains ==
    ASSUME NEW S, NEW list \in Seq(S), NEW txs, NEW t \in S,
           Contains(list, t), OnceEach(list)
    PROVE  /\ UpdateSorted(txs, list, t) \in Seq(S)
           /\ \A u : Contains(UpdateSorted(txs, list, t), u) <=> Contains(list, u)
           /\ OnceEach(UpdateSorted(txs, list, t))
<1> DEFINE rest == RemoveAt(list, SelectInSeq(list, LAMBDA u : u = t))
<1>1. /\ rest \in Seq(S) /\ OnceEach(rest)
      /\ \A u : Contains(rest, u) <=> Contains(list, u) /\ u # t
  BY RemovedFrom
<1>2. UpdateSorted(txs, list, t) = InsertSorted(txs, rest, t)
  BY Zenon DEF UpdateSorted
<1> HIDE DEF rest
<1> QED
  BY <1>1, <1>2, InsertSortedContains

LEMMA ChainOrderTransitive ==
    ASSUME NEW x, NEW y, NEW z, ChainOrder(x, y), ChainOrder(y, z),
           x.number \in Nat, y.number \in Nat, z.number \in Nat,
           x.index \in Nat, y.index \in Nat, z.index \in Nat
    PROVE  ChainOrder(x, z)
BY DEF ChainOrder

(* Insertion keeps the order of the chain, whatever the order of the rest. *)
LEMMA InsertSortedOrdered ==
    ASSUME NEW S, NEW list \in Seq(S), NEW txs, NEW t \in S, Ordered(txs, list),
           \A u \in S : txs[u].number \in Nat /\ txs[u].index \in Nat
    PROVE  Ordered(txs, InsertSorted(txs, list, t))
<1>1. PICK k \in 1..Len(list) + 1 :
          /\ InsertSorted(txs, list, t) = InsertAt(list, k, t)
          /\ \A j \in k..Len(list) : Before(txs[t], txs[list[j]])
          /\ k > 1 => ~Before(txs[t], txs[list[k - 1]])
  BY InsertSortedPlace
<1> DEFINE new == InsertSorted(txs, list, t)
           before(x) == IF x < k THEN x ELSE x - 1
<1>2. /\ Len(new) = Len(list) + 1
      /\ \A j \in 1..Len(list) + 1 :
             new[j] = IF j < k THEN list[j] ELSE IF j = k THEN t ELSE list[j - 1]
  <2>1. /\ Len(InsertAt(list, k, t)) = Len(list) + 1
        /\ \A j \in 1..Len(list) + 1 : InsertAt(list, k, t)[j] =
               IF j < k THEN list[j] ELSE IF j = k THEN t ELSE list[j - 1]
    BY InsertAtList
  <2> QED
    BY <1>1, <2>1
<1>3. Len(list) \in Nat /\ \A x \in 1..Len(list) : list[x] \in S
  OBVIOUS
<1> HIDE DEF new
<1> SUFFICES ASSUME NEW i \in 1..Len(list) + 1, NEW j \in 1..Len(list) + 1, i < j,
                    Blocked(txs[new[i]]), Blocked(txs[new[j]])
             PROVE  ChainOrder(txs[new[i]], txs[new[j]])
  BY <1>2 DEF Ordered, new
<1>4. new[k] = t /\ \A x \in 1..Len(list) + 1 :
          x # k =>
          before(x) \in 1..Len(list) /\ new[x] = list[before(x)]
  BY <1>2, <1>3
<1>5. CASE i # k /\ j # k
  <2>1. before(i) \in 1..Len(list) /\ before(j) \in 1..Len(list) /\ before(i) < before(j)
    BY <1>3, <1>5
  <2>2. new[i] = list[before(i)] /\ new[j] = list[before(j)]
    BY <1>4, <1>5
  <2> HIDE DEF before
  <2> QED
    BY <2>1, <2>2 DEF Ordered
<1>6. CASE i = k
  <2>1. j - 1 \in k..Len(list) /\ new[j] = list[j - 1]
    BY <1>2, <1>3, <1>6
  <2>2. Before(txs[t], txs[list[j - 1]])
    BY <1>1, <2>1
  <2> QED
    BY <1>4, <1>6, <2>1, <2>2 DEF Before, ChainOrder
<1>7. CASE j = k
  <2>1. /\ k - 1 \in 1..Len(list) /\ i \in 1..Len(list) /\ i <= k - 1 /\ k > 1
        /\ new[i] = list[i]
    BY <1>2, <1>3, <1>7
  <2>2. ~Before(txs[t], txs[list[k - 1]])
    BY <1>1, <2>1
  <2>3. txs[list[k - 1]].number \in Nat /\ txs[list[k - 1]].index \in Nat
    BY <1>3, <2>1
  <2>4. Blocked(txs[list[k - 1]]) /\ ChainOrder(txs[list[k - 1]], txs[t])
    BY <1>4, <1>7, <2>2, <2>3 DEF Before, ChainOrder
  <2>5. CASE i = k - 1
    BY <1>4, <1>7, <2>1, <2>4, <2>5
  <2>6. CASE i < k - 1
    <3>1. ChainOrder(txs[list[i]], txs[list[k - 1]])
      BY <2>1, <2>4, <2>6 DEF Ordered
    <3>2. /\ txs[list[i]].number \in Nat /\ txs[list[i]].index \in Nat
          /\ txs[t].number \in Nat /\ txs[t].index \in Nat
      BY <1>3, <2>1
    <3>3. ChainOrder(txs[list[i]], txs[t])
      BY <2>3, <2>4, <3>1, <3>2, ChainOrderTransitive
    <3> QED
      BY <1>4, <1>7, <2>1, <3>3
  <2> QED
    BY <2>1, <2>5, <2>6
<1> QED
  BY <1>5, <1>6, <1>7

(* A list stays in order when its transactions lose their block or nothing *)
(* of them changes that its order depends on.                              *)
SamePlace(y, x) == Blocked(x) /\ y.number = x.number /\ y.index = x.index

LEMMA OrderedKept ==
    ASSUME NEW list, NEW txs, NEW txs2, Ordered(txs, list),
           \A u : Contains(list, u) /\ Blocked(txs2[u]) => SamePlace(txs2[u], txs[u])
    PROVE  Ordered(txs2, list)
<1>1. \A i \in 1..Len(list) : Contains(list, list[i])
  BY DEF Contains
<1> QED
  BY <1>1 DEF Ordered, SamePlace, ChainOrder

-----------------------------------------------------------------------------
(* The wallets ws over the transactions txs.                               *)

WalletRecord(n) == [token : Holding, txs : Seq(1..n)]

Listed(txs, ws) ==
    /\ ws \in Seq(WalletRecord(Len(txs)))
    /\ \A w \in 1..Len(ws) : OnceEach(ws[w].txs)
    /\ \A t \in 1..Len(txs) : \E w \in 1..Len(ws) : Contains(ws[w].txs, t)
    /\ \A v, w \in 1..Len(ws) : \A t \in 1..Len(txs) :
          Contains(ws[v].txs, t) /\ Contains(ws[w].txs, t) => v = w

InOrder(txs, ws) == \A w \in 1..Len(ws) : Ordered(txs, ws[w].txs)

OnePerToken(ws) ==
    /\ Len(ws) >= 1 /\ ws[EtherWallet].token = Ether
    /\ \A v, w \in 1..Len(ws) : ws[v].token = ws[w].token => v = w

WalletsOK(txs, ws) == Listed(txs, ws) /\ InOrder(txs, ws) /\ OnePerToken(ws)

Kept(ws, ws2) ==
    /\ Len(ws2) >= Len(ws)
    /\ \A w \in 1..Len(ws) : \A t : Contains(ws[w].txs, t) => Contains(ws2[w].txs, t)

LEMMA KeptTransitive ==
    ASSUME NEW ws, NEW ws2, NEW ws3, Kept(ws, ws2), Kept(ws2, ws3),
           Len(ws) \in Nat, Len(ws2) \in Nat, Len(ws3) \in Nat
    PROVE  Kept(ws, ws3)
BY DEF Kept

(* A change of transactions that gives none of them a block.               *)
LEMMA WalletsUnblocked ==
    ASSUME NEW txs, NEW txs2, NEW ws, WalletsOK(txs, ws), Len(txs2) = Len(txs),
           \A u \in 1..Len(txs) : Blocked(txs2[u]) => SamePlace(txs2[u], txs[u])
    PROVE  WalletsOK(txs2, ws)
<1>1. Listed(txs2, ws) /\ OnePerToken(ws)
  BY DEF WalletsOK, Listed
<1>2. ASSUME NEW w \in 1..Len(ws) PROVE Ordered(txs2, ws[w].txs)
  <2>1. ws[w].txs \in Seq(1..Len(txs)) /\ Ordered(txs, ws[w].txs)
    <3>1. ws \in Seq(WalletRecord(Len(txs))) /\ Ordered(txs, ws[w].txs)
      BY DEF WalletsOK, Listed, InOrder
    <3>2. ws[w] \in WalletRecord(Len(txs))
      BY <3>1
    <3> QED
      BY <3>1, <3>2 DEF WalletRecord
  <2>2. \A u : Contains(ws[w].txs, u) => u \in 1..Len(txs)
    BY <2>1 DEF Contains
  <2> QED
    BY <2>1, <2>2, OrderedKept
<1> QED
  BY <1>1, <1>2 DEF WalletsOK, InOrder

(* A new wallet, on demand.                                                *)
LEMMA WalletFound ==
    ASSUME NEW ws, NEW token, Len(ws) \in Nat
    PROVE  /\ SelectInSeq(ws, LAMBDA x : x.token = token) \in 0..Len(ws)
           /\ SelectInSeq(ws, LAMBDA x : x.token = token) # 0
              => ws[SelectInSeq(ws, LAMBDA x : x.token = token)].token = token
           /\ SelectInSeq(ws, LAMBDA x : x.token = token) = 0
              => \A v \in 1..Len(ws) : ws[v].token # token
<1> DEFINE places == {i \in 1..Len(ws) : ws[i].token = token}
           w == SelectInSeq(ws, LAMBDA x : x.token = token)
<1>1. w = IF places # {} THEN Min(places) ELSE 0
  BY Zenon DEF SelectInSeq
<1>2. places # {} => Min(places) \in places
  <2>1. places \in SUBSET Nat
    OBVIOUS
  <2> HIDE DEF places
  <2> QED
    BY <2>1, MinIsLeast
<1>3. places = {} => \A v \in 1..Len(ws) : ws[v].token # token
  OBVIOUS
<1>4. places \subseteq 1..Len(ws) /\ \A v \in places : ws[v].token = token
  OBVIOUS
<1> HIDE DEF places
<1>5. w \in 0..Len(ws) /\ (w # 0 => ws[w].token = token)
      /\ (w = 0 => \A v \in 1..Len(ws) : ws[v].token # token)
  <2> HIDE DEF w
  <2>1. CASE places = {}
    BY <1>1, <1>3, <2>1
  <2>2. CASE places # {}
    <3>1. w \in 1..Len(ws) /\ ws[w].token = token
      BY <1>1, <1>2, <1>4, <2>2
    <3> QED
      BY <3>1
  <2> QED
    BY <2>1, <2>2
<1> QED
  BY <1>5, Zenon

LEMMA WithWalletOK ==
    ASSUME NEW txs, WalletsOK(txs, wallets), NEW token \in Holding
    PROVE  /\ WalletsOK(txs, WithWallet(token))
           /\ Kept(wallets, WithWallet(token))
           /\ SelectInSeq(WithWallet(token), LAMBDA x : x.token = token)
                 \in 1..Len(WithWallet(token))
           /\ WithWallet(token)[SelectInSeq(WithWallet(token),
                                             LAMBDA x : x.token = token)].token = token
<1>1. wallets \in Seq(WalletRecord(Len(txs))) /\ Len(wallets) \in Nat
  BY DEF WalletsOK, Listed
<1>2. /\ WalletFor(token) \in 0..Len(wallets)
      /\ WalletFor(token) # 0 => wallets[WalletFor(token)].token = token
      /\ WalletFor(token) = 0 => \A v \in 1..Len(wallets) : wallets[v].token # token
  BY <1>1, WalletFound, Zenon DEF WalletFor
<1>3. CASE WalletFor(token) # 0
  <2>1. WithWallet(token) = wallets
    BY <1>3 DEF WithWallet
  <2> QED
    BY <1>1, <1>2, <1>3, <2>1 DEF Kept, WalletFor
<1>4. CASE WalletFor(token) = 0
  <2> DEFINE new == [token |-> token, txs |-> <<>>]
             ws == Append(wallets, new)
             n == Len(wallets)
  <2>1. WithWallet(token) = ws
    BY <1>4 DEF WithWallet
  <2>2. new \in WalletRecord(Len(txs)) /\ new.token = token /\ new.txs = <<>>
    BY DEF WalletRecord
  <2> HIDE DEF new
  <2>3. /\ ws \in Seq(WalletRecord(Len(txs))) /\ Len(ws) = n + 1
        /\ ws[n + 1] = new /\ \A w \in 1..n : ws[w] = wallets[w]
    BY <1>1, <2>2, AppendProperties
  <2> HIDE DEF ws
  <2>4. /\ \A t : ~Contains(ws[n + 1].txs, t)
        /\ OnceEach(ws[n + 1].txs) /\ Ordered(txs, ws[n + 1].txs)
    BY <2>2, <2>3 DEF Contains, OnceEach, Ordered
  <2>5. Listed(txs, ws)
    <3>1. \A w \in 1..n + 1 : OnceEach(ws[w].txs)
      <4>1. \A w \in 1..n : OnceEach(ws[w].txs)
        BY <1>1, <2>3 DEF WalletsOK, Listed
      <4> QED
        BY <1>1, <2>4, <4>1
    <3>2. ASSUME NEW t \in 1..Len(txs)
          PROVE  \E w \in 1..n + 1 : Contains(ws[w].txs, t)
      BY <1>1, <2>3 DEF WalletsOK, Listed
    <3>3. ASSUME NEW t \in 1..Len(txs), NEW v \in 1..n + 1, NEW w \in 1..n + 1,
                 Contains(ws[v].txs, t), Contains(ws[w].txs, t)
          PROVE  v = w
      <4>1. v \in 1..n /\ w \in 1..n
        BY <1>1, <2>4, <3>3
      <4>2. Contains(wallets[v].txs, t) /\ Contains(wallets[w].txs, t)
        BY <2>3, <3>3, <4>1
      <4> QED
        BY <4>1, <4>2 DEF WalletsOK, Listed
    <3> QED
      BY <2>3, <3>1, <3>2, <3>3 DEF Listed
  <2>6. InOrder(txs, ws)
    BY <1>1, <2>3, <2>4 DEF WalletsOK, InOrder
  <2>7. OnePerToken(ws)
    BY <1>1, <1>2, <1>4, <2>2, <2>3 DEF WalletsOK, OnePerToken, EtherWallet
  <2>8. Kept(wallets, ws)
    BY <1>1, <2>3 DEF Kept
  <2>9. /\ SelectInSeq(ws, LAMBDA x : x.token = token) \in 1..Len(ws)
        /\ ws[SelectInSeq(ws, LAMBDA x : x.token = token)].token = token
    <3>1. /\ SelectInSeq(ws, LAMBDA x : x.token = token) \in 0..Len(ws)
          /\ SelectInSeq(ws, LAMBDA x : x.token = token) # 0
             => ws[SelectInSeq(ws, LAMBDA x : x.token = token)].token = token
          /\ SelectInSeq(ws, LAMBDA x : x.token = token) = 0
             => \A v \in 1..Len(ws) : ws[v].token # token
      <4>1. Len(ws) \in Nat
        BY <1>1, <2>3
      <4> HIDE DEF ws
      <4> QED
        BY <4>1, WalletFound, Zenon
    <3>2. n + 1 \in 1..Len(ws) /\ ws[n + 1].token = token /\ Len(ws) \in Nat
      BY <1>1, <2>2, <2>3
    <3> QED
      BY <3>1, <3>2
  <2> QED
    BY <2>1, <2>5, <2>6, <2>7, <2>8, <2>9 DEF WalletsOK
<1> QED
  BY <1>3, <1>4

LEMMA TransactionFields ==
    ASSUME NEW txs \in Seq(TransactionType), NEW t \in 1..Len(txs)
    PROVE  /\ txs[t] \in TransactionType
           /\ txs[t].own \in BOOLEAN /\ txs[t].local \in BOOLEAN
           /\ txs[t].nonce \in Nat /\ txs[t].hash \in Nat /\ txs[t].status \in Status
           /\ txs[t].number \in Nat /\ txs[t].index \in Nat
<1>1. txs[t] \in TransactionType
  OBVIOUS
<1> QED
  BY <1>1 DEF TransactionType

(* ws2 is ws with the list l for wallet w.                                 *)
Replaced(ws, ws2, w, l) ==
    /\ Len(ws2) = Len(ws) /\ ws2[w].txs = l
    /\ \A v \in 1..Len(ws) : ws2[v].token = ws[v].token
    /\ \A v \in 1..Len(ws) : v # w => ws2[v].txs = ws[v].txs

LEMMA ListReplaced ==
    ASSUME NEW n \in Nat, NEW k \in Nat, k <= n, NEW ws \in Seq(WalletRecord(k)),
           NEW w \in 1..Len(ws), NEW l \in Seq(1..n),
           NEW ws2, ws2 = [ws EXCEPT ![w].txs = l]
    PROVE  ws2 \in Seq(WalletRecord(n)) /\ Replaced(ws, ws2, w, l)
<1> DEFINE r == [ws[w] EXCEPT !.txs = l]
<1>1. Seq(1..k) \subseteq Seq(1..n)
  BY SeqMonotonic
<1>2. ws \in Seq(WalletRecord(n))
  <2>1. WalletRecord(k) \subseteq WalletRecord(n)
    BY <1>1 DEF WalletRecord
  <2> QED
    BY <2>1, SeqMonotonic
<1>3. ws[w] \in WalletRecord(n)
  BY <1>2
<1>4. r \in WalletRecord(n) /\ r.txs = l /\ r.token = ws[w].token
  BY <1>3 DEF WalletRecord
<1>5. ws2 = [ws EXCEPT ![w] = r]
  BY Zenon
<1> HIDE DEF r
<1>6. /\ [ws EXCEPT ![w] = r] \in Seq(WalletRecord(n))
      /\ Len([ws EXCEPT ![w] = r]) = Len(ws)
      /\ \A v \in 1..Len(ws) : [ws EXCEPT ![w] = r][v] = IF v = w THEN r ELSE ws[v]
  BY <1>2, <1>4, ExceptSeq
<1> QED
  BY <1>4, <1>5, <1>6 DEF Replaced

LEMMA WalletList ==
    ASSUME NEW txs, NEW ws, WalletsOK(txs, ws), NEW w \in 1..Len(ws), Len(txs) \in Nat
    PROVE  /\ ws \in Seq(WalletRecord(Len(txs))) /\ Len(ws) \in Nat
           /\ ws[w].txs \in Seq(1..Len(txs)) /\ ws[w].token \in Holding
           /\ OnceEach(ws[w].txs) /\ Ordered(txs, ws[w].txs)
           /\ \A u : Contains(ws[w].txs, u) => u \in 1..Len(txs)
<1>1. /\ ws \in Seq(WalletRecord(Len(txs))) /\ Ordered(txs, ws[w].txs)
      /\ OnceEach(ws[w].txs)
  BY DEF WalletsOK, Listed, InOrder
<1>2. ws[w] \in WalletRecord(Len(txs))
  BY <1>1
<1>3. ws[w].txs \in Seq(1..Len(txs)) /\ ws[w].token \in Holding
  BY <1>2 DEF WalletRecord
<1>4. \A u : Contains(ws[w].txs, u) => u \in 1..Len(txs)
  BY <1>3 DEF Contains
<1> QED
  BY <1>1, <1>3, <1>4

(* A new transaction, without a block, is inserted in a wallet.            *)
Inserting(txs, ws, w, x, new, t, ws2) ==
    /\ txs \in Seq(TransactionType) /\ WalletsOK(txs, ws) /\ w \in 1..Len(ws)
    /\ x \in TransactionType /\ ~Blocked(x)
    /\ new = Append(txs, x) /\ t = Len(txs) + 1
    /\ ws2 = [ws EXCEPT ![w].txs = InsertSorted(new, ws[w].txs, t)]

Inserted(txs, ws, w, x, new, t, ws2) ==
    /\ new \in Seq(TransactionType) /\ Len(new) = t /\ new[t] = x
    /\ \A u \in 1..Len(txs) : new[u] = txs[u]
    /\ WalletsOK(new, ws2) /\ Len(ws2) = Len(ws) /\ Kept(ws, ws2)
    /\ Contains(ws2[w].txs, t)

LEMMA WalletsInsert ==
    ASSUME NEW txs, NEW ws, NEW w, NEW x, NEW new, NEW t, NEW ws2,
           Inserting(txs, ws, w, x, new, t, ws2)
    PROVE  Inserted(txs, ws, w, x, new, t, ws2)
<1>0. /\ txs \in Seq(TransactionType) /\ WalletsOK(txs, ws) /\ w \in 1..Len(ws)
      /\ x \in TransactionType /\ ~Blocked(x)
      /\ new = Append(txs, x) /\ t = Len(txs) + 1
      /\ ws2 = [ws EXCEPT ![w].txs = InsertSorted(new, ws[w].txs, t)]
  BY DEF Inserting
<1> USE <1>0
<1> DEFINE n == Len(txs)
<1>1. /\ n \in Nat /\ t \in 1..t /\ new \in Seq(TransactionType) /\ Len(new) = t
      /\ new[t] = x /\ \A u \in 1..n : new[u] = txs[u]
  BY AppendProperties
<1> DEFINE l == InsertSorted(new, ws[w].txs, t)
<1>2. \A v \in 1..Len(ws) :
        /\ ws \in Seq(WalletRecord(n)) /\ Len(ws) \in Nat
        /\ ws[v].txs \in Seq(1..n) /\ OnceEach(ws[v].txs) /\ Ordered(txs, ws[v].txs)
        /\ \A u : Contains(ws[v].txs, u) => u \in 1..n
  BY <1>1, WalletList
<1>3. ws[w].txs \in Seq(1..t) /\ ~Contains(ws[w].txs, t)
  <2>1. Seq(1..n) \subseteq Seq(1..t)
    BY <1>1, SeqMonotonic
  <2> QED
    BY <1>1, <1>2, <2>1
<1>4. /\ l \in Seq(1..t) /\ OnceEach(l)
      /\ \A u : Contains(l, u) <=> Contains(ws[w].txs, u) \/ u = t
  BY <1>1, <1>2, <1>3, InsertSortedContains
<1>5. \A v \in 1..Len(ws) : Ordered(new, ws[v].txs)
  BY <1>1, <1>2, OrderedKept DEF SamePlace
<1>6. Ordered(new, l)
  <2>1. \A u \in 1..t : new[u].number \in Nat /\ new[u].index \in Nat
    BY <1>1, TransactionFields
  <2> QED
    BY <1>1, <1>3, <1>5, <2>1, InsertSortedOrdered
<1> HIDE DEF l
<1>7. /\ ws2 \in Seq(WalletRecord(t)) /\ Len(ws2) = Len(ws) /\ ws2[w].txs = l
      /\ \A v \in 1..Len(ws) : ws2[v].token = ws[v].token
      /\ \A v \in 1..Len(ws) : v # w => ws2[v].txs = ws[v].txs
  <2>1. ws2 = [ws EXCEPT ![w].txs = l]
    BY DEF l
  <2>2. n \in Nat /\ t \in Nat /\ n <= t /\ ws \in Seq(WalletRecord(n)) /\ l \in Seq(1..t)
    BY <1>1, <1>2, <1>4
  <2> HIDE DEF n
  <2>3. ASSUME NEW m \in Nat, n <= m, l \in Seq(1..m)
        PROVE  ws2 \in Seq(WalletRecord(m)) /\ Replaced(ws, ws2, w, l)
    BY <2>1, <2>2, <2>3, ListReplaced, Zenon
  <2>4. ws2 \in Seq(WalletRecord(t)) /\ Replaced(ws, ws2, w, l)
    BY <2>2, <2>3
  <2> QED
    BY <2>4 DEF Replaced
<1>8. Listed(new, ws2)
  <2>1. \A v \in 1..Len(ws2) : OnceEach(ws2[v].txs)
    BY <1>2, <1>4, <1>7
  <2>2. ASSUME NEW u \in 1..t PROVE \E v \in 1..Len(ws2) : Contains(ws2[v].txs, u)
    <3>1. CASE u = t
      BY <1>4, <1>7, <3>1
    <3>2. CASE u # t
      <4>1. u \in 1..n
        BY <1>1, <3>2
      <4>2. PICK v \in 1..Len(ws) : Contains(ws[v].txs, u)
        BY <4>1 DEF WalletsOK, Listed
      <4> QED
        BY <1>4, <1>7, <4>2
    <3> QED
      BY <3>1, <3>2
  <2>3. ASSUME NEW v1 \in 1..Len(ws2), NEW v2 \in 1..Len(ws2), NEW u \in 1..t,
               Contains(ws2[v1].txs, u), Contains(ws2[v2].txs, u)
        PROVE  v1 = v2
    <3>1. CASE u = t
      BY <1>1, <1>2, <1>7, <2>3, <3>1
    <3>2. CASE u # t
      <4>1. u \in 1..n
        BY <1>1, <3>2
      <4>2. Contains(ws[v1].txs, u) /\ Contains(ws[v2].txs, u)
        BY <1>4, <1>7, <2>3, <3>2
      <4> QED
        BY <1>7, <4>1, <4>2 DEF WalletsOK, Listed
    <3> QED
      BY <3>1, <3>2
  <2> QED
    BY <1>1, <1>7, <2>1, <2>2, <2>3 DEF Listed
<1>9. InOrder(new, ws2)
  BY <1>5, <1>6, <1>7 DEF InOrder
<1>10. OnePerToken(ws2)
  BY <1>7 DEF WalletsOK, OnePerToken, EtherWallet
<1>11. Kept(ws, ws2)
  BY <1>2, <1>4, <1>7 DEF Kept
<1> QED
  BY <1>1, <1>4, <1>7, <1>8, <1>9, <1>10, <1>11 DEF WalletsOK, Inserted

(* A transaction of wallet w gets its block, and a new place in the list.  *)
Updating(txs, ws, w, t, txs2, ws2) ==
    /\ txs \in Seq(TransactionType) /\ WalletsOK(txs, ws) /\ w \in 1..Len(ws)
    /\ Contains(ws[w].txs, t) /\ txs2 \in Seq(TransactionType) /\ Len(txs2) = Len(txs)
    /\ \A u \in 1..Len(txs) : u # t => txs2[u] = txs[u]
    /\ ws2 = [ws EXCEPT ![w].txs = UpdateSorted(txs2, ws[w].txs, t)]

LEMMA WalletsUpdate ==
    ASSUME NEW txs, NEW ws, NEW w, NEW t, NEW txs2, NEW ws2,
           Updating(txs, ws, w, t, txs2, ws2)
    PROVE  WalletsOK(txs2, ws2) /\ Kept(ws, ws2)
<1>0. /\ txs \in Seq(TransactionType) /\ WalletsOK(txs, ws) /\ w \in 1..Len(ws)
      /\ Contains(ws[w].txs, t) /\ txs2 \in Seq(TransactionType) /\ Len(txs2) = Len(txs)
      /\ \A u \in 1..Len(txs) : u # t => txs2[u] = txs[u]
      /\ ws2 = [ws EXCEPT ![w].txs = UpdateSorted(txs2, ws[w].txs, t)]
  BY DEF Updating
<1> USE <1>0
<1> DEFINE n == Len(txs)
           l == UpdateSorted(txs2, ws[w].txs, t)
           rest == RemoveAt(ws[w].txs, SelectInSeq(ws[w].txs, LAMBDA u : u = t))
<1>1. n \in Nat /\ \A u \in 1..n : txs2[u].number \in Nat /\ txs2[u].index \in Nat
  BY TransactionFields
<1>2. \A v \in 1..Len(ws) :
        /\ ws \in Seq(WalletRecord(n)) /\ Len(ws) \in Nat
        /\ ws[v].txs \in Seq(1..n) /\ OnceEach(ws[v].txs) /\ Ordered(txs, ws[v].txs)
        /\ \A u : Contains(ws[v].txs, u) => u \in 1..n
  BY <1>1, WalletList
<1>3. t \in 1..n
  BY <1>2
<1>4. /\ l \in Seq(1..n) /\ OnceEach(l)
      /\ \A u : Contains(l, u) <=> Contains(ws[w].txs, u)
  BY <1>2, <1>3, UpdateSortedContains
<1>5. \A v \in 1..Len(ws) : v # w => Ordered(txs2, ws[v].txs)
  <2> SUFFICES ASSUME NEW v \in 1..Len(ws), v # w PROVE Ordered(txs2, ws[v].txs)
    OBVIOUS
  <2>1. ~Contains(ws[v].txs, t)
    BY <1>3 DEF WalletsOK, Listed
  <2> QED
    BY <1>2, <2>1, OrderedKept DEF SamePlace
<1>6. Ordered(txs2, l)
  <2>1. /\ rest \in Seq(1..n) /\ Ordered(txs, rest)
        /\ \A u : Contains(rest, u) => u \in 1..n /\ u # t
    BY <1>2, RemovedFrom
  <2>2. l = InsertSorted(txs2, rest, t)
    BY Zenon DEF UpdateSorted
  <2> HIDE DEF rest, l
  <2>3. Ordered(txs2, rest)
    BY <2>1, OrderedKept DEF SamePlace
  <2> QED
    BY <1>1, <1>3, <2>1, <2>2, <2>3, InsertSortedOrdered
<1> HIDE DEF l
<1>7. /\ ws2 \in Seq(WalletRecord(n)) /\ Len(ws2) = Len(ws) /\ ws2[w].txs = l
      /\ \A v \in 1..Len(ws) : ws2[v].token = ws[v].token
      /\ \A v \in 1..Len(ws) : v # w => ws2[v].txs = ws[v].txs
  <2>1. ws2 = [ws EXCEPT ![w].txs = l]
    BY DEF l
  <2>2. n \in Nat /\ n <= n /\ ws \in Seq(WalletRecord(n)) /\ l \in Seq(1..n)
    BY <1>1, <1>2, <1>4
  <2> HIDE DEF n
  <2>3. ws2 \in Seq(WalletRecord(n)) /\ Replaced(ws, ws2, w, l)
    BY <2>1, <2>2, ListReplaced, Zenon
  <2> QED
    BY <2>3 DEF Replaced
<1>8. \A v \in 1..Len(ws) : \A u : Contains(ws2[v].txs, u) <=> Contains(ws[v].txs, u)
  BY <1>4, <1>7
<1>9. Listed(txs2, ws2)
  <2>1. \A v \in 1..Len(ws2) : OnceEach(ws2[v].txs)
    BY <1>2, <1>4, <1>7
  <2>2. \A u \in 1..n : \E v \in 1..Len(ws) : Contains(ws[v].txs, u)
    BY DEF WalletsOK, Listed
  <2>3. \A v1, v2 \in 1..Len(ws) : \A u \in 1..n :
          Contains(ws[v1].txs, u) /\ Contains(ws[v2].txs, u) => v1 = v2
    BY DEF WalletsOK, Listed
  <2> QED
    BY <1>7, <1>8, <2>1, <2>2, <2>3 DEF Listed
<1>10. InOrder(txs2, ws2)
  BY <1>5, <1>6, <1>7 DEF InOrder
<1>11. OnePerToken(ws2)
  BY <1>7 DEF WalletsOK, OnePerToken, EtherWallet
<1>12. Kept(ws, ws2)
  <2>1. Len(ws2) >= Len(ws)
    BY <1>2, <1>7
  <2> QED
    BY <1>7, <1>8, <2>1, Zenon DEF Kept
<1> QED
  BY <1>7, <1>9, <1>10, <1>11, <1>12 DEF WalletsOK

-----------------------------------------------------------------------------
(* Announcements.                                                          *)

(* What a transaction is known by. *)
Identity(x) == <<x.own, x.local, x.nonce, x.hash>>

(* The transactions that were there are known by the same.                 *)
Known(txs, txs2) ==
    /\ txs2 \in Seq(TransactionType) /\ Len(txs2) >= Len(txs)
    /\ \A u \in 1..Len(txs) : Identity(txs2[u]) = Identity(txs[u])

LEMMA AsBlockedFields ==
    ASSUME NEW txs \in Seq(TransactionType), NEW t \in 1..Len(txs), NEW m \in MinedType
    PROVE  /\ Known(txs, AsBlocked(txs, t, m)) /\ Len(AsBlocked(txs, t, m)) = Len(txs)
           /\ \A u \in 1..Len(txs) : u # t => AsBlocked(txs, t, m)[u] = txs[u]
<1> DEFINE y == [txs[t] EXCEPT !.status = "BLOCKED", !.number = m.number, !.index = m.index]
           txs2 == AsBlocked(txs, t, m)
<1>1. txs[t] \in TransactionType /\ m.number \in Nat /\ m.index \in Nat
  BY TransactionFields DEF MinedType
<1>2. y \in TransactionType /\ Identity(y) = Identity(txs[t])
  BY <1>1 DEF TransactionType, Identity, Status
<1>3. txs2 = [txs EXCEPT ![t] = y]
  BY DEF AsBlocked
<1> HIDE DEF y, txs2
<1>4. /\ txs2 \in Seq(TransactionType) /\ Len(txs2) = Len(txs)
      /\ \A u \in 1..Len(txs) : txs2[u] = IF u = t THEN y ELSE txs[u]
  BY <1>2, <1>3, ExceptSeq
<1>5. Known(txs, txs2)
  BY <1>2, <1>4 DEF Known
<1> QED
  BY <1>4, <1>5 DEF txs2

LEMMA MarkBlockedOK ==
    ASSUME NEW txs \in Seq(TransactionType), NEW ws, WalletsOK(txs, ws),
           NEW w \in 1..Len(ws), NEW t, Contains(ws[w].txs, t), NEW m \in MinedType,
           MarkBlocked(txs, ws, w, t, m)
    PROVE  /\ Known(txs, transactions') /\ Len(transactions') = Len(txs)
           /\ WalletsOK(transactions', wallets') /\ Kept(ws, wallets')
<1>1. CASE Blocked(txs[t])
  <2>1. transactions' = txs /\ wallets' = ws
    BY <1>1 DEF MarkBlocked
  <2>2. Len(ws) \in Nat /\ Len(txs) \in Nat
    BY DEF WalletsOK, Listed
  <2> QED
    BY <2>1, <2>2 DEF Known, Kept
<1>2. CASE ~Blocked(txs[t])
  <2> DEFINE txs2 == AsBlocked(txs, t, m)
  <2>1. /\ transactions' = txs2
        /\ wallets' = [ws EXCEPT ![w].txs = UpdateSorted(txs2, ws[w].txs, t)]
    BY <1>2 DEF MarkBlocked
  <2>2. t \in 1..Len(txs)
    BY WalletList
  <2>3. /\ Known(txs, txs2) /\ Len(txs2) = Len(txs)
        /\ \A u \in 1..Len(txs) : u # t => txs2[u] = txs[u]
    BY <2>2, AsBlockedFields
  <2> HIDE DEF txs2
  <2>4. txs2 \in Seq(TransactionType)
    BY <2>3 DEF Known
  <2>5. Updating(txs, ws, w, t, txs2, wallets')
    BY <2>1, <2>3, <2>4 DEF Updating
  <2>6. WalletsOK(txs2, wallets') /\ Kept(ws, wallets')
    BY <2>5, WalletsUpdate
  <2> QED
    BY <2>1, <2>3, <2>6
<1> QED
  BY <1>1, <1>2

LEMMA HeardOfOK ==
    ASSUME transactions \in Seq(TransactionType), NEW ws, WalletsOK(transactions, ws),
           NEW w \in 1..Len(ws), NEW m \in MinedType, NEW n \in Nat, HeardOf(ws, w, m, n)
    PROVE  /\ Known(transactions, transactions')
           /\ Len(transactions') = Len(transactions) + 1
           /\ ~transactions'[Len(transactions) + 1].local
           /\ transactions'[Len(transactions) + 1].hash = m.hash
           /\ WalletsOK(transactions', wallets') /\ Kept(ws, wallets')
           /\ Contains(wallets'[w].txs, Len(transactions) + 1)
<1> DEFINE t == Len(transactions) + 1
           x == NewTransaction(m.own, FALSE, n)
           y == [x EXCEPT !.status = "SUBMITTED", !.hash = m.hash]
           new == Append(transactions, x)
           sub == [new EXCEPT ![t].status = "SUBMITTED", ![t].hash = m.hash]
           ws2 == [ws EXCEPT ![w].txs = InsertSorted(new, ws[w].txs, t)]
<1>1. MarkBlocked(sub, ws2, w, t, m)
  BY DEF HeardOf
<1>2. x \in TransactionType /\ ~Blocked(x)
  BY DEF NewTransaction, TransactionType, Status, MinedType, NoHash, Blocked
<1>3. y \in TransactionType /\ ~Blocked(y) /\ ~y.local /\ y.hash = m.hash
  BY DEF NewTransaction, TransactionType, Status, MinedType, NoHash, Blocked
<1>4. sub = [new EXCEPT ![t] = [new[t] EXCEPT !.status = "SUBMITTED", !.hash = m.hash]]
  OBVIOUS
<1> HIDE DEF x
<1>5. /\ new \in Seq(TransactionType) /\ Len(new) = t /\ new[t] = x
      /\ \A u \in 1..Len(transactions) : new[u] = transactions[u]
      /\ WalletsOK(new, ws2) /\ Len(ws2) = Len(ws) /\ Kept(ws, ws2)
      /\ Contains(ws2[w].txs, t)
  <2> HIDE DEF new, ws2
  <2>1. /\ new = Append(transactions, x)
        /\ ws2 = [ws EXCEPT ![w].txs = InsertSorted(new, ws[w].txs, t)]
    BY DEF new, ws2
  <2>2. Inserting(transactions, ws, w, x, new, t, ws2)
    BY <1>2, <2>1 DEF Inserting
  <2>3. Inserted(transactions, ws, w, x, new, t, ws2)
    BY <2>2, WalletsInsert
  <2> QED
    BY <2>3 DEF Inserted
<1>6. sub = [new EXCEPT ![t] = y]
  BY <1>4, <1>5
<1> HIDE DEF y, new, ws2, sub
<1>7. Len(transactions) \in Nat /\ t \in 1..Len(new)
  BY <1>5
<1>8. /\ sub \in Seq(TransactionType) /\ Len(sub) = t
      /\ \A u \in 1..t : sub[u] = IF u = t THEN y ELSE new[u]
  BY <1>3, <1>5, <1>6, <1>7, ExceptSeq
<1>9. WalletsOK(sub, ws2)
  BY <1>3, <1>5, <1>8, WalletsUnblocked DEF SamePlace
<1>10. /\ Known(sub, transactions') /\ Len(transactions') = t
       /\ WalletsOK(transactions', wallets') /\ Kept(ws2, wallets')
  BY <1>1, <1>5, <1>8, <1>9, MarkBlockedOK
<1>11. Known(transactions, transactions')
  <2>1. \A u \in 1..Len(transactions) : sub[u] = transactions[u]
    BY <1>5, <1>7, <1>8
  <2> QED
    BY <1>7, <1>8, <1>10, <2>1 DEF Known
<1>12. ~transactions'[t].local /\ transactions'[t].hash = m.hash
  BY <1>3, <1>7, <1>8, <1>10 DEF Known, Identity
<1>13. Kept(ws, wallets')
  BY <1>5, <1>10 DEF Kept
<1>14. Contains(wallets'[w].txs, t)
  BY <1>5, <1>10 DEF Kept
<1> QED
  BY <1>10, <1>11, <1>12, <1>13, <1>14

(* A lookup finds nothing, or a transaction of the list.                   *)
LEMMA ByHashFound ==
    ASSUME NEW list, Len(list) \in Nat, \A i \in 1..Len(list) : list[i] # 0, NEW h
    PROVE  /\ ByHash(list, h) # 0 => Contains(list, ByHash(list, h))
           /\ ByHash(list, h) = 0 =>
                 \A i \in 1..Len(list) : ~(h # NoHash /\ transactions[list[i]].hash = h)
<1> DEFINE places == {i \in 1..Len(list) : h # NoHash /\ transactions[list[i]].hash = h}
           k == SelectInSeq(list, LAMBDA t : h # NoHash /\ transactions[t].hash = h)
<1>1. k = IF places # {} THEN Min(places) ELSE 0
  BY Zenon DEF SelectInSeq
<1>2. ByHash(list, h) = IF k = 0 THEN 0 ELSE list[k]
  BY Zenon DEF ByHash, FirstWhere
<1>3. places # {} => Min(places) \in places
  <2>1. places \in SUBSET Nat
    OBVIOUS
  <2> HIDE DEF places
  <2> QED
    BY <2>1, MinIsLeast
<1>4. places \subseteq 1..Len(list)
  OBVIOUS
<1>5. places = {} => \A i \in 1..Len(list) : ~(h # NoHash /\ transactions[list[i]].hash = h)
  OBVIOUS
<1> HIDE DEF places, k
<1>6. CASE places = {}
  BY <1>1, <1>2, <1>5, <1>6
<1>7. CASE places # {}
  <2>1. k = Min(places) /\ Min(places) \in places
    BY <1>1, <1>3, <1>7
  <2>2. k \in 1..Len(list)
    BY <1>4, <2>1
  <2>3. k # 0
    BY <2>2
  <2> QED
    BY <1>2, <2>2, <2>3 DEF Contains
<1> QED
  BY <1>6, <1>7

LEMMA ByNonceFound ==
    ASSUME NEW list, Len(list) \in Nat, \A i \in 1..Len(list) : list[i] # 0, NEW n
    PROVE  /\ ByNonce(list, n) # 0 => Contains(list, ByNonce(list, n))
           /\ ByNonce(list, n) = 0 =>
                 \A i \in 1..Len(list) :
                    ~(transactions[list[i]].own /\ transactions[list[i]].nonce = n)
<1> DEFINE places == {i \in 1..Len(list) :
                          transactions[list[i]].own /\ transactions[list[i]].nonce = n}
           k == SelectInSeq(list, LAMBDA t : transactions[t].own /\ transactions[t].nonce = n)
<1>1. k = IF places # {} THEN Min(places) ELSE 0
  BY Zenon DEF SelectInSeq
<1>2. ByNonce(list, n) = IF k = 0 THEN 0 ELSE list[k]
  BY Zenon DEF ByNonce, FirstWhere
<1>3. places # {} => Min(places) \in places
  <2>1. places \in SUBSET Nat
    OBVIOUS
  <2> HIDE DEF places
  <2> QED
    BY <2>1, MinIsLeast
<1>4. places \subseteq 1..Len(list)
  OBVIOUS
<1>5. places = {} => \A i \in 1..Len(list) :
         ~(transactions[list[i]].own /\ transactions[list[i]].nonce = n)
  OBVIOUS
<1> HIDE DEF places, k
<1>6. CASE places = {}
  BY <1>1, <1>2, <1>5, <1>6
<1>7. CASE places # {}
  <2>1. k = Min(places) /\ Min(places) \in places
    BY <1>1, <1>3, <1>7
  <2>2. k \in 1..Len(list)
    BY <1>4, <2>1
  <2>3. k # 0
    BY <2>2
  <2> QED
    BY <1>2, <2>2, <2>3 DEF Contains
<1> QED
  BY <1>6, <1>7

(* A transaction that is new to the Ether wallet is not there yet, neither  *)
(* with its hash nor, if it is the account's, with its nonce.              *)
HeardOnce(m) ==
    \A u \in 1..Len(transactions') : u \notin 1..Len(transactions) =>
        /\ u = Len(transactions) + 1 /\ Len(transactions) < MaxTx
        /\ transactions'[u].hash = m.hash
        /\ Contains(wallets'[EtherWallet].txs, u) =>
              \A v \in 1..Len(transactions) : Contains(wallets[EtherWallet].txs, v) =>
                  /\ transactions[v].hash # m.hash
                  /\ ~(m.own /\ transactions[v].own /\ transactions[v].nonce = m.nonce)

(* What an announcement of a transaction or a log does to the node. *)
LEMMA Announced ==
    ASSUME transactions \in Seq(TransactionType), WalletsOK(transactions, wallets),
           NEW m \in MinedType, AnnounceTransaction(m) \/ AnnounceLog(m)
    PROVE  /\ Known(transactions, transactions')
           /\ \A u \in 1..Len(transactions') :
                 u \notin 1..Len(transactions) => ~transactions'[u].local
           /\ WalletsOK(transactions', wallets') /\ Kept(wallets, wallets')
           /\ HeardOnce(m)
<1> USE DEF MinedType
<1>1. Len(transactions) \in Nat /\ Len(wallets) \in Nat
  BY DEF WalletsOK, Listed
<1>2. CASE AnnounceTransaction(m)
  <2> DEFINE list == wallets[EtherWallet].txs
             found == FindTransaction(m)
  <2>1. /\ EtherWallet \in 1..Len(wallets) /\ Len(list) \in Nat
        /\ \A i \in 1..Len(list) : list[i] # 0
    <3>1. EtherWallet \in 1..Len(wallets)
      BY <1>1 DEF WalletsOK, OnePerToken, EtherWallet
    <3>2. list \in Seq(1..Len(transactions))
      BY <1>1, <3>1, WalletList
    <3> QED
      BY <3>1, <3>2
  <2>2. found # 0 => Contains(list, found)
    <3>1. found = ByHash(list, m.hash) \/ found = ByNonce(list, m.nonce)
      BY Zenon DEF FindTransaction
    <3> QED
      BY <2>1, <3>1, ByHashFound, ByNonceFound
  <2> HIDE DEF found
  <2>3. CASE found = 0
    <3>1. HeardOf(wallets, EtherWallet, m, m.nonce) /\ m.nonce \in Nat
      BY <1>2, <2>3, Zenon DEF AnnounceTransaction, found
    <3>2. /\ Known(transactions, transactions')
          /\ Len(transactions') = Len(transactions) + 1
          /\ ~transactions'[Len(transactions) + 1].local
          /\ transactions'[Len(transactions) + 1].hash = m.hash
          /\ WalletsOK(transactions', wallets') /\ Kept(wallets, wallets')
      BY <2>1, <3>1, HeardOfOK
    <3>3. ByHash(list, m.hash) = 0 /\ (m.own => ByNonce(list, m.nonce) = 0)
      BY <2>3, Zenon DEF FindTransaction, found
    <3>4. \A i \in 1..Len(list) :
             /\ transactions[list[i]].hash # m.hash
             /\ ~(m.own /\ transactions[list[i]].own /\ transactions[list[i]].nonce = m.nonce)
      <4>1. m.hash # NoHash
        BY DEF NoHash
      <4>2. \A i \in 1..Len(list) : ~(m.hash # NoHash /\ transactions[list[i]].hash = m.hash)
        BY <2>1, <3>3, ByHashFound
      <4>3. m.own => \A i \in 1..Len(list) :
              ~(transactions[list[i]].own /\ transactions[list[i]].nonce = m.nonce)
        BY <2>1, <3>3, ByNonceFound
      <4> QED
        BY <4>1, <4>2, <4>3
    <3>5. \A v : Contains(list, v) =>
              /\ transactions[v].hash # m.hash
              /\ ~(m.own /\ transactions[v].own /\ transactions[v].nonce = m.nonce)
      BY <3>4 DEF Contains
    <3>6. Len(transactions) < MaxTx
      BY <3>1 DEF HeardOf
    <3>7. HeardOnce(m)
      BY <1>1, <3>2, <3>5, <3>6 DEF HeardOnce
    <3> QED
      BY <1>1, <3>2, <3>7
  <2>4. CASE found # 0
    <3>1. MarkBlocked(transactions, wallets, EtherWallet, found, m)
      BY <1>2, <2>4, Zenon DEF AnnounceTransaction, found
    <3>2. /\ Known(transactions, transactions') /\ Len(transactions') = Len(transactions)
          /\ WalletsOK(transactions', wallets') /\ Kept(wallets, wallets')
      BY <2>1, <2>2, <2>4, <3>1, MarkBlockedOK
    <3> QED
      BY <3>2 DEF HeardOnce
  <2> QED
    BY <2>3, <2>4
<1>3. CASE AnnounceLog(m)
  <2> DEFINE ws == WithWallet(m.token)
             w == SelectInSeq(ws, LAMBDA x : x.token = m.token)
             found == ByHash(ws[w].txs, m.hash)
  <2>1. /\ WalletsOK(transactions, ws) /\ Kept(wallets, ws) /\ w \in 1..Len(ws)
        /\ ws[w].token = m.token
    <3>1. m.token \in Holding
      OBVIOUS
    <3> QED
      BY <3>1, WithWalletOK, Zenon
  <2>2. /\ found = 0 => HeardOf(ws, w, m, 0)
        /\ found # 0 => MarkBlocked(transactions, ws, w, found, m)
    BY <1>3, Zenon DEF AnnounceLog
  <2> HIDE DEF ws, w
  <2>3. found # 0 => Contains(ws[w].txs, found)
    <3>1. Len(ws[w].txs) \in Nat /\ \A i \in 1..Len(ws[w].txs) : ws[w].txs[i] # 0
      <4>1. ws[w].txs \in Seq(1..Len(transactions))
        BY <1>1, <2>1, WalletList
      <4> QED
        BY <4>1
    <3> QED
      BY <3>1, ByHashFound
  <2>4. CASE found = 0
    <3>1. /\ Known(transactions, transactions')
          /\ Len(transactions') = Len(transactions) + 1
          /\ ~transactions'[Len(transactions) + 1].local
          /\ transactions'[Len(transactions) + 1].hash = m.hash
          /\ WalletsOK(transactions', wallets') /\ Kept(ws, wallets')
          /\ Contains(wallets'[w].txs, Len(transactions) + 1)
      BY <2>1, <2>2, <2>4, HeardOfOK
    <3>2. w # EtherWallet
      BY <1>3, <2>1 DEF WalletsOK, OnePerToken, AnnounceLog
    <3>3. ~Contains(wallets'[EtherWallet].txs, Len(transactions) + 1)
      <4>1. /\ Len(transactions) + 1 \in 1..Len(transactions')
            /\ EtherWallet \in 1..Len(wallets') /\ w \in 1..Len(wallets')
        BY <1>1, <2>1, <3>1 DEF WalletsOK, Listed, OnePerToken, EtherWallet, Kept
      <4> QED
        BY <3>1, <3>2, <4>1 DEF WalletsOK, Listed
    <3>4. Len(transactions) < MaxTx
      BY <2>2, <2>4 DEF HeardOf
    <3>5. HeardOnce(m)
      BY <1>1, <3>1, <3>3, <3>4 DEF HeardOnce
    <3> QED
      BY <1>1, <2>1, <3>1, <3>5, KeptTransitive
  <2>5. CASE found # 0
    <3>1. /\ Known(transactions, transactions') /\ Len(transactions') = Len(transactions)
          /\ WalletsOK(transactions', wallets') /\ Kept(ws, wallets')
      BY <2>1, <2>2, <2>3, <2>5, MarkBlockedOK
    <3> QED
      BY <1>1, <2>1, <3>1, KeptTransitive DEF HeardOnce
  <2> QED
    BY <2>4, <2>5
<1> QED
  BY <1>2, <1>3

-----------------------------------------------------------------------------
(* The inductive invariant.                                                *)

NodeTypes ==
    /\ blocks \subseteq [hash : ({"block", "log"} \X Nat), number : Nat]
    /\ nonce \in Nat /\ compared \subseteq Nat /\ stale \in BOOLEAN
    /\ blockHeight \in Nat /\ mined \in Seq(MinedType) /\ head \in Nat

(* Only what the app made is submitted; its hash is its own. *)
LocalIds ==
    /\ submitted \subseteq {t \in 1..Len(transactions) : transactions[t].local}
    /\ replies \subseteq submitted /\ mempool \subseteq submitted
    /\ \A t \in 1..Len(transactions) :
          transactions[t].local => transactions[t].hash \in {NoHash, t}

(* One transaction of the app at most is being signed. *)
Signing ==
    /\ \A s \in signing :
          /\ s \in [id : 1..Len(transactions), nonce : Nat]
          /\ transactions[s.id].local /\ s.nonce # NotAssigned
    /\ \A s, u \in signing : s = u

(* Nonces are handed out in ascending order, ... *)
Ascending ==
    \A t \in 1..Len(transactions) : HandedOut(t) =>
        /\ transactions[t].nonce < nonce
        /\ \A s \in signing :
              transactions[s.id].nonce = NotAssigned => transactions[t].nonce < s.nonce

(* ... as long as no stale count has been stored. *)
NoncesApart == ~stale => HandedOutOnce /\ Ascending

IInv ==
    /\ transactions \in Seq(TransactionType)
    /\ WalletsOK(transactions, wallets)
    /\ NodeTypes /\ LocalIds /\ Signing /\ NoncesApart

(* What a step leaves of a transaction and of its wallet. *)
IdentityStep ==
    \A t \in 1..Len(transactions) :
        /\ transactions[t].nonce # NotAssigned
           => transactions'[t].nonce = transactions[t].nonce
        /\ transactions[t].hash # NoHash
           => transactions'[t].hash = transactions[t].hash
        /\ \A w \in 1..Len(wallets) :
              Contains(wallets[w].txs, t) => Contains(wallets'[w].txs, t)

Growing ==
    Len(transactions') >= Len(transactions) /\ Len(wallets') >= Len(wallets)

Preserved == IInv' /\ IdentityStep /\ Growing

LEMMA CountIsNat ==
    ASSUME NEW n \in Nat, NEW S \in SUBSET (1..n)
    PROVE  Cardinality(S) \in Nat
<1>1. IsFiniteSet(1..n)
  BY FS_Interval
<1>2. IsFiniteSet(S)
  BY <1>1, FS_Subset
<1> QED
  BY <1>2, FS_CardinalityType

LEMMA AccountNonceIsNat ==
    ASSUME NEW number, mined \in Seq(MinedType)
    PROVE  AccountNonce(number) \in Nat
<1>1. Len(mined) \in Nat
  OBVIOUS
<1> QED
  BY <1>1, CountIsNat DEF AccountNonce

(* A step that leaves the transactions, the wallets and the signing alone. *)
LEMMA QuietStep ==
    ASSUME IInv, UNCHANGED <<transactions, wallets, signing>>, NodeTypes', LocalIds',
           ~stale' => ~stale /\ nonce <= nonce'
    PROVE  Preserved
<1>1. \A t \in 1..Len(transactions) : transactions[t].nonce \in Nat
  BY TransactionFields DEF IInv
<1>2. Signing'
  BY DEF IInv, Signing
<1>3. NoncesApart'
  <2> SUFFICES ASSUME ~stale' PROVE HandedOutOnce' /\ Ascending'
    BY DEF NoncesApart
  <2>1. HandedOutOnce /\ Ascending /\ nonce <= nonce' /\ nonce \in Nat /\ nonce' \in Nat
    BY DEF IInv, NoncesApart, NodeTypes
  <2>2. HandedOutOnce'
    BY <2>1 DEF HandedOutOnce, HandedOut
  <2>3. Ascending'
    BY <1>1, <2>1 DEF Ascending, HandedOut
  <2> QED
    BY <2>2, <2>3
<1>4. Len(transactions) \in Nat /\ Len(wallets) \in Nat
  BY DEF IInv, WalletsOK, Listed
<1> QED
  BY <1>2, <1>3, <1>4 DEF Preserved, IInv, IdentityStep, Growing

(* A step that hands out no nonce. *)
LEMMA NoNonce ==
    ASSUME IInv, UNCHANGED nonceVars,
           Len(transactions') \in Nat, Len(transactions') >= Len(transactions),
           \A u \in 1..Len(transactions) :
               /\ transactions'[u].local = transactions[u].local
               /\ transactions'[u].nonce = transactions[u].nonce,
           \A u \in 1..Len(transactions') : u \notin 1..Len(transactions) =>
               ~transactions'[u].local \/ transactions'[u].nonce = NotAssigned
    PROVE  Signing' /\ NoncesApart'
<1>1. /\ signing' = signing /\ nonce' = nonce /\ stale' = stale
      /\ Len(transactions) \in Nat
  BY DEF nonceVars, IInv
<1>2. 1..Len(transactions) \subseteq 1..Len(transactions')
  BY <1>1
<1>3. Signing'
  BY <1>1, <1>2 DEF IInv, Signing
<1>4. \A s \in signing : s.id \in 1..Len(transactions)
  BY DEF IInv, Signing
<1>5. \A u \in 1..Len(transactions') :
         HandedOut(u)' => /\ u \in 1..Len(transactions) /\ HandedOut(u)
                          /\ transactions'[u].nonce = transactions[u].nonce
  BY DEF HandedOut
<1>6. NoncesApart'
  <2> SUFFICES ASSUME ~stale' PROVE HandedOutOnce' /\ Ascending'
    BY DEF NoncesApart
  <2>1. HandedOutOnce /\ Ascending
    BY <1>1 DEF IInv, NoncesApart
  <2>2. HandedOutOnce'
    BY <1>5, <2>1 DEF HandedOutOnce
  <2>3. Ascending'
    BY <1>1, <1>4, <1>5, <2>1 DEF Ascending
  <2> QED
    BY <2>2, <2>3
<1> QED
  BY <1>3, <1>6

(* A step that appends transactions which the app did not make, or which   *)
(* have no nonce yet, and tells the rest apart as before.                  *)
LEMMA AppendStep ==
    ASSUME IInv, Known(transactions, transactions'), WalletsOK(transactions', wallets'),
           Kept(wallets, wallets'), NodeTypes', UNCHANGED nonceVars,
           UNCHANGED <<submitted, replies, mempool>>,
           \A u \in 1..Len(transactions') : u \notin 1..Len(transactions)
               => \/ ~transactions'[u].local
                  \/ /\ transactions'[u].nonce = NotAssigned
                     /\ transactions'[u].hash = NoHash
    PROVE  Preserved
<1>1. /\ transactions' \in Seq(TransactionType)
      /\ \A u \in 1..Len(transactions) :
            /\ u \in 1..Len(transactions')
            /\ transactions'[u].local = transactions[u].local
            /\ transactions'[u].nonce = transactions[u].nonce
            /\ transactions'[u].hash = transactions[u].hash
  <2>1. /\ transactions' \in Seq(TransactionType) /\ Len(transactions) \in Nat
        /\ Len(transactions') \in Nat /\ Len(transactions') >= Len(transactions)
    BY DEF Known, IInv
  <2> QED
    BY <2>1 DEF Known, Identity
<1>2. LocalIds'
  BY <1>1 DEF IInv, LocalIds
<1>3. Signing' /\ NoncesApart'
  <2>1. Len(transactions') \in Nat /\ Len(transactions') >= Len(transactions)
    BY <1>1 DEF Known
  <2> QED
    BY <1>1, <2>1, NoNonce
<1>4. IdentityStep /\ Growing
  BY <1>1 DEF IdentityStep, Growing, Kept, Known
<1> QED
  BY <1>1, <1>2, <1>3, <1>4 DEF Preserved, IInv

(* A step that changes one transaction, and gives it no block. *)
LEMMA ChangeStep ==
    ASSUME IInv, NEW t \in 1..Len(transactions), NEW y \in TransactionType,
           Blocked(y) => SamePlace(y, transactions[t]),
           transactions' = [transactions EXCEPT ![t] = y], wallets' = wallets
    PROVE  /\ transactions' \in Seq(TransactionType)
           /\ Len(transactions') = Len(transactions)
           /\ \A u \in 1..Len(transactions) :
                 transactions'[u] = IF u = t THEN y ELSE transactions[u]
           /\ WalletsOK(transactions', wallets')
<1>1. /\ transactions' \in Seq(TransactionType)
      /\ Len(transactions') = Len(transactions)
      /\ \A u \in 1..Len(transactions) :
            transactions'[u] = IF u = t THEN y ELSE transactions[u]
  BY ExceptSeq DEF IInv
<1>2. WalletsOK(transactions', wallets)
  <2>1. \A u \in 1..Len(transactions) :
           Blocked(transactions'[u]) => SamePlace(transactions'[u], transactions[u])
    BY <1>1 DEF SamePlace
  <2> QED
    BY <1>1, <2>1, WalletsUnblocked DEF IInv
<1> QED
  BY <1>1, <1>2

-----------------------------------------------------------------------------
LEMMA InvInit == Init => IInv
<1> SUFFICES ASSUME Init PROVE IInv
  OBVIOUS
<1> DEFINE r == [token |-> Ether, txs |-> <<>>]
<1>1. /\ r \in WalletRecord(0) /\ r.token = Ether /\ Len(r.txs) = 0
  BY DEF WalletRecord, Holding
<1> HIDE DEF r
<1>2. /\ transactions = <<>> /\ wallets = <<r>> /\ Len(transactions) = 0
      /\ Len(wallets) = 1 /\ wallets[1] = r /\ wallets \in Seq(WalletRecord(0))
  BY <1>1 DEF Init, r
<1>3. Listed(transactions, wallets)
  <2>1. \A w \in 1..Len(wallets) : OnceEach(wallets[w].txs)
    BY <1>1, <1>2 DEF OnceEach
  <2>2. 1..Len(transactions) = {}
    BY <1>2
  <2> QED
    BY <1>2, <2>1, <2>2 DEF Listed
<1>4. InOrder(transactions, wallets)
  BY <1>1, <1>2 DEF InOrder, Ordered
<1>5. OnePerToken(wallets)
  BY <1>1, <1>2 DEF OnePerToken, EtherWallet
<1>6. NodeTypes
  <2>1. /\ blocks = {} /\ nonce = 0 /\ compared = {} /\ stale = FALSE
        /\ blockHeight = 0 /\ mined = <<>> /\ head = 0
    BY DEF Init
  <2>2. stale \in BOOLEAN
    BY <2>1, Zenon
  <2>3. mined \in Seq(MinedType)
    BY <2>1
  <2>4. /\ blocks \subseteq [hash : ({"block", "log"} \X Nat), number : Nat]
        /\ compared \subseteq Nat /\ nonce \in Nat /\ blockHeight \in Nat /\ head \in Nat
    BY <2>1
  <2> QED
    BY <2>2, <2>3, <2>4 DEF NodeTypes
<1>7. LocalIds
  <2>1. submitted = {} /\ replies = {} /\ mempool = {} /\ 1..Len(transactions) = {}
    BY <1>2 DEF Init
  <2> QED
    BY <2>1 DEF LocalIds
<1>8. Signing /\ NoncesApart
  <2>1. signing = {} /\ 1..Len(transactions) = {}
    BY <1>2 DEF Init
  <2>2. Signing
    BY <2>1, Zenon DEF Signing
  <2>3. HandedOutOnce /\ Ascending
    BY <2>1, Zenon DEF HandedOutOnce, Ascending
  <2> QED
    BY <2>2, <2>3 DEF NoncesApart
<1> QED
  BY <1>2, <1>3, <1>4, <1>5, <1>6, <1>7, <1>8 DEF IInv, WalletsOK

(* Creating, signing, submitting, and a new wallet. *)
LEMMA AppSteps ==
    ASSUME IInv,
           \/ \E w \in 1..Len(wallets) : CreateTransaction(w)
           \/ \E t \in 1..Len(transactions) : LoadNonce(t) \/ SubmitTransaction(t)
           \/ AssignNonce \/ SignTransaction
           \/ \E token \in Token : GetWalletHoldingToken(token)
    PROVE  Preserved
<1> USE ConstantsAssumption
<1>1. ASSUME NEW w \in 1..Len(wallets), CreateTransaction(w) PROVE Preserved
  <2> DEFINE t == Len(transactions) + 1
             x == NewTransaction(TRUE, TRUE, NotAssigned)
             new == Append(transactions, x)
  <2>1. x \in TransactionType /\ ~Blocked(x) /\ x.nonce = NotAssigned /\ x.hash = NoHash
    BY DEF NewTransaction, TransactionType, Status, NoHash, Blocked
  <2>2. /\ transactions' = new
        /\ wallets' = [wallets EXCEPT ![w].txs = InsertSorted(new, wallets[w].txs, t)]
    BY <1>1 DEF CreateTransaction
  <2> HIDE DEF x
  <2>3. Inserting(transactions, wallets, w, x, transactions', t, wallets')
    BY <2>1, <2>2 DEF Inserting, IInv
  <2>4. Inserted(transactions, wallets, w, x, transactions', t, wallets')
    BY <2>3, WalletsInsert
  <2>5. Len(transactions) \in Nat
    BY DEF IInv
  <2>6. Known(transactions, transactions')
    BY <2>4, <2>5 DEF Inserted, Known
  <2>7. NodeTypes'
    BY <1>1 DEF CreateTransaction, netVars, nonceVars, IInv, NodeTypes
  <2>8. WalletsOK(transactions', wallets') /\ Kept(wallets, wallets')
    BY <2>4 DEF Inserted
  <2>9. \A u \in 1..Len(transactions') : u \notin 1..Len(transactions)
            => transactions'[u].nonce = NotAssigned /\ transactions'[u].hash = NoHash
    BY <2>1, <2>4, <2>5 DEF Inserted
  <2>10. UNCHANGED nonceVars /\ UNCHANGED <<submitted, replies, mempool>>
    BY <1>1 DEF CreateTransaction, netVars
  <2> QED
    BY <2>6, <2>7, <2>8, <2>9, <2>10, AppendStep
<1>2. ASSUME NEW t \in 1..Len(transactions), LoadNonce(t) PROVE Preserved
  <2>1. /\ UNCHANGED <<transactions, wallets, nonce, stale>> /\ NodeTypes' /\ LocalIds'
        /\ signing' = {[id |-> t, nonce |-> nonce]} /\ nonce \in Nat /\ nonce < NotAssigned
        /\ transactions[t].local
    BY <1>2 DEF LoadNonce, netVars, IInv, NodeTypes, LocalIds
  <2>2. Signing'
    BY <2>1 DEF Signing
  <2>3. NoncesApart'
    BY <2>1 DEF IInv, NoncesApart, HandedOutOnce, HandedOut, Ascending
  <2>4. Len(transactions) \in Nat /\ Len(wallets) \in Nat
    BY DEF IInv, WalletsOK, Listed
  <2> QED
    BY <2>1, <2>2, <2>3, <2>4 DEF Preserved, IInv, IdentityStep, Growing
<1>5. ASSUME NEW t \in 1..Len(transactions), NEW y \in TransactionType,
             transactions' = [transactions EXCEPT ![t] = y], wallets' = wallets,
             Blocked(y) => SamePlace(y, transactions[t]),
             y.local = transactions[t].local, y.hash = transactions[t].hash,
             transactions[t].nonce # NotAssigned => y.nonce = transactions[t].nonce,
             UNCHANGED <<blocks, compared, stale, blockHeight, submitted, replies, netVars>>,
             nonce' \in Nat, Signing', NoncesApart'
      PROVE  Preserved
  <2>1. /\ transactions' \in Seq(TransactionType)
        /\ Len(transactions') = Len(transactions)
        /\ \A u \in 1..Len(transactions) :
              transactions'[u] = IF u = t THEN y ELSE transactions[u]
        /\ WalletsOK(transactions', wallets')
    BY <1>5, ChangeStep
  <2>2. NodeTypes'
    BY <1>5 DEF netVars, IInv, NodeTypes
  <2>3. LocalIds'
    BY <1>5, <2>1 DEF netVars, IInv, LocalIds
  <2>4. IdentityStep
    BY <1>5, <2>1 DEF IdentityStep
  <2>5. Len(transactions) \in Nat /\ Len(wallets) \in Nat
    BY DEF IInv, WalletsOK, Listed
  <2> QED
    BY <1>5, <2>1, <2>2, <2>3, <2>4, <2>5 DEF Preserved, IInv, Growing
<1>6. ASSUME AssignNonce PROVE Preserved
  <2>1. PICK s \in signing :
          /\ transactions[s.id].nonce = NotAssigned /\ nonce' = s.nonce + 1
          /\ transactions' = [transactions EXCEPT ![s.id].nonce = s.nonce]
          /\ UNCHANGED <<wallets, blocks, signing, compared, stale, blockHeight,
                         submitted, replies, netVars>>
    BY <1>6 DEF AssignNonce
  <2> DEFINE t == s.id
             n == s.nonce
             y == [transactions[t] EXCEPT !.nonce = n]
  <2>2. /\ t \in 1..Len(transactions) /\ n \in Nat /\ n # NotAssigned
        /\ transactions[t].local /\ transactions[t] \in TransactionType
        /\ \A u \in signing : u = s
    BY TransactionFields DEF IInv, Signing
  <2>3. /\ y \in TransactionType /\ y.nonce = n /\ y.local = transactions[t].local
        /\ y.hash = transactions[t].hash /\ y.status = transactions[t].status
        /\ y.number = transactions[t].number /\ y.index = transactions[t].index
    BY <2>2 DEF TransactionType
  <2>4. transactions' = [transactions EXCEPT ![t] = y]
    BY <2>1
  <2> HIDE DEF y
  <2>5. /\ Len(transactions') = Len(transactions)
        /\ \A u \in 1..Len(transactions) :
              transactions'[u] = IF u = t THEN y ELSE transactions[u]
    BY <2>2, <2>3, <2>4, ExceptSeq DEF IInv
  <2>6. Signing'
    BY <2>1, <2>2, <2>3, <2>5 DEF IInv, Signing
  <2>7. NoncesApart'
    <3> SUFFICES ASSUME ~stale' PROVE HandedOutOnce' /\ Ascending'
      BY DEF NoncesApart
    <3>1. HandedOutOnce /\ Ascending
      BY <2>1 DEF IInv, NoncesApart
    <3>2. \A u \in 1..Len(transactions) : u # t =>
             /\ HandedOut(u)' <=> HandedOut(u)
             /\ transactions'[u].nonce = transactions[u].nonce
             /\ HandedOut(u) => transactions[u].nonce < n
      BY <2>1, <2>5, <3>1 DEF HandedOut, Ascending
    <3>3. transactions'[t].nonce = n
      BY <2>2, <2>3, <2>5
    <3>4. \A u \in 1..Len(transactions) : transactions[u].nonce \in Nat
      BY TransactionFields DEF IInv
    <3>5. HandedOutOnce'
      BY <2>2, <2>5, <3>1, <3>2, <3>3, <3>4 DEF HandedOutOnce
    <3>6. Ascending'
      BY <2>1, <2>2, <2>5, <3>2, <3>3, <3>4 DEF Ascending
    <3> QED
      BY <3>5, <3>6
  <2>8. Blocked(y) => SamePlace(y, transactions[t])
    BY <2>3 DEF Blocked, SamePlace
  <2>9. nonce' \in Nat /\ transactions[t].nonce = NotAssigned
    BY <2>1, <2>2
  <2> HIDE DEF t, n
  <2> QED
    BY <1>5, <2>1, <2>2, <2>3, <2>4, <2>6, <2>7, <2>8, <2>9
<1>7. ASSUME SignTransaction PROVE Preserved
  <2>1. PICK s \in signing :
          /\ transactions[s.id].nonce # NotAssigned /\ signing' = {}
          /\ transactions' = [transactions EXCEPT ![s.id].status = "SIGNED"]
          /\ UNCHANGED <<wallets, blocks, nonce, compared, stale, blockHeight,
                         submitted, replies, netVars>>
    BY <1>7 DEF SignTransaction
  <2> DEFINE t == s.id
             y == [transactions[t] EXCEPT !.status = "SIGNED"]
  <2>2. t \in 1..Len(transactions) /\ transactions[t] \in TransactionType
    BY TransactionFields DEF IInv, Signing
  <2>3. /\ y \in TransactionType /\ y.nonce = transactions[t].nonce /\ ~Blocked(y)
        /\ y.local = transactions[t].local /\ y.hash = transactions[t].hash
    BY <2>2 DEF TransactionType, Status, Blocked
  <2>4. transactions' = [transactions EXCEPT ![t] = y]
    BY <2>1
  <2> HIDE DEF y, t
  <2>5. /\ Len(transactions') = Len(transactions)
        /\ \A u \in 1..Len(transactions) :
              transactions'[u] = IF u = t THEN y ELSE transactions[u]
    BY <2>2, <2>3, <2>4, ExceptSeq DEF IInv
  <2>6. \A u \in 1..Len(transactions) :
           /\ HandedOut(u)' <=> HandedOut(u)
           /\ transactions'[u].nonce = transactions[u].nonce
    BY <2>2, <2>3, <2>5 DEF HandedOut
  <2>7. Signing' /\ NoncesApart'
    BY <2>1, <2>5, <2>6 DEF IInv, Signing, NoncesApart, HandedOutOnce, Ascending
  <2>8. nonce' \in Nat
    BY <2>1 DEF IInv, NodeTypes
  <2> QED
    BY <1>5, <2>1, <2>2, <2>3, <2>4, <2>7, <2>8
<1>3. ASSUME NEW t \in 1..Len(transactions), SubmitTransaction(t) PROVE Preserved
  <2>1. UNCHANGED <<transactions, wallets, nonceVars>> /\ NodeTypes'
    BY <1>3 DEF SubmitTransaction, nodeVars, nonceVars, IInv, NodeTypes
  <2>2. LocalIds'
    BY <1>3 DEF SubmitTransaction, nodeVars, IInv, LocalIds
  <2> QED
    BY <2>1, <2>2, QuietStep DEF nonceVars, IInv, NodeTypes
<1>4. ASSUME NEW token \in Token, GetWalletHoldingToken(token) PROVE Preserved
  <2>1. wallets' = WithWallet(token) /\ transactions' = transactions
    BY <1>4 DEF GetWalletHoldingToken
  <2>2. WalletsOK(transactions', wallets') /\ Kept(wallets, wallets')
    <3>1. token \in Holding
      BY DEF Holding
    <3> QED
      BY <2>1, <3>1, WithWalletOK DEF IInv
  <2>3. Known(transactions, transactions')
    BY <2>1 DEF Known, IInv
  <2>4. NodeTypes'
    BY <1>4 DEF GetWalletHoldingToken, netVars, nonceVars, IInv, NodeTypes
  <2> QED
    BY <1>4, <2>1, <2>2, <2>3, <2>4, AppendStep DEF GetWalletHoldingToken, netVars
<1> QED
  BY <1>1, <1>2, <1>3, <1>4, <1>6, <1>7

(* The answers of the service. *)
LEMMA AnswerSteps ==
    ASSUME IInv,
           \/ \E number \in 0..head : AnnounceBlockNumber(number) \/ CompareNonce(number)
           \/ \E n \in compared : StoreNonce(n)
           \/ \E t \in replies : AnnounceSubmitTransaction(t) \/ LoseReply(t)
           \/ \E i \in Visible : AnnounceTransaction(mined[i]) \/ AnnounceLog(mined[i])
    PROVE  Preserved
<1>1. ASSUME NEW number \in 0..head, AnnounceBlockNumber(number) PROVE Preserved
  <2>1. UNCHANGED <<transactions, wallets, nonceVars>> /\ NodeTypes' /\ LocalIds'
    BY <1>1 DEF AnnounceBlockNumber, netVars, nonceVars, IInv, NodeTypes, LocalIds
  <2> QED
    BY <2>1, QuietStep DEF nonceVars, IInv, NodeTypes
<1>2. ASSUME NEW number \in 0..head, CompareNonce(number) PROVE Preserved
  <2>1. AccountNonce(number) \in Nat
    BY AccountNonceIsNat DEF IInv, NodeTypes
  <2>2. /\ UNCHANGED <<transactions, wallets, signing, nonce, stale>>
        /\ NodeTypes' /\ LocalIds'
    BY <1>2, <2>1 DEF CompareNonce, netVars, IInv, NodeTypes, LocalIds
  <2> QED
    BY <2>2, QuietStep DEF IInv, NodeTypes
<1>6. ASSUME NEW n \in compared, StoreNonce(n) PROVE Preserved
  <2>1. /\ UNCHANGED <<transactions, wallets, signing>> /\ nonce' = n
        /\ stale' = (stale \/ n < nonce)
        /\ NodeTypes' /\ LocalIds'
    BY <1>6 DEF StoreNonce, netVars, IInv, NodeTypes, LocalIds
  <2>2. ~stale' => ~stale /\ ~(n < nonce)
    BY <2>1, Zenon
  <2>3. n \in Nat /\ nonce \in Nat
    BY DEF IInv, NodeTypes
  <2>4. ~(n < nonce) => nonce <= n
    BY <2>3
  <2>5. ~stale' => ~stale /\ nonce <= nonce'
    BY <2>1, <2>2, <2>4, Zenon
  <2> QED
    BY <2>1, <2>5, QuietStep
<1>3. ASSUME NEW t \in replies, AnnounceSubmitTransaction(t) PROVE Preserved
  <2> DEFINE y == [transactions[t] EXCEPT !.status = "SUBMITTED", !.hash = t]
  <2>1. /\ t \in 1..Len(transactions) /\ transactions[t] \in TransactionType
        /\ transactions[t].local /\ transactions[t].hash \in {NoHash, t} /\ t \in Nat
    <3>1. t \in 1..Len(transactions) /\ transactions[t].local
      BY DEF IInv, LocalIds
    <3> QED
      BY <3>1, TransactionFields DEF IInv, LocalIds
  <2>2. /\ y \in TransactionType /\ ~Blocked(y) /\ y.nonce = transactions[t].nonce
        /\ y.local = transactions[t].local /\ y.hash = t
    BY <2>1 DEF TransactionType, Status, Blocked
  <2>3. transactions' = [transactions EXCEPT ![t] = y] /\ wallets' = wallets
    BY <1>3 DEF AnnounceSubmitTransaction
  <2> HIDE DEF y
  <2>4. /\ transactions' \in Seq(TransactionType)
        /\ Len(transactions') = Len(transactions)
        /\ \A u \in 1..Len(transactions) :
              transactions'[u] = IF u = t THEN y ELSE transactions[u]
        /\ WalletsOK(transactions', wallets')
    BY <2>1, <2>2, <2>3, ChangeStep
  <2>5. NodeTypes' /\ UNCHANGED nonceVars
    BY <1>3 DEF AnnounceSubmitTransaction, netVars, nonceVars, IInv, NodeTypes
  <2>6. LocalIds'
    BY <1>3, <2>1, <2>2, <2>4 DEF AnnounceSubmitTransaction, netVars, IInv, LocalIds
  <2>7. Signing' /\ NoncesApart'
    <3>1. Len(transactions) \in Nat
      BY DEF IInv
    <3>2. \A u \in 1..Len(transactions) :
             /\ transactions'[u].local = transactions[u].local
             /\ transactions'[u].nonce = transactions[u].nonce
      BY <2>2, <2>4
    <3>3. /\ Len(transactions') \in Nat /\ Len(transactions') >= Len(transactions)
          /\ \A u \in 1..Len(transactions') : u \in 1..Len(transactions)
      BY <2>4, <3>1
    <3> QED
      BY <2>5, <3>2, <3>3, NoNonce
  <2>8. IdentityStep
    BY <2>1, <2>2, <2>3, <2>4 DEF IdentityStep
  <2>9. Growing
    <3>1. Len(transactions) \in Nat /\ Len(wallets) \in Nat
      BY DEF IInv, WalletsOK, Listed
    <3> QED
      BY <2>3, <2>4, <3>1 DEF Growing
  <2> QED
    BY <2>4, <2>5, <2>6, <2>7, <2>8, <2>9 DEF Preserved, IInv
<1>4. ASSUME NEW t \in replies, LoseReply(t) PROVE Preserved
  <2>1. UNCHANGED <<transactions, wallets, nonceVars>> /\ NodeTypes' /\ LocalIds'
    BY <1>4 DEF LoseReply, nodeVars, netVars, nonceVars, IInv, NodeTypes, LocalIds
  <2> QED
    BY <2>1, QuietStep DEF nonceVars, IInv, NodeTypes
<1>5. ASSUME NEW i \in Visible, AnnounceTransaction(mined[i]) \/ AnnounceLog(mined[i])
      PROVE  Preserved
  <2> DEFINE m == mined[i]
  <2>1. m \in MinedType /\ m.hash \in Nat /\ m.number \in Nat
    <3>1. m \in MinedType
      BY DEF Visible, IInv, NodeTypes
    <3> QED
      BY <3>1 DEF MinedType
  <2> HIDE DEF m
  <2>2. AnnounceTransaction(m) \/ AnnounceLog(m)
    BY <1>5 DEF m
  <2>3. /\ Known(transactions, transactions')
        /\ \A u \in 1..Len(transactions') :
              u \notin 1..Len(transactions) => ~transactions'[u].local
        /\ WalletsOK(transactions', wallets') /\ Kept(wallets, wallets')
    BY <2>1, <2>2, Announced DEF IInv
  <2>4. /\ UNCHANGED <<nonceVars, blockHeight, submitted, replies, mempool, mined, head>>
        /\ \/ blocks' = WithBlock(<<"block", m.number>>, m.number)
           \/ blocks' = WithBlock(<<"log", m.hash>>, m.number)
    BY <2>2, Zenon DEF AnnounceTransaction, AnnounceLog, netVars
  <2>5. blocks' \subseteq [hash : ({"block", "log"} \X Nat), number : Nat]
    <3>1. /\ <<"block", m.number>> \in {"block", "log"} \X Nat
          /\ <<"log", m.hash>> \in {"block", "log"} \X Nat
      BY <2>1
    <3>2. ASSUME NEW h \in {"block", "log"} \X Nat, blocks' = WithBlock(h, m.number)
          PROVE  blocks' \subseteq [hash : ({"block", "log"} \X Nat), number : Nat]
      <4>1. [hash |-> h, number |-> m.number]
               \in [hash : ({"block", "log"} \X Nat), number : Nat]
        BY <2>1
      <4> QED
        BY <3>2, <4>1 DEF WithBlock, IInv, NodeTypes
    <3> QED
      BY <2>4, <3>1, <3>2
  <2>6. NodeTypes'
    BY <2>4, <2>5 DEF nonceVars, IInv, NodeTypes
  <2> QED
    BY <2>3, <2>4, <2>6, AppendStep
<1> QED
  BY <1>1, <1>2, <1>3, <1>4, <1>5, <1>6

(* The network. *)
LEMMA NetSteps ==
    ASSUME IInv,
           \/ \E t \in mempool : MineLocal(t)
           \/ \E own \in BOOLEAN, token \in Holding : MineRemote(own, token)
           \/ SealBlock
    PROVE  Preserved
<1> USE ConstantsAssumption
<1>1. ASSUME NEW h \in Nat \ {0}, NEW own \in BOOLEAN, NEW n \in Nat, NEW token \in Holding,
             MineInNextBlock(h, own, n, token)
      PROVE  NodeTypes' /\ UNCHANGED <<transactions, wallets, nonceVars, submitted, replies>>
  <2> DEFINE S == {i \in 1..Len(mined) : mined[i].number = head + 1}
             m == [hash |-> h, own |-> own, nonce |-> n, token |-> token,
                   number |-> head + 1, index |-> Cardinality(S)]
  <2>1. mined \in Seq(MinedType) /\ Len(mined) \in Nat /\ head \in Nat
    BY DEF IInv, NodeTypes
  <2>2. Cardinality(S) \in Nat
    BY <2>1, CountIsNat
  <2>3. mined' = Append(mined, m)
    BY <1>1, Zenon DEF MineInNextBlock
  <2>4. m \in MinedType
    BY <2>1, <2>2 DEF MinedType
  <2> HIDE DEF m
  <2>5. mined' \in Seq(MinedType)
    BY <2>1, <2>3, <2>4, AppendProperties
  <2> QED
    BY <1>1, <2>5 DEF MineInNextBlock, nodeVars, nonceVars, IInv, NodeTypes
<1>2. ASSUME NEW t \in mempool, MineLocal(t) PROVE Preserved
  <2>1. t \in 1..Len(transactions)
    BY DEF IInv, LocalIds
  <2>2. PICK w \in 1..Len(wallets) :
          MineInNextBlock(t, TRUE, transactions[t].nonce, wallets[w].token)
    BY <1>2 DEF MineLocal
  <2>3. /\ t \in Nat \ {0} /\ transactions[t].nonce \in Nat
        /\ wallets[w].token \in Holding
    <3>1. transactions[t].nonce \in Nat /\ Len(transactions) \in Nat
      BY <2>1, TransactionFields DEF IInv
    <3>2. wallets[w].token \in Holding
      BY <3>1, WalletList DEF IInv
    <3> QED
      BY <2>1, <3>1, <3>2
  <2>4. NodeTypes' /\ UNCHANGED <<transactions, wallets, nonceVars, submitted, replies>>
    BY <1>1, <2>2, <2>3
  <2>5. mempool' = mempool \ {t}
    BY <1>2 DEF MineLocal
  <2>6. LocalIds'
    BY <2>4, <2>5 DEF IInv, LocalIds
  <2> QED
    BY <2>4, <2>6, QuietStep DEF nonceVars, IInv, NodeTypes
<1>3. ASSUME NEW own \in BOOLEAN, NEW token \in Holding, MineRemote(own, token)
      PROVE  Preserved
  <2>1. RemoteHash \in Nat \ {0} /\ AccountNonce(head + 1) \in Nat
    BY AccountNonceIsNat DEF IInv, NodeTypes, RemoteHash
  <2>2. PICK n \in Nat : MineInNextBlock(RemoteHash, own, n, token)
    BY <1>3, <2>1 DEF MineRemote
  <2>3. NodeTypes' /\ UNCHANGED <<transactions, wallets, nonceVars, submitted, replies>>
    BY <1>1, <2>1, <2>2
  <2>4. LocalIds'
    BY <1>3, <2>3 DEF MineRemote, IInv, LocalIds
  <2> QED
    BY <2>3, <2>4, QuietStep DEF nonceVars, IInv, NodeTypes
<1>4. ASSUME SealBlock PROVE Preserved
  <2>1. UNCHANGED <<transactions, wallets, nonceVars>> /\ NodeTypes' /\ LocalIds'
    BY <1>4 DEF SealBlock, nodeVars, nonceVars, IInv, NodeTypes, LocalIds
  <2> QED
    BY <2>1, QuietStep DEF nonceVars, IInv, NodeTypes
<1> QED
  BY <1>2, <1>3, <1>4

LEMMA InvNext == IInv /\ [Next]_vars => Preserved
<1> SUFFICES ASSUME IInv, [Next]_vars PROVE Preserved
  OBVIOUS
<1>1. CASE Next
  BY <1>1, AppSteps, AnswerSteps, NetSteps, Zenon DEF Next
<1>2. CASE UNCHANGED vars
  <2>1. UNCHANGED <<transactions, wallets, nonceVars>> /\ NodeTypes' /\ LocalIds'
    BY <1>2 DEF vars, nodeVars, netVars, nonceVars, IInv, NodeTypes, LocalIds
  <2> QED
    BY <2>1, QuietStep DEF nonceVars, IInv, NodeTypes
<1> QED
  BY <1>1, <1>2

LEMMA Invariance == Spec => []IInv
<1>1. IInv /\ [Next]_vars => IInv'
  BY InvNext DEF Preserved
<1> QED
  BY InvInit, <1>1, PTL DEF Spec

-----------------------------------------------------------------------------
(* No hash twice in the Ether wallet.  A transaction of this app and one   *)
(* heard of are kept apart by the nonce, as what the chain holds of this   *)
(* app carries the nonce that the app has signed with.                     *)

InEther(t) == Contains(wallets[EtherWallet].txs, t)

(* The app's transactions are the account's, and have a nonce when sent.   *)
Sent ==
    /\ Len(transactions) <= MaxTx
    /\ \A t \in 1..Len(transactions) : transactions[t].local => transactions[t].own
    /\ \A t \in submitted : transactions[t].nonce # NotAssigned

(* What the chain holds as m, if it has a hash of this app, the app signed. *)
SignedHere(m) ==
    m.hash <= MaxTx =>
        /\ m.hash \in 1..Len(transactions)
        /\ transactions[m.hash].local
        /\ transactions[m.hash].nonce = m.nonce
        /\ m.own /\ m.nonce # NotAssigned

MinedKnown == \A i \in 1..Len(mined) : SignedHere(mined[i])

HashesKnown ==
    \A u \in 1..Len(transactions) : ~transactions[u].local =>
        transactions[u].hash > MaxTx \/ transactions[u].hash \in 1..Len(transactions)

EtherApart ==
    \A u, t \in 1..Len(transactions) :
        /\ InEther(u) /\ ~transactions[u].local /\ InEther(t) /\ transactions[t].local
        => transactions[u].hash # t

EtherOnce ==
    \A u, v \in 1..Len(transactions) :
        /\ InEther(u) /\ InEther(v) /\ transactions[u].hash = transactions[v].hash
        /\ transactions[u].hash # NoHash
        => u = v

EInv == Sent /\ MinedKnown /\ HashesKnown /\ EtherApart /\ EtherOnce

(* No step moves a transaction into or out of the Ether wallet.            *)
LEMMA EtherSame ==
    ASSUME IInv, Preserved
    PROVE  /\ Len(transactions) \in Nat /\ Len(transactions') \in Nat
           /\ Len(transactions) <= Len(transactions')
           /\ \A t \in 1..Len(transactions) : InEther(t)' <=> InEther(t)
<1>1. /\ Len(transactions) \in Nat /\ Len(transactions') \in Nat
      /\ Len(wallets) \in Nat /\ Len(wallets') \in Nat
      /\ EtherWallet \in 1..Len(wallets) /\ EtherWallet \in 1..Len(wallets')
      /\ Len(transactions) <= Len(transactions') /\ Len(wallets) <= Len(wallets')
  BY DEF Preserved, Growing, IInv, WalletsOK, Listed, OnePerToken, EtherWallet
<1>2. ASSUME NEW t \in 1..Len(transactions) PROVE InEther(t)' <=> InEther(t)
  <2>1. PICK w \in 1..Len(wallets) : Contains(wallets[w].txs, t)
    BY DEF IInv, WalletsOK, Listed
  <2>2. Contains(wallets'[w].txs, t) /\ (InEther(t) => InEther(t)')
    BY <1>1, <2>1 DEF Preserved, IdentityStep, InEther
  <2>3. InEther(t)' => w = EtherWallet
    <3>1. t \in 1..Len(transactions') /\ w \in 1..Len(wallets')
      BY <1>1
    <3>2. Listed(transactions', wallets')
      BY DEF Preserved, IInv, WalletsOK
    <3> QED
      BY <1>1, <2>2, <3>1, <3>2 DEF Listed, InEther
  <2> QED
    BY <2>1, <2>2, <2>3 DEF InEther
<1> QED
  BY <1>1, <1>2

LEMMA EInit == Init => EInv
<1> SUFFICES ASSUME Init PROVE EInv
  OBVIOUS
<1>1. Len(transactions) = 0 /\ Len(mined) = 0 /\ submitted = {}
  BY DEF Init
<1> QED
  BY <1>1, ConstantsAssumption
     DEF EInv, Sent, MinedKnown, HashesKnown, EtherApart, EtherOnce

(* A step that leaves the transactions alone. *)
LEMMA EtherQuiet ==
    ASSUME IInv, Preserved, EInv, transactions' = transactions, MinedKnown',
           \A t \in submitted' : transactions[t].nonce # NotAssigned
    PROVE  EInv'
<1>1. \A t \in 1..Len(transactions) : InEther(t)' <=> InEther(t)
  BY EtherSame
<1>2. Sent' /\ HashesKnown'
  BY DEF EInv, Sent, HashesKnown
<1>3. EtherApart'
  BY <1>1 DEF EInv, EtherApart
<1>4. EtherOnce'
  BY <1>1 DEF EInv, EtherOnce
<1> QED
  BY <1>2, <1>3, <1>4 DEF EInv

(* A step that signs t, or gives it its hash. *)
LEMMA EtherChange ==
    ASSUME IInv, Preserved, EInv, NEW t \in 1..Len(transactions), NEW y,
           transactions[t].local, y.local, y.own = transactions[t].own,
           y.hash \in {transactions[t].hash, t}, y.nonce # NotAssigned,
           transactions[t].nonce \in {y.nonce, NotAssigned},
           Len(transactions') = Len(transactions),
           \A u \in 1..Len(transactions) :
               transactions'[u] = IF u = t THEN y ELSE transactions[u],
           UNCHANGED <<submitted, mined>>
    PROVE  EInv'
<1>1. /\ Len(transactions) \in Nat
      /\ \A u \in 1..Len(transactions) : InEther(u)' <=> InEther(u)
  BY EtherSame
<1>2. Sent'
  <2>1. submitted \subseteq 1..Len(transactions)
    BY DEF IInv, LocalIds
  <2> QED
    BY <2>1 DEF EInv, Sent
<1>3. MinedKnown'
  <2> SUFFICES ASSUME NEW i \in 1..Len(mined) PROVE SignedHere(mined[i])'
    BY DEF MinedKnown
  <2>1. SignedHere(mined[i])
    BY DEF EInv, MinedKnown
  <2> QED
    BY <2>1 DEF SignedHere
<1>4. HashesKnown'
  BY DEF EInv, HashesKnown
<1>5. EtherApart'
  BY <1>1 DEF EInv, EtherApart
<1>6. \A u \in 1..Len(transactions) :
        /\ transactions[u].local => transactions[u].hash \in {NoHash, u}
        /\ InEther(u) /\ InEther(t) /\ transactions[u].hash = t => u = t
  <2>1. \A u \in 1..Len(transactions) :
          transactions[u].local => transactions[u].hash \in {NoHash, u}
    BY DEF IInv, LocalIds
  <2> QED
    BY <2>1 DEF EInv, EtherApart, NoHash
<1>7. EtherOnce'
  BY <1>1, <1>6 DEF EInv, EtherOnce, NoHash
<1> QED
  BY <1>2, <1>3, <1>4, <1>5, <1>7 DEF EInv

(* A step that adds transactions.  One made here has no hash yet; one heard *)
(* of as m is in the Ether wallet only if nothing there has its hash or,    *)
(* being the account's, its nonce.                                          *)
LEMMA EtherCreate ==
    ASSUME IInv, Preserved, EInv, NEW x, x.local, x.own, x.hash = NoHash,
           Len(transactions) < MaxTx, transactions' = Append(transactions, x),
           UNCHANGED <<submitted, mined>>
    PROVE  EInv'
<1> DEFINE n == Len(transactions)
<1>1. /\ n \in Nat /\ \A u \in 1..n : InEther(u)' <=> InEther(u)
      /\ MaxTx \in Nat
  BY EtherSame, ConstantsAssumption
<1>2. /\ Len(transactions') = n + 1 /\ transactions'[n + 1] = x
      /\ \A u \in 1..n : transactions'[u] = transactions[u]
  BY <1>1 DEF IInv
<1>3. \A u \in 1..n + 1 : u \in 1..n \/ u = n + 1
  BY <1>1
<1>4. Sent'
  <2>1. submitted \subseteq 1..n
    BY DEF IInv, LocalIds
  <2> QED
    BY <1>1, <1>2, <1>3, <2>1 DEF EInv, Sent
<1>5. MinedKnown'
  <2> SUFFICES ASSUME NEW i \in 1..Len(mined) PROVE SignedHere(mined[i])'
    BY DEF MinedKnown
  <2>1. SignedHere(mined[i])
    BY DEF EInv, MinedKnown
  <2> QED
    BY <1>1, <1>2, <2>1 DEF SignedHere
<1>6. HashesKnown'
  BY <1>1, <1>2, <1>3 DEF EInv, HashesKnown
<1>7. EtherApart'
  <2>1. \A u \in 1..n : ~transactions[u].local => transactions[u].hash # n + 1
    BY <1>1 DEF EInv, HashesKnown
  <2> QED
    BY <1>1, <1>2, <1>3, <2>1 DEF EInv, EtherApart
<1>8. EtherOnce'
  BY <1>1, <1>2, <1>3 DEF EInv, EtherOnce
<1> QED
  BY <1>4, <1>5, <1>6, <1>7, <1>8 DEF EInv

LEMMA EtherHeard ==
    ASSUME IInv, Preserved, EInv, NEW m \in MinedType, SignedHere(m), HeardOnce(m),
           Known(transactions, transactions'),
           \A u \in 1..Len(transactions') :
               u \notin 1..Len(transactions) => ~transactions'[u].local,
           UNCHANGED <<submitted, mined>>
    PROVE  EInv'
<1> DEFINE n == Len(transactions)
<1>1. /\ n \in Nat /\ Len(transactions') \in Nat /\ n <= Len(transactions')
      /\ \A u \in 1..n : InEther(u)' <=> InEther(u)
      /\ MaxTx \in Nat
  BY EtherSame, ConstantsAssumption
<1>2. \A u \in 1..n : /\ transactions'[u].hash = transactions[u].hash
                      /\ transactions'[u].local = transactions[u].local
                      /\ transactions'[u].own = transactions[u].own
                      /\ transactions'[u].nonce = transactions[u].nonce
  BY DEF Known, Identity
<1>3. \A u \in 1..Len(transactions') :
         \/ u \in 1..n
         \/ /\ u = n + 1 /\ n < MaxTx /\ ~transactions'[u].local
            /\ transactions'[u].hash = m.hash
  BY DEF HeardOnce
<1>4. \A u \in 1..Len(transactions'), v \in 1..n : u \notin 1..n /\ InEther(u)' /\ InEther(v)
         => /\ transactions[v].hash # m.hash
            /\ ~(m.own /\ transactions[v].own /\ transactions[v].nonce = m.nonce)
  BY DEF HeardOnce, InEther
<1>5. Len(transactions') <= MaxTx
  BY <1>1, <1>3 DEF EInv, Sent
<1>6. Sent'
  <2>1. submitted \subseteq 1..n
    BY DEF IInv, LocalIds
  <2> QED
    BY <1>2, <1>3, <1>5, <2>1 DEF EInv, Sent
<1>7. MinedKnown'
  <2> SUFFICES ASSUME NEW i \in 1..Len(mined) PROVE SignedHere(mined[i])'
    BY DEF MinedKnown
  <2>1. SignedHere(mined[i])
    BY DEF EInv, MinedKnown
  <2> QED
    BY <1>1, <1>2, <2>1 DEF SignedHere
<1>8. HashesKnown'
  <2>1. m.hash > MaxTx \/ m.hash \in 1..n
    BY <1>1 DEF SignedHere, MinedType
  <2> QED
    BY <1>1, <1>2, <1>3, <2>1 DEF EInv, HashesKnown
<1>9. EtherApart'
  <2> SUFFICES ASSUME NEW u \in 1..Len(transactions'), NEW t \in 1..Len(transactions'),
                      InEther(u)', ~transactions'[u].local,
                      InEther(t)', transactions'[t].local
               PROVE  transactions'[u].hash # t
    BY DEF EtherApart
  <2>1. t \in 1..n /\ InEther(t) /\ transactions[t].local /\ transactions[t].own
    BY <1>1, <1>2, <1>3 DEF EInv, Sent
  <2>2. CASE u \in 1..n
    BY <1>1, <1>2, <2>1, <2>2 DEF EInv, EtherApart
  <2>3. CASE u \notin 1..n
    <3>1. transactions'[u].hash = m.hash
      BY <1>3, <2>3
    <3>2. ~(m.own /\ transactions[t].nonce = m.nonce)
      BY <1>4, <2>1, <2>3
    <3>3. t <= MaxTx
      BY <1>1, <2>1 DEF EInv, Sent
    <3> QED
      BY <3>1, <3>2, <3>3 DEF SignedHere
  <2> QED
    BY <2>2, <2>3
<1>10. EtherOnce'
  <2> SUFFICES ASSUME NEW u \in 1..Len(transactions'), NEW v \in 1..Len(transactions'),
                      InEther(u)', InEther(v)',
                      transactions'[u].hash = transactions'[v].hash,
                      transactions'[u].hash # NoHash
               PROVE  u = v
    BY DEF EtherOnce
  <2>1. CASE u \in 1..n /\ v \in 1..n
    BY <1>1, <1>2, <2>1 DEF EInv, EtherOnce
  <2>2. CASE u \notin 1..n /\ v \in 1..n
    BY <1>1, <1>2, <1>3, <1>4, <2>2
  <2>3. CASE u \in 1..n /\ v \notin 1..n
    BY <1>1, <1>2, <1>3, <1>4, <2>3
  <2>4. CASE u \notin 1..n /\ v \notin 1..n
    BY <1>3, <2>4
  <2> QED
    BY <2>1, <2>2, <2>3, <2>4
<1> QED
  BY <1>6, <1>7, <1>8, <1>9, <1>10 DEF EInv

LEMMA EtherMine ==
    ASSUME IInv, Preserved, EInv, NEW m, SignedHere(m), mined' = Append(mined, m),
           UNCHANGED <<transactions, submitted>>
    PROVE  EInv'
<1>1. mined \in Seq(MinedType)
  BY DEF IInv, NodeTypes
<1>2. /\ Len(mined') = Len(mined) + 1 /\ mined'[Len(mined) + 1] = m
      /\ \A i \in 1..Len(mined) : mined'[i] = mined[i]
      /\ \A i \in 1..Len(mined) + 1 : i \in 1..Len(mined) \/ i = Len(mined) + 1
  BY <1>1
<1>3. MinedKnown'
  <2> SUFFICES ASSUME NEW i \in 1..Len(mined') PROVE SignedHere(mined[i])'
    BY DEF MinedKnown
  <2>1. SignedHere(mined'[i])
    BY <1>2 DEF EInv, MinedKnown
  <2> QED
    BY <2>1 DEF SignedHere
<1> QED
  BY <1>3, EtherQuiet DEF EInv, Sent

LEMMA MinedAs ==
    ASSUME NEW h, NEW own, NEW n, NEW token, MineInNextBlock(h, own, n, token)
    PROVE  \E m : /\ mined' = Append(mined, m)
                  /\ m.hash = h /\ m.own = own /\ m.nonce = n
<1> DEFINE k == Cardinality({i \in 1..Len(mined) : mined[i].number = head + 1})
           m == [hash |-> h, own |-> own, nonce |-> n, token |-> token,
                 number |-> head + 1, index |-> k]
<1>1. mined' = Append(mined, m)
  BY Zenon DEF MineInNextBlock
<1> HIDE DEF k
<1>2. m.hash = h /\ m.own = own /\ m.nonce = n
  OBVIOUS
<1> HIDE DEF m
<1> QED
  BY <1>1, <1>2

LEMMA EtherNext == IInv /\ EInv /\ [Next]_vars => EInv'
<1> SUFFICES ASSUME IInv, EInv, [Next]_vars PROVE EInv'
  OBVIOUS
<1> USE ConstantsAssumption
<1>0. Preserved
  BY InvNext
<1>1. ASSUME NEW w \in 1..Len(wallets), CreateTransaction(w) PROVE EInv'
  <2> DEFINE x == NewTransaction(TRUE, TRUE, NotAssigned)
  <2>1. x.local /\ x.own /\ x.hash = NoHash
    BY DEF NewTransaction
  <2>2. /\ Len(transactions) < MaxTx /\ transactions' = Append(transactions, x)
        /\ UNCHANGED <<submitted, mined>>
    BY <1>1 DEF CreateTransaction, netVars
  <2> HIDE DEF x
  <2> QED
    BY <1>0, <2>1, <2>2, EtherCreate
<1>2. ASSUME AssignNonce \/ SignTransaction PROVE EInv'
  <2>1. PICK s \in signing :
          \/ /\ transactions[s.id].nonce = NotAssigned
             /\ transactions' = [transactions EXCEPT ![s.id].nonce = s.nonce]
          \/ /\ transactions[s.id].nonce # NotAssigned
             /\ transactions' = [transactions EXCEPT ![s.id].status = "SIGNED"]
    BY <1>2 DEF AssignNonce, SignTransaction
  <2> DEFINE t == s.id
             n == s.nonce
             y1 == [transactions[t] EXCEPT !.nonce = n]
             y2 == [transactions[t] EXCEPT !.status = "SIGNED"]
  <2>2. /\ t \in 1..Len(transactions) /\ n \in Nat /\ n # NotAssigned
        /\ transactions[t].local /\ transactions[t] \in TransactionType
        /\ transactions \in Seq(TransactionType)
    BY TransactionFields DEF IInv, Signing
  <2>3. /\ y1 \in TransactionType /\ y1.nonce = n /\ y1.local = transactions[t].local
        /\ y1.hash = transactions[t].hash /\ y1.own = transactions[t].own
        /\ y2 \in TransactionType /\ y2.nonce = transactions[t].nonce
        /\ y2.local = transactions[t].local /\ y2.hash = transactions[t].hash
        /\ y2.own = transactions[t].own
    BY <2>2 DEF TransactionType, Status
  <2>4. \/ transactions' = [transactions EXCEPT ![t] = y1] /\ transactions[t].nonce = NotAssigned
        \/ transactions' = [transactions EXCEPT ![t] = y2] /\ transactions[t].nonce # NotAssigned
    BY <2>1
  <2> HIDE DEF t, n, y1, y2
  <2>5. PICK y \in TransactionType :
          /\ transactions' = [transactions EXCEPT ![t] = y]
          /\ y.local /\ y.own = transactions[t].own /\ y.hash = transactions[t].hash
          /\ y.nonce # NotAssigned /\ transactions[t].nonce \in {y.nonce, NotAssigned}
    BY <2>2, <2>3, <2>4
  <2>6. /\ Len(transactions') = Len(transactions)
        /\ \A u \in 1..Len(transactions) :
              transactions'[u] = IF u = t THEN y ELSE transactions[u]
    BY <2>2, <2>5, ExceptSeq
  <2>7. UNCHANGED <<submitted, mined>>
    BY <1>2 DEF AssignNonce, SignTransaction, netVars
  <2> QED
    BY <1>0, <2>2, <2>5, <2>6, <2>7, EtherChange
<1>3. ASSUME NEW t \in 1..Len(transactions), SubmitTransaction(t) PROVE EInv'
  <2>1. /\ transactions[t].nonce # NotAssigned /\ submitted' = submitted \cup {t}
        /\ transactions' = transactions /\ mined' = mined
    BY <1>3 DEF SubmitTransaction, nodeVars
  <2>2. MinedKnown'
    BY <2>1 DEF EInv, MinedKnown, SignedHere
  <2> QED
    BY <1>0, <2>1, <2>2, EtherQuiet DEF EInv, Sent
<1>4. ASSUME NEW t \in replies, AnnounceSubmitTransaction(t) PROVE EInv'
  <2> DEFINE y == [transactions[t] EXCEPT !.status = "SUBMITTED", !.hash = t]
  <2>1. /\ t \in 1..Len(transactions) /\ t \in submitted /\ transactions[t].local
    BY DEF IInv, LocalIds
  <2>2. /\ transactions[t] \in TransactionType /\ t \in Nat
        /\ transactions[t].nonce # NotAssigned /\ transactions \in Seq(TransactionType)
        /\ UNCHANGED <<submitted, mined>>
    BY <1>4, <2>1, TransactionFields
       DEF AnnounceSubmitTransaction, netVars, IInv, EInv, Sent
  <2>3. /\ y.local /\ y.own = transactions[t].own /\ y.hash = t
        /\ y.nonce = transactions[t].nonce /\ y \in TransactionType
    BY <2>1, <2>2 DEF TransactionType, Status
  <2>4. transactions' = [transactions EXCEPT ![t] = y]
    BY <1>4 DEF AnnounceSubmitTransaction
  <2> HIDE DEF y
  <2>5. /\ Len(transactions') = Len(transactions)
        /\ \A u \in 1..Len(transactions) :
              transactions'[u] = IF u = t THEN y ELSE transactions[u]
    BY <2>1, <2>2, <2>3, <2>4, ExceptSeq
  <2> QED
    BY <1>0, <2>1, <2>2, <2>3, <2>5, EtherChange
<1>5. ASSUME NEW i \in Visible, AnnounceTransaction(mined[i]) \/ AnnounceLog(mined[i])
      PROVE  EInv'
  <2> DEFINE m == mined[i]
  <2>1. m \in MinedType /\ SignedHere(m)
    BY DEF Visible, IInv, NodeTypes, EInv, MinedKnown
  <2> HIDE DEF m
  <2>2. AnnounceTransaction(m) \/ AnnounceLog(m)
    BY <1>5 DEF m
  <2>3. UNCHANGED <<submitted, mined>>
    BY <2>2, Zenon DEF AnnounceTransaction, AnnounceLog, netVars
  <2>4. /\ Known(transactions, transactions') /\ HeardOnce(m)
        /\ \A u \in 1..Len(transactions') :
              u \notin 1..Len(transactions) => ~transactions'[u].local
    BY <2>1, <2>2, Announced DEF IInv
  <2> QED
    BY <1>0, <2>1, <2>3, <2>4, EtherHeard
<1>6. ASSUME NEW t \in mempool, MineLocal(t) PROVE EInv'
  <2>1. t \in 1..Len(transactions) /\ transactions[t].local /\ t \in submitted
    BY DEF IInv, LocalIds
  <2>2. PICK own, n, token :
           own = TRUE /\ n = transactions[t].nonce /\ MineInNextBlock(t, own, n, token)
    BY <1>6, Zenon DEF MineLocal
  <2>3. PICK m : /\ mined' = Append(mined, m)
                 /\ m.hash = t /\ m.own = own /\ m.nonce = n
    <3>1. MineInNextBlock(t, own, n, token)
      BY <2>2
    <3> QED
      BY <3>1, MinedAs, SMTT(30)
  <2>4. SignedHere(m)
    BY <2>1, <2>2, <2>3 DEF SignedHere, EInv, Sent
  <2> QED
    BY <1>0, <2>2, <2>3, <2>4, EtherMine DEF MineInNextBlock, nodeVars
<1>7. ASSUME NEW own \in BOOLEAN, NEW token \in Holding, MineRemote(own, token)
      PROVE  EInv'
  <2>1. RemoteHash \in Nat /\ RemoteHash > MaxTx
    BY DEF IInv, NodeTypes, RemoteHash
  <2>2. PICK n : MineInNextBlock(RemoteHash, own, n, token)
    BY <1>7 DEF MineRemote
  <2>3. PICK m : mined' = Append(mined, m) /\ m.hash = RemoteHash
    BY <2>2, MinedAs
  <2>4. SignedHere(m)
    BY <2>1, <2>3 DEF SignedHere
  <2> QED
    BY <1>0, <2>2, <2>3, <2>4, EtherMine DEF MineInNextBlock, nodeVars
<1>8. ASSUME UNCHANGED <<transactions, submitted, mined>> PROVE EInv'
  <2>1. MinedKnown'
    BY <1>8 DEF EInv, MinedKnown, SignedHere
  <2> QED
    BY <1>0, <1>8, <2>1, EtherQuiet DEF EInv, Sent
<1>9. ASSUME \/ \E token \in Token : GetWalletHoldingToken(token)
             \/ \E t \in 1..Len(transactions) : LoadNonce(t)
             \/ \E number \in 0..head : AnnounceBlockNumber(number) \/ CompareNonce(number)
             \/ \E n \in compared : StoreNonce(n)
             \/ \E t \in replies : LoseReply(t)
             \/ SealBlock
             \/ UNCHANGED vars
      PROVE  UNCHANGED <<transactions, submitted, mined>>
  BY <1>9 DEF GetWalletHoldingToken, LoadNonce, AnnounceBlockNumber, CompareNonce,
              StoreNonce, LoseReply,
              SealBlock, vars, nodeVars, netVars
<1> QED
  BY <1>1, <1>2, <1>3, <1>4, <1>5, <1>6, <1>7, <1>8, <1>9, Zenon DEF Next

-----------------------------------------------------------------------------
(* What the runs check follows from the invariant.                         *)

LEMMA InvTypeOK == IInv => TypeOK
<1> SUFFICES ASSUME IInv PROVE TypeOK
  OBVIOUS
<1>1. wallets \in Seq([token : Holding, txs : Seq(1..Len(transactions))])
  BY DEF IInv, WalletsOK, Listed, WalletRecord
<1> QED
  BY <1>1 DEF IInv, TypeOK, NodeTypes, LocalIds, Signing

LEMMA InvInOneWallet == IInv => InOneWallet
<1> SUFFICES ASSUME IInv PROVE InOneWallet
  OBVIOUS
<1>1. Len(transactions) \in Nat /\ Listed(transactions, wallets)
  BY DEF IInv, WalletsOK
<1>2. ASSUME NEW v \in 1..Len(wallets), NEW w \in 1..Len(wallets),
             NEW i \in 1..Len(wallets[v].txs), NEW j \in 1..Len(wallets[w].txs),
             wallets[v].txs[i] = wallets[w].txs[j]
      PROVE  v = w /\ i = j
  <2> DEFINE t == wallets[v].txs[i]
  <2>1. Contains(wallets[v].txs, t) /\ Contains(wallets[w].txs, t)
    BY <1>2 DEF Contains
  <2>2. t \in 1..Len(transactions)
    BY <1>1, <2>1, WalletList DEF IInv
  <2>3. v = w
    BY <1>1, <2>1, <2>2 DEF Listed
  <2> QED
    BY <1>1, <1>2, <2>3 DEF Listed, OnceEach
<1> QED
  BY <1>1, <1>2 DEF InOneWallet, Listed

LEMMA InvBlockedInOrder == IInv => BlockedInOrder
BY DEF IInv, WalletsOK, InOrder, Ordered, BlockedInOrder

(* In every behaviour the node's state is well formed.                     *)
THEOREM TypeCorrect == Spec => []TypeOK
<1> QED
  BY Invariance, InvTypeOK, PTL

(* One wallet holds Ether, and one each token, however they are made.      *)
THEOREM WalletPerHolding == Spec => []OneWalletPerHolding
<1>1. IInv => OneWalletPerHolding
  BY DEF IInv, WalletsOK, OnePerToken, OneWalletPerHolding
<1> QED
  BY <1>1, Invariance, PTL

(* Every transaction stays in exactly one wallet, once, through all sorts. *)
THEOREM NothingLostOrDoubled == Spec => []InOneWallet
<1> QED
  BY Invariance, InvInOneWallet, PTL

(* The blocked transactions of a wallet are in the order of the chain.     *)
THEOREM WalletsInChainOrder == Spec => []BlockedInOrder
<1> QED
  BY Invariance, InvBlockedInOrder, PTL

(* A nonce is handed out again only after a stale count was stored, which  *)
(* the store of addressSetNonce without a lock permits: nothing else that  *)
(* the app and the service do, in any order, leads to it.                  *)
THEOREM NoncesOnceUnlessStale == Spec => []OnceUnlessStale
<1>1. IInv => OnceUnlessStale
  BY DEF IInv, NoncesApart, OnceUnlessStale
<1> QED
  BY <1>1, Invariance, PTL

(* A nonce, a hash and the wallet of a transaction are written once.       *)
THEOREM IdentityNeverChanges == Spec => IdentityKept
<1>1. IInv /\ [Next]_vars => [IdentityStep]_vars
  BY InvNext DEF Preserved
<1> QED
  BY <1>1, Invariance, PTL DEF Spec, IdentityKept, IdentityStep

(* No transaction of the chain is twice in the Ether wallet, whether the    *)
(* reply to a submission or the announcement comes first.                  *)
THEOREM EtherShownOnce == Spec => []EtherHashesUnique
<1>1. IInv /\ EInv => EtherHashesUnique
  <2> SUFFICES ASSUME IInv, EInv PROVE EtherHashesUnique
    OBVIOUS
  <2> DEFINE list == wallets[EtherWallet].txs
  <2>1. EtherWallet \in 1..Len(wallets) /\ Len(transactions) \in Nat
    BY DEF IInv, WalletsOK, Listed, OnePerToken, EtherWallet
  <2>2. /\ OnceEach(list)
        /\ \A i \in 1..Len(list) : list[i] \in 1..Len(transactions) /\ InEther(list[i])
    <3>1. OnceEach(list) /\ list \in Seq(1..Len(transactions))
      BY <2>1, WalletList DEF IInv
    <3> QED
      BY <3>1 DEF InEther, Contains
  <2> QED
    BY <2>2 DEF EInv, EtherOnce, EtherHashesUnique, OnceEach
<1> QED
  BY <1>1, InvInit, InvNext, EInit, EtherNext, PTL DEF Spec, Preserved
=============================================================================
