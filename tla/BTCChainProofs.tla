---------------------------- MODULE BTCChainProofs ----------------------------
(* Proofs about the Bitcoin node: its wallet and its chain agree, whatever    *)
(* the blocks, the transactions, and the order in which peers relay them.    *)
EXTENDS BTCChain, BTCWalletProofs, FiniteSetTheorems

-----------------------------------------------------------------------------
(* The tree of blocks. *)

LEMMA BlockHeight ==
    /\ \A b \in Block : Height[b] \in Nat /\ Height[b] \in 0..TX_UNCONFIRMED
                        /\ Height[b] # TX_UNCONFIRMED
    /\ \A b \in Block : Prev[b] \in Block => Height[b] = Height[Prev[b]] + 1
<1>1. Height \in [Block -> 0..(TX_UNCONFIRMED - 1)]
  BY BlockAssumption
<1>2. \A b \in Block : Height[b] \in 0..(TX_UNCONFIRMED - 1)
  BY <1>1
<1> QED
  BY <1>2, TxUnconfirmedNat, BlockAssumption

(* What holds of a block whenever it holds of the one before it, holds of     *)
(* every block.                                                              *)
LEMMA BlockInduction ==
    ASSUME NEW S, \A b \in Block : (Prev[b] \in Block => Prev[b] \in S) => b \in S
    PROVE  \A b \in Block : b \in S
<1> DEFINE N == TX_UNCONFIRMED
           K == {n \in 0..N : \A b \in Block : Height[b] <= n => b \in S}
<1>1. N \in Nat
  BY TxUnconfirmedNat
<1> HIDE DEF N
<1>2. 0 \in K
  <2> SUFFICES ASSUME NEW b \in Block, Height[b] <= 0 PROVE b \in S
    BY <1>1
  <2>1. Prev[b] \notin Block
    BY BlockHeight
  <2> QED
    BY <2>1
<1>3. ASSUME NEW n \in 0..(N - 1), n \in K PROVE n + 1 \in K
  <2>1. n + 1 \in 0..N
    BY <1>1
  <2>2. ASSUME NEW b \in Block, Height[b] <= n + 1 PROVE b \in S
    <3>1. ASSUME Prev[b] \in Block PROVE Prev[b] \in S
      <4>1. Height[b] = Height[Prev[b]] + 1 /\ Height[Prev[b]] \in Nat
        BY <3>1, BlockHeight
      <4>2. Height[Prev[b]] <= n
        BY <2>2, <4>1
      <4> QED
        BY <1>3, <3>1, <4>2
    <3> QED
      BY <3>1
  <2> QED
    BY <2>1, <2>2
<1> HIDE DEF K
<1>4. \A n \in 0..N : n \in K
  BY <1>1, <1>2, <1>3, UpTo
<1>5. N \in K
  BY <1>1, <1>4
<1>6. \A b \in Block : Height[b] <= N
  BY <1>1, BlockHeight DEF N
<1> QED
  BY <1>5, <1>6 DEF K

LEMMA AncestorsEquation ==
    \A b \in Block :
        Ancestors[b] = {b} \cup IF Prev[b] \in Block THEN Ancestors[Prev[b]] ELSE {}
<1> DEFINE N == TX_UNCONFIRMED
           step(b, x) == {b} \cup IF Prev[b] \in Block THEN x ELSE {}
           Low(n) == {b \in Block : Height[b] <= n}
           is(h, n) == h = [b \in Low(n) |-> step(b, h[Prev[b]])]
           K == {n \in 0..N : \E h : is(h, n)}
           total(h) == h = [b \in Block |-> step(b, h[Prev[b]])]
<1>1. N \in Nat
  BY TxUnconfirmedNat
<1> HIDE DEF N
<1>2. 0 \in K
  <2> DEFINE h == [b \in Low(0) |-> {b}]
  <2>1. \A b \in Low(0) : Prev[b] \notin Block
    BY BlockHeight
  <2>2. is(h, 0)
    BY <2>1
  <2> HIDE DEF is
  <2> QED
    BY <1>1, <2>2
<1>3. ASSUME NEW n \in 0..(N - 1), n \in K PROVE n + 1 \in K
  <2>1. PICK h : is(h, n)
    BY <1>3
  <2> DEFINE g == [b \in Low(n + 1) |->
                     IF b \in Low(n) THEN h[b] ELSE step(b, h[Prev[b]])]
  <2>2. n + 1 \in 0..N /\ n \in Nat
    BY <1>1
  <2>3. ASSUME NEW b \in Low(n + 1), Prev[b] \in Block
        PROVE  Prev[b] \in Low(n) /\ Prev[b] \in Low(n + 1)
    <3>1. Height[b] = Height[Prev[b]] + 1 /\ Height[Prev[b]] \in Nat /\ Height[b] <= n + 1
      BY <2>3, BlockHeight
    <3> QED
      BY <2>2, <2>3, <3>1
  <2>4. \A b \in Low(n + 1) : Prev[b] \in Block => g[Prev[b]] = h[Prev[b]]
    BY <2>3
  <2>5. \A b \in Low(n) : h[b] = step(b, h[Prev[b]])
    <3> HIDE DEF step, Low
    <3> QED
      BY <2>1
  <2>6. \A b \in Low(n + 1) : g[b] = step(b, h[Prev[b]])
    <3> HIDE DEF step
    <3> QED
      BY <2>5
  <2>7. \A b \in Low(n + 1) : g[b] = step(b, g[Prev[b]])
    BY <2>4, <2>6
  <2>8. is(g, n + 1)
    <3>1. g = [b \in Low(n + 1) |-> g[b]]
      OBVIOUS
    <3> HIDE DEF g, step, Low
    <3> QED
      BY <2>7, <3>1
  <2> HIDE DEF is
  <2> QED
    BY <2>2, <2>8
<1> HIDE DEF K
<1>4. \A n \in 0..N : n \in K
  BY <1>1, <1>2, <1>3, UpTo
<1>5. N \in K
  BY <1>1, <1>4
<1>6. Low(N) = Block
  BY BlockHeight DEF N
<1>7. PICK h : total(h)
  <2>1. PICK h : is(h, N)
    BY <1>5 DEF K
  <2> HIDE DEF step, Low
  <2>2. total(h)
    BY <1>6, <2>1
  <2> HIDE DEF total
  <2> QED
    BY <2>2
<1>8. Ancestors = CHOOSE f : f = [b \in Block |-> step(b, f[Prev[b]])]
  BY Zenon DEF Ancestors
<1> HIDE DEF step
<1>9. Ancestors = [b \in Block |-> step(b, Ancestors[Prev[b]])]
  BY <1>7, <1>8, Zenon
<1>10. \A b \in Block : Ancestors[b] = step(b, Ancestors[Prev[b]])
  BY <1>9, Zenon
<1> QED
  BY <1>10 DEF step

(* The ancestors of a block are lower, and theirs are its own.                *)
LEMMA AncestorsLower ==
    \A b \in Block :
       /\ b \in Ancestors[b] /\ Ancestors[b] \subseteq Block
       /\ \A a \in Ancestors[b] : a # b => Height[a] < Height[b]
       /\ \A a \in Ancestors[b] : Ancestors[a] \subseteq Ancestors[b]
<1> DEFINE S == {b \in Block : /\ b \in Ancestors[b] /\ Ancestors[b] \subseteq Block
                               /\ \A a \in Ancestors[b] : a # b => Height[a] < Height[b]
                               /\ \A a \in Ancestors[b] : Ancestors[a] \subseteq Ancestors[b]}
<1>1. ASSUME NEW b \in Block, Prev[b] \in Block => Prev[b] \in S PROVE b \in S
  <2>1. CASE Prev[b] \in Block
    <3> DEFINE p == Prev[b]
    <3>1. /\ p \in Ancestors[p] /\ Ancestors[p] \subseteq Block
          /\ \A a \in Ancestors[p] : a # p => Height[a] < Height[p]
          /\ \A a \in Ancestors[p] : Ancestors[a] \subseteq Ancestors[p]
      BY <1>1, <2>1
    <3>2. Ancestors[b] = {b} \cup Ancestors[p]
      BY <2>1, AncestorsEquation
    <3>3. Height[b] = Height[p] + 1 /\ \A a \in Block : Height[a] \in Nat
      BY <2>1, BlockHeight
    <3>4. \A a \in Ancestors[b] : a # b => Height[a] < Height[b]
      <4> SUFFICES ASSUME NEW a \in Ancestors[p] PROVE Height[a] < Height[b]
        BY <3>2
      <4>1. a = p \/ Height[a] < Height[p]
        BY <3>1
      <4>2. Height[a] \in Nat /\ Height[p] \in Nat
        BY <2>1, <3>1, <3>3
      <4> QED
        BY <3>3, <4>1, <4>2
    <3>5. \A a \in Ancestors[b] : Ancestors[a] \subseteq Ancestors[b]
      BY <3>1, <3>2
    <3> QED
      BY <3>1, <3>2, <3>4, <3>5
  <2>2. CASE Prev[b] \notin Block
    <3>1. Ancestors[b] = {b}
      BY <2>2, AncestorsEquation
    <3> QED
      BY <3>1
  <2> QED
    BY <2>1, <2>2
<1> HIDE DEF S
<1>2. \A b \in Block : b \in S
  BY <1>1, BlockInduction
<1> QED
  BY <1>2 DEF S

(* They are in a line: of two, the lower is an ancestor of the higher.        *)
LEMMA AncestorsLine ==
    \A b \in Block : \A a, c \in Ancestors[b] : Height[a] <= Height[c] => a \in Ancestors[c]
<1> DEFINE S == {b \in Block :
                   \A a, c \in Ancestors[b] : Height[a] <= Height[c] => a \in Ancestors[c]}
<1>1. ASSUME NEW b \in Block, Prev[b] \in Block => Prev[b] \in S PROVE b \in S
  <2> SUFFICES ASSUME NEW a \in Ancestors[b], NEW c \in Ancestors[b], Height[a] <= Height[c]
               PROVE  a \in Ancestors[c]
    OBVIOUS
  <2>1. CASE c = b
    BY <2>1
  <2>2. CASE c # b
    <3>1. Height[c] < Height[b] /\ c \in Block /\ a \in Block
      BY <2>2, AncestorsLower
    <3>2. a # b
      BY <3>1, BlockHeight
    <3>3. Prev[b] \in Block /\ a \in Ancestors[Prev[b]] /\ c \in Ancestors[Prev[b]]
      BY <2>2, <3>2, AncestorsEquation
    <3> QED
      BY <1>1, <3>3
  <2> QED
    BY <2>1, <2>2
<1> HIDE DEF S
<1>2. \A b \in Block : b \in S
  BY <1>1, BlockInduction
<1> QED
  BY <1>2 DEF S

(* Between a block and an ancestor of it there is one of every height.        *)
LEMMA AncestorsDense ==
    \A b \in Block : \A a \in Ancestors[b] : \A h \in Height[a]..Height[b] :
        \E d \in Ancestors[b] : Height[d] = h
<1> DEFINE S == {b \in Block : \A a \in Ancestors[b] : \A h \in Height[a]..Height[b] :
                                  \E d \in Ancestors[b] : Height[d] = h}
<1>1. ASSUME NEW b \in Block, Prev[b] \in Block => Prev[b] \in S PROVE b \in S
  <2> SUFFICES ASSUME NEW a \in Ancestors[b], NEW h \in Height[a]..Height[b]
               PROVE  \E d \in Ancestors[b] : Height[d] = h
    OBVIOUS
  <2>0. a \in Block /\ Height[a] \in Nat /\ Height[b] \in Nat /\ b \in Ancestors[b]
    BY AncestorsLower, BlockHeight
  <2>1. CASE h = Height[b]
    BY <2>0, <2>1
  <2>2. CASE h # Height[b]
    <3>1. a # b /\ h \in Nat
      BY <2>0, <2>2
    <3>2. Prev[b] \in Block /\ a \in Ancestors[Prev[b]] /\ Ancestors[Prev[b]] \subseteq Ancestors[b]
      BY <3>1, AncestorsEquation
    <3>3. Height[b] = Height[Prev[b]] + 1 /\ Height[Prev[b]] \in Nat
      BY <3>2, BlockHeight
    <3>4. h \in Height[a]..Height[Prev[b]]
      BY <2>0, <2>2, <3>1, <3>3
    <3> QED
      BY <1>1, <3>2, <3>4
  <2> QED
    BY <2>1, <2>2
<1> HIDE DEF S
<1>2. \A b \in Block : b \in S
  BY <1>1, BlockInduction
<1> QED
  BY <1>2 DEF S

(* An ancestor that is not the block itself comes before one that is on the   *)
(* way.                                                                      *)
LEMMA AncestorsNext ==
    \A b \in Block : \A a \in Ancestors[b] : a # b => \E c \in Ancestors[b] : Prev[c] = a
<1> DEFINE S == {b \in Block : \A a \in Ancestors[b] : a # b => \E c \in Ancestors[b] : Prev[c] = a}
<1>1. ASSUME NEW b \in Block, Prev[b] \in Block => Prev[b] \in S PROVE b \in S
  <2> SUFFICES ASSUME NEW a \in Ancestors[b], a # b PROVE \E c \in Ancestors[b] : Prev[c] = a
    OBVIOUS
  <2>1. Prev[b] \in Block /\ a \in Ancestors[Prev[b]] /\ Ancestors[Prev[b]] \subseteq Ancestors[b]
    BY AncestorsEquation
  <2>2. CASE a = Prev[b]
    BY <2>2, AncestorsLower
  <2>3. CASE a # Prev[b]
    BY <1>1, <2>1, <2>3
  <2> QED
    BY <2>2, <2>3
<1> HIDE DEF S
<1>2. \A b \in Block : b \in S
  BY <1>1, BlockInduction
<1> QED
  BY <1>2 DEF S

-----------------------------------------------------------------------------
(* What is known of the chain of a block. *)

(* Two ancestors of a block at the same height are one.                       *)
LEMMA AncestorsUnique ==
    \A b \in Block : \A a, c \in Ancestors[b] : Height[a] = Height[c] => a = c
<1> SUFFICES ASSUME NEW b \in Block, NEW a \in Ancestors[b], NEW c \in Ancestors[b],
                    Height[a] = Height[c], a # c
             PROVE  FALSE
  OBVIOUS
<1>1. a \in Block /\ c \in Block
  BY AncestorsLower
<1>2. Height[a] \in Nat /\ Height[c] \in Nat
  BY <1>1, BlockHeight
<1>3. a \in Ancestors[c]
  BY <1>2, AncestorsLine
<1>4. Height[a] < Height[c]
  BY <1>1, <1>3, AncestorsLower
<1> QED
  BY <1>2, <1>4

(* The known part of a chain reaches from the block down without a gap.       *)
LEMMA ChainInOK ==
    ASSUME NEW known, NEW b \in Block
    PROVE  /\ b \in ChainIn(known, b) /\ ChainIn(known, b) \subseteq Ancestors[b]
           /\ ChainIn(known, b) \subseteq Block
           /\ \A a \in ChainIn(known, b) : \A d \in Ancestors[b] :
                 Height[a] <= Height[d] => d \in ChainIn(known, b)
<1>1. ChainIn(known, b) \subseteq Ancestors[b] /\ Ancestors[b] \subseteq Block /\ b \in Ancestors[b]
  BY AncestorsLower DEF ChainIn
<1>2. b \in ChainIn(known, b)
  <2> SUFFICES ASSUME NEW d \in Ancestors[b], Height[b] <= Height[d], d # b PROVE d \in known
    BY <1>1 DEF ChainIn
  <2>1. Height[d] < Height[b]
    BY AncestorsLower
  <2>2. d \in Block /\ Height[d] \in Nat /\ Height[b] \in Nat
    BY <1>1, BlockHeight
  <2> QED
    BY <2>1, <2>2
<1>3. ASSUME NEW a \in ChainIn(known, b), NEW d \in Ancestors[b], Height[a] <= Height[d]
      PROVE  d \in ChainIn(known, b)
  <2> SUFFICES ASSUME NEW e \in Ancestors[b], Height[d] <= Height[e], e # b PROVE e \in known
    BY DEF ChainIn
  <2>1. Height[a] \in Nat /\ Height[d] \in Nat /\ Height[e] \in Nat
    BY <1>1, BlockHeight
  <2>2. Height[a] <= Height[e]
    BY <1>3, <2>1
  <2> QED
    BY <2>2 DEF ChainIn
<1> QED
  BY <1>1, <1>2, <1>3

(* The lowest block of a known part of a chain.                               *)
LEMMA FloorOK ==
    ASSUME NEW S \in SUBSET Block, S # {}
    PROVE  Floor(S) \in Nat /\ \E a \in S : Height[a] = Floor(S)
<1> DEFINE H == {Height[a] : a \in S}
<1>1. H \in SUBSET Nat /\ H # {}
  BY BlockHeight
<1> HIDE DEF H
<1>2. Min(H) \in H
  BY <1>1, MinIsLeast
<1>3. Floor(S) = Min(H)
  BY Zenon DEF Floor, H
<1> QED
  BY <1>1, <1>2, <1>3 DEF H

(* Where the branch of a block joins the main chain.                          *)
LEMMA JoinedOK ==
    ASSUME NEW b \in Block, lastBlock \in Block, CutOff(b) \/ Joined(b) # {}
    PROVE  /\ JoinHeight(b) \in Nat
           /\ ~CutOff(b) =>
                 \E j \in Ancestors[b] \cap Ancestors[lastBlock] : Height[j] = JoinHeight(b)
<1> DEFINE C == Side(b)
           M == Main(b)
           J == Joined(b)
<1>1. /\ C \subseteq Ancestors[b] /\ C \in SUBSET Block /\ C # {}
      /\ M \subseteq Ancestors[lastBlock] /\ M \in SUBSET Block /\ M # {}
  BY ChainInOK DEF Side, Main
<1>2. J = C \cap M
  BY DEF Joined
<1>3. CASE CutOff(b)
  <2>1. JoinHeight(b) = Floor(M) - 1
    BY <1>3 DEF JoinHeight
  <2>2. Floor(C) < Floor(M)
    BY <1>3 DEF CutOff
  <2> HIDE DEF C, M
  <2>3. Floor(C) \in Nat /\ Floor(M) \in Nat
    BY <1>1, FloorOK
  <2> QED
    BY <1>3, <2>1, <2>2, <2>3
<1>4. CASE ~CutOff(b)
  <2> DEFINE H == {Height[a] : a \in J}
  <2>1. JoinHeight(b) = Max(H)
    BY <1>4 DEF JoinHeight
  <2>2. J # {}
    BY <1>4
  <2> HIDE DEF C, M, J
  <2>3. H \in SUBSET (0..TX_UNCONFIRMED) /\ H # {}
    BY <1>1, <1>2, <2>2, BlockHeight
  <2> HIDE DEF H
  <2>4. Max(H) \in H
    BY <2>3, TxUnconfirmedNat, MaxIsGreatest
  <2>5. PICK j \in J : Height[j] = Max(H)
    BY <2>4 DEF H
  <2>6. Height[j] \in Nat
    BY <1>1, <1>2, BlockHeight
  <2> QED
    BY <1>1, <1>2, <1>4, <2>1, <2>5, <2>6
<1> QED
  BY <1>3, <1>4

(* The blocks of the branch: those of the chain above where it joins.         *)
LEMMA BranchOK ==
    ASSUME NEW b \in Block, lastBlock \in Block, CutOff(b) \/ Joined(b) # {}
    PROVE  /\ Branch(b) \in Seq(Block)
           /\ CutOff(b) => Branch(b) = << >>
           /\ ~CutOff(b) =>
                 Range(Branch(b)) = {a \in Ancestors[b] : Height[a] > JoinHeight(b)}
<1> DEFINE J == JoinHeight(b)
           N == Height[b] - J
           block(i) == CHOOSE a \in Ancestors[b] : Height[a] = Height[b] + 1 - i
<1>0. Height[b] \in Nat /\ J \in Nat /\ Ancestors[b] \subseteq Block
  BY JoinedOK, BlockHeight, AncestorsLower
<1>1. CASE CutOff(b)
  <2>1. Branch(b) = [i \in 1..0 |-> block(i)]
    BY <1>1 DEF Branch
  <2>2. Branch(b) = << >>
    BY <2>1
  <2> QED
    BY <1>1, <2>2
<1>2. CASE ~CutOff(b)
  <2>1. Branch(b) = [i \in 1..N |-> block(i)]
    BY <1>2, Zenon DEF Branch
  <2>2. PICK j \in Ancestors[b] : Height[j] = J
    BY <1>2, JoinedOK
  <2>3. \A i \in 1..N : \E a \in Ancestors[b] : Height[a] = Height[b] + 1 - i
    <3> SUFFICES ASSUME NEW i \in 1..N PROVE \E a \in Ancestors[b] : Height[a] = Height[b] + 1 - i
      OBVIOUS
    <3> HIDE DEF J
    <3>1. Height[b] + 1 - i \in Height[j]..Height[b]
      BY <1>0, <2>2
    <3> QED
      BY <3>1, AncestorsDense
  <2>4. \A i \in 1..N : block(i) \in Ancestors[b] /\ Height[block(i)] = Height[b] + 1 - i
    BY <2>3
  <2>5. N \in Int
    BY <1>0
  <2> HIDE DEF block, N, J
  <2>6. N \in Nat \/ 1..N = {}
    BY <2>5
  <2>7. Branch(b) \in Seq(Block)
    <3>1. CASE N \in Nat
      BY <1>0, <2>1, <2>4, <3>1
    <3>2. CASE 1..N = {}
      <4>1. 1..N = 1..0
        BY <3>2
      <4>2. Branch(b) = [i \in 1..0 |-> block(i)]
        BY <2>1, <4>1, Zenon
      <4> QED
        BY <4>2
    <3> QED
      BY <2>6, <3>1, <3>2
  <2>8. Range(Branch(b)) = {block(i) : i \in 1..N}
    BY <2>1 DEF Range
  <2>9. \A i \in 1..N : Height[block(i)] > J
    BY <1>0, <2>4 DEF N
  <2>10. ASSUME NEW a \in Ancestors[b], Height[a] > J PROVE a \in {block(i) : i \in 1..N}
    <3>1. Height[a] \in Nat /\ Height[a] <= Height[b]
      BY <1>0, BlockHeight, AncestorsLower
    <3> DEFINE i == Height[b] + 1 - Height[a]
    <3>2. i \in 1..N /\ Height[a] = Height[b] + 1 - i
      BY <1>0, <2>10, <3>1 DEF N
    <3> HIDE DEF i
    <3>3. block(i) = a
      BY <2>4, <3>2, AncestorsUnique
    <3> QED
      BY <3>2, <3>3
  <2> QED
    BY <1>2, <2>4, <2>7, <2>8, <2>9, <2>10 DEF J
<1> QED
  BY <1>1, <1>2

-----------------------------------------------------------------------------
(* Confirming the transactions of a branch. *)

LEMMA MatchedType ==
    \A b \in Block : Matched[b] \in Seq(Tx) /\ Range(Matched[b]) \subseteq Tx
<1>1. \A b \in Block : Matched[b] \in Seq(Tx)
  BY BlockAssumption
<1> QED
  BY <1>1 DEF Range

Confirming(f, w, branch) ==
    /\ ConfirmBranch(w, branch) = f[Len(branch)]
    /\ f[0] = w
    /\ \A n \in 0..(Len(branch) - 1) :
          f[n + 1] = ConfirmTransactions(f[n], Matched[branch[n + 1]], Height[branch[n + 1]])

LEMMA ConfirmBranchEquations ==
    ASSUME NEW w, NEW branch \in Seq(Block)
    PROVE  \E f : Confirming(f, w, branch)
<1> DEFINE N == Len(branch)
           step(x, n) == ConfirmTransactions(x, Matched[branch[n]], Height[branch[n]])
           is(h, k) == h = [n \in 0..k |-> IF n = 0 THEN w ELSE step(h[n - 1], n)]
           K == {k \in 0..N : \E h : is(h, k)}
           f == CHOOSE h : is(h, N)
<1>1. ConfirmBranch(w, branch) = f[N] /\ N \in Nat
  <2>1. ConfirmBranch(w, branch) = f[N]
    BY Zenon DEF ConfirmBranch
  <2>2. N \in Nat
    OBVIOUS
  <2> QED
    BY <2>1, <2>2
<1> HIDE DEF N
<1>2. \A k \in 0..N : k \in K
  <2> HIDE DEF step
  <2>1. 0 \in K
    <3>1. is([n \in 0..0 |-> w], 0)
      OBVIOUS
    <3>2. 0 \in 0..N
      BY <1>1
    <3> HIDE DEF is
    <3> QED
      BY <3>1, <3>2
  <2>2. ASSUME NEW k \in 0..(N - 1), k \in K PROVE k + 1 \in K
    <3>1. PICK h : is(h, k)
      BY <2>2
    <3> DEFINE g == [n \in 0..(k + 1) |-> IF n <= k THEN h[n] ELSE step(h[k], k + 1)]
    <3>2. is(g, k + 1)
      BY <1>1, <3>1
    <3>3. k + 1 \in 0..N
      BY <1>1
    <3> HIDE DEF is
    <3> QED
      BY <3>2, <3>3
  <2> HIDE DEF K
  <2> QED
    BY <1>1, <2>1, <2>2, UpTo
<1>3. is(f, N)
  <2>1. N \in 0..N
    BY <1>1
  <2>2. \E h : is(h, N)
    BY <1>2, <2>1
  <2> QED
    BY <2>2, Zenon
<1> HIDE DEF f
<1>4. f[0] = w /\ \A n \in 0..(N - 1) : f[n + 1] = step(f[n], n + 1)
  <2> HIDE DEF step
  <2> QED
    BY <1>1, <1>3
<1> QED
  BY <1>1, <1>4 DEF N, Confirming

(* v is what w becomes when the transactions of the blocks of B get the       *)
(* heights of those blocks.                                                  *)
Confirmed(v, w, B) ==
    /\ WalletOK(v)
    /\ Range(v.transactions) = Range(w.transactions)
    /\ v.allTx \subseteq w.allTx
    /\ \A t \in Tx : ContainsTx(w, t) => ContainsTx(v, t)
    /\ \A a \in B : \A t \in Range(Matched[a]) \cap Range(w.transactions) :
          v.height[t] = Height[a]
    /\ \A t \in Range(w.transactions) :
          (\A a \in B : t \notin Range(Matched[a])) => v.height[t] = w.height[t]

(* One block.                                                                *)
LEMMA ConfirmOne ==
    ASSUME NEW w, WalletOK(w), NEW b \in Block,
           \A t \in Range(Matched[b]) \cap Range(w.transactions) : ContainsTx(w, t)
    PROVE  Confirmed(ConfirmTransactions(w, Matched[b], Height[b]), w, {b})
<1> DEFINE v == ConfirmTransactions(w, Matched[b], Height[b])
<1>1. Matched[b] \in Seq(Tx) /\ Height[b] \in 0..TX_UNCONFIRMED /\ Height[b] # TX_UNCONFIRMED
  BY MatchedType, BlockHeight
<1>2. \A t \in Range(Matched[b]) \cap Range(w.transactions) :
         IF Height[b] = TX_UNCONFIRMED THEN Unconfirmed(w, t) ELSE ContainsTx(w, t)
  BY <1>1
<1>3. 1 \in {0, 1}
  OBVIOUS
<1>4. CASE Matched[b] = << >>
  <2>1. v = w /\ Range(Matched[b]) = {}
    BY <1>4 DEF ConfirmTransactions, Range
  <2> QED
    BY <2>1 DEF Confirmed
<1>5. CASE Matched[b] # << >>
  <2> HIDE DEF v
  <2> DEFINE hashes == Matched[b]
             height == Height[b]
  <2>1. hashes \in Seq(Tx) /\ height \in 0..TX_UNCONFIRMED
        /\ \A t \in Range(hashes) \cap Range(w.transactions) :
              IF height = TX_UNCONFIRMED THEN Unconfirmed(w, t) ELSE ContainsTx(w, t)
    BY <1>1, <1>2
  <2>2. v = UpdateTransactions(w, hashes, height, 1)
    BY <1>5 DEF v, ConfirmTransactions
  <2> HIDE DEF hashes, height
  <2>3. /\ WalletOK(v)
        /\ Range(v.transactions) = Range(w.transactions)
        /\ v.allTx \subseteq w.allTx
        /\ \A t \in Tx : ContainsTx(w, t) => ContainsTx(v, t)
        /\ \A t \in Range(w.transactions) :
              /\ t \in Range(hashes) => v.height[t] = height
              /\ t \notin Range(hashes) => v.height[t] = w.height[t]
    BY <1>3, <2>1, <2>2, UpdateTransactionsOK
  <2>4. Confirmed(v, w, {b})
    BY <2>3 DEF Confirmed, hashes, height
  <2> QED
    BY <2>4 DEF v
<1> QED
  BY <1>4, <1>5

(* A branch, whose blocks share no transaction.                               *)
LEMMA ConfirmBranchOK ==
    ASSUME NEW w, WalletOK(w), NEW branch \in Seq(Block),
           \A a \in Range(branch) :
              \A t \in Range(Matched[a]) \cap Range(w.transactions) : ContainsTx(w, t),
           \A a, c \in Range(branch) :
              a # c => Range(Matched[a]) \cap Range(Matched[c]) = {}
    PROVE  Confirmed(ConfirmBranch(w, branch), w, Range(branch))
<1> DEFINE N == Len(branch)
           H(n) == {branch[i] : i \in 1..n}
           L == Range(w.transactions)
<1>1. N \in Nat /\ \A i \in 1..N : branch[i] \in Block
  OBVIOUS
<1>2. PICK f : /\ ConfirmBranch(w, branch) = f[N]
               /\ f[0] = w
               /\ \A n \in 0..(N - 1) :
                     f[n + 1] = ConfirmTransactions(f[n], Matched[branch[n + 1]], Height[branch[n + 1]])
  <2>1. PICK f : Confirming(f, w, branch)
    BY ConfirmBranchEquations
  <2> QED
    BY <2>1, Zenon DEF Confirming
<1>3. Confirmed(w, w, H(0))
  <2>1. H(0) = {}
    OBVIOUS
  <2> HIDE DEF H
  <2> QED
    BY <2>1 DEF Confirmed
<1>4. ASSUME NEW n \in 0..(N - 1), NEW v, Confirmed(v, w, H(n))
      PROVE  Confirmed(ConfirmTransactions(v, Matched[branch[n + 1]], Height[branch[n + 1]]),
                       w, H(n + 1))
  <2> DEFINE b == branch[n + 1]
             x == ConfirmTransactions(v, Matched[b], Height[b])
  <2>1. n + 1 \in 1..N /\ b \in Block /\ b \in Range(branch)
    BY <1>1 DEF Range
  <2>2. H(n + 1) = H(n) \cup {b} /\ H(n) \subseteq Range(branch)
    BY <1>1, <2>1 DEF Range
  <2>3. Range(Matched[b]) \subseteq Tx
    BY <2>1, MatchedType
  <2> HIDE DEF H, b
  <2>4. /\ WalletOK(v) /\ Range(v.transactions) = L /\ v.allTx \subseteq w.allTx
        /\ \A t \in Tx : ContainsTx(w, t) => ContainsTx(v, t)
        /\ \A a \in H(n) : \A t \in Range(Matched[a]) \cap L : v.height[t] = Height[a]
        /\ \A t \in L : (\A a \in H(n) : t \notin Range(Matched[a])) => v.height[t] = w.height[t]
    BY <1>4 DEF Confirmed
  <2>5. \A t \in Range(Matched[b]) \cap L : ContainsTx(v, t)
    BY <2>1, <2>3, <2>4
  <2>6. Confirmed(x, v, {b})
    BY <2>1, <2>4, <2>5, ConfirmOne
  <2> HIDE DEF x
  <2>7. /\ WalletOK(x) /\ Range(x.transactions) = L /\ x.allTx \subseteq w.allTx
        /\ \A t \in Tx : ContainsTx(w, t) => ContainsTx(x, t)
        /\ \A t \in Range(Matched[b]) \cap L : x.height[t] = Height[b]
        /\ \A t \in L : t \notin Range(Matched[b]) => x.height[t] = v.height[t]
    BY <2>4, <2>6 DEF Confirmed
  <2> HIDE DEF L
  <2>8. ASSUME NEW a \in H(n + 1), NEW t \in Range(Matched[a]) \cap L
        PROVE  x.height[t] = Height[a]
    <3>1. CASE a = b
      BY <2>7, <2>8, <3>1
    <3>2. CASE a # b
      <4>1. a \in H(n) /\ a \in Range(branch)
        BY <2>2, <3>2
      <4>2. t \notin Range(Matched[b])
        BY <2>1, <3>2, <4>1
      <4> QED
        BY <2>4, <2>7, <4>1, <4>2
    <3> QED
      BY <3>1, <3>2
  <2>9. ASSUME NEW t \in L, \A a \in H(n + 1) : t \notin Range(Matched[a])
        PROVE  x.height[t] = w.height[t]
    BY <2>2, <2>4, <2>7, <2>9
  <2>10. Confirmed(x, w, H(n + 1))
    BY <2>7, <2>8, <2>9 DEF Confirmed, L
  <2> QED
    BY <2>10 DEF x, b
<1>5. H(N) = Range(branch)
  BY <1>1 DEF Range
<1> HIDE DEF H
<1> DEFINE G == {n \in 0..N : Confirmed(f[n], w, H(n))}
<1>6. 0 \in G
  BY <1>1, <1>2, <1>3
<1>7. ASSUME NEW n \in 0..(N - 1), n \in G PROVE n + 1 \in G
  <2>1. Confirmed(f[n], w, H(n)) /\ n + 1 \in 0..N
    BY <1>1, <1>7
  <2>2. Confirmed(ConfirmTransactions(f[n], Matched[branch[n + 1]], Height[branch[n + 1]]),
                  w, H(n + 1))
    BY <1>4, <2>1
  <2> QED
    BY <1>2, <2>1, <2>2
<1> HIDE DEF G
<1>8. \A n \in 0..N : n \in G
  BY <1>1, <1>6, <1>7, UpTo
<1>9. Confirmed(f[N], w, H(N))
  BY <1>1, <1>8 DEF G
<1> QED
  BY <1>2, <1>5, <1>9

-----------------------------------------------------------------------------
(* The wallet and the chain of a tip agree, but for the transactions that     *)
(* were passed over.                                                         *)

ConfirmedIn(w, top, passed) ==
    \A t \in Range(w.transactions) \ passed :
        Unconfirmed(w, t) \/ \E b \in Ancestors[top] :
            Height[b] = w.height[t] /\ t \in Range(Matched[b])

OnChainIn(w, top, passed) ==
    \A b \in Ancestors[top] :
        \A t \in (Range(Matched[b]) \cap Range(w.transactions)) \ passed :
            w.height[t] = Height[b]

Agrees(w, top, passed) == ConfirmedIn(w, top, passed) /\ OnChainIn(w, top, passed)

LEMMA AgreesIs == WalletMatchesChain <=> Agrees(wallet, lastBlock, unchecked)
  BY DEF WalletMatchesChain, ConfirmedOnChain, ChainIsConfirmed, Agrees, ConfirmedIn, OnChainIn

(* A transaction of the chain is in one block of it only.                     *)
LEMMA MatchedOnce ==
    \A top \in Block : \A a, c \in Ancestors[top] :
        a # c => Range(Matched[a]) \cap Range(Matched[c]) = {}
<1> SUFFICES ASSUME NEW top \in Block, NEW a \in Ancestors[top], NEW c \in Ancestors[top], a # c
             PROVE  Range(Matched[a]) \cap Range(Matched[c]) = {}
  OBVIOUS
<1>1. a \in Block /\ c \in Block
  BY AncestorsLower
<1>2. Height[a] \in Nat /\ Height[c] \in Nat
  BY <1>1, BlockHeight
<1>3. a \in Ancestors[c] \/ c \in Ancestors[a]
  BY <1>2, AncestorsLine
<1>4. \A b \in Block : \A d \in Ancestors[b] \ {b} : Range(Matched[d]) \cap Range(Matched[b]) = {}
  BY ChainAssumption
<1>5. CASE a \in Ancestors[c]
  BY <1>1, <1>4, <1>5
<1>6. CASE c \in Ancestors[a]
  BY <1>1, <1>4, <1>6
<1> QED
  BY <1>3, <1>5, <1>6

(* A block on the chain, or the next one, is confirmed.                       *)
LEMMA AgreesConfirm ==
    ASSUME NEW w, NEW v, NEW old \in Block, NEW top \in Block, NEW b \in Ancestors[top], NEW passed,
           Ancestors[top] = Ancestors[old] \cup {b},
           Agrees(w, old, passed), Confirmed(v, w, {b})
    PROVE  Agrees(v, top, passed \ Range(Matched[b]))
<1> DEFINE L == Range(w.transactions)
           p == passed \ Range(Matched[b])
<1>1. /\ Range(v.transactions) = L
      /\ \A t \in Range(Matched[b]) \cap L : v.height[t] = Height[b]
      /\ \A t \in L : t \notin Range(Matched[b]) => v.height[t] = w.height[t]
  BY DEF Confirmed
<1> HIDE DEF L
<1>2. ConfirmedIn(v, top, p)
  <2> SUFFICES ASSUME NEW t \in L \ p
               PROVE  \/ Unconfirmed(v, t)
                      \/ \E a \in Ancestors[top] : Height[a] = v.height[t] /\ t \in Range(Matched[a])
    BY <1>1 DEF ConfirmedIn
  <2>1. CASE t \in Range(Matched[b])
    BY <1>1, <2>1
  <2>2. CASE t \notin Range(Matched[b])
    <3>1. t \in L \ passed /\ v.height[t] = w.height[t]
      BY <1>1, <2>2
    <3>2. Unconfirmed(w, t) \/ \E a \in Ancestors[old] : Height[a] = w.height[t] /\ t \in Range(Matched[a])
      BY <3>1 DEF Agrees, ConfirmedIn, L
    <3> QED
      BY <3>1, <3>2 DEF Unconfirmed
  <2> QED
    BY <2>1, <2>2
<1>3. OnChainIn(v, top, p)
  <2> SUFFICES ASSUME NEW a \in Ancestors[top], NEW t \in (Range(Matched[a]) \cap L) \ p
               PROVE  v.height[t] = Height[a]
    BY <1>1 DEF OnChainIn
  <2>1. CASE a = b
    BY <1>1, <2>1
  <2>2. CASE a # b
    <3>1. t \notin Range(Matched[b])
      BY <2>2, MatchedOnce
    <3>2. a \in Ancestors[old] /\ t \in L \ passed /\ v.height[t] = w.height[t]
      BY <1>1, <2>2, <3>1
    <3>3. w.height[t] = Height[a]
      BY <3>2 DEF Agrees, OnChainIn, L
    <3> QED
      BY <3>2, <3>3
  <2> QED
    BY <2>1, <2>2
<1> QED
  BY <1>2, <1>3 DEF Agrees

(* A reorganisation that finds where the branch of top joins the chain: what  *)
(* is above is set aside, what is on the branch is confirmed.                *)
LEMMA AgreesReorganise ==
    ASSUME NEW w, WalletOK(w), NEW u, NEW v, NEW old \in Block, NEW top \in Block, NEW passed,
           NEW j \in Ancestors[old] \cap Ancestors[top], NEW B,
           B = {a \in Ancestors[top] : Height[a] > Height[j]},
           Agrees(w, old, passed),
           Range(u.transactions) = Range(w.transactions),
           \A t \in Range(w.transactions) :
              /\ w.height[t] > Height[j] => u.height[t] = TX_UNCONFIRMED
              /\ w.height[t] <= Height[j] => u.height[t] = w.height[t],
           Confirmed(v, u, B)
    PROVE  Agrees(v, top, passed \ UNION {Range(Matched[a]) : a \in B})
<1> DEFINE L == Range(w.transactions)
           p == passed \ UNION {Range(Matched[a]) : a \in B}
<1>1. /\ Range(v.transactions) = L
      /\ \A a \in B : \A t \in Range(Matched[a]) \cap L : v.height[t] = Height[a]
      /\ \A t \in L : (\A a \in B : t \notin Range(Matched[a])) => v.height[t] = u.height[t]
  BY DEF Confirmed
<1>2. \A t \in L : /\ w.height[t] > Height[j] => u.height[t] = TX_UNCONFIRMED
                   /\ w.height[t] <= Height[j] => u.height[t] = w.height[t]
  OBVIOUS
<1>3. j \in Block /\ Height[j] \in Nat /\ Ancestors[j] \subseteq Ancestors[old]
      /\ Ancestors[j] \subseteq Ancestors[top] /\ Ancestors[old] \subseteq Block
      /\ Ancestors[top] \subseteq Block
  BY AncestorsLower, BlockHeight
<1>4. \A t \in L : t \in Tx /\ w.height[t] \in Nat
  <2>1. w \in Wallet
    BY DEF WalletOK, Shape
  <2>2. w.transactions \in Seq(Tx) /\ \A t \in Tx : w.height[t] \in 0..TX_UNCONFIRMED
    BY <2>1, WalletFields
  <2>3. \A t \in L : t \in Tx
    BY <2>2 DEF Range
  <2>4. \A h \in 0..TX_UNCONFIRMED : h \in Nat
    BY TxUnconfirmedNat
  <2> QED
    BY <2>2, <2>3, <2>4, Zenon
<1> HIDE DEF L
<1>5. ConfirmedIn(v, top, p)
  <2> SUFFICES ASSUME NEW t \in L \ p
               PROVE  \/ Unconfirmed(v, t)
                      \/ \E a \in Ancestors[top] : Height[a] = v.height[t] /\ t \in Range(Matched[a])
    BY <1>1 DEF ConfirmedIn
  <2>1. CASE \E a \in B : t \in Range(Matched[a])
    <3>1. PICK a \in B : t \in Range(Matched[a])
      BY <2>1
    <3>2. a \in Ancestors[top] /\ v.height[t] = Height[a]
      BY <1>1, <3>1
    <3> QED
      BY <3>1, <3>2
  <2>2. CASE \A a \in B : t \notin Range(Matched[a])
    <3>1. t \in L /\ t \notin passed /\ v.height[t] = u.height[t] /\ w.height[t] \in Nat
      BY <1>1, <1>4, <2>2
    <3>2. CASE w.height[t] > Height[j]
      BY <1>2, <3>1, <3>2 DEF Unconfirmed
    <3>3. CASE w.height[t] <= Height[j]
      <4>1. v.height[t] = w.height[t]
        BY <1>2, <3>1, <3>3
      <4>2. Unconfirmed(w, t) \/ \E a \in Ancestors[old] : Height[a] = w.height[t] /\ t \in Range(Matched[a])
        BY <3>1 DEF Agrees, ConfirmedIn, L
      <4>3. CASE Unconfirmed(w, t)
        BY <4>1, <4>3 DEF Unconfirmed
      <4>4. CASE \E a \in Ancestors[old] : Height[a] = w.height[t] /\ t \in Range(Matched[a])
        <5>1. PICK a \in Ancestors[old] : Height[a] = w.height[t] /\ t \in Range(Matched[a])
          BY <4>4
        <5>2. a \in Ancestors[j]
          BY <3>3, <5>1, AncestorsLine
        <5> QED
          BY <1>3, <4>1, <5>1, <5>2
      <4> QED
        BY <4>2, <4>3, <4>4
    <3> QED
      BY <1>3, <3>1, <3>2, <3>3
  <2> QED
    BY <2>1, <2>2
<1>6. OnChainIn(v, top, p)
  <2> SUFFICES ASSUME NEW a \in Ancestors[top], NEW t \in (Range(Matched[a]) \cap L) \ p
               PROVE  v.height[t] = Height[a]
    BY <1>1 DEF OnChainIn
  <2>1. Height[a] \in Nat
    BY <1>3, BlockHeight
  <2>2. CASE Height[a] > Height[j]
    BY <1>1, <2>2
  <2>3. CASE Height[a] <= Height[j]
    <3>1. a \in Ancestors[old]
      BY <1>3, <2>3, AncestorsLine
    <3>2. \A c \in B : t \notin Range(Matched[c])
      <4> SUFFICES ASSUME NEW c \in B PROVE t \notin Range(Matched[c])
        OBVIOUS
      <4>1. c \in Ancestors[top] /\ Height[c] > Height[j]
        OBVIOUS
      <4>2. a # c
        BY <1>3, <2>1, <2>3, <4>1
      <4> QED
        BY <4>1, <4>2, MatchedOnce
    <3>3. t \in L /\ t \notin passed /\ v.height[t] = u.height[t]
      BY <1>1, <3>2
    <3>4. w.height[t] = Height[a]
      BY <3>1, <3>3 DEF Agrees, OnChainIn, L
    <3> QED
      BY <1>2, <2>3, <3>3, <3>4
  <2> QED
    BY <1>3, <2>1, <2>2, <2>3
<1> QED
  BY <1>5, <1>6 DEF Agrees

(* The transactions of the blocks that only one of two chains has.            *)
Between(old, top) ==
    UNION {Range(Matched[a]) :
             a \in (Ancestors[old] \ Ancestors[top]) \cup (Ancestors[top] \ Ancestors[old])}

LEMMA PassedOverIs == \A b : PassedOver(b) = Between(lastBlock, b)
  BY Zenon DEF PassedOver, Between

(* The tip is another one: after a rescan or a restart, of which v is the     *)
(* wallet, or by a reorganisation that does not find where the chains join,  *)
(* and unconfirms what is not below a height F no common block has.          *)
LEMMA AgreesMoved ==
    ASSUME NEW w, NEW v, NEW old \in Block, NEW top \in Block, NEW passed,
           Agrees(w, old, passed),
           Range(v.transactions) \subseteq Range(w.transactions),
           \A t \in Range(v.transactions) :
              \/ v.height[t] = w.height[t]
              \/ /\ v.height[t] = TX_UNCONFIRMED
                 /\ \A a \in Ancestors[old] \cap Ancestors[top] : Height[a] # w.height[t]
    PROVE  Agrees(v, top, passed \cup Between(old, top))
<1> DEFINE p == passed \cup Between(old, top)
<1>1. \A a \in Ancestors[old] : \A t \in Range(Matched[a]) :
         t \notin Between(old, top) => a \in Ancestors[top]
  BY DEF Between
<1>2. \A a \in Ancestors[top] : \A t \in Range(Matched[a]) :
         t \notin Between(old, top) => a \in Ancestors[old]
  BY DEF Between
<1>3. ConfirmedIn(v, top, p)
  <2> SUFFICES ASSUME NEW t \in Range(v.transactions) \ p
               PROVE  \/ Unconfirmed(v, t)
                      \/ \E a \in Ancestors[top] : Height[a] = v.height[t] /\ t \in Range(Matched[a])
    BY DEF ConfirmedIn
  <2>1. CASE v.height[t] = w.height[t]
    <3>1. t \in Range(w.transactions) \ passed
      OBVIOUS
    <3>2. Unconfirmed(w, t) \/ \E a \in Ancestors[old] : Height[a] = w.height[t] /\ t \in Range(Matched[a])
      BY <3>1 DEF Agrees, ConfirmedIn
    <3> QED
      BY <1>1, <2>1, <3>2 DEF Unconfirmed
  <2>2. CASE v.height[t] = TX_UNCONFIRMED
    BY <2>2 DEF Unconfirmed
  <2> QED
    BY <2>1, <2>2
<1>4. OnChainIn(v, top, p)
  <2> SUFFICES ASSUME NEW a \in Ancestors[top],
                      NEW t \in (Range(Matched[a]) \cap Range(v.transactions)) \ p
               PROVE  v.height[t] = Height[a]
    BY DEF OnChainIn
  <2>1. a \in Ancestors[old] /\ t \in (Range(Matched[a]) \cap Range(w.transactions)) \ passed
    BY <1>2
  <2>2. w.height[t] = Height[a]
    BY <2>1 DEF Agrees, OnChainIn
  <2> QED
    BY <2>1, <2>2
<1> QED
  BY <1>3, <1>4 DEF Agrees

LEMMA CutOffBelow ==
    ASSUME NEW b \in Block, lastBlock \in Block, CutOff(b)
    PROVE  \A a \in Ancestors[lastBlock] \cap Ancestors[b] : Height[a] <= JoinHeight(b)
<1> DEFINE C == Side(b)
           M == Main(b)
<1>1. /\ C \subseteq Ancestors[b] /\ C \in SUBSET Block /\ C # {}
      /\ M \subseteq Ancestors[lastBlock] /\ M \in SUBSET Block /\ M # {}
      /\ \A c \in C : \A d \in Ancestors[b] : Height[c] <= Height[d] => d \in C
      /\ \A c \in M : \A d \in Ancestors[lastBlock] : Height[c] <= Height[d] => d \in M
  BY ChainInOK DEF Side, Main
<1>2. C \cap M = {} /\ Floor(C) < Floor(M) /\ JoinHeight(b) = Floor(M) - 1
  BY DEF CutOff, Joined, JoinHeight
<1> HIDE DEF C, M
<1>3. PICK c \in C : Height[c] = Floor(C)
  BY <1>1, FloorOK
<1>4. PICK m \in M : Height[m] = Floor(M)
  BY <1>1, FloorOK
<1> SUFFICES ASSUME NEW a \in Ancestors[lastBlock] \cap Ancestors[b], ~(Height[a] <= JoinHeight(b))
             PROVE  FALSE
  OBVIOUS
<1>5. Height[a] \in Nat /\ Floor(C) \in Nat /\ Floor(M) \in Nat
  BY <1>1, FloorOK, AncestorsLower, BlockHeight
<1>6. Height[m] <= Height[a] /\ Height[c] <= Height[a]
  BY <1>2, <1>3, <1>4, <1>5
<1> QED
  BY <1>1, <1>2, <1>6

-----------------------------------------------------------------------------
(* The inductive invariant. *)

(* The types of the chain; a checkpoint is never freed.                       *)
KnownOK ==
    /\ Checkpoints \subseteq blocks /\ blocks \subseteq Block /\ lastBlock \in blocks
    /\ orphans \subseteq Block /\ relaying \subseteq Block /\ savedBlocks \subseteq Block
    /\ estimatedHeight \in Nat /\ unchecked \subseteq Tx /\ events \in 0..MaxEvents

(* What the wallet holds, or removes. *)
ListedOurs == \A t \in Range(wallet.transactions) : Ours(t)
RemovingOK == removing \in Seq(Tx) /\ Range(removing) \subseteq wallet.allTx

IInv ==
    /\ WalletOK(wallet) /\ KnownOK /\ ListedOurs /\ RemovingOK
    /\ NoStuckOrphan /\ WalletMatchesChain

(* What the wallet recognises is, or may become, its own.                     *)
LEMMA ContainsOurs ==
    ASSUME NEW w \in Wallet, NEW t \in Tx, ContainsTx(w, t)
    PROVE  Ours(t)
<1>1. \A a \in AllAddrs(w) : a[1] \in Chains
  BY DEF AllAddrs
<1>2. w.allTx \subseteq Tx
  BY WalletFields
<1>3. CASE Pays(t, AllAddrs(w))
  BY <1>1, <1>3 DEF Pays, Ours
<1>4. CASE \E i \in Inputs[t] :
              /\ i[1] \in w.allTx
              /\ i[2] + 1 \in DOMAIN Outputs[i[1]]
              /\ Outputs[i[1]][i[2] + 1].address \in AllAddrs(w)
  BY <1>1, <1>2, <1>4 DEF Ours
<1> QED
  BY <1>3, <1>4 DEF ContainsTx

LEMMA ListedType ==
    ASSUME NEW w, WalletOK(w)
    PROVE  /\ w \in Wallet /\ Range(w.transactions) \subseteq Tx /\ w.allTx \subseteq Tx
           /\ Range(w.transactions) \subseteq w.allTx
           /\ \A t \in Range(w.transactions) : w.height[t] \in Nat /\ w.height[t] \in 0..TX_UNCONFIRMED
<1>1. w \in Wallet /\ Range(w.transactions) \subseteq w.allTx
  BY DEF WalletOK, Shape, InOrder
<1>2. w.allTx \subseteq Tx /\ \A t \in Tx : w.height[t] \in 0..TX_UNCONFIRMED
  BY <1>1, WalletFields
<1>3. \A h \in 0..TX_UNCONFIRMED : h \in Nat
  BY TxUnconfirmedNat
<1> HIDE DEF Range
<1>4. \A t \in Range(w.transactions) : t \in Tx
  BY <1>1, <1>2
<1> QED
  BY <1>1, <1>2, <1>3, <1>4, Zenon

(* The steps of _peerRelayedBlock never free a checkpoint or the tip.         *)
LEMMA PrunedOK ==
    ASSUME NEW b \in Block, KnownOK
    PROVE  Checkpoints \cap Pruned(b) = {}
<1>1. \A c \in Checkpoints : IsTransition(c)
  BY BlockAssumption DEF IsTransition
<1>2. \A p \in Pruned(b) : ~IsTransition(p)
  BY DEF Pruned
<1> QED
  BY <1>1, <1>2

LEMMA MaxNat ==
    ASSUME NEW m \in Nat, NEW n \in Nat
    PROVE  Max({m, n}) \in Nat
<1>1. m + n \in Nat /\ {m, n} \in SUBSET (0..(m + n)) /\ {m, n} # {}
  OBVIOUS
<1>2. Max({m, n}) \in {m, n}
  BY <1>1, MaxIsGreatest
<1> QED
  BY <1>2

LEMMA SaveListOK ==
    ASSUME NEW known, NEW b \in Block, NEW n, KnownOK
    PROVE  SaveList(known, b, n) \subseteq Block /\ Save(SaveList(known, b, n)) \subseteq Block
<1>1. SaveList(known, b, n) \subseteq ChainIn(known, b)
  BY DEF SaveList
<1>2. SaveList(known, b, n) \subseteq Block
  BY <1>1, ChainInOK
<1> QED
  BY <1>2 DEF Save, KnownOK

(* The orders in which the stored transactions may be read.                   *)
LEMMA StoredOrders ==
    ASSUME NEW s \in Seq(Tx), IsInjective(s), NEW txs \in SetToSeqs(Range(s))
    PROVE  txs \in Seq(Tx) /\ IsInjective(txs) /\ Range(txs) = Range(s)
<1> DEFINE S == Range(s)
           N == Len(s)
           K == Cardinality(S)
<1>1. N \in Nat /\ s \in [1..N -> S] /\ \A x \in S : \E i \in 1..N : s[i] = x
  BY DEF Range
<1>2. s \in Surjection(1..N, S)
  BY <1>1 DEF Surjection
<1>3. IsFiniteSet(1..N)
  <2> HIDE DEF N, S
  <2>1. 1 \in Int /\ N \in Int
    BY <1>1
  <2> QED
    BY <2>1, FS_Interval
<1> HIDE DEF N, S
<1>4. IsFiniteSet(S)
  BY <1>2, <1>3, FS_Surjection
<1>5. K \in Nat
  BY <1>4, FS_CardinalityType
<1>6. IsFiniteSet(1..K) /\ Cardinality(1..K) = K
  <2> HIDE DEF K
  <2>1. 1 \in Int /\ K \in Int
    BY <1>5
  <2>2. IsFiniteSet(1..K) /\ Cardinality(1..K) = IF 1 > K THEN 0 ELSE K - 1 + 1
    BY <2>1, FS_Interval
  <2> QED
    BY <1>5, <2>2
<1>7. txs \in [1..K -> S] /\ \A i, j \in 1..K : i # j => txs[i] # txs[j]
  BY DEF SetToSeqs, S
<1>8. Cardinality(S) = K
  OBVIOUS
<1> HIDE DEF K
<1>9. txs \in Injection(1..K, S)
  BY <1>7 DEF Injection, IsInjective
<1>10. txs \in Surjection(1..K, S)
  BY <1>4, <1>6, <1>8, <1>9, FS_Injection
<1>11. Range(txs) = S
  BY <1>7, <1>10 DEF Surjection, Range
<1>12. S \subseteq Tx
  BY DEF S, Range
<1>13. txs \in Seq(Tx)
  BY <1>5, <1>7, <1>12
<1>14. IsInjective(txs)
  BY <1>7 DEF IsInjective
<1> QED
  BY <1>11, <1>13, <1>14 DEF S

-----------------------------------------------------------------------------
(* The steps. *)

LEMMA InitIInv == Init => IInv
<1> SUFFICES ASSUME Init PROVE IInv
  OBVIOUS
<1> DEFINE e == << >>
<1>1. e \in Seq(Tx) /\ IsInjective(e) /\ Range(e) = {}
  BY DEF IsInjective, Range
<1>2. wallet = WalletNew(e, e, e)
  BY DEF Init
<1> HIDE DEF e
<1>3. WalletOK(wallet) /\ Range(wallet.transactions) = {}
  BY <1>1, <1>2, WalletNewOK
<1>4. KnownOK
  <2>1. 0 \in Nat /\ 0 \in 0..MaxEvents
    BY BlockAssumption
  <2>2. Checkpoints \subseteq Block /\ Start \in Checkpoints
    BY BlockAssumption
  <2> QED
    BY <2>1, <2>2 DEF KnownOK, Init
<1>5. ListedOurs
  BY <1>3 DEF ListedOurs
<1>6. RemovingOK
  <2>1. removing = << >>
    BY DEF Init
  <2> QED
    BY <2>1 DEF RemovingOK, Range
<1>7. NoStuckOrphan
  BY DEF NoStuckOrphan, Init
<1>8. WalletMatchesChain
  BY <1>3, AgreesIs DEF Agrees, ConfirmedIn, OnChainIn
<1> QED
  BY <1>3, <1>4, <1>5, <1>6, <1>7, <1>8 DEF IInv

(* A step that takes no transaction off the list.                             *)
ListKept == Range(wallet.transactions) \subseteq Range(wallet'.transactions)

(* A step that leaves the wallet, the tip and what was passed over alone.     *)
LEMMA WalletSame ==
    ASSUME IInv, UNCHANGED <<wallet, removing, lastBlock, unchecked>>
    PROVE  WalletOK(wallet') /\ ListedOurs' /\ RemovingOK' /\ WalletMatchesChain'
<1>1. WalletOK(wallet')
  BY DEF IInv
<1>2. ListedOurs' /\ RemovingOK'
  BY DEF IInv, ListedOurs, RemovingOK
<1>3. WalletMatchesChain'
  BY DEF IInv, WalletMatchesChain, ConfirmedOnChain, ChainIsConfirmed, Unconfirmed
<1> QED
  BY <1>1, <1>2, <1>3

(* A step of the wallet's that keeps the heights of what it lists, and lists  *)
(* no transaction of the chain anew.                                         *)
LEMMA WalletStep ==
    ASSUME IInv, UNCHANGED <<lastBlock, unchecked>>, WalletOK(wallet'),
           \A t \in Range(wallet'.transactions) \cap Range(wallet.transactions) :
              wallet'.height[t] = wallet.height[t],
           \A t \in Range(wallet'.transactions) \ Range(wallet.transactions) :
              /\ Unconfirmed(wallet', t) /\ Ours(t)
              /\ \A b \in Ancestors[lastBlock] : t \notin Range(Matched[b])
    PROVE  ListedOurs' /\ WalletMatchesChain'
<1>1. ListedOurs'
  BY DEF IInv, ListedOurs
<1>2. ConfirmedIn(wallet, lastBlock, unchecked) /\ OnChainIn(wallet, lastBlock, unchecked)
  BY AgreesIs DEF IInv, Agrees
<1>3. ConfirmedIn(wallet', lastBlock, unchecked)
  <2> SUFFICES ASSUME NEW t \in Range(wallet'.transactions) \ unchecked
               PROVE  \/ Unconfirmed(wallet', t)
                      \/ \E b \in Ancestors[lastBlock] :
                            Height[b] = wallet'.height[t] /\ t \in Range(Matched[b])
    BY DEF ConfirmedIn
  <2>1. CASE t \in Range(wallet.transactions)
    BY <1>2, <2>1 DEF ConfirmedIn, Unconfirmed
  <2>2. CASE t \notin Range(wallet.transactions)
    BY <2>2
  <2> QED
    BY <2>1, <2>2
<1>4. OnChainIn(wallet', lastBlock, unchecked)
  <2> SUFFICES ASSUME NEW b \in Ancestors[lastBlock],
                      NEW t \in (Range(Matched[b]) \cap Range(wallet'.transactions)) \ unchecked
               PROVE  wallet'.height[t] = Height[b]
    BY DEF OnChainIn
  <2>1. t \in Range(wallet.transactions)
    OBVIOUS
  <2> QED
    BY <1>2, <2>1 DEF OnChainIn
<1>5. WalletMatchesChain'
  BY <1>3, <1>4 DEF WalletMatchesChain, ConfirmedOnChain, ChainIsConfirmed, ConfirmedIn, OnChainIn
<1> QED
  BY <1>1, <1>5

(* A step that confirms blocks.                                               *)
LEMMA ConfirmStep ==
    ASSUME IInv, NEW B, Confirmed(wallet', wallet, B), removing = << >>, UNCHANGED removing
    PROVE  WalletOK(wallet') /\ ListedOurs' /\ RemovingOK'
<1>1. WalletOK(wallet') /\ Range(wallet'.transactions) = Range(wallet.transactions)
  BY DEF Confirmed
<1>2. ListedOurs'
  BY <1>1 DEF IInv, ListedOurs
<1>3. RemovingOK'
  BY DEF RemovingOK, Range
<1> QED
  BY <1>1, <1>2, <1>3

(* What waited for a block is taken along when it becomes known.              *)
LEMMA TakeNextOK ==
    ASSUME NEW b \in Block, NEW kept \in SUBSET Block, NEW aside, KnownOK,
           TakeNext(b, kept, aside)
    PROVE  /\ orphans' \subseteq Block /\ relaying' \subseteq Block /\ estimatedHeight' \in Nat
           /\ \A o \in orphans' \ setAside' : o \in kept \ aside /\ Prev[o] # b
<1>1. orphans' \subseteq Block /\ relaying' \subseteq Block
  BY DEF TakeNext, KnownOK
<1>2. estimatedHeight' \in Nat
  <2>1. estimatedHeight' = Max({estimatedHeight, Height[b]})
    BY Zenon DEF TakeNext
  <2>2. estimatedHeight \in Nat /\ Height[b] \in Nat
    BY BlockHeight DEF KnownOK
  <2> QED
    BY <2>1, <2>2, MaxNat
<1>3. \A o \in orphans' \ setAside' : o \in kept \ aside /\ Prev[o] # b
  BY DEF TakeNext
<1> QED
  BY <1>1, <1>2, <1>3

LEMMA RelayOrphanIInv ==
    ASSUME IInv, NEW b \in Block, RelayOrphan(b)
    PROVE  IInv'
<1>1. WalletOK(wallet') /\ ListedOurs' /\ RemovingOK' /\ WalletMatchesChain'
  BY WalletSame DEF RelayOrphan
<1>2. KnownOK'
  BY DEF IInv, KnownOK, RelayOrphan, AddOrphan
<1>3. NoStuckOrphan'
  <2> SUFFICES ASSUME NEW o \in orphans' \ setAside' PROVE Prev[o] \notin blocks \ Checkpoints
    BY DEF NoStuckOrphan, RelayOrphan
  <2>1. CASE o = b
    BY <2>1 DEF RelayOrphan
  <2>2. CASE o # b
    <3>1. o \in orphans \ setAside
      BY <2>2 DEF RelayOrphan, AddOrphan
    <3> QED
      BY <3>1 DEF IInv, NoStuckOrphan
  <2> QED
    BY <2>1, <2>2
<1> QED
  BY <1>1, <1>2, <1>3 DEF IInv

LEMMA RelayRefusedIInv ==
    ASSUME IInv, NEW b \in Block, RelayRefused(b)
    PROVE  IInv'
<1>1. WalletOK(wallet') /\ ListedOurs' /\ RemovingOK' /\ WalletMatchesChain'
  BY WalletSame DEF RelayRefused
<1>2. KnownOK'
  BY PrunedOK DEF IInv, KnownOK, RelayRefused, Relayed, Kept
<1>3. NoStuckOrphan'
  BY DEF IInv, NoStuckOrphan, RelayRefused, Kept
<1> QED
  BY <1>1, <1>2, <1>3 DEF IInv

LEMMA ExtendChainIInv ==
    ASSUME IInv, NEW b \in Block, ExtendChain(b)
    PROVE  IInv' /\ ListKept
<1> DEFINE known == Kept(b) \cup {b}
           n == IF Height[b] = estimatedHeight THEN FullSave(b)
                ELSE IF IsTransition(b) THEN 1 ELSE 0
<1>0. /\ Verified(b) /\ Prev[b] = lastBlock /\ blocks' = known /\ lastBlock' = b
      /\ wallet' = ConfirmTransactions(wallet, Matched[b], Height[b])
      /\ savedBlocks' = IF n = 0 THEN savedBlocks ELSE Save(SaveList(known, b, n))
      /\ TakeNext(b, orphans, setAside)
      /\ unchecked' = unchecked \ Range(Matched[b])
      /\ UNCHANGED <<removing, events>>
  BY Zenon DEF ExtendChain
<1>1. /\ removing = << >> /\ lastBlock \notin Pruned(b) /\ Recognised(Matched[b])
  BY <1>0 DEF Verified, Relayed
<1>2. WalletOK(wallet) /\ KnownOK /\ lastBlock \in Block
  BY DEF IInv, KnownOK
<1>3. Confirmed(wallet', wallet, {b})
  BY <1>0, <1>1, <1>2, ConfirmOne DEF Recognised
<1>4. WalletOK(wallet') /\ ListedOurs' /\ RemovingOK'
  BY <1>0, <1>1, <1>3, ConfirmStep
<1>5. /\ orphans' \subseteq Block /\ relaying' \subseteq Block /\ estimatedHeight' \in Nat
      /\ \A o \in orphans' \ setAside' : o \in orphans \ setAside /\ Prev[o] # b
  BY <1>0, <1>2, TakeNextOK DEF KnownOK
<1>6. KnownOK'
  <2>1. Checkpoints \subseteq blocks' /\ blocks' \subseteq Block /\ lastBlock' \in blocks'
    BY <1>0, <1>2, PrunedOK DEF KnownOK, Kept
  <2>2. savedBlocks' \subseteq Block
    <3> HIDE DEF known, n
    <3> QED
      BY <1>0, <1>2, SaveListOK DEF KnownOK
  <2> QED
    BY <1>0, <1>2, <1>5, <2>1, <2>2 DEF KnownOK
<1>7. NoStuckOrphan'
  BY <1>0, <1>5 DEF IInv, NoStuckOrphan, Kept
<1>8. WalletMatchesChain'
  <2>1. Ancestors[b] = Ancestors[lastBlock] \cup {b} /\ b \in Ancestors[b]
    BY <1>0, <1>2, AncestorsEquation
  <2>2. Agrees(wallet, lastBlock, unchecked)
    BY AgreesIs DEF IInv
  <2>3. Agrees(wallet', b, unchecked \ Range(Matched[b]))
    BY <1>2, <1>3, <2>1, <2>2, AgreesConfirm
  <2> QED
    BY <1>0, <2>3 DEF WalletMatchesChain, ConfirmedOnChain, ChainIsConfirmed, Agrees, ConfirmedIn, OnChainIn
<1>9. ListKept
  BY <1>3 DEF ListKept, Confirmed
<1> QED
  BY <1>4, <1>6, <1>7, <1>8, <1>9 DEF IInv

LEMMA RelayExistingIInv ==
    ASSUME IInv, NEW b \in Block, RelayExisting(b)
    PROVE  IInv' /\ ListKept
<1>1. /\ removing = << >> /\ lastBlock \notin Pruned(b) /\ Recognised(Matched[b])
      /\ UNCHANGED removing
  BY DEF RelayExisting, Verified, Relayed
<1>2. WalletOK(wallet) /\ KnownOK /\ lastBlock \in Block
  BY DEF IInv, KnownOK
<1>3. /\ orphans' \subseteq Block /\ relaying' \subseteq Block /\ estimatedHeight' \in Nat
      /\ \A o \in orphans' \ setAside' : o \in orphans \ setAside /\ Prev[o] # b
  BY <1>2, TakeNextOK DEF KnownOK, RelayExisting
<1>4. KnownOK'
  BY <1>1, <1>2, <1>3, PrunedOK DEF KnownOK, RelayExisting, Kept
<1>5. NoStuckOrphan'
  BY <1>3 DEF IInv, NoStuckOrphan, RelayExisting, Kept
<1>6. CASE b \in MainChain
  <2>1. wallet' = ConfirmTransactions(wallet, Matched[b], Height[b])
    BY <1>6 DEF RelayExisting
  <2>2. Confirmed(wallet', wallet, {b})
    BY <1>1, <1>2, <2>1, ConfirmOne DEF Recognised
  <2>3. WalletOK(wallet') /\ ListedOurs' /\ RemovingOK'
    BY <1>1, <2>2, ConfirmStep
  <2>4. b \in Ancestors[lastBlock] /\ Ancestors[lastBlock] = Ancestors[lastBlock] \cup {b}
    BY <1>2, <1>6, ChainInOK DEF MainChain
  <2>5. Agrees(wallet, lastBlock, unchecked)
    BY AgreesIs DEF IInv
  <2>6. Agrees(wallet', lastBlock, unchecked \ Range(Matched[b]))
    BY <1>2, <2>2, <2>4, <2>5, AgreesConfirm
  <2>7. lastBlock' = lastBlock /\ unchecked' = unchecked \ Range(Matched[b])
    BY <1>6 DEF RelayExisting
  <2>8. WalletMatchesChain'
    BY <2>6, <2>7 DEF WalletMatchesChain, ConfirmedOnChain, ChainIsConfirmed, Agrees, ConfirmedIn, OnChainIn
  <2>9. ListKept
    BY <2>2 DEF ListKept, Confirmed
  <2> QED
    BY <1>4, <1>5, <2>3, <2>8, <2>9 DEF IInv
<1>7. CASE b \notin MainChain
  <2>1. UNCHANGED <<wallet, removing, lastBlock, unchecked>>
    BY <1>7 DEF RelayExisting
  <2>2. WalletOK(wallet') /\ ListedOurs' /\ RemovingOK' /\ WalletMatchesChain'
    BY <2>1, WalletSame
  <2>3. ListKept
    BY <2>1 DEF ListKept
  <2> QED
    BY <1>4, <1>5, <2>2, <2>3 DEF IInv
<1> QED
  BY <1>6, <1>7

LEMMA RelayAheadIInv ==
    ASSUME IInv, NEW b \in Block, RelayAhead(b)
    PROVE  IInv'
<1> DEFINE kept == AddOrphan(b)
           aside == (setAside \cap AddOrphan(b)) \cup {b}
<1>1. WalletOK(wallet') /\ ListedOurs' /\ RemovingOK' /\ WalletMatchesChain'
  BY WalletSame DEF RelayAhead
<1>2. KnownOK /\ lastBlock \notin Pruned(b)
  BY DEF IInv, RelayAhead, NewFork, Verified, Relayed
<1>3. kept \in SUBSET Block /\ \A o \in kept \ aside : o \in orphans \ setAside
  BY <1>2 DEF AddOrphan, KnownOK
<1>4. TakeNext(b, kept, aside)
  BY Zenon DEF RelayAhead
<1> HIDE DEF kept, aside
<1>5. /\ orphans' \subseteq Block /\ relaying' \subseteq Block /\ estimatedHeight' \in Nat
      /\ \A o \in orphans' \ setAside' : o \in kept \ aside /\ Prev[o] # b
  BY <1>2, <1>3, <1>4, TakeNextOK
<1>6. KnownOK'
  BY <1>2, <1>5, PrunedOK DEF KnownOK, RelayAhead, Kept
<1>7. NoStuckOrphan'
  BY <1>3, <1>5 DEF IInv, NoStuckOrphan, RelayAhead, Kept
<1> QED
  BY <1>1, <1>6, <1>7 DEF IInv

LEMMA RelayForkIInv ==
    ASSUME IInv, NEW b \in Block, RelayFork(b)
    PROVE  IInv'
<1>1. WalletOK(wallet') /\ ListedOurs' /\ RemovingOK' /\ WalletMatchesChain'
  BY WalletSame DEF RelayFork
<1>2. KnownOK /\ lastBlock \notin Pruned(b)
  BY DEF IInv, RelayFork, OnFork, NewFork, Verified, Relayed
<1>3. TakeNext(b, orphans, setAside)
  BY Zenon DEF RelayFork
<1>4. /\ orphans' \subseteq Block /\ relaying' \subseteq Block /\ estimatedHeight' \in Nat
      /\ \A o \in orphans' \ setAside' : o \in orphans \ setAside /\ Prev[o] # b
  BY <1>2, <1>3, TakeNextOK DEF KnownOK
<1>5. KnownOK'
  BY <1>2, <1>4, PrunedOK DEF KnownOK, RelayFork, Kept
<1>6. NoStuckOrphan'
  BY <1>4 DEF IInv, NoStuckOrphan, RelayFork, Kept
<1> QED
  BY <1>1, <1>5, <1>6 DEF IInv

LEMMA ReorganiseIInv ==
    ASSUME IInv, NEW b \in Block, Reorganise(b)
    PROVE  IInv' /\ ListKept
<1> DEFINE known == Kept(b) \cup {b}
           J == JoinHeight(b)
           B == Range(Branch(b))
           u == SetTxUnconfirmedAfter(wallet, J)
<1>0. /\ OnFork(b) /\ Height[b] > Tip /\ (CutOff(b) \/ Joined(b) # {})
      /\ \A a \in B : Recognised(Matched[a])
      /\ blocks' = known /\ lastBlock' = b
      /\ wallet' = ConfirmBranch(u, Branch(b))
      /\ savedBlocks' = IF Height[b] = estimatedHeight
                        THEN Save(SaveList(known, b, FullSave(b))) ELSE savedBlocks
      /\ TakeNext(b, orphans, setAside)
      /\ unchecked' = IF CutOff(b) THEN unchecked \cup PassedOver(b)
                      ELSE unchecked \ UNION {Range(Matched[a]) : a \in B}
      /\ UNCHANGED <<removing, events>>
  BY Zenon DEF Reorganise
<1>1. removing = << >> /\ lastBlock \notin Pruned(b)
  BY <1>0 DEF OnFork, NewFork, Verified, Relayed
<1>2. WalletOK(wallet) /\ KnownOK /\ lastBlock \in Block
  BY DEF IInv, KnownOK
<1>3. /\ orphans' \subseteq Block /\ relaying' \subseteq Block /\ estimatedHeight' \in Nat
      /\ \A o \in orphans' \ setAside' : o \in orphans \ setAside /\ Prev[o] # b
  BY <1>0, <1>2, TakeNextOK DEF KnownOK
<1>4. J \in Nat /\ (~CutOff(b) => \E j \in Ancestors[b] \cap Ancestors[lastBlock] : Height[j] = J)
  BY <1>0, <1>2, JoinedOK
<1>5. /\ Branch(b) \in Seq(Block) /\ (CutOff(b) => Branch(b) = << >>)
      /\ ~CutOff(b) => B = {a \in Ancestors[b] : Height[a] > J}
  BY <1>0, <1>2, BranchOK
<1> HIDE DEF J
<1>6. /\ WalletOK(u) /\ u.allTx = wallet.allTx /\ u.chain = wallet.chain
      /\ u.transactions = wallet.transactions
      /\ \A t \in Range(wallet.transactions) :
            /\ wallet.height[t] > J => u.height[t] = TX_UNCONFIRMED
            /\ wallet.height[t] <= J => u.height[t] = wallet.height[t]
  BY <1>2, <1>4, SetTxUnconfirmedAfterOK
<1> HIDE DEF u
<1>7. CutOff(b) => B = {}
  BY <1>5 DEF Range
<1>8. \A a \in B : \A t \in Range(Matched[a]) \cap Range(u.transactions) : ContainsTx(u, t)
  <2> SUFFICES ASSUME NEW a \in B, NEW t \in Range(Matched[a]) \cap Range(u.transactions)
               PROVE  ContainsTx(u, t)
    OBVIOUS
  <2> HIDE DEF B
  <2>1. ContainsTx(wallet, t)
    BY <1>0, <1>6 DEF Recognised
  <2>2. AllAddrs(u) = AllAddrs(wallet)
    BY <1>6 DEF AllAddrs
  <2> QED
    BY <1>6, <2>1, <2>2 DEF ContainsTx
<1>9. \A a, c \in B : a # c => Range(Matched[a]) \cap Range(Matched[c]) = {}
  <2> SUFFICES ASSUME NEW a \in B, NEW c \in B, a # c
               PROVE  Range(Matched[a]) \cap Range(Matched[c]) = {}
    OBVIOUS
  <2> HIDE DEF B
  <2>1. a \in Ancestors[b] /\ c \in Ancestors[b]
    BY <1>5, <1>7
  <2> QED
    BY <2>1, MatchedOnce
<1>10. Confirmed(wallet', u, B)
  BY <1>0, <1>5, <1>6, <1>8, <1>9, ConfirmBranchOK
<1> HIDE DEF B
<1>11. WalletOK(wallet') /\ Range(wallet'.transactions) = Range(wallet.transactions)
  BY <1>6, <1>10 DEF Confirmed
<1>12. ListKept
  BY <1>11 DEF ListKept
<1>13. ListedOurs'
  BY <1>11 DEF IInv, ListedOurs
<1>14. RemovingOK'
  BY <1>0, <1>1 DEF RemovingOK, Range
<1>15. unchecked' \subseteq Tx
  <2>1. PassedOver(b) \subseteq Tx
    <3>1. Ancestors[b] \subseteq Block /\ Ancestors[lastBlock] \subseteq Block
      BY <1>2, AncestorsLower
    <3>2. \A a \in Block : Range(Matched[a]) \subseteq Tx
      BY MatchedType
    <3> QED
      BY <3>1, <3>2 DEF PassedOver
  <2> QED
    BY <1>0, <1>2, <2>1 DEF KnownOK
<1>16. KnownOK'
  <2>1. Checkpoints \subseteq blocks' /\ blocks' \subseteq Block /\ lastBlock' \in blocks'
    BY <1>0, <1>2, PrunedOK DEF KnownOK, Kept
  <2>2. savedBlocks' \subseteq Block
    <3> HIDE DEF known
    <3> QED
      BY <1>0, <1>2, SaveListOK DEF KnownOK
  <2> QED
    BY <1>0, <1>2, <1>3, <1>15, <2>1, <2>2 DEF KnownOK
<1>17. NoStuckOrphan'
  BY <1>0, <1>3 DEF IInv, NoStuckOrphan, Kept
<1>18. Agrees(wallet, lastBlock, unchecked)
  BY AgreesIs DEF IInv
<1>19. CASE ~CutOff(b)
  <2>1. PICK j \in Ancestors[lastBlock] \cap Ancestors[b] : Height[j] = J
    BY <1>4, <1>19
  <2>2. B = {a \in Ancestors[b] : Height[a] > Height[j]}
    BY <1>5, <1>19, <2>1
  <2>3. \A t \in Range(wallet.transactions) :
           /\ wallet.height[t] > Height[j] => u.height[t] = TX_UNCONFIRMED
           /\ wallet.height[t] <= Height[j] => u.height[t] = wallet.height[t]
    BY <1>6, <2>1
  <2>4. Range(u.transactions) = Range(wallet.transactions)
    BY <1>6
  <2>5. Agrees(wallet', b, unchecked \ UNION {Range(Matched[a]) : a \in B})
    BY <1>2, <1>10, <1>18, <2>2, <2>3, <2>4, AgreesReorganise
  <2>6. unchecked' = unchecked \ UNION {Range(Matched[a]) : a \in B}
    BY <1>0, <1>19
  <2>7. WalletMatchesChain'
    BY <1>0, <2>5, <2>6
       DEF WalletMatchesChain, ConfirmedOnChain, ChainIsConfirmed, Agrees, ConfirmedIn, OnChainIn
  <2> QED
    BY <1>11, <1>13, <1>14, <1>16, <1>17, <1>12, <2>7 DEF IInv
<1>20. CASE CutOff(b)
  <2>1. \A a \in Ancestors[lastBlock] \cap Ancestors[b] : Height[a] <= J
    BY <1>2, <1>20, CutOffBelow DEF J
  <2>2. \A t \in Range(wallet.transactions) : wallet'.height[t] = u.height[t]
    BY <1>6, <1>7, <1>10, <1>20 DEF Confirmed
  <2>3. \A t \in Range(wallet'.transactions) :
           \/ wallet'.height[t] = wallet.height[t]
           \/ /\ wallet'.height[t] = TX_UNCONFIRMED
              /\ \A a \in Ancestors[lastBlock] \cap Ancestors[b] : Height[a] # wallet.height[t]
    <3> SUFFICES ASSUME NEW t \in Range(wallet.transactions)
                 PROVE  \/ wallet'.height[t] = wallet.height[t]
                        \/ /\ wallet'.height[t] = TX_UNCONFIRMED
                           /\ \A a \in Ancestors[lastBlock] \cap Ancestors[b] :
                                 Height[a] # wallet.height[t]
      BY <1>11
    <3>1. wallet.height[t] \in Nat
      BY <1>2, ListedType
    <3>2. CASE wallet.height[t] <= J
      BY <1>6, <2>2, <3>2
    <3>3. CASE wallet.height[t] > J
      <4>1. wallet'.height[t] = TX_UNCONFIRMED
        BY <1>6, <2>2, <3>3
      <4>2. \A a \in Ancestors[lastBlock] \cap Ancestors[b] : Height[a] # wallet.height[t]
        <5> SUFFICES ASSUME NEW a \in Ancestors[lastBlock] \cap Ancestors[b]
                     PROVE  Height[a] # wallet.height[t]
          OBVIOUS
        <5>1. Height[a] <= J /\ Height[a] \in Nat
          BY <1>2, <2>1, AncestorsLower, BlockHeight
        <5> QED
          BY <1>4, <3>1, <3>3, <5>1
      <4> QED
        BY <4>1, <4>2
    <3> QED
      BY <1>4, <3>1, <3>2, <3>3
  <2>4. Range(wallet'.transactions) \subseteq Range(wallet.transactions)
    BY <1>11
  <2>5. Agrees(wallet', b, unchecked \cup Between(lastBlock, b))
    BY <1>2, <1>18, <2>3, <2>4, AgreesMoved
  <2>6. unchecked' = unchecked \cup Between(lastBlock, b)
    BY <1>0, <1>20, PassedOverIs
  <2>7. WalletMatchesChain'
    BY <1>0, <2>5, <2>6
       DEF WalletMatchesChain, ConfirmedOnChain, ChainIsConfirmed, Agrees, ConfirmedIn, OnChainIn
  <2> QED
    BY <1>11, <1>13, <1>14, <1>16, <1>17, <1>12, <2>7 DEF IInv
<1> QED
  BY <1>19, <1>20

(* The steps of transactions.                                                 *)
LEMMA RegisterStep ==
    ASSUME IInv, NEW t \in Tx, \A b \in Ancestors[lastBlock] : t \notin Range(Matched[b])
    PROVE  LET w == RegisterTransaction(wallet, t)
           IN  /\ WalletOK(w) /\ w.height = wallet.height /\ wallet.allTx \subseteq w.allTx
               /\ Range(wallet.transactions) \subseteq Range(w.transactions)
               /\ \A x \in Range(w.transactions) \ Range(wallet.transactions) :
                     /\ Unconfirmed(w, x) /\ Ours(x)
                     /\ \A b \in Ancestors[lastBlock] : x \notin Range(Matched[b])
<1> DEFINE w == RegisterTransaction(wallet, t)
<1>1. WalletOK(wallet) /\ wallet \in Wallet
  BY DEF IInv, WalletOK, Shape
<1>2. /\ WalletOK(w) /\ w.height = wallet.height /\ wallet.allTx \subseteq w.allTx
      /\ \/ Range(w.transactions) = Range(wallet.transactions)
         \/ /\ Range(w.transactions) = Range(wallet.transactions) \cup {t}
            /\ ContainsTx(wallet, t) /\ Unconfirmed(wallet, t)
  BY <1>1, RegisterOK
<1> HIDE DEF w
<1>3. \A x \in Range(w.transactions) \ Range(wallet.transactions) :
         x = t /\ ContainsTx(wallet, t) /\ Unconfirmed(w, t)
  BY <1>2 DEF Unconfirmed
<1>4. ContainsTx(wallet, t) => Ours(t)
  BY <1>1, ContainsOurs
<1>5. /\ Range(wallet.transactions) \subseteq Range(w.transactions)
      /\ \A x \in Range(w.transactions) \ Range(wallet.transactions) :
            /\ Unconfirmed(w, x) /\ Ours(x)
            /\ \A b \in Ancestors[lastBlock] : x \notin Range(Matched[b])
  BY <1>2, <1>3, <1>4
<1> QED
  BY <1>2, <1>5 DEF w

(* An unconfirmed transaction is marked verified, or unverified.              *)
LEMMA MarkStep ==
    ASSUME NEW w, WalletOK(w), NEW t \in Tx, Unconfirmed(w, t), NEW timestamp \in {0, 1}
    PROVE  LET v == UpdateTransactions(w, <<t>>, TX_UNCONFIRMED, timestamp)
           IN  /\ WalletOK(v)
               /\ Range(v.transactions) = Range(w.transactions)
               /\ \A x \in Range(w.transactions) : v.height[x] = w.height[x]
<1> DEFINE height == TX_UNCONFIRMED
           hashes == <<t>>
           v == UpdateTransactions(w, hashes, height, timestamp)
<1>1. hashes \in Seq(Tx) /\ Range(hashes) = {t}
  BY DEF Range
<1>2. height \in 0..TX_UNCONFIRMED
  <2> HIDE DEF height
  <2>1. TX_UNCONFIRMED \in Nat /\ height = TX_UNCONFIRMED
    BY TxUnconfirmedNat DEF height
  <2> QED
    BY <2>1
<1>3. w.height[t] = height
  BY DEF Unconfirmed
<1>4. \A x \in Range(hashes) \cap Range(w.transactions) :
         IF height = TX_UNCONFIRMED THEN Unconfirmed(w, x) ELSE ContainsTx(w, x)
  BY <1>1
<1> HIDE DEF hashes, height
<1>5. /\ WalletOK(v) /\ Range(v.transactions) = Range(w.transactions)
      /\ \A x \in Range(w.transactions) :
            /\ x \in Range(hashes) => v.height[x] = height
            /\ x \notin Range(hashes) => v.height[x] = w.height[x]
  BY <1>1, <1>2, <1>4, UpdateTransactionsOK
<1> HIDE DEF v
<1>6. \A x \in Range(w.transactions) : v.height[x] = w.height[x]
  BY <1>1, <1>3, <1>5
<1> QED
  BY <1>5, <1>6 DEF v, hashes, height

(* A step that leaves the chain alone.                                        *)
LEMMA ChainSame ==
    ASSUME IInv, UNCHANGED <<chainVars, unchecked>>
    PROVE  NoStuckOrphan' /\ (events' \in 0..MaxEvents => KnownOK')
  BY DEF IInv, chainVars, NoStuckOrphan, KnownOK

LEMMA RelayTxIInv ==
    ASSUME IInv, NEW t \in Tx, NEW syncing \in BOOLEAN, NEW verified \in BOOLEAN,
           RelayTx(t, syncing, verified)
    PROVE  IInv' /\ ListKept
<1> DEFINE r == RegisterTransaction(wallet, t)
           w == IF syncing /\ ~ContainsTx(wallet, t) THEN wallet ELSE r
           v == UpdateTransactions(w, <<t>>, TX_UNCONFIRMED, 1)
<1>0. /\ removing = << >>
      /\ \A b \in Ancestors[lastBlock] : t \notin Range(Matched[b])
      /\ wallet' = IF verified /\ t \in w.allTx /\ Unconfirmed(w, t) /\ w.timestamp[t] = 0
                   THEN v ELSE w
      /\ UNCHANGED <<removing, chainVars, unchecked, events>>
  BY Zenon DEF RelayTx
<1>1. WalletOK(wallet)
  BY DEF IInv
<1>2. /\ WalletOK(r) /\ r.height = wallet.height
      /\ Range(wallet.transactions) \subseteq Range(r.transactions)
      /\ \A x \in Range(r.transactions) \ Range(wallet.transactions) :
            /\ Unconfirmed(r, x) /\ Ours(x)
            /\ \A b \in Ancestors[lastBlock] : x \notin Range(Matched[b])
  BY <1>0, RegisterStep
<1> HIDE DEF r
<1>3. /\ WalletOK(w) /\ w.height = wallet.height
      /\ Range(wallet.transactions) \subseteq Range(w.transactions)
      /\ \A x \in Range(w.transactions) \ Range(wallet.transactions) :
            /\ Unconfirmed(w, x) /\ Ours(x)
            /\ \A b \in Ancestors[lastBlock] : x \notin Range(Matched[b])
  BY <1>1, <1>2
<1> HIDE DEF w
<1>4. /\ WalletOK(wallet')
      /\ Range(wallet'.transactions) = Range(w.transactions)
      /\ \A x \in Range(w.transactions) : wallet'.height[x] = w.height[x]
  <2>1. CASE wallet' = w
    BY <1>3, <2>1
  <2>2. CASE Unconfirmed(w, t) /\ wallet' = v
    <3>1. 1 \in {0, 1}
      OBVIOUS
    <3> QED
      BY <1>3, <2>2, <3>1, MarkStep
  <2> QED
    BY <1>0, <2>1, <2>2
<1>5. ListedOurs' /\ WalletMatchesChain'
  <2>1. \A x \in Range(wallet'.transactions) \cap Range(wallet.transactions) :
           wallet'.height[x] = wallet.height[x]
    BY <1>3, <1>4
  <2>2. \A x \in Range(wallet'.transactions) \ Range(wallet.transactions) :
           /\ Unconfirmed(wallet', x) /\ Ours(x)
           /\ \A b \in Ancestors[lastBlock] : x \notin Range(Matched[b])
    BY <1>3, <1>4 DEF Unconfirmed
  <2>3. UNCHANGED <<lastBlock, unchecked>>
    BY <1>0 DEF chainVars
  <2> QED
    BY <1>4, <2>1, <2>2, <2>3, WalletStep
<1>6. RemovingOK'
  BY <1>0 DEF RemovingOK, Range
<1>7. NoStuckOrphan' /\ KnownOK'
  BY <1>0, ChainSame DEF IInv, KnownOK
<1>8. ListKept
  BY <1>3, <1>4 DEF ListKept
<1> QED
  BY <1>4, <1>5, <1>6, <1>7, <1>8 DEF IInv

LEMMA RegisterFromAppIInv ==
    ASSUME IInv, NEW t \in Tx, RegisterFromApp(t)
    PROVE  IInv' /\ ListKept
<1> DEFINE w == RegisterTransaction(wallet, t)
<1>0. /\ \A b \in Ancestors[lastBlock] : t \notin Range(Matched[b])
      /\ wallet' = w
      /\ UNCHANGED <<removing, chainVars, unchecked, events>>
  BY Zenon DEF RegisterFromApp
<1>1. /\ WalletOK(w) /\ w.height = wallet.height /\ wallet.allTx \subseteq w.allTx
      /\ Range(wallet.transactions) \subseteq Range(w.transactions)
      /\ \A x \in Range(w.transactions) \ Range(wallet.transactions) :
            /\ Unconfirmed(w, x) /\ Ours(x)
            /\ \A b \in Ancestors[lastBlock] : x \notin Range(Matched[b])
  BY <1>0, RegisterStep
<1> HIDE DEF w
<1>2. ListedOurs' /\ WalletMatchesChain'
  BY <1>0, <1>1, WalletStep DEF chainVars
<1>3. RemovingOK'
  BY <1>0, <1>1 DEF IInv, RemovingOK
<1>4. NoStuckOrphan' /\ KnownOK'
  BY <1>0, ChainSame DEF IInv, KnownOK
<1>5. ListKept
  BY <1>0, <1>1 DEF ListKept
<1> QED
  BY <1>0, <1>1, <1>2, <1>3, <1>4, <1>5 DEF IInv

LEMMA DropUnrelayedIInv ==
    ASSUME IInv, NEW t \in Tx, DropUnrelayed(t)
    PROVE  IInv'
<1>0. /\ t \in Range(wallet.transactions) /\ removing' = <<t>>
      /\ events < MaxEvents /\ events' = events + 1
      /\ UNCHANGED <<wallet, chainVars, unchecked>>
  BY DEF DropUnrelayed
<1>1. WalletOK(wallet)
  BY DEF IInv
<1>2. ListedOurs' /\ WalletMatchesChain'
  BY <1>0, <1>1, WalletStep DEF chainVars
<1>3. RemovingOK'
  <2>1. t \in wallet.allTx /\ wallet.allTx \subseteq Tx
    BY <1>0, <1>1, ListedType
  <2>2. <<t>> \in Seq(Tx) /\ Range(<<t>>) = {t}
    BY DEF Range
  <2> QED
    BY <1>0, <2>1, <2>2 DEF RemovingOK
<1>4. events' \in 0..MaxEvents
  BY <1>0, BlockAssumption DEF IInv, KnownOK
<1>5. NoStuckOrphan' /\ KnownOK'
  BY <1>0, <1>4, ChainSame
<1> QED
  BY <1>0, <1>1, <1>2, <1>3, <1>5 DEF IInv

LEMMA MarkUnverifiedIInv ==
    ASSUME IInv, NEW t \in Tx, MarkUnverified(t)
    PROVE  IInv' /\ ListKept
<1>0. /\ removing = << >> /\ Unconfirmed(wallet, t)
      /\ wallet' = UpdateTransactions(wallet, <<t>>, TX_UNCONFIRMED, 0)
      /\ UNCHANGED <<removing, chainVars, unchecked, events>>
  BY DEF MarkUnverified
<1>1. /\ WalletOK(wallet')
      /\ Range(wallet'.transactions) = Range(wallet.transactions)
      /\ \A x \in Range(wallet.transactions) : wallet'.height[x] = wallet.height[x]
  <2>1. 0 \in {0, 1} /\ WalletOK(wallet)
    BY DEF IInv
  <2> QED
    BY <1>0, <2>1, MarkStep
<1>2. ListedOurs' /\ WalletMatchesChain'
  BY <1>0, <1>1, WalletStep DEF chainVars
<1>3. RemovingOK'
  BY <1>0 DEF RemovingOK, Range
<1>4. NoStuckOrphan' /\ KnownOK'
  BY <1>0, ChainSame DEF IInv, KnownOK
<1>5. ListKept
  BY <1>1 DEF ListKept
<1> QED
  BY <1>1, <1>2, <1>3, <1>4, <1>5 DEF IInv

LEMMA RemoveStepIInv ==
    ASSUME IInv, RemoveStep
    PROVE  IInv'
<1> DEFINE t == Last(removing)
           dependents == Dependents(wallet, t)
<1>0. removing # << >> /\ UNCHANGED <<chainVars, unchecked, events>>
  BY DEF RemoveStep
<1>1. WalletOK(wallet) /\ wallet.allTx \subseteq Tx /\ Range(wallet.transactions) \subseteq wallet.allTx
  BY ListedType DEF IInv
<1>2. t \in Tx
  BY <1>0 DEF IInv, RemovingOK, Last
<1>3. /\ dependents \in Seq(Tx) /\ Range(dependents) \subseteq Range(wallet.transactions)
  BY <1>1, <1>2, DependentsFound DEF WalletOK
<1>4. NoStuckOrphan' /\ KnownOK'
  BY <1>0, ChainSame DEF IInv, KnownOK
<1>5. CASE dependents = << >>
  <2>1. wallet' = RemoveLeaf(wallet, t) /\ removing' = Front(removing)
    BY <1>5, Zenon DEF RemoveStep
  <2> HIDE DEF t, dependents
  <2>2. /\ WalletOK(wallet') /\ wallet'.height = wallet.height /\ wallet'.allTx = wallet.allTx
        /\ Range(wallet'.transactions) = Range(wallet.transactions) \ {t}
    BY <1>1, <2>1, RemoveLeafOK
  <2>3. ListedOurs' /\ WalletMatchesChain'
    BY <1>0, <2>2, WalletStep DEF chainVars
  <2>4. Front(removing) \in Seq(Tx) /\ Range(Front(removing)) \subseteq Range(removing)
    <3>1. removing \in Seq(Tx)
      BY DEF IInv, RemovingOK
    <3> QED
      BY <1>0, <3>1 DEF Front, Range
  <2>5. RemovingOK'
    BY <2>1, <2>2, <2>4 DEF IInv, RemovingOK
  <2> QED
    BY <1>4, <2>2, <2>3, <2>5 DEF IInv
<1>6. CASE dependents # << >>
  <2>1. removing' = removing \o dependents /\ wallet' = wallet
    BY <1>6, Zenon DEF RemoveStep
  <2> HIDE DEF t, dependents
  <2>2. ListedOurs' /\ WalletMatchesChain'
    BY <1>0, <1>1, <2>1, WalletStep DEF chainVars
  <2>3. RemovingOK'
    <3>1. removing \in Seq(Tx) /\ Range(removing) \subseteq wallet.allTx
      BY DEF IInv, RemovingOK
    <3>2. removing \o dependents \in Seq(Tx)
          /\ Range(removing \o dependents) \subseteq Range(removing) \cup Range(dependents)
      BY <1>3, <3>1 DEF Range
    <3> HIDE DEF Range
    <3> QED
      BY <1>1, <1>3, <2>1, <3>1, <3>2 DEF RemovingOK
  <2> QED
    BY <1>1, <1>4, <2>1, <2>2, <2>3 DEF IInv
<1> QED
  BY <1>5, <1>6

LEMMA PeerConnectedIInv ==
    ASSUME IInv, NEW h \in BestHeights, PeerConnected(h)
    PROVE  IInv'
<1>1. WalletOK(wallet') /\ ListedOurs' /\ RemovingOK' /\ WalletMatchesChain'
  BY WalletSame DEF PeerConnected
<1>2. h \in Nat
  BY BlockAssumption
<1>3. KnownOK' /\ NoStuckOrphan'
  BY <1>2 DEF IInv, KnownOK, NoStuckOrphan, PeerConnected
<1> QED
  BY <1>1, <1>3 DEF IInv

LEMMA PassedOverType ==
    ASSUME NEW old \in Block, NEW top \in Block
    PROVE  Between(old, top) \subseteq Tx
<1>1. Ancestors[old] \subseteq Block /\ Ancestors[top] \subseteq Block
  BY AncestorsLower
<1>2. \A a \in Block : Range(Matched[a]) \subseteq Tx
  BY MatchedType
<1> QED
  BY <1>1, <1>2 DEF Between

LEMMA RescanIInv ==
    ASSUME IInv, NEW b \in Block, Rescan(b)
    PROVE  IInv'
<1>1. /\ b \in MainChain \cup Checkpoints /\ lastBlock' = b
      /\ unchecked' = unchecked \cup PassedOver(b)
      /\ events < MaxEvents /\ events' = events + 1
      /\ UNCHANGED <<wallet, removing, blocks, orphans, setAside, relaying,
                     estimatedHeight, savedBlocks>>
  BY DEF Rescan
<1>2. WalletOK(wallet) /\ KnownOK /\ lastBlock \in Block /\ lastBlock \in blocks
  BY DEF IInv, KnownOK
<1>3. PassedOver(b) = Between(lastBlock, b) /\ Between(lastBlock, b) \subseteq Tx
  BY <1>2, PassedOverIs, PassedOverType
<1>4. b \in blocks
  <2>1. CASE b \in Checkpoints
    BY <1>2, <2>1 DEF KnownOK
  <2>2. CASE b \in MainChain
    <3>1. b \in Ancestors[lastBlock] /\ \A d \in Ancestors[lastBlock] :
             Height[b] <= Height[d] /\ d # lastBlock => d \in blocks
      BY <2>2 DEF MainChain, ChainIn
    <3>2. Height[b] \in Nat
      BY BlockHeight
    <3> QED
      BY <1>2, <3>1, <3>2
  <2> QED
    BY <1>1, <2>1, <2>2
<1>5. KnownOK'
  <2>1. events' \in 0..MaxEvents
    BY <1>1, <1>2, BlockAssumption DEF KnownOK
  <2> QED
    BY <1>1, <1>2, <1>3, <1>4, <2>1 DEF KnownOK
<1>6. NoStuckOrphan'
  BY <1>1 DEF IInv, NoStuckOrphan
<1>7. ListedOurs' /\ RemovingOK'
  BY <1>1 DEF IInv, ListedOurs, RemovingOK
<1>8. WalletMatchesChain'
  <2>1. Agrees(wallet, lastBlock, unchecked)
    BY AgreesIs DEF IInv
  <2>2. Agrees(wallet, b, unchecked \cup Between(lastBlock, b))
    BY <1>2, <2>1, AgreesMoved
  <2> QED
    BY <1>1, <1>3, <2>2
       DEF WalletMatchesChain, ConfirmedOnChain, ChainIsConfirmed, Agrees, ConfirmedIn, OnChainIn
<1> QED
  BY <1>1, <1>2, <1>5, <1>6, <1>7, <1>8 DEF IInv

(* An orphan of the store whose parent is rebuilt was taken along: the chain  *)
(* goes on from the parent, by a block that waits for the same one.          *)
LEMMA RebuiltOK ==
    ASSUME NEW top \in savedBlocks, NEW end \in Chained(top), savedBlocks \subseteq Block,
           \A b \in savedBlocks : Prev[b] # end,
           NEW o \in savedBlocks, Prev[o] \in Ancestors[end] \cap Chained(top)
    PROVE  \E c \in Ancestors[end] \cap Chained(top) : Prev[c] = Prev[o]
<1> DEFINE a == Prev[o]
<1>1. /\ top \in Block /\ end \in Block /\ a \in Block
      /\ top \in Ancestors[end] /\ Ancestors[end] \ Ancestors[top] \subseteq savedBlocks
      /\ top \in Ancestors[a]
  BY DEF Chained
<1>2. a # end /\ a \in Ancestors[end]
  OBVIOUS
<1>3. PICK c \in Ancestors[end] : Prev[c] = a
  BY <1>1, <1>2, AncestorsNext
<1>4. c \in Block /\ Ancestors[c] \subseteq Ancestors[end] /\ a \in Ancestors[c]
      /\ Ancestors[a] \subseteq Ancestors[c]
  <2>1. c \in Block /\ Ancestors[c] \subseteq Ancestors[end]
    BY <1>1, AncestorsLower
  <2>2. Ancestors[c] = {c} \cup Ancestors[a]
    BY <1>1, <1>3, <2>1, AncestorsEquation
  <2>3. a \in Ancestors[a]
    BY <1>1, AncestorsLower
  <2> QED
    BY <2>1, <2>2, <2>3
<1>5. c \notin Ancestors[top]
  <2> SUFFICES ASSUME c \in Ancestors[top] PROVE FALSE
    OBVIOUS
  <2>1. Height[c] = Height[a] + 1
    BY <1>1, <1>3, <1>4, BlockHeight
  <2>2. Height[c] <= Height[top] /\ Height[top] <= Height[a]
    <3>1. c = top \/ Height[c] < Height[top]
      BY <1>1, AncestorsLower
    <3>2. top = a \/ Height[top] < Height[a]
      BY <1>1, AncestorsLower
    <3>3. Height[c] \in Nat /\ Height[top] \in Nat /\ Height[a] \in Nat
      BY <1>1, <1>4, BlockHeight
    <3> QED
      BY <3>1, <3>2, <3>3
  <2>3. Height[c] \in Nat /\ Height[top] \in Nat /\ Height[a] \in Nat
    BY <1>1, <1>4, BlockHeight
  <2> QED
    BY <2>1, <2>2, <2>3
<1>6. c \in savedBlocks
  BY <1>1, <1>3, <1>5
<1>7. top \in Ancestors[c] /\ Ancestors[c] \ Ancestors[top] \subseteq savedBlocks
  BY <1>1, <1>4
<1>8. c \in Chained(top)
  BY <1>6, <1>7 DEF Chained
<1> QED
  BY <1>3, <1>8

LEMMA RestartIInv ==
    ASSUME IInv, NEW txs \in SetToSeqs(Stored), Restart(txs)
    PROVE  IInv' /\ ListKept
<1> DEFINE tops == {b \in savedBlocks : IsTransition(b) /\ \A c \in savedBlocks :
                                            IsTransition(c) => Height[c] <= Height[b]}
           rebuilt(top, end) == Ancestors[end] \cap Chained(top)
<1>0. /\ events < MaxEvents
      /\ wallet' = WalletNew(txs, wallet.height, wallet.timestamp)
      /\ removing' = << >> /\ relaying' = {} /\ setAside' = {} /\ estimatedHeight' = 0
      /\ \/ blocks' = Checkpoints /\ orphans' = savedBlocks /\ lastBlock' = Start
         \/ \E top \in tops : \E end \in Chained(top) :
              /\ \A b \in savedBlocks : Prev[b] # end
              /\ blocks' = Checkpoints \cup rebuilt(top, end)
              /\ lastBlock' = end
              /\ orphans' = {o \in savedBlocks \ rebuilt(top, end) :
                               \A b \in rebuilt(top, end) : Prev[b] # Prev[o]}
      /\ unchecked' = unchecked \cup PassedOver(lastBlock')
      /\ events' = events + 1
      /\ UNCHANGED savedBlocks
  BY DEF Restart
<1>1. /\ WalletOK(wallet) /\ KnownOK /\ lastBlock \in Block /\ savedBlocks \subseteq Block
      /\ Checkpoints \subseteq Block /\ Start \in Checkpoints
  BY BlockAssumption DEF IInv, KnownOK
<1>2. txs \in Seq(Tx) /\ IsInjective(txs) /\ Range(txs) = Range(wallet.transactions)
  <2>1. wallet.transactions \in Seq(Tx) /\ IsInjective(wallet.transactions)
    BY <1>1, WalletFields DEF WalletOK, Shape, InOrder
  <2>2. txs \in SetToSeqs(Range(wallet.transactions))
    BY DEF Stored
  <2> QED
    BY <2>1, <2>2, StoredOrders
<1>3. \A t \in Range(txs) : wallet.height[t] \in 0..TX_UNCONFIRMED /\ wallet.timestamp[t] \in {0, 1}
  <2>1. wallet \in Wallet /\ \A t \in Range(txs) : t \in Tx /\ wallet.height[t] \in 0..TX_UNCONFIRMED
    BY <1>1, <1>2, ListedType
  <2>2. wallet.timestamp \in [Tx -> {0, 1}]
    BY <2>1, WalletFields
  <2> QED
    BY <2>1, <2>2
<1>4. /\ WalletOK(wallet') /\ Range(wallet'.transactions) = Range(wallet.transactions)
      /\ \A t \in Range(wallet.transactions) : wallet'.height[t] = wallet.height[t]
  <2> DEFINE h == wallet.height
             s == wallet.timestamp
  <2>1. wallet' = WalletNew(txs, h, s)
    BY <1>0
  <2>2. \A t \in Range(txs) : h[t] \in 0..TX_UNCONFIRMED /\ s[t] \in {0, 1}
    BY <1>3
  <2> HIDE DEF h, s
  <2>3. /\ WalletOK(wallet') /\ Range(wallet'.transactions) = Range(txs)
        /\ \A t \in Range(txs) : wallet'.height[t] = h[t]
    BY <1>2, <2>1, <2>2, WalletNewOK
  <2> QED
    BY <1>2, <2>3 DEF h
<1>5. RemovingOK'
  BY <1>0 DEF RemovingOK, Range
<1>6. ListedOurs'
  BY <1>4 DEF IInv, ListedOurs
<1>7. /\ Checkpoints \subseteq blocks' /\ blocks' \subseteq Block /\ lastBlock' \in blocks'
      /\ orphans' \subseteq Block /\ NoStuckOrphan'
  <2>1. CASE blocks' = Checkpoints /\ orphans' = savedBlocks /\ lastBlock' = Start
    BY <1>1, <2>1 DEF NoStuckOrphan
  <2>2. CASE \E top \in tops : \E end \in Chained(top) :
              /\ \A b \in savedBlocks : Prev[b] # end
              /\ blocks' = Checkpoints \cup rebuilt(top, end)
              /\ lastBlock' = end
              /\ orphans' = {o \in savedBlocks \ rebuilt(top, end) :
                               \A b \in rebuilt(top, end) : Prev[b] # Prev[o]}
    <3>1. PICK top \in tops : \E end \in Chained(top) :
              /\ \A b \in savedBlocks : Prev[b] # end
              /\ blocks' = Checkpoints \cup rebuilt(top, end)
              /\ lastBlock' = end
              /\ orphans' = {o \in savedBlocks \ rebuilt(top, end) :
                               \A b \in rebuilt(top, end) : Prev[b] # Prev[o]}
      BY <2>2, Zenon
    <3>2. PICK end \in Chained(top) :
              /\ \A b \in savedBlocks : Prev[b] # end
              /\ blocks' = Checkpoints \cup rebuilt(top, end)
              /\ lastBlock' = end
              /\ orphans' = {o \in savedBlocks \ rebuilt(top, end) :
                               \A b \in rebuilt(top, end) : Prev[b] # Prev[o]}
      BY <3>1, Zenon
    <3>3. top \in savedBlocks
      OBVIOUS
    <3>4. Chained(top) \subseteq savedBlocks
      BY DEF Chained
    <3>5. end \in rebuilt(top, end) /\ rebuilt(top, end) \subseteq Block
      BY <1>1, <3>4, AncestorsLower
    <3>6. \A o \in savedBlocks : Prev[o] \in rebuilt(top, end) =>
             \E c \in rebuilt(top, end) : Prev[c] = Prev[o]
      BY <1>1, <3>2, <3>3, RebuiltOK
    <3> HIDE DEF rebuilt, tops
    <3>7. Checkpoints \subseteq blocks' /\ blocks' \subseteq Block /\ lastBlock' \in blocks'
      BY <1>1, <3>2, <3>5
    <3>8. orphans' \subseteq Block
      BY <1>1, <3>2
    <3>9. \A o \in orphans' : Prev[o] \notin blocks' \ Checkpoints
      BY <3>2, <3>6
    <3> QED
      BY <3>7, <3>8, <3>9 DEF NoStuckOrphan
  <2> QED
    BY <1>0, <2>1, <2>2
<1>8. lastBlock' \in Block
  BY <1>7
<1>9. PassedOver(lastBlock') = Between(lastBlock, lastBlock')
      /\ Between(lastBlock, lastBlock') \subseteq Tx
  BY <1>1, <1>8, PassedOverIs, PassedOverType
<1>10. KnownOK'
  <2>1. events' \in 0..MaxEvents /\ 0 \in Nat
    BY <1>0, <1>1, BlockAssumption DEF KnownOK
  <2>2. unchecked' \subseteq Tx
    BY <1>0, <1>1, <1>9 DEF KnownOK
  <2>3. relaying' = {} /\ estimatedHeight' = 0 /\ savedBlocks' = savedBlocks
    BY <1>0
  <2> QED
    BY <1>1, <1>7, <2>1, <2>2, <2>3 DEF KnownOK
<1>11. WalletMatchesChain'
  <2>1. Agrees(wallet, lastBlock, unchecked)
    BY AgreesIs DEF IInv
  <2>2. Agrees(wallet', lastBlock', unchecked \cup Between(lastBlock, lastBlock'))
    BY <1>1, <1>4, <1>8, <2>1, AgreesMoved
  <2>3. unchecked' = unchecked \cup Between(lastBlock, lastBlock')
    BY <1>0, <1>9
  <2> QED
    BY <2>2, <2>3
       DEF WalletMatchesChain, ConfirmedOnChain, ChainIsConfirmed, Agrees, ConfirmedIn, OnChainIn
<1>12. ListKept
  BY <1>4 DEF ListKept
<1> QED
  BY <1>4, <1>5, <1>6, <1>7, <1>10, <1>11, <1>12 DEF IInv

-----------------------------------------------------------------------------
(* Every step. *)

LEMMA NextIInv == IInv /\ Next => IInv' /\ (ListKept \/ RemoveStep)
<1> SUFFICES ASSUME IInv, Next PROVE IInv' /\ (ListKept \/ RemoveStep)
  OBVIOUS
<1>1. ASSUME UNCHANGED wallet PROVE ListKept
  BY <1>1 DEF ListKept
<1>2. CASE \E b \in Block : RelayBlock(b) \/ Rescan(b)
  <2> SUFFICES ASSUME NEW b \in Block, RelayBlock(b) \/ Rescan(b) PROVE IInv' /\ ListKept
    BY <1>2
  <2>1. CASE RelayOrphan(b)
    BY <1>1, <2>1, RelayOrphanIInv DEF RelayOrphan
  <2>2. CASE RelayRefused(b)
    BY <1>1, <2>2, RelayRefusedIInv DEF RelayRefused
  <2>3. CASE ExtendChain(b)
    BY <2>3, ExtendChainIInv
  <2>4. CASE RelayExisting(b)
    BY <2>4, RelayExistingIInv
  <2>5. CASE RelayAhead(b)
    BY <1>1, <2>5, RelayAheadIInv DEF RelayAhead
  <2>6. CASE RelayFork(b)
    BY <1>1, <2>6, RelayForkIInv DEF RelayFork
  <2>7. CASE Reorganise(b)
    BY <2>7, ReorganiseIInv
  <2>8. CASE Rescan(b)
    BY <1>1, <2>8, RescanIInv DEF Rescan
  <2> QED
    BY <2>1, <2>2, <2>3, <2>4, <2>5, <2>6, <2>7, <2>8 DEF RelayBlock
<1>3. CASE \E t \in Tx :
              \/ \E syncing, verified \in BOOLEAN : RelayTx(t, syncing, verified)
              \/ RegisterFromApp(t) \/ DropUnrelayed(t) \/ MarkUnverified(t)
  <2> SUFFICES ASSUME NEW t \in Tx,
                      \/ \E syncing, verified \in BOOLEAN : RelayTx(t, syncing, verified)
                      \/ RegisterFromApp(t) \/ DropUnrelayed(t) \/ MarkUnverified(t)
               PROVE  IInv' /\ ListKept
    BY <1>3
  <2>1. CASE \E syncing, verified \in BOOLEAN : RelayTx(t, syncing, verified)
    BY <2>1, RelayTxIInv
  <2>2. CASE RegisterFromApp(t)
    BY <2>2, RegisterFromAppIInv
  <2>3. CASE DropUnrelayed(t)
    BY <1>1, <2>3, DropUnrelayedIInv DEF DropUnrelayed
  <2>4. CASE MarkUnverified(t)
    BY <2>4, MarkUnverifiedIInv
  <2> QED
    BY <2>1, <2>2, <2>3, <2>4
<1>4. CASE RemoveStep
  BY <1>4, RemoveStepIInv
<1>5. CASE \E h \in BestHeights : PeerConnected(h)
  <2> SUFFICES ASSUME NEW h \in BestHeights, PeerConnected(h) PROVE IInv' /\ ListKept
    BY <1>5
  <2> QED
    BY <1>1, PeerConnectedIInv DEF PeerConnected
<1>6. CASE \E txs \in SetToSeqs(Stored) : Restart(txs)
  BY <1>6, RestartIInv
<1> QED
  BY <1>2, <1>3, <1>4, <1>5, <1>6 DEF Next

LEMMA StutterIInv == IInv /\ UNCHANGED vars => IInv'
<1> SUFFICES ASSUME IInv, UNCHANGED vars PROVE IInv'
  OBVIOUS
<1>1. WalletOK(wallet') /\ ListedOurs' /\ RemovingOK' /\ WalletMatchesChain'
  BY WalletSame DEF vars, chainVars
<1>2. KnownOK' /\ NoStuckOrphan'
  BY DEF IInv, KnownOK, NoStuckOrphan, vars, chainVars
<1> QED
  BY <1>1, <1>2 DEF IInv

LEMMA Invariance == Spec => []IInv
<1>1. IInv /\ [Next]_vars => IInv'
  BY NextIInv, StutterIInv
<1> QED
  BY InitIInv, <1>1, PTL DEF Spec

-----------------------------------------------------------------------------
(* What is missing below a known block, and why. *)

(* A block below a checkpoint, below where a restart rebuilt the chain, or    *)
(* more than an interval below a transition block.                           *)
Excused(d, tops, from) ==
    \/ \E c \in Checkpoints : d \in Ancestors[c]
    \/ Height[d] < from
    \/ \E p \in tops : d \in Ancestors[p] /\ Height[d] < Height[p] - Interval

GapsExcused(known, tops, from) ==
    \A a \in known : \A d \in Ancestors[a] \ known : Excused(d, tops, from)

(* No block of the set is where a checkpoint should be.                       *)
HoldsCheckpoints(S) ==
    \A a \in S : \A c \in Checkpoints : Height[c] = Height[a] => c = a

HistoryOK ==
    /\ pruners \subseteq Block /\ rebuiltFrom \in Nat
    /\ GapsExcused(blocks, pruners, rebuiltFrom)
    /\ HoldsCheckpoints(blocks \cup savedBlocks)

LEMMA PrunedLow ==
    ASSUME NEW b \in Block, NEW d \in Pruned(b)
    PROVE  d \in Ancestors[b] /\ Height[d] < Height[b] - Interval
<1>1. PICK w \in WindowStart(b) : d \in ChainIn(blocks, w) \ {w}
  BY DEF Pruned
<1>2. w \in Ancestors[b] /\ Height[w] = Height[b] - Interval
  BY <1>1 DEF WindowStart, ChainIn
<1>3. w \in Block /\ Ancestors[w] \subseteq Ancestors[b]
  BY <1>2, AncestorsLower
<1>4. d \in Ancestors[w] /\ d # w
  BY <1>1 DEF ChainIn
<1>5. Height[d] < Height[w]
  BY <1>3, <1>4, AncestorsLower
<1> QED
  BY <1>2, <1>3, <1>4, <1>5

(* Freeing blocks, and keeping one more, leaves no gap without a reason.      *)
LEMMA GapsRelayed ==
    ASSUME KnownOK, GapsExcused(blocks, pruners, rebuiltFrom), NEW b \in Block,
           Prev[b] \in blocks, NotePruning(b), NEW S \in {{}, {b}}
    PROVE  GapsExcused(Kept(b) \cup S, pruners', rebuiltFrom')
<1>1. pruners \subseteq pruners' /\ (Pruned(b) # {} => b \in pruners') /\ rebuiltFrom' = rebuiltFrom
  BY DEF NotePruning
<1>2. ASSUME NEW a \in blocks, NEW d \in Ancestors[a], d \notin Kept(b)
      PROVE  Excused(d, pruners', rebuiltFrom')
  <2>1. CASE d \in blocks
    <3>1. d \in Pruned(b)
      BY <1>2, <2>1 DEF Kept
    <3>2. d \in Ancestors[b] /\ Height[d] < Height[b] - Interval
      BY <3>1, PrunedLow
    <3> QED
      BY <1>1, <3>1, <3>2 DEF Excused
  <2>2. CASE d \notin blocks
    <3>1. Excused(d, pruners, rebuiltFrom)
      BY <1>2, <2>2 DEF GapsExcused
    <3> QED
      BY <1>1, <3>1 DEF Excused
  <2> QED
    BY <2>1, <2>2
<1>3. SUFFICES ASSUME NEW a \in Kept(b) \cup S, NEW d \in Ancestors[a], d \notin Kept(b) \cup S
               PROVE  Excused(d, pruners', rebuiltFrom')
  BY DEF GapsExcused
<1>4. CASE a \in Kept(b)
  BY <1>2, <1>3, <1>4 DEF Kept
<1>5. CASE a = b /\ S = {b}
  <2>1. Prev[b] \in Block
    BY DEF KnownOK
  <2>2. Ancestors[b] = {b} \cup Ancestors[Prev[b]]
    BY <2>1, AncestorsEquation
  <2>3. d \in Ancestors[Prev[b]] /\ d \notin Kept(b)
    BY <1>3, <1>5, <2>2
  <2> QED
    BY <1>2, <2>3
<1> QED
  BY <1>3, <1>4, <1>5

LEMMA HistoryRelayed ==
    ASSUME KnownOK, HistoryOK, NEW b \in Block, Prev[b] \in blocks, NotePruning(b),
           \/ blocks' = Kept(b)
           \/ blocks' = Kept(b) \cup {b} /\ Verifies(b),
           savedBlocks' \subseteq savedBlocks \cup blocks'
    PROVE  HistoryOK'
<1>1. pruners' \subseteq Block /\ rebuiltFrom' \in Nat
  BY DEF NotePruning, HistoryOK
<1>2. GapsExcused(blocks', pruners', rebuiltFrom')
  <2>1. /\ GapsExcused(Kept(b) \cup {}, pruners', rebuiltFrom')
        /\ GapsExcused(Kept(b) \cup {b}, pruners', rebuiltFrom')
    BY GapsRelayed DEF HistoryOK
  <2>2. Kept(b) \cup {} = Kept(b)
    OBVIOUS
  <2> QED
    BY <2>1, <2>2
<1>3. HoldsCheckpoints(blocks' \cup savedBlocks')
  <2> SUFFICES ASSUME NEW a \in blocks' \cup savedBlocks', NEW c \in Checkpoints,
                      Height[c] = Height[a]
               PROVE  c = a
    BY DEF HoldsCheckpoints
  <2>1. a \in blocks \cup savedBlocks \/ (a = b /\ Verifies(b))
    BY DEF Kept
  <2> QED
    BY <2>1 DEF HistoryOK, HoldsCheckpoints, Verifies
<1> QED
  BY <1>1, <1>2, <1>3 DEF HistoryOK

LEMMA SavedKnown ==
    ASSUME NEW known, NEW b \in Block, b \in known, NEW n
    PROVE  Save(SaveList(known, b, n)) \subseteq savedBlocks \cup known
<1>1. ChainIn(known, b) \subseteq known
  <2> SUFFICES ASSUME NEW a \in ChainIn(known, b) PROVE a \in known
    OBVIOUS
  <2>1. a \in Ancestors[b] /\ a \in Block
    BY ChainInOK
  <2>2. Height[a] <= Height[a]
    BY <2>1, BlockHeight
  <2> QED
    BY <2>1, <2>2 DEF ChainIn
<1>2. SaveList(known, b, n) \subseteq ChainIn(known, b)
  BY DEF SaveList
<1> QED
  BY <1>1, <1>2 DEF Save

LEMMA HistorySame ==
    ASSUME HistoryOK, UNCHANGED <<blocks, savedBlocks, pruners, rebuiltFrom>>
    PROVE  HistoryOK'
BY DEF HistoryOK, GapsExcused, HoldsCheckpoints, Excused

LEMMA InitHistory == Init => HistoryOK
<1> SUFFICES ASSUME Init PROVE HistoryOK
  OBVIOUS
<1>1. blocks = Checkpoints /\ savedBlocks = {} /\ pruners = {} /\ rebuiltFrom = 0
  BY DEF Init
<1>2. GapsExcused(blocks, pruners, rebuiltFrom)
  BY <1>1 DEF GapsExcused, Excused
<1>3. HoldsCheckpoints(blocks \cup savedBlocks)
  BY <1>1, BlockAssumption DEF HoldsCheckpoints
<1> QED
  BY <1>1, <1>2, <1>3 DEF HistoryOK

LEMMA RelayHistory ==
    ASSUME KnownOK, HistoryOK, NEW b \in Block, RelayBlock(b)
    PROVE  HistoryOK'
<1>1. CASE RelayOrphan(b)
  BY <1>1, HistorySame DEF RelayOrphan
<1>2. CASE RelayRefused(b)
  BY <1>2, HistoryRelayed DEF RelayRefused
<1>3. CASE ExtendChain(b)
  <2> DEFINE known == Kept(b) \cup {b}
             n == IF Height[b] = estimatedHeight THEN FullSave(b)
                  ELSE IF IsTransition(b) THEN 1 ELSE 0
  <2>1. /\ Verified(b) /\ NotePruning(b) /\ blocks' = known
        /\ savedBlocks' = IF n = 0 THEN savedBlocks ELSE Save(SaveList(known, b, n))
    BY <1>3, Zenon DEF ExtendChain
  <2>2. Prev[b] \in blocks /\ Verifies(b)
    BY <2>1 DEF Verified
  <2>3. b \in known
    OBVIOUS
  <2> HIDE DEF n, known
  <2>4. savedBlocks' \subseteq savedBlocks \cup blocks'
    BY <2>1, <2>3, SavedKnown
  <2> QED
    BY <2>1, <2>2, <2>4, HistoryRelayed DEF known
<1>4. CASE RelayExisting(b)
  BY <1>4, HistoryRelayed DEF RelayExisting, Verified
<1>5. CASE RelayAhead(b)
  BY <1>5, HistoryRelayed DEF RelayAhead, NewFork, Verified
<1>6. CASE RelayFork(b)
  BY <1>6, HistoryRelayed DEF RelayFork, OnFork, NewFork, Verified
<1>7. CASE Reorganise(b)
  <2> DEFINE known == Kept(b) \cup {b}
  <2>1. /\ OnFork(b) /\ NotePruning(b) /\ blocks' = known
        /\ savedBlocks' = IF Height[b] = estimatedHeight
                          THEN Save(SaveList(known, b, FullSave(b))) ELSE savedBlocks
    BY <1>7, Zenon DEF Reorganise
  <2>2. Prev[b] \in blocks /\ Verifies(b)
    BY <2>1 DEF OnFork, NewFork, Verified
  <2>3. b \in known
    OBVIOUS
  <2> HIDE DEF known
  <2>4. savedBlocks' \subseteq savedBlocks \cup blocks'
    BY <2>1, <2>3, SavedKnown
  <2> QED
    BY <2>1, <2>2, <2>4, HistoryRelayed DEF known
<1> QED
  BY <1>1, <1>2, <1>3, <1>4, <1>5, <1>6, <1>7 DEF RelayBlock

(* What a restart rebuilds goes down to the transition block without a gap.   *)
LEMMA RebuiltGaps ==
    ASSUME NEW top \in savedBlocks, NEW end \in Chained(top), savedBlocks \subseteq Block
    PROVE  GapsExcused(Checkpoints \cup (Ancestors[end] \cap Chained(top)), {}, Height[top])
<1> DEFINE R == Ancestors[end] \cap Chained(top)
<1> SUFFICES ASSUME NEW a \in Checkpoints \cup R, NEW d \in Ancestors[a], d \notin Checkpoints \cup R
             PROVE  Excused(d, {}, Height[top])
  BY DEF GapsExcused
<1>1. CASE a \in Checkpoints
  BY <1>1 DEF Excused
<1>2. CASE a \in R
  <2>1. /\ top \in Block /\ end \in Block /\ a \in Block /\ a \in Ancestors[end]
        /\ top \in Ancestors[a] /\ Ancestors[a] \ Ancestors[top] \subseteq savedBlocks
    BY <1>2 DEF Chained
  <2>2. d \in Block /\ Ancestors[d] \subseteq Ancestors[a] /\ d \in Ancestors[end]
    BY <2>1, AncestorsLower
  <2>3. top \notin Ancestors[d]
    <3> SUFFICES ASSUME top \in Ancestors[d] PROVE FALSE
      OBVIOUS
    <3>1. d \in savedBlocks
      <4>1. CASE d \in Ancestors[top]
        <5>1. d = top
          <6>1. d = top \/ Height[d] < Height[top]
            BY <2>1, <4>1, AncestorsLower
          <6>2. top = d \/ Height[top] < Height[d]
            BY <2>2, AncestorsLower
          <6>3. Height[d] \in Nat /\ Height[top] \in Nat
            BY <2>1, <2>2, BlockHeight
          <6> QED
            BY <6>1, <6>2, <6>3
        <5> QED
          BY <5>1
      <4>2. CASE d \notin Ancestors[top]
        BY <2>1, <4>2
      <4> QED
        BY <4>1, <4>2
    <3>2. d \in Chained(top)
      BY <2>1, <2>2, <3>1 DEF Chained
    <3> QED
      BY <2>2, <3>2
  <2>4. Height[d] < Height[top]
    <3>1. Height[d] \in Nat /\ Height[top] \in Nat
      BY <2>1, <2>2, BlockHeight
    <3>2. ~(Height[top] <= Height[d])
      BY <2>1, <2>3, AncestorsLine
    <3> QED
      BY <3>1, <3>2
  <2> QED
    BY <2>4 DEF Excused
<1> QED
  BY <1>1, <1>2

LEMMA RestartHistory ==
    ASSUME KnownOK, HistoryOK, NEW txs, Restart(txs)
    PROVE  HistoryOK'
<1> DEFINE rebuilt(top, end) == Ancestors[end] \cap Chained(top)
           Empty == blocks' = Checkpoints /\ rebuiltFrom' = 0
           From(top, end) == /\ blocks' = Checkpoints \cup rebuilt(top, end)
                             /\ rebuiltFrom' = Height[top]
<1>1. /\ pruners' = {} /\ savedBlocks' = savedBlocks
      /\ Empty \/ \E top \in savedBlocks : \E end \in Chained(top) : From(top, end)
  <2> DEFINE tops == {b \in savedBlocks : IsTransition(b) /\ \A c \in savedBlocks :
                                             IsTransition(c) => Height[c] <= Height[b]}
  <2>1. /\ pruners' = {} /\ savedBlocks' = savedBlocks
        /\ Empty \/ \E top \in tops :
                    \E end \in {e \in Chained(top) : \A b \in savedBlocks : Prev[b] # e} :
                       From(top, end)
    BY Zenon DEF Restart
  <2> HIDE DEF Empty, From
  <2> QED
    BY <2>1
<1>2. /\ savedBlocks \subseteq Block /\ Checkpoints \subseteq blocks
      /\ HoldsCheckpoints(blocks \cup savedBlocks)
  BY DEF KnownOK, HistoryOK
<1>3. /\ blocks' \subseteq Checkpoints \cup savedBlocks /\ rebuiltFrom' \in Nat
      /\ GapsExcused(blocks', {}, rebuiltFrom')
  <2>1. CASE Empty
    BY <2>1 DEF GapsExcused, Excused
  <2>2. ASSUME NEW top \in savedBlocks, NEW end \in Chained(top), From(top, end)
        PROVE  /\ blocks' \subseteq Checkpoints \cup savedBlocks /\ rebuiltFrom' \in Nat
               /\ GapsExcused(blocks', {}, rebuiltFrom')
    <3>1. GapsExcused(blocks', {}, rebuiltFrom')
      BY <1>2, <2>2, RebuiltGaps
    <3>2. blocks' \subseteq Checkpoints \cup savedBlocks
      BY <2>2 DEF Chained
    <3>3. rebuiltFrom' \in Nat
      BY <1>2, <2>2, BlockHeight
    <3> QED
      BY <3>1, <3>2, <3>3
  <2> HIDE DEF Empty, From
  <2> QED
    BY <1>1, <2>1, <2>2
<1>4. HoldsCheckpoints(blocks' \cup savedBlocks')
  BY <1>1, <1>2, <1>3 DEF HoldsCheckpoints
<1> QED
  BY <1>1, <1>3, <1>4 DEF HistoryOK

LEMMA NextHistory == KnownOK /\ HistoryOK /\ [Next]_vars => HistoryOK'
<1> SUFFICES ASSUME KnownOK, HistoryOK, [Next]_vars PROVE HistoryOK'
  OBVIOUS
<1>1. ASSUME NEW b \in Block, RelayBlock(b) PROVE HistoryOK'
  BY <1>1, RelayHistory
<1>2. ASSUME NEW b \in Block, Rescan(b) PROVE HistoryOK'
  BY <1>2, HistorySame DEF Rescan
<1>3. ASSUME NEW t \in Tx,
             \/ \E syncing, verified \in BOOLEAN : RelayTx(t, syncing, verified)
             \/ RegisterFromApp(t) \/ DropUnrelayed(t) \/ MarkUnverified(t)
      PROVE  HistoryOK'
  <2>1. UNCHANGED chainVars
    BY <1>3 DEF RelayTx, RegisterFromApp, DropUnrelayed, MarkUnverified
  <2> QED
    BY <2>1, HistorySame DEF chainVars
<1>4. CASE RemoveStep
  BY <1>4, HistorySame DEF RemoveStep, chainVars
<1>5. ASSUME NEW h \in BestHeights, PeerConnected(h) PROVE HistoryOK'
  BY <1>5, HistorySame DEF PeerConnected
<1>6. ASSUME NEW txs \in SetToSeqs(Stored), Restart(txs) PROVE HistoryOK'
  BY <1>6, RestartHistory
<1>7. CASE UNCHANGED vars
  BY <1>7, HistorySame DEF vars, chainVars
<1> QED
  BY <1>1, <1>2, <1>3, <1>4, <1>5, <1>6, <1>7 DEF Next

LEMMA HistoryInvariance == Spec => [](IInv /\ HistoryOK)
<1>1. IInv => KnownOK
  BY DEF IInv
<1> QED
  BY <1>1, InitHistory, NextHistory, Invariance, PTL DEF Spec

-----------------------------------------------------------------------------
(* The properties. *)

(* In every behaviour the state of the wallet and the chain is well formed:   *)
(* _BRWallet's lists and sets hold the same transactions, once, and           *)
(* manager->lastBlock is among the known blocks.                              *)
THEOREM ChainTypes == Spec => []TypeOK
<1>1. IInv /\ HistoryOK => TypeOK
  <2> SUFFICES ASSUME IInv, HistoryOK PROVE TypeOK
    OBVIOUS
  <2> DEFINE w == wallet
  <2>1. /\ w \in Wallet /\ IsInjective(w.transactions) /\ Range(w.transactions) \subseteq w.allTx
        /\ w.balance = AmountsOf(w.utxos)
    BY DEF IInv, WalletOK, Shape, InOrder, LedgerOK, Ledger
  <2> HIDE DEF w
  <2>2. /\ w.allTx \subseteq Tx /\ w.height \in [Tx -> 0..TX_UNCONFIRMED]
        /\ w.timestamp \in [Tx -> {0, 1}] /\ w.utxos \in Seq(Output)
        /\ w.chain \in [Chains -> Nat]
    BY <2>1, WalletFields
  <2>3. w.balance \in Nat
    BY <2>1, <2>2, AmountsOfType
  <2>4. w.height \in [Tx -> Nat]
    <3>1. \A h \in 0..TX_UNCONFIRMED : h \in Nat
      BY TxUnconfirmedNat
    <3> QED
      BY <2>2, <3>1, Zenon
  <2>5. Range(removing) \subseteq w.allTx
    BY DEF IInv, RemovingOK, w
  <2> QED
    BY <2>1, <2>2, <2>3, <2>4, <2>5 DEF IInv, KnownOK, HistoryOK, TypeOK, w
<1> QED
  BY <1>1, HistoryInvariance, PTL

(* wallet->transactions stays sorted by height, as the scans that stop at the *)
(* first height out of range need it.                                        *)
THEOREM SortedByHeight == Spec => []HeightSorted
<1>1. IInv => HeightSorted
  <2> SUFFICES ASSUME IInv PROVE HeightSorted
    OBVIOUS
  <2>1. Sorted(wallet) /\ wallet \in Wallet
    BY DEF IInv, WalletOK, Shape, InOrder
  <2>2. DOMAIN wallet.transactions = 1..Len(wallet.transactions)
    BY <2>1, WalletFields
  <2> QED
    BY <2>1, <2>2 DEF Sorted, HeightSorted
<1> QED
  BY <1>1, Invariance, PTL

(* Confirmation in the wallet and the chain of the tip agree, through forks,  *)
(* orphans, reorganisations, rescans and restarts, whatever the chain, but   *)
(* for what a rescan, a restart or a cut reorganisation passed over.         *)
THEOREM WalletFollowsChain == Spec => []WalletMatchesChain
<1>1. IInv => WalletMatchesChain
  BY DEF IInv
<1> QED
  BY <1>1, Invariance, PTL

(* An output that a transaction that counts spends is not spendable, and an   *)
(* unconfirmed transaction that spends what a confirmed one does never       *)
(* counts, in whatever order _BRWalletUpdateBalance walked them.             *)
THEOREM NoOutputSpentTwice == Spec => []NoDoubleSpend
<1>1. IInv => NoDoubleSpend
  <2> SUFFICES ASSUME IInv PROVE NoDoubleSpend
    OBVIOUS
  <2> DEFINE L == Range(wallet.transactions)
  <2>1. /\ \A t \in wallet.invalidTx : Unconfirmed(wallet, t)
        /\ Range(wallet.utxos) \cap Spent(CountedOf(wallet, L)) = {}
        /\ \A t, u \in NonInvalid(wallet, L) :
              t # u /\ Inputs[t] \cap Inputs[u] # {}
              => ~Unconfirmed(wallet, t) /\ ~Unconfirmed(wallet, u)
    BY DEF IInv, WalletOK, LedgerOK, Ledger
  <2>2. \A t \in Tx : Counted(t) => t \in CountedOf(wallet, L) /\ t \in NonInvalid(wallet, L)
    BY DEF Counted, CountedOf, NonInvalid
  <2>3. L \subseteq Tx
    BY ListedType DEF IInv
  <2> HIDE DEF L
  <2>4. ASSUME NEW t \in Tx, Counted(t) PROVE Inputs[t] \cap Range(wallet.utxos) = {}
    <3>1. Inputs[t] \subseteq Spent(CountedOf(wallet, L))
      BY <2>2, <2>4 DEF Spent
    <3> QED
      BY <2>1, <3>1
  <2>5. ASSUME NEW t \in L, NEW u \in L, t # u, ~Unconfirmed(wallet, t), Unconfirmed(wallet, u),
               Inputs[t] \cap Inputs[u] # {}
        PROVE  ~Counted(u)
    <3>1. t \in NonInvalid(wallet, L)
      BY <2>1, <2>5 DEF NonInvalid
    <3> QED
      BY <2>1, <2>2, <2>3, <2>5, <3>1
  <2> QED
    BY <2>4, <2>5 DEF NoDoubleSpend, L
<1> QED
  BY <1>1, Invariance, PTL

(* The balance is the sum of what is spendable, and no output to an address   *)
(* the ledger counts is missing that nothing in the wallet spends.           *)
THEOREM NoMoneyLost == Spec => []NothingLost
<1>1. IInv => NothingLost
  <2> SUFFICES ASSUME IInv PROVE NothingLost
    OBVIOUS
  <2> DEFINE L == Range(wallet.transactions)
             addrs == wallet.ledgerAddrs
  <2>1. /\ wallet.balance = AmountsOf(wallet.utxos)
        /\ wallet.spentOutputs = Spent(NonInvalid(wallet, L))
        /\ PaidBy(CountedOf(wallet, L), addrs) \ wallet.spentOutputs \subseteq Range(wallet.utxos)
    BY DEF IInv, WalletOK, LedgerOK, Ledger
  <2>2. \A t \in Tx : Counted(t) => t \in CountedOf(wallet, L)
    BY DEF Counted, CountedOf
  <2> HIDE DEF L, addrs
  <2>3. ASSUME NEW t \in Tx, Counted(t), NEW u \in PaidTo(t, addrs), u \notin Range(wallet.utxos)
        PROVE  \E v \in L : u \in Inputs[v]
    <3>1. u \in PaidBy(CountedOf(wallet, L), addrs)
      BY <2>2, <2>3 DEF PaidBy
    <3>2. u \in Spent(NonInvalid(wallet, L))
      BY <2>1, <2>3, <3>1
    <3> QED
      BY <3>2 DEF Spent, NonInvalid
  <2> QED
    BY <2>1, <2>3 DEF NothingLost, L, addrs
<1> QED
  BY <1>1, Invariance, PTL

(* A block that becomes known, by whatever branch of _peerRelayedBlock or by  *)
(* a restart, takes along the orphan that waited for it.                     *)
THEOREM OrphansTakenAlong == Spec => []NoStuckOrphan
<1>1. IInv => NoStuckOrphan
  BY DEF IInv
<1> QED
  BY <1>1, Invariance, PTL

LEMMA LastCheckpointOK ==
    /\ LastCheckpointHeight \in Nat
    /\ \A c \in Checkpoints : Height[c] <= LastCheckpointHeight
    /\ \E c \in Checkpoints : Height[c] = LastCheckpointHeight
<1> DEFINE H == {Height[c] : c \in Checkpoints}
<1>1. H \in SUBSET (0..TX_UNCONFIRMED) /\ H # {} /\ H \subseteq Nat
  BY BlockHeight, BlockAssumption
<1>2. LastCheckpointHeight = Max(H)
  BY Zenon DEF LastCheckpointHeight
<1> HIDE DEF H
<1>3. Max(H) \in H /\ \A h \in H : h <= Max(H)
  BY <1>1, TxUnconfirmedNat, MaxIsGreatest
<1> QED
  BY <1>1, <1>2, <1>3 DEF H

LEMMA PartingOK ==
    ASSUME NEW b \in Block, Common(b) # {}
    PROVE  /\ PartingHeight(b) \in Nat
           /\ \A a \in Common(b) : Height[a] <= PartingHeight(b)
           /\ \E p \in Common(b) : Height[p] = PartingHeight(b)
<1> DEFINE H == {Height[a] : a \in Common(b)}
<1>1. Common(b) \subseteq Block
  BY AncestorsLower DEF Common
<1>2. H \in SUBSET (0..TX_UNCONFIRMED) /\ H # {} /\ H \subseteq Nat
  BY <1>1, BlockHeight
<1>3. PartingHeight(b) = Max(H)
  BY Zenon DEF PartingHeight
<1> HIDE DEF H
<1>4. Max(H) \in H /\ \A h \in H : h <= Max(H)
  BY <1>2, TxUnconfirmedNat, MaxIsGreatest
<1> QED
  BY <1>2, <1>3, <1>4 DEF H

(* The walk of _peerRelayedBlock back to where a longer fork joins the main   *)
(* chain always finds a block there, for forks no longer than an interval    *)
(* above where the chain was rebuilt: manager->blocks has all of both chains *)
(* from where they part.                                                     *)
THEOREM JoinAlwaysFound == Spec => []JoinFound
<1>1. ASSUME IInv, HistoryOK, NEW b \in Block, OnFork(b), Height[b] > Tip,
             Tip >= LastCheckpointHeight, ShallowFork(b)
      PROVE  Joined(b) # {}
  <2> DEFINE P == PartingHeight(b)
             L == LastCheckpointHeight
             Line == Ancestors[b] \cup Ancestors[lastBlock]
  <2>1. /\ KnownOK /\ lastBlock \in Block /\ lastBlock \in blocks /\ blocks \subseteq Block
        /\ Prev[b] \in blocks /\ Height[b] > L
        /\ GapsExcused(blocks, pruners, rebuiltFrom) /\ HoldsCheckpoints(blocks)
    BY <1>1 DEF IInv, KnownOK, HistoryOK, HoldsCheckpoints, OnFork, NewFork, Verified
  <2>2. Ancestors[b] = {b} \cup Ancestors[Prev[b]]
    BY <2>1, AncestorsEquation
  <2>3. /\ P \in Nat /\ \A a \in Common(b) : Height[a] <= P
        /\ P >= rebuiltFrom /\ rebuiltFrom \in Nat
        /\ \A a \in pruners \cup {b} :
              (\E p \in Ancestors[a] \cap Common(b) : Height[p] = P) => Height[a] <= P + Interval
    BY <1>1, PartingOK DEF ShallowFork, HistoryOK
  <2>4. PICK p \in Common(b) : Height[p] = P
    BY <1>1, PartingOK DEF ShallowFork
  <2> HIDE DEF P
  <2>5. p \in Ancestors[b] /\ p \in Ancestors[lastBlock] /\ p \in Block
    BY <2>4, AncestorsLower DEF Common
  <2>6. /\ L \in Nat /\ Height[b] \in Nat /\ Tip \in Nat /\ Tip = Height[lastBlock]
        /\ Interval \in Nat /\ pruners \subseteq Block /\ Line \subseteq Block
    BY <1>1, <2>1, LastCheckpointOK, BlockHeight, BlockAssumption, AncestorsLower
       DEF Tip, HistoryOK
  <2>7. ASSUME NEW d \in Line, d # b, Height[d] >= P, d \notin Kept(b)
        PROVE  \E c \in Checkpoints : d \in Ancestors[c]
    <3>1. d \in Block /\ Height[d] \in Nat
      BY <2>6, BlockHeight
    <3>2. p \in Ancestors[d]
      BY <2>1, <2>4, <2>5, <2>7, AncestorsLine
    <3>3. CASE d \in blocks
      <4>1. d \in Pruned(b)
        BY <2>7, <3>3 DEF Kept
      <4>2. Height[d] < Height[b] - Interval
        BY <4>1, PrunedLow
      <4>3. Height[b] <= P + Interval
        BY <2>3, <2>4, <2>5
      <4> QED
        BY <2>3, <2>6, <2>7, <3>1, <4>2, <4>3
    <3>4. CASE d \notin blocks
      <4>1. Excused(d, pruners, rebuiltFrom)
        BY <2>1, <2>2, <2>7, <3>4 DEF GapsExcused
      <4>2. ~(Height[d] < rebuiltFrom)
        BY <2>3, <2>7, <3>1
      <4>3. ASSUME NEW q \in pruners, d \in Ancestors[q] PROVE ~(Height[d] < Height[q] - Interval)
        <5>1. q \in Block /\ Height[q] \in Nat
          BY <2>6, BlockHeight
        <5>2. p \in Ancestors[q]
          BY <3>2, <4>3, <5>1, AncestorsLower
        <5>3. Height[q] <= P + Interval
          BY <2>3, <2>4, <5>2
        <5> QED
          BY <2>3, <2>6, <2>7, <3>1, <5>1, <5>3
      <4> QED
        BY <4>1, <4>2, <4>3 DEF Excused
    <3> QED
      BY <3>3, <3>4
  <2>8. PICK top \in Checkpoints : Height[top] = L
    BY LastCheckpointOK
  <2>9. \A c \in Checkpoints : c \in Block /\ Height[c] \in Nat /\ Height[c] <= L
    BY LastCheckpointOK, BlockAssumption, BlockHeight
  <2> HIDE DEF L
  <2>10. ASSUME NEW x \in Line, x # b, Height[x] = L, P <= L PROVE x = top
    <3>1. CASE x \in Kept(b)
      BY <2>1, <2>8, <2>10, <3>1 DEF HoldsCheckpoints, Kept
    <3>2. CASE x \notin Kept(b)
      <4>1. PICK c \in Checkpoints : x \in Ancestors[c]
        BY <2>3, <2>6, <2>7, <2>10, <3>2
      <4>2. x = c
        <5>1. c \in Block /\ Height[c] \in Nat /\ Height[c] <= Height[x]
          BY <2>9, <2>10
        <5>2. x # c => Height[x] < Height[c]
          BY <4>1, <5>1, AncestorsLower
        <5>3. Height[x] \in Nat
          BY <2>6, BlockHeight
        <5> QED
          BY <5>1, <5>2, <5>3
      <4> QED
        BY <2>8, <2>10, <4>2, BlockAssumption
    <3> QED
      BY <3>1, <3>2
  <2>11. ASSUME NEW d \in Line, d # b, Height[d] >= P PROVE d \in Kept(b)
    <3> SUFFICES ASSUME d \notin Kept(b) PROVE FALSE
      OBVIOUS
    <3>1. PICK c \in Checkpoints : d \in Ancestors[c]
      BY <2>7, <2>11
    <3>2. d \in Block /\ Height[d] \in Nat /\ (d # c => Height[d] < Height[c])
      BY <2>6, <2>9, <3>1, BlockHeight, AncestorsLower
    <3>3. P <= L /\ L \in P..Height[b] /\ L \in P..Height[lastBlock]
      BY <1>1, <2>1, <2>3, <2>6, <2>9, <2>11, <3>2 DEF L
    <3>4. PICK x \in Ancestors[b] : Height[x] = L
      BY <2>4, <2>5, <3>3, AncestorsDense
    <3>5. PICK y \in Ancestors[lastBlock] : Height[y] = L
      BY <2>1, <2>4, <2>5, <3>3, AncestorsDense
    <3>6. x = top /\ y = top
      BY <1>1, <2>1, <2>6, <2>10, <3>3, <3>4, <3>5 DEF L
    <3>7. L <= P
      BY <2>3, <3>4, <3>5, <3>6 DEF Common
    <3>8. d = c
      BY <2>3, <2>6, <2>9, <2>11, <3>2, <3>7
    <3>9. c \in Kept(b)
      BY <2>1, PrunedOK DEF KnownOK, Kept
    <3> QED
      BY <3>8, <3>9
  <2>12. p \in Side(b)
    BY <2>4, <2>5, <2>11 DEF Side, ChainIn
  <2>13. b \notin Ancestors[lastBlock]
    BY <1>1, <2>1, <2>6, AncestorsLower
  <2>14. p \in Main(b)
    BY <2>4, <2>5, <2>11, <2>13 DEF Main, ChainIn
  <2> QED
    BY <2>12, <2>14 DEF Joined
<1>2. IInv /\ HistoryOK => JoinFound
  BY <1>1 DEF JoinFound
<1> QED
  BY <1>2, HistoryInvariance, PTL

(* A transaction is listed no higher than one that spends from it, but for    *)
(* those passed over: where the scan of BRWalletRemoveTransaction stops,     *)
(* there is no dependent below.                                              *)
LEMMA ParentsNoHigher ==
    ASSUME IInv, NEW t \in Range(wallet.transactions) \ unchecked,
           NEW u \in Range(wallet.transactions) \ unchecked, t \in Parents(u)
    PROVE  wallet.height[t] <= wallet.height[u]
<1>1. /\ wallet.height[t] \in 0..TX_UNCONFIRMED /\ wallet.height[u] \in Nat
      /\ wallet.height[t] \in Nat /\ lastBlock \in Block /\ Ours(t)
  BY ListedType DEF IInv, KnownOK, ListedOurs
<1>2. CASE Unconfirmed(wallet, u)
  BY <1>1, <1>2, TxUnconfirmedNat DEF Unconfirmed
<1>3. CASE ~Unconfirmed(wallet, u)
  <2>1. PICK b \in Ancestors[lastBlock] : Height[b] = wallet.height[u] /\ u \in Range(Matched[b])
    BY <1>3 DEF IInv, WalletMatchesChain, ConfirmedOnChain
  <2>2. b \in Block /\ Ancestors[b] \subseteq Ancestors[lastBlock]
    BY <1>1, AncestorsLower
  <2>3. PICK a \in Ancestors[b] : t \in Range(Matched[a])
    BY <1>1, <2>1, <2>2, ChainAssumption
  <2>4. wallet.height[t] = Height[a]
    BY <2>2, <2>3 DEF IInv, WalletMatchesChain, ChainIsConfirmed
  <2>5. a = b \/ Height[a] < Height[b]
    BY <2>2, AncestorsLower
  <2> QED
    BY <1>1, <2>1, <2>4, <2>5
<1> QED
  BY <1>2, <1>3

(* BRWalletRemoveTransaction leaves no transaction behind that spends from    *)
(* the one it removes, although the lock is free between the dependents.     *)
THEOREM DependentsRemoved == Spec => RemovedWithDependents
<1> DEFINE A == \A t \in (Range(wallet.transactions) \ Range(wallet'.transactions)) \ unchecked :
                  \A u \in Range(wallet'.transactions) \ unchecked : t \notin Parents(u)
<1>1. ASSUME IInv, RemoveStep PROVE A
  <2> DEFINE r == Last(removing)
  <2>1. r \in Tx /\ WalletOK(wallet)
    BY <1>1 DEF IInv, RemovingOK, Last, RemoveStep
  <2>2. CASE Dependents(wallet, r) = << >>
    <3>1. wallet' = RemoveLeaf(wallet, r)
      BY <1>1, <2>2, Zenon DEF RemoveStep
    <3> HIDE DEF r
    <3>2. Range(wallet'.transactions) = Range(wallet.transactions) \ {r}
      BY <2>1, <3>1, RemoveLeafOK
    <3>3. \A u \in Range(wallet.transactions) :
             u # r /\ r \in Parents(u) /\ wallet.height[r] <= wallet.height[u] => FALSE
      <4>1. Range(<< >>) = {}
        BY DEF Range
      <4> QED
        BY <2>1, <2>2, <4>1, DependentsFound DEF WalletOK
    <3> SUFFICES ASSUME NEW t \in (Range(wallet.transactions) \ Range(wallet'.transactions)) \ unchecked,
                        NEW u \in Range(wallet'.transactions) \ unchecked, t \in Parents(u)
                 PROVE  FALSE
      OBVIOUS
    <3>4. t = r /\ u # r /\ u \in Range(wallet.transactions) \ unchecked
      BY <3>2
    <3>5. wallet.height[t] <= wallet.height[u]
      BY <1>1, <3>4, ParentsNoHigher
    <3> QED
      BY <3>3, <3>4, <3>5
  <2>3. CASE Dependents(wallet, r) # << >>
    <3>1. wallet' = wallet
      BY <1>1, <2>3, Zenon DEF RemoveStep
    <3> QED
      BY <3>1
  <2> QED
    BY <2>2, <2>3
<1>2. IInv /\ [Next]_vars => [A]_vars
  <2>1. ListKept => A
    BY DEF ListKept
  <2> HIDE DEF A
  <2> QED
    BY <1>1, <2>1, NextIInv
<1> QED
  BY <1>2, Invariance, PTL DEF Spec, RemovedWithDependents

=============================================================================
