---------------------------- MODULE BTCSyncProofs ----------------------------
(* Proofs about BTCSync: no payment is missed while the filter changes, and  *)
(* no spend.                                                                 *)
(* The invariant follows the messages in both directions: a block under way  *)
(* was matched with the addresses of the node's filter, or the node has      *)
(* given its filter up and takes no block; a payment comes after what it     *)
(* spends from, so that the wallet recognises it; and a ping that an update  *)
(* waits for has no block behind it.  By GapAssumption the addresses of a    *)
(* filter that has the next unused ones reach all that the next block pays.  *)
(* What is spent is watched as an output: the peer adds the outputs of what  *)
(* it matches to its filter, so what it scans next has what spends from the  *)
(* blocks before, and a new filter is made from what the ledger has.         *)
EXTENDS BTCSync, BTCWalletProofs, FiniteSetTheorems, TLAPS

-----------------------------------------------------------------------------
(* The wallet.  A transaction that is pending or invalid is not counted: the  *)
(* addresses it pays do not become used.                                     *)

AddrsOf(t) == {Outputs[t][i].address : i \in DOMAIN Outputs[t]}

(* The ledger leaves nothing out, ... *)
CountsAll(w) == w.pendingTx = {} /\ w.invalidTx = {}

(* ... nor will it with the transaction that comes next. *)
AllCounted ==
    toNode # << >> /\ Head(toNode).type = "tx" =>
        CountsAll(RegisterTransaction(node.wallet, Head(toNode).tx))

(* When all are counted every address that one of them pays is used. *)
LEMMA UpdateBalanceCounts ==
    ASSUME NEW w, Shape(w), CountsAll(UpdateBalance(w))
    PROVE  \A t \in Range(w.transactions) : AddrsOf(t) \subseteq UpdateBalance(w).usedAddrs
<1> DEFINE txs == w.transactions
           N == Len(txs)
           P(v, n) == CountsAll(v) => \A i \in 1..n : AddrsOf(txs[i]) \subseteq v.usedAddrs
<1>1. w \in Wallet
  BY DEF Shape
<1>2. txs \in Seq(Tx) /\ N \in Nat
  BY <1>1, WalletFields
<1>3. PICK f : /\ UpdateBalance(w) = f[N]
               /\ f[0] = ClearedLedger(w)
               /\ \A n \in 0..(N - 1) : f[n + 1] = AccountTx(f[n], txs[n + 1])
  BY <1>1, WalkEquations
<1> DEFINE K(v) == DOMAIN v = DOMAIN w
           G == {n \in 0..N : K(f[n]) /\ P(f[n], n)}
<1>4. K(f[0]) /\ P(f[0], 0)
  <2>1. ~\E i : i \in 1..0
    OBVIOUS
  <2> QED
    BY <1>3, <2>1 DEF ClearedLedger
<1>5. ASSUME NEW n \in 0..(N - 1), NEW v, K(v), P(v, n)
      PROVE  K(AccountTx(v, txs[n + 1])) /\ P(AccountTx(v, txs[n + 1]), n + 1)
  <2> DEFINE t == txs[n + 1]
             u == AccountTx(v, t)
             spent == v.spentOutputs \cup Inputs[t]
             addrs == v.usedAddrs \cup AddrsOf(t)
             left == Without(v.utxos \o Received(v, t), spent)
             bal == v.balance + AmountsOf(Received(v, t))
                      - AmountsOf(Within(v.utxos \o Received(v, t), spent))
  <2>1. DOMAIN v = {"transactions", "allTx", "blockHeight", "height", "timestamp", "utxos",
                    "balance", "spentOutputs", "invalidTx", "pendingTx", "usedAddrs",
                    "ledgerAddrs", "chain"}
    BY <1>1, <1>5 DEF Wallet
  <2>2. u = IF SpendsInvalid(v, t) THEN [v EXCEPT !.invalidTx = v.invalidTx \cup {t}]
            ELSE IF IsPostdated(v, t)
            THEN [v EXCEPT !.spentOutputs = spent, !.pendingTx = v.pendingTx \cup {t}]
            ELSE [v EXCEPT !.spentOutputs = spent, !.usedAddrs = addrs, !.utxos = left,
                           !.balance = bal]
    BY Zenon DEF AccountTx, AddrsOf
  <2> HIDE DEF u, spent, addrs, left, bal, t
  <2>3. K(u)
    BY <1>5, <2>1, <2>2
  <2>4. CASE SpendsInvalid(v, t)
    <3>1. t \in u.invalidTx
      BY <2>1, <2>2, <2>4
    <3> QED
      BY <2>3, <3>1 DEF CountsAll, u, t
  <2>5. CASE ~SpendsInvalid(v, t) /\ IsPostdated(v, t)
    <3>1. t \in u.pendingTx
      BY <2>1, <2>2, <2>5
    <3> QED
      BY <2>3, <3>1 DEF CountsAll, u, t
  <2>6. CASE ~SpendsInvalid(v, t) /\ ~IsPostdated(v, t)
    <3>1. u.usedAddrs = addrs /\ u.pendingTx = v.pendingTx /\ u.invalidTx = v.invalidTx
      BY <2>1, <2>2, <2>6
    <3>2. \A i \in 1..(n + 1) : i \in 1..n \/ i = n + 1
      BY <1>2
    <3>3. ASSUME CountsAll(u) PROVE \A i \in 1..(n + 1) : AddrsOf(txs[i]) \subseteq u.usedAddrs
      <4>1. \A i \in 1..n : AddrsOf(txs[i]) \subseteq v.usedAddrs
        BY <1>5, <3>1, <3>3 DEF CountsAll
      <4>2. v.usedAddrs \subseteq addrs /\ AddrsOf(txs[n + 1]) \subseteq addrs
        BY DEF addrs, t
      <4> HIDE DEF addrs
      <4> QED
        BY <3>1, <3>2, <4>1, <4>2
    <3> QED
      BY <2>3, <3>3 DEF u, t
  <2> QED
    BY <2>4, <2>5, <2>6
<1> HIDE DEF P, K
<1>6. 0 \in G
  BY <1>2, <1>4
<1>7. ASSUME NEW n \in 0..(N - 1), n \in G PROVE n + 1 \in G
  <2>1. K(f[n]) /\ P(f[n], n) /\ n + 1 \in 0..N
    BY <1>2, <1>7
  <2>2. K(AccountTx(f[n], txs[n + 1])) /\ P(AccountTx(f[n], txs[n + 1]), n + 1)
    BY <1>5, <2>1
  <2> QED
    BY <1>3, <2>1, <2>2
<1> HIDE DEF G
<1>8. \A n \in 0..N : n \in G
  BY <1>2, <1>6, <1>7, UpTo
<1>9. P(f[N], N)
  BY <1>2, <1>8 DEF G
<1>10. \A t \in Range(txs) : \E i \in 1..N : t = txs[i]
  BY <1>2 DEF Range
<1> QED
  BY <1>3, <1>9, <1>10 DEF P

(* Transactions that are neither replaceable nor locked nor in conflict all   *)
(* are counted.                                                              *)
LEMMA UpdateBalancePlain ==
    ASSUME NEW w, Shape(w), AllPlain
    PROVE  CountsAll(UpdateBalance(w))
<1> DEFINE txs == w.transactions
           N == Len(txs)
           c == ClearedLedger(w)
<1>1. w \in Wallet /\ InOrder(w)
  BY DEF Shape
<1>2. txs \in Seq(Tx) /\ N \in Nat /\ \A i \in 1..N : txs[i] \in Tx
  BY <1>1, WalletFields
<1>3. PICK f : /\ UpdateBalance(w) = f[N]
               /\ f[0] = c
               /\ \A n \in 0..(N - 1) : f[n + 1] = AccountTx(f[n], txs[n + 1])
  BY <1>1, WalkEquations
<1> DEFINE K(v) == /\ DOMAIN v = DOMAIN w /\ v.height = w.height /\ v.blockHeight = w.blockHeight
           P(v, n) == /\ K(v) /\ v.pendingTx = {} /\ v.invalidTx = {}
                      /\ v.spentOutputs \subseteq UNION {Inputs[txs[i]] : i \in 1..n}
           G == {n \in 0..N : P(f[n], n)}
<1>4. P(c, 0)
  <2>1. /\ DOMAIN c = DOMAIN w /\ c.height = w.height /\ c.blockHeight = w.blockHeight
        /\ c.pendingTx = {} /\ c.invalidTx = {} /\ c.spentOutputs = {}
    BY <1>1 DEF ClearedLedger, Wallet
  <2>2. ~\E i : i \in 1..0
    OBVIOUS
  <2> QED
    BY <2>1, <2>2
<1>5. ASSUME NEW n \in 0..(N - 1), NEW v, P(v, n) PROVE P(AccountTx(v, txs[n + 1]), n + 1)
  <2> DEFINE t == txs[n + 1]
             u == AccountTx(v, t)
  <2>1. n + 1 \in 1..N /\ t \in Tx /\ \A i \in 1..n : i \in 1..N /\ i < n + 1
    BY <1>2
  <2>2. \A i \in 1..(n + 1) : i \in 1..n \/ i = n + 1
    BY <2>1
  <2>3. \A i \in 1..n : txs[i] # t
    BY <1>1, <2>1 DEF InOrder, IsInjective
  <2>4. \A i \in Inputs[t] : i \notin v.spentOutputs
    <3>1. \A i \in 1..n : Inputs[txs[i]] \cap Inputs[t] = {}
      BY <1>2, <2>1, <2>3 DEF AllPlain
    <3> QED
      BY <1>5, <3>1
  <2> HIDE DEF t
  <2>5. ~SpendsInvalid(v, t)
    BY <1>5, <2>4 DEF SpendsInvalid
  <2>6. ~IsPostdated(v, t)
    <3>1. LockTime[t] \in Nat /\ LockTime[t] <= 1 /\ t \notin Replaceable
      BY <2>1, TxAssumption DEF AllPlain
    <3>2. v.blockHeight \in Nat
      BY <1>1, <1>5, WalletFields
    <3>3. ~(LockTime[t] - 1 > v.blockHeight)
      BY <3>1, <3>2
    <3> QED
      BY <1>5, <3>1, <3>3 DEF IsPostdated
  <2> DEFINE spent == v.spentOutputs \cup Inputs[t]
             addrs == v.usedAddrs \cup AddrsOf(t)
             left == Without(v.utxos \o Received(v, t), spent)
             bal == v.balance + AmountsOf(Received(v, t))
                      - AmountsOf(Within(v.utxos \o Received(v, t), spent))
  <2>7. u = [v EXCEPT !.spentOutputs = spent, !.usedAddrs = addrs, !.utxos = left,
                      !.balance = bal]
    BY <2>5, <2>6, Zenon DEF AccountTx, AddrsOf
  <2> HIDE DEF u, spent, addrs, left, bal
  <2>8. DOMAIN v = {"transactions", "allTx", "blockHeight", "height", "timestamp", "utxos",
                    "balance", "spentOutputs", "invalidTx", "pendingTx", "usedAddrs",
                    "ledgerAddrs", "chain"}
    BY <1>1, <1>5 DEF Wallet
  <2>9. /\ DOMAIN u = DOMAIN v /\ u.height = v.height /\ u.blockHeight = v.blockHeight
        /\ u.pendingTx = v.pendingTx /\ u.invalidTx = v.invalidTx
        /\ u.spentOutputs = spent /\ u.usedAddrs = addrs
    BY <2>7, <2>8
  <2>10. K(u) /\ u.pendingTx = {} /\ u.invalidTx = {}
    BY <1>5, <2>9
  <2>11. u.spentOutputs \subseteq UNION {Inputs[txs[i]] : i \in 1..(n + 1)}
    <3>1. spent \subseteq (UNION {Inputs[txs[i]] : i \in 1..n}) \cup Inputs[txs[n + 1]]
      BY <1>5 DEF spent, t
    <3>2. n + 1 \in 1..(n + 1) /\ \A i \in 1..n : i \in 1..(n + 1)
      BY <2>1
    <3> QED
      BY <2>9, <3>1, <3>2
  <2>13. P(u, n + 1)
    BY <2>10, <2>11
  <2> QED
    BY <2>13 DEF u, t
<1> HIDE DEF P, c
<1>6. 0 \in G
  BY <1>2, <1>3, <1>4
<1>7. ASSUME NEW n \in 0..(N - 1), n \in G PROVE n + 1 \in G
  <2>1. P(f[n], n) /\ n + 1 \in 0..N
    BY <1>2, <1>7
  <2>2. P(AccountTx(f[n], txs[n + 1]), n + 1)
    BY <1>5, <2>1
  <2> QED
    BY <1>3, <2>1, <2>2
<1> HIDE DEF G
<1>8. \A n \in 0..N : n \in G
  BY <1>2, <1>6, <1>7, UpTo
<1>9. P(f[N], N)
  BY <1>2, <1>8 DEF G
<1> QED
  BY <1>3, <1>9 DEF P, CountsAll

(* What is true of the wallet as long as all is counted: it is right, what is *)
(* listed is its own, the addresses it pays are used, and the last ones of   *)
(* each chain, as many as the gap limit, are unused.                         *)
Grown(w) == \A c \in Chains : FirstUnused(w, c, w.chain[c]) + GapLimit[c] <= w.chain[c]

Listed(w) == Range(w.transactions)

Purse(w) ==
    /\ WalletOK(w) /\ w.pendingTx = {} /\ w.invalidTx = {}
    /\ \A t \in Listed(w) : ContainsTx(w, t) /\ AddrsOf(t) \subseteq w.usedAddrs
    /\ Grown(w) /\ w.ledgerAddrs \subseteq AllAddrs(w)

(* FirstUnused is a position of the chain, after every used one. *)
LEMMA FirstUnusedNat ==
    ASSUME NEW w \in Wallet, AddrBound(w.usedAddrs), NEW c \in Chains, NEW n \in Nat
    PROVE  /\ FirstUnused(w, c, n) \in 0..n
           /\ \A k \in 0..(n - 1) : <<c, k>> \in w.usedAddrs => k < FirstUnused(w, c, n)
<1> DEFINE A == {u \in w.usedAddrs : u[1] = c /\ u[2] < n}
           U == {0} \cup {a[2] + 1 : a \in A}
<1>1. \A a \in w.usedAddrs : a[2] \in Nat
  BY WalletFields
<1>2. FirstUnused(w, c, n) = Max(U)
  BY Zenon DEF FirstUnused
<1>3. U \in SUBSET (0..n) /\ U # {}
  BY <1>1
<1>4. \A k \in 0..(n - 1) : <<c, k>> \in w.usedAddrs => k + 1 \in U
  BY SMT
<1> HIDE DEF U
<1>5. Max(U) \in U /\ \A y \in U : y <= Max(U)
  BY <1>3, MaxIsGreatest
<1>6. Max(U) \in 0..n
  BY <1>3, <1>5, Zenon
<1>7. \A k \in 0..(n - 1) : <<c, k>> \in w.usedAddrs => k < Max(U)
  <2> SUFFICES ASSUME NEW k \in 0..(n - 1), <<c, k>> \in w.usedAddrs PROVE k < Max(U)
    OBVIOUS
  <2>1. k + 1 <= Max(U)
    BY <1>4, <1>5
  <2>2. Max(U) \in Nat /\ k \in Nat
    BY <1>6
  <2> QED
    BY <2>1, <2>2
<1> QED
  BY <1>2, <1>6, <1>7

(* Longer chains have all the addresses of shorter ones. *)
LEMMA AddrsGrow ==
    ASSUME NEW v \in Wallet, NEW w \in Wallet, \A c \in Chains : w.chain[c] <= v.chain[c]
    PROVE  AllAddrs(w) \subseteq AllAddrs(v)
<1>1. \A c \in Chains : w.chain[c] \in Nat /\ v.chain[c] \in Nat
  BY WalletFields
<1>2. \A c \in Chains : 0..(w.chain[c] - 1) \subseteq 0..(v.chain[c] - 1)
  BY <1>1
<1>3. \A c \in Chains : {c} \X (0..(w.chain[c] - 1)) \subseteq {c} \X (0..(v.chain[c] - 1))
  BY <1>2
<1> QED
  BY <1>3 DEF AllAddrs

(* What a wallet calls its own stays so when it grows. *)
LEMMA ContainsGrows ==
    ASSUME NEW v, NEW w, AllAddrs(w) \subseteq AllAddrs(v), w.allTx \subseteq v.allTx,
           NEW t, ContainsTx(w, t)
    PROVE  ContainsTx(v, t)
  BY DEF ContainsTx, Pays

(* All of Purse that does not speak of how far the chains have grown. *)
Counted(w) ==
    /\ WalletOK(w) /\ w.pendingTx = {} /\ w.invalidTx = {}
    /\ \A t \in Listed(w) : ContainsTx(w, t) /\ AddrsOf(t) \subseteq w.usedAddrs
    /\ w.ledgerAddrs \subseteq AllAddrs(w)

(* BRWalletUnusedAddrs: the chains grow, nothing else changes. *)
LEMMA CountedGrows ==
    ASSUME NEW w, Counted(w), NEW more \in Nat
    PROVE  /\ Purse(GrowChains(w, more))
           /\ GrowChains(w, more).transactions = w.transactions
           /\ GrowChains(w, more).allTx = w.allTx
           /\ GrowChains(w, more).height = w.height
           /\ GrowChains(w, more).ledgerAddrs = w.ledgerAddrs
           /\ AllAddrs(w) \subseteq AllAddrs(GrowChains(w, more))
           /\ \A c \in Chains : w.chain[c] <= GrowChains(w, more).chain[c]
           /\ \A c \in Chains : FirstUnused(GrowChains(w, more), c, GrowChains(w, more).chain[c])
                + (GapLimit[c] + more) <= GrowChains(w, more).chain[c]
<1> DEFINE v == GrowChains(w, more)
           ch == v.chain
<1>1. w \in Wallet /\ Shape(w) /\ LedgerOK(w) /\ AddrBound(w.usedAddrs)
  BY DEF Counted, WalletOK, Shape
<1>2. Shape(v) /\ LedgerOK(v)
  BY <1>1, GrowChainsOK
<1>3. /\ v = [w EXCEPT !.chain = ch] /\ v \in Wallet
      /\ \A c \in Chains : w.chain[c] <= ch[c]
      /\ \A c \in Chains : FirstUnused(w, c, ch[c]) + (GapLimit[c] + more) <= ch[c]
  BY <1>1, GrowChainsChain
<1> HIDE DEF v
<1> HIDE DEF ch
<1>4. /\ v.transactions = w.transactions /\ v.allTx = w.allTx /\ v.height = w.height
      /\ v.usedAddrs = w.usedAddrs /\ SameLedger(v, w) /\ v.chain = ch
  BY <1>1, <1>3 DEF Wallet, SameLedger
<1>5. AllAddrs(w) \subseteq AllAddrs(v)
  <2>1. \A c \in Chains : w.chain[c] <= v.chain[c]
    BY <1>3, <1>4
  <2> QED
    BY <1>1, <1>3, <2>1, AddrsGrow
<1>6. \A c \in Chains : FirstUnused(v, c, ch[c]) = FirstUnused(w, c, ch[c])
  BY <1>4, Zenon DEF FirstUnused
<1>7. \A c \in Chains : FirstUnused(v, c, v.chain[c]) + (GapLimit[c] + more) <= v.chain[c]
  BY <1>3, <1>4, <1>6
<1>8. Grown(v)
  <2> SUFFICES ASSUME NEW c \in Chains
               PROVE  FirstUnused(v, c, v.chain[c]) + GapLimit[c] <= v.chain[c]
    BY DEF Grown
  <2>1. GapLimit[c] \in Nat /\ v.chain[c] \in Nat
    BY <1>3, TxAssumption, WalletFields
  <2>2. FirstUnused(v, c, v.chain[c]) \in Nat
    <3>1. AddrBound(v.usedAddrs) /\ v \in Wallet
      BY <1>1, <1>3, <1>4
    <3>2. FirstUnused(v, c, v.chain[c]) \in 0..v.chain[c]
      BY <2>1, <3>1, FirstUnusedNat
    <3> QED
      BY <2>1, <3>2
  <2> QED
    BY <1>7, <2>1, <2>2
<1>9. \A t \in Listed(v) : ContainsTx(v, t) /\ AddrsOf(t) \subseteq v.usedAddrs
  BY <1>4, <1>5, ContainsGrows DEF Listed, Counted
<1>10. /\ v.pendingTx = {} /\ v.invalidTx = {} /\ v.ledgerAddrs \subseteq AllAddrs(v)
  BY <1>4, <1>5 DEF SameLedger, Counted
<1>11. Purse(v)
  BY <1>2, <1>8, <1>9, <1>10 DEF Purse, WalletOK
<1>12. v.ledgerAddrs = w.ledgerAddrs /\ \A c \in Chains : w.chain[c] <= v.chain[c]
  BY <1>3, <1>4 DEF SameLedger
<1> QED
  BY <1>4, <1>5, <1>7, <1>11, <1>12 DEF v

(* What follows from Purse, for the lemmas of BTCWalletProofs. *)
LEMMA PurseCounted ==
    ASSUME NEW w, Purse(w)
    PROVE  Counted(w) /\ w \in Wallet /\ Shape(w) /\ InOrder(w) /\ AddrBound(w.usedAddrs)
  BY DEF Purse, Counted, WalletOK, Shape

(* BRWalletUnusedAddrs counts as it was. *)
LEMMA GrowsCounted ==
    ASSUME NEW w \in Wallet, AddrBound(w.usedAddrs), NEW more \in Nat
    PROVE  LET v == GrowChains(w, more)
           IN  v.pendingTx = w.pendingTx /\ v.invalidTx = w.invalidTx
<1> DEFINE v == GrowChains(w, more)
           ch == v.chain
<1>1. v = [w EXCEPT !.chain = ch]
  BY GrowChainsChain
<1> HIDE DEF ch, v
<1> QED
  BY <1>1 DEF Wallet, v

(* BRWalletRegisterTransaction counts a plain transaction. *)
LEMMA PlainRegisters ==
    ASSUME NEW w, Purse(w), NEW t \in Tx, AllPlain
    PROVE  CountsAll(RegisterTransaction(w, t))
<1> DEFINE v == RegisterTransaction(w, t)
           m == [w EXCEPT !.allTx = w.allTx \cup {t}]
           i == InsertTx(m, t)
           u == UpdateBalance(i)
<1>1. w \in Wallet /\ Shape(w) /\ CountsAll(w)
  BY PurseCounted DEF Purse, CountsAll
<1>2. w.allTx \cup {t} \in SUBSET Tx
  BY <1>1, WalletFields
<1>3. m \in Wallet /\ CountsAll(m)
  BY <1>1, <1>2 DEF Wallet, CountsAll
<1>4. CASE v = w \/ v = m
  BY <1>1, <1>3, <1>4
<1>5. CASE t \notin w.allTx /\ ContainsTx(w, t) /\ v = GrowChains(u, 0)
  <2>1. /\ m.transactions = w.transactions /\ m.allTx = w.allTx \cup {t}
        /\ m.height = w.height /\ m.usedAddrs = w.usedAddrs /\ m.chain = w.chain
    BY <1>1 DEF Wallet
  <2> HIDE DEF m
  <2>2. Shape(m)
    BY <1>1, <1>3, <1>5, <2>1 DEF Shape, InOrder, Sorted, Unconfirmed
  <2>3. InOrder(m) /\ t \in m.allTx /\ t \notin Range(m.transactions)
    BY <1>1, <1>5, <2>1, <2>2 DEF Shape, InOrder
  <2> DEFINE txs == i.transactions
  <2>4. /\ i = [m EXCEPT !.transactions = txs] /\ txs \in Seq(Tx) /\ i \in Wallet /\ InOrder(i)
        /\ Range(txs) = Range(m.transactions) \cup {t}
    BY <1>3, <2>3, InsertTxList
  <2> HIDE DEF i, txs
  <2>5. i.allTx = m.allTx /\ i.height = m.height /\ i.usedAddrs = m.usedAddrs /\ i.chain = m.chain
    BY <1>3, <2>4 DEF Wallet
  <2>6. Shape(i)
    BY <2>2, <2>4, <2>5 DEF Shape, Unconfirmed
  <2>7. CountsAll(u) /\ u \in Wallet /\ AddrBound(u.usedAddrs)
    BY <2>6, UpdateBalancePlain, UpdateBalanceOK DEF WalletOK, Shape
  <2> HIDE DEF u, v
  <2>8. v.pendingTx = u.pendingTx /\ v.invalidTx = u.invalidTx
    BY <1>5, <2>7, GrowsCounted
  <2> QED
    BY <2>7, <2>8 DEF CountsAll, v
<1> QED
  BY <1>4, <1>5, Zenon DEF RegisterTransaction

(* BRWalletRegisterTransaction. *)
LEMMA PurseRegisters ==
    ASSUME NEW w, Purse(w), NEW t \in Tx, CountsAll(RegisterTransaction(w, t))
    PROVE  LET v == RegisterTransaction(w, t)
           IN  /\ Purse(v) /\ v.height = w.height
               /\ w.allTx \subseteq v.allTx /\ v.allTx \subseteq w.allTx \cup {t}
               /\ AllAddrs(w) \subseteq AllAddrs(v)
               /\ Listed(w) \subseteq Listed(v) /\ Listed(v) \subseteq Listed(w) \cup {t}
               /\ ContainsTx(w, t) /\ t \notin w.allTx => t \in Listed(v)
               /\ ~ContainsTx(w, t) => v.usedAddrs = w.usedAddrs /\ v.chain = w.chain
<1> DEFINE v == RegisterTransaction(w, t)
           m == [w EXCEPT !.allTx = w.allTx \cup {t}]
           i == InsertTx(m, t)
           u == UpdateBalance(i)
<1>1. w \in Wallet /\ Shape(w) /\ LedgerOK(w) /\ WalletOK(w) /\ InOrder(w)
  BY DEF Purse, WalletOK, Shape
<1>2. CASE t \in w.allTx
  <2>1. v = w
    BY <1>2, Zenon DEF RegisterTransaction
  <2>2. Listed(w) \subseteq w.allTx
    BY <1>1 DEF InOrder, Listed
  <2>3. ContainsTx(w, t) /\ t \notin w.allTx => t \in Listed(w)
    BY <1>2
  <2> HIDE DEF v
  <2> QED
    BY <2>1, <2>3 DEF v
<1>3. CASE t \notin w.allTx
  <2>1. w.allTx \cup {t} \in SUBSET Tx
    BY <1>1, WalletFields
  <2>2. m \in Wallet
    BY <1>1, <2>1 DEF Wallet
  <2>3. /\ m.transactions = w.transactions /\ m.allTx = w.allTx \cup {t} /\ m.height = w.height
        /\ m.usedAddrs = w.usedAddrs /\ m.chain = w.chain /\ SameLedger(m, w)
    BY <1>1 DEF Wallet, SameLedger
  <2> HIDE DEF m
  <2>4. Shape(m)
    BY <1>1, <2>2, <2>3 DEF Shape, InOrder, Sorted, Unconfirmed
  <2>5. Unconfirmed(w, t)
    BY <1>1, <1>3 DEF Shape
  <2>6. AllAddrs(m) = AllAddrs(w)
    BY <2>3 DEF AllAddrs
  <2>7. CASE ContainsTx(w, t)
    <3>1. v = GrowChains(u, 0)
      BY <1>3, <2>7, Zenon DEF RegisterTransaction, m, i, u
    <3>2. InOrder(m) /\ t \in m.allTx /\ t \notin Range(m.transactions)
      BY <1>1, <1>3, <2>3, <2>4 DEF Shape, InOrder
    <3> DEFINE txs == i.transactions
    <3>3. /\ i = [m EXCEPT !.transactions = txs] /\ txs \in Seq(Tx) /\ i \in Wallet /\ InOrder(i)
          /\ Range(txs) = Range(m.transactions) \cup {t}
      BY <2>2, <3>2, InsertTxList
    <3>4. Listed(i) = Listed(w) \cup {t}
      BY <2>3, <3>3 DEF Listed
    <3> HIDE DEF i, txs
    <3>5. /\ i.allTx = m.allTx /\ i.height = m.height /\ i.usedAddrs = m.usedAddrs
          /\ i.chain = m.chain
      BY <2>2, <3>3 DEF Wallet
    <3>6. Shape(i)
      BY <2>4, <3>3, <3>5 DEF Shape, Unconfirmed
    <3>7. WalletOK(u) /\ SameList(u, i) /\ u.ledgerAddrs = AllAddrs(i)
      BY <3>6, UpdateBalanceOK
    <3>18. CountsAll(u)
      <4>1. u \in Wallet /\ AddrBound(u.usedAddrs)
        BY <3>7 DEF WalletOK, Shape
      <4>2. v.pendingTx = u.pendingTx /\ v.invalidTx = u.invalidTx
        <5> HIDE DEF u, v
        <5> QED
          BY <3>1, <4>1, GrowsCounted
      <4> QED
        BY <4>2 DEF CountsAll
    <3>8. /\ u.pendingTx = {} /\ u.invalidTx = {}
          /\ \A x \in Listed(i) : AddrsOf(x) \subseteq u.usedAddrs
      BY <3>6, <3>18, UpdateBalanceCounts DEF Listed, CountsAll
    <3> HIDE DEF u
    <3>9. Listed(u) = Listed(i) /\ u.allTx = w.allTx \cup {t} /\ u.height = w.height
      BY <2>3, <3>5, <3>7 DEF Listed, SameList
    <3>10. AllAddrs(u) = AllAddrs(w) /\ AllAddrs(i) = AllAddrs(w)
      BY <2>3, <3>5, <3>7 DEF AllAddrs, SameList
    <3>11. \A x : ContainsTx(w, x) => ContainsTx(u, x)
      BY <3>9, <3>10, ContainsGrows
    <3>12. \A x \in Listed(u) : ContainsTx(u, x) /\ AddrsOf(x) \subseteq u.usedAddrs
      BY <2>7, <3>4, <3>8, <3>9, <3>11 DEF Purse
    <3>13. Counted(u)
      BY <3>7, <3>8, <3>10, <3>12 DEF Counted
    <3> DEFINE g == GrowChains(u, 0)
    <3>14. /\ Purse(g) /\ g.transactions = u.transactions /\ g.allTx = u.allTx
           /\ g.height = u.height /\ AllAddrs(u) \subseteq AllAddrs(g)
           /\ g.ledgerAddrs = u.ledgerAddrs /\ \A c \in Chains : u.chain[c] <= g.chain[c]
      BY <3>13, CountedGrows
    <3> HIDE DEF g
    <3>15. Listed(g) = Listed(w) \cup {t}
      BY <3>4, <3>9, <3>14 DEF Listed
    <3>16. v = g
      BY <3>1 DEF g
    <3> HIDE DEF v
    <3> QED
      BY <2>7, <3>9, <3>10, <3>14, <3>15, <3>16 DEF v
  <2>8. CASE ~ContainsTx(w, t)
    <3>1. v = m
      BY <1>3, <2>5, <2>8, Zenon DEF RegisterTransaction, m
    <3>2. Listed(m) = Listed(w)
      BY <2>3 DEF Listed
    <3>3. LedgerOK(m)
      <4>1. \A x : Unconfirmed(m, x) <=> Unconfirmed(w, x)
        BY <2>3 DEF Unconfirmed
      <4>2. \A x \in w.invalidTx : Unconfirmed(m, x)
        BY DEF Purse
      <4> QED
        BY <1>1, <2>3, <4>1, <4>2, LedgerKept
    <3>4. \A x : ContainsTx(w, x) => ContainsTx(m, x)
      BY <2>3, <2>6, ContainsGrows
    <3>5. \A x \in Listed(m) : ContainsTx(m, x) /\ AddrsOf(x) \subseteq m.usedAddrs
      BY <2>3, <3>2, <3>4 DEF Purse
    <3>6. Grown(m)
      <4>1. \A c, n : FirstUnused(m, c, n) = FirstUnused(w, c, n)
        BY <2>3, Zenon DEF FirstUnused
      <4> QED
        BY <2>3, <4>1 DEF Purse, Grown
    <3>7. m.pendingTx = {} /\ m.invalidTx = {} /\ m.ledgerAddrs \subseteq AllAddrs(m)
      BY <2>3, <2>6 DEF Purse, SameLedger
    <3>8. Purse(m)
      BY <2>4, <3>3, <3>5, <3>6, <3>7 DEF Purse, WalletOK
    <3> HIDE DEF v
    <3> QED
      BY <2>3, <2>6, <2>8, <3>1, <3>2, <3>8 DEF v
  <2> QED
    BY <2>7, <2>8
<1> QED
  BY <1>2, <1>3

(* BRWalletUpdateTransactions, for the transactions of a block. *)
LEMMA PurseConfirms ==
    ASSUME NEW w, Purse(w), NEW hashes \in Seq(Tx), NEW height \in Nat,
           height < TX_UNCONFIRMED
    PROVE  LET v == ConfirmTransactions(w, hashes, height)
           IN  /\ Purse(v) /\ v.usedAddrs = w.usedAddrs /\ v.chain = w.chain
               /\ Listed(v) = Listed(w) /\ v.allTx \subseteq w.allTx
               /\ v.ledgerAddrs = w.ledgerAddrs
               /\ \A t \in Listed(w) :
                     v.height[t] = IF t \in Range(hashes) THEN height ELSE w.height[t]
<1> DEFINE v == ConfirmTransactions(w, hashes, height)
           x == UpdateTransactions(w, hashes, height, 1)
           top == Max({w.blockHeight, height})
           r == [w EXCEPT !.blockHeight = top]
           y == SetHeights(r, hashes, height, 1)
<1>1. w \in Wallet /\ Shape(w) /\ LedgerOK(w) /\ WalletOK(w) /\ InOrder(w)
  BY DEF Purse, WalletOK, Shape
<1>2. CASE hashes = << >>
  <2>1. v = w
    BY <1>2, Zenon DEF ConfirmTransactions
  <2>2. Range(hashes) = {}
    BY <1>2 DEF Range
  <2> HIDE DEF v
  <2> QED
    BY <2>1, <2>2 DEF v
<1>3. CASE hashes # << >>
  <2>1. v = x
    BY <1>3, Zenon DEF ConfirmTransactions
  <2>2. x = y
    BY Zenon DEF UpdateTransactions, Purse
  <2>3. height \in 0..TX_UNCONFIRMED /\ height # TX_UNCONFIRMED /\ 1 \in {0, 1}
    BY TxUnconfirmedNat
  <2>4. \A t \in Range(hashes) \cap Range(w.transactions) :
              IF height = TX_UNCONFIRMED THEN Unconfirmed(w, t) ELSE ContainsTx(w, t)
    BY <2>3 DEF Purse, Listed
  <2>5. /\ WalletOK(x) /\ Range(x.transactions) = Range(w.transactions) /\ x.allTx \subseteq w.allTx
        /\ \A t \in Tx : ContainsTx(w, t) => ContainsTx(x, t)
        /\ \A t \in Range(w.transactions) :
                 /\ t \in Range(hashes) => x.height[t] = height
                 /\ t \notin Range(hashes) => x.height[t] = w.height[t]
    <3> HIDE DEF x
    <3> QED
      BY <1>1, <2>3, <2>4, UpdateTransactionsOK, Zenon DEF x
  <2>6. top \in Nat
    <3> DEFINE S == {w.blockHeight, height}
               b == w.blockHeight + height
    <3>1. w.blockHeight \in Nat
      BY <1>1, WalletFields
    <3>2. S \in SUBSET (0..b) /\ S # {} /\ b \in Nat
      BY <3>1
    <3> HIDE DEF S, b
    <3>3. Max(S) \in S
      BY <3>2, MaxIsGreatest
    <3>4. Max(S) \in 0..b /\ b \in Nat
      BY <3>2, <3>3, Zenon
    <3>5. Max(S) \in Nat
      BY <3>4
    <3> QED
      BY <3>5 DEF S
  <2> HIDE DEF top
  <2>7. r \in Wallet
    BY <1>1, <2>6 DEF Wallet
  <2>8. /\ r.transactions = w.transactions /\ r.allTx = w.allTx /\ r.height = w.height
        /\ r.usedAddrs = w.usedAddrs /\ r.chain = w.chain /\ SameLedger(r, w)
    BY <1>1 DEF Wallet, SameLedger
  <2> HIDE DEF r
  <2>9. Shape(r)
    BY <1>1, <2>7, <2>8 DEF Shape, InOrder, Sorted, Unconfirmed
  <2>10. \A t : ContainsTx(r, t) <=> ContainsTx(w, t)
    BY <2>8 DEF ContainsTx, AllAddrs
  <2>11. \A t \in Range(hashes) \cap Range(r.transactions) :
              IF height = TX_UNCONFIRMED THEN Unconfirmed(r, t) ELSE ContainsTx(r, t)
    BY <2>3, <2>4, <2>8, <2>10
  <2>12. Rebased(y, r)
    <3> HIDE DEF y
    <3> QED
      BY <2>3, <2>9, <2>11, SetHeightsOK, Zenon DEF y
  <2> HIDE DEF y, x, v
  <2>13. SameLedger(v, w) /\ v.chain = w.chain
    BY <2>1, <2>2, <2>8, <2>12 DEF Rebased, SameLedger
  <2>14. v.usedAddrs = w.usedAddrs /\ v.ledgerAddrs = w.ledgerAddrs
    BY <2>13 DEF SameLedger
  <2>15. AllAddrs(v) = AllAddrs(w)
    BY <2>13 DEF AllAddrs
  <2>16. Listed(v) = Listed(w) /\ Listed(w) \subseteq Tx
    <3>1. Listed(v) = Listed(w)
      BY <2>1, <2>5 DEF Listed
    <3>2. w.transactions \in Seq(Tx)
      BY <1>1, WalletFields
    <3>3. Listed(w) \subseteq Tx
      BY <3>2 DEF Listed, Range
    <3> QED
      BY <3>1, <3>3
  <2>17. \A t \in Listed(v) : ContainsTx(v, t) /\ AddrsOf(t) \subseteq v.usedAddrs
    BY <2>1, <2>5, <2>14, <2>16 DEF Purse
  <2>18. Grown(v)
    <3>1. \A c, n : FirstUnused(v, c, n) = FirstUnused(w, c, n)
      BY <2>14, Zenon DEF FirstUnused
    <3> QED
      BY <2>13, <3>1 DEF Purse, Grown
  <2>19. v.pendingTx = {} /\ v.invalidTx = {} /\ v.ledgerAddrs \subseteq AllAddrs(v)
    BY <2>13, <2>14, <2>15 DEF Purse, SameLedger
  <2>20. Purse(v)
    BY <2>1, <2>5, <2>17, <2>18, <2>19 DEF Purse
  <2>21. \A t \in Listed(w) : v.height[t] = IF t \in Range(hashes) THEN height ELSE w.height[t]
    BY <2>1, <2>5 DEF Listed
  <2> QED
    BY <2>1, <2>5, <2>13, <2>14, <2>16, <2>20, <2>21 DEF v
<1> QED
  BY <1>2, <1>3

(* A new wallet without transactions. *)
LEMMA PurseNew ==
    /\ Purse(WalletNew(<< >>, << >>, << >>))
    /\ Listed(WalletNew(<< >>, << >>, << >>)) = {}
    /\ WalletNew(<< >>, << >>, << >>).allTx = {}
<1> DEFINE e == << >>
           l == Loaded(e, e, e)
           g == GrowChains(l, 0)
           v == WalletNew(e, e, e)
<1>1. e \in Seq(Tx) /\ IsInjective(e) /\ Range(e) = {}
  BY DEF IsInjective, Range
<1>2. \A t \in Range(e) : e[t] \in 0..TX_UNCONFIRMED /\ e[t] \in {0, 1}
  BY <1>1
<1>3. WalletOK(v) /\ v.allTx = {} /\ Listed(v) = {}
  <2> HIDE DEF e, v
  <2> QED
    BY <1>1, <1>2, WalletNewOK DEF v, Listed
<1>4. l = EmptyWallet
  <2>1. PICK f : Loading(f, e, e, e)
    <3> HIDE DEF e
    <3> QED
      BY <1>1, LoadedEquations
  <2>2. Len(e) = 0
    OBVIOUS
  <2> HIDE DEF e
  <2> QED
    BY <2>1, <2>2, Zenon DEF Loading
<1>5. Shape(l) /\ l.transactions = << >> /\ l.usedAddrs = {}
  <2>1. EmptyWallet.transactions = << >> /\ EmptyWallet.usedAddrs = {}
    BY DEF EmptyWallet
  <2> QED
    BY <1>4, <2>1, EmptyWalletShape, Zenon
<1>6. v = UpdateBalance(g)
  BY Zenon DEF WalletNew
<1> HIDE DEF l, e, v
<1> DEFINE ch == g.chain
<1>7. /\ Shape(g) /\ g = [l EXCEPT !.chain = ch] /\ g \in Wallet
      /\ \A c \in Chains : FirstUnused(l, c, ch[c]) + (GapLimit[c] + 0) <= ch[c]
  <2>1. l \in Wallet /\ AddrBound(l.usedAddrs) /\ 0 \in Nat
    BY <1>5 DEF Shape
  <2>2. Shape(g)
    BY <1>5, <2>1, GrowChainsOK
  <2> QED
    BY <2>1, <2>2, GrowChainsChain
<1> HIDE DEF g, ch
<1>8. g.transactions = << >> /\ g.usedAddrs = {} /\ g.chain = ch
  BY <1>5, <1>7 DEF Shape, Wallet
<1>9. v = ClearedLedger(g)
  <2>1. PICK f : /\ UpdateBalance(g) = f[Len(g.transactions)]
                 /\ f[0] = ClearedLedger(g)
    BY <1>7, WalkEquations
  <2>2. Len(g.transactions) = 0
    BY <1>8
  <2> QED
    BY <1>6, <2>1, <2>2
<1>10. /\ v.usedAddrs = {} /\ v.chain = g.chain /\ v.ledgerAddrs = AllAddrs(g)
       /\ v.pendingTx = {} /\ v.invalidTx = {}
  BY <1>7, <1>9 DEF ClearedLedger, Wallet
<1>11. Grown(v)
  <2>1. \A c, n : FirstUnused(v, c, n) = FirstUnused(l, c, n)
    BY <1>5, <1>10, Zenon DEF FirstUnused
  <2>2. \A c \in Chains : GapLimit[c] + 0 = GapLimit[c]
    BY TxAssumption
  <2> QED
    BY <1>7, <1>8, <1>10, <2>1, <2>2 DEF Grown
<1>12. v.ledgerAddrs \subseteq AllAddrs(v)
  BY <1>10 DEF AllAddrs
<1>13. Purse(v)
  BY <1>3, <1>10, <1>11, <1>12 DEF Purse
<1> QED
  BY <1>3, <1>13 DEF v, e

-----------------------------------------------------------------------------
(* Types of messages and of the node. *)

Num == 1..Len(Mined)
Block == [height : Num, matched : Seq(Tx)]
Bloom == [addrs : SUBSET (Chains \X Nat), outs : SUBSET Output, none : BOOLEAN]
InMsg ==
    [type : {"inv"}, txs : Seq(Tx), blocks : Seq(Num)]
    \cup [type : {"merkleblock"}, block : Block]
    \cup [type : {"tx"}, tx : Tx] \cup [type : {"pong"}]
OutMsg ==
    [type : {"getdata"}, txs : Seq(Tx), blocks : Seq(Num)]
    \cup [type : {"filterload"}, filter : Bloom]
    \cup [type : {"getblocks"}, from : 0..Len(Mined)]
    \cup [type : {"ping", "mempool"}]
Callback == {"pingDone", "loadDone", "rerequestDone", "mempoolDone"}

Node ==
    [wallet : Wallet, lastBlock : 0..Len(Mined), estimated : 0..Len(Mined),
     orphans : SUBSET Block, lastOrphan : Nat, early : SUBSET Nat, filter : Bloom,
     updating : BOOLEAN, syncing : BOOLEAN, timer : BOOLEAN, known : Seq(Num),
     knownTx : SUBSET Tx, current : Block \cup {NoBlock}, missing : SUBSET Tx,
     pongs : Seq(Callback), lastInv : Nat, sentMempool : BOOLEAN, mempool : BOOLEAN,
     reported : 0..Len(Mined), out : Seq(OutMsg)]
Fields ==
    {"wallet", "lastBlock", "estimated", "orphans", "lastOrphan", "early", "filter",
     "updating", "syncing", "timer", "known", "knownTx", "current", "missing", "pongs",
     "lastInv", "sentMempool", "mempool", "reported", "out"}

Remote == [height : Height0..Len(Mined), filter : Bloom, pool : SUBSET Relayed]

(* v is s but for some fields. *)
Same(v, s, changed) == \A f \in Fields \ changed : v[f] = s[f]

(* What no invariant looks at; and a step that changes only that, and may     *)
(* ask the peer for hashes.                                                  *)
Idle == {"estimated", "lastOrphan", "syncing", "timer", "lastInv", "sentMempool", "mempool",
         "reported"}
AsksHashes(m) == m \in OutMsg /\ m.type \in {"getblocks", "mempool"}
Quiet(v, s) ==
    /\ v \in Node /\ Same(v, s, Idle \cup {"out"})
    /\ v.out = s.out \/ \E m : AsksHashes(m) /\ v.out = Append(s.out, m)

(* Block numbers. *)
LEMMA NumNat ==
    /\ Len(Mined) \in Nat /\ Height0 \in 0..Len(Mined) /\ Len(Mined) < TX_UNCONFIRMED
    /\ \A n \in Num : n \in Nat /\ n \in 0..Len(Mined)
    /\ \A n \in Num : Mined[n] \in Seq(Tx)
  BY SyncAssumption DEF Num

(* Sending keeps the types, and changes what is out alone; ... *)
LEMMA SendNode ==
    ASSUME NEW s \in Node, NEW m \in OutMsg
    PROVE  /\ Send(s, m) \in Node /\ Send(s, m).out = Append(s.out, m)
           /\ Same(Send(s, m), s, {"out"})
<1> DEFINE o == Append(s.out, m)
           v == [s EXCEPT !.out = o]
<1>1. s.out \in Seq(OutMsg)
  BY DEF Node
<1>2. o \in Seq(OutMsg)
  BY <1>1
<1>3. Send(s, m) = v
  BY Zenon DEF Send
<1> HIDE DEF o
<1>4. v \in Node /\ v.out = o /\ Same(v, s, {"out"})
  BY <1>2 DEF Node, Same, Fields
<1> QED
  BY <1>3, <1>4 DEF o

(* ... a ping also adds its callback. *)
LEMMA PingNode ==
    ASSUME NEW s \in Node, NEW c \in Callback
    PROVE  /\ SendPing(s, c) \in Node /\ SendPing(s, c).out = Append(s.out, [type |-> "ping"])
           /\ SendPing(s, c).pongs = Append(s.pongs, c)
           /\ Same(SendPing(s, c), s, {"out", "pongs"})
<1> DEFINE v == Send(s, [type |-> "ping"])
           p == Append(v.pongs, c)
           u == [v EXCEPT !.pongs = p]
<1>1. v \in Node /\ v.out = Append(s.out, [type |-> "ping"]) /\ Same(v, s, {"out"})
  BY SendNode DEF OutMsg
<1>2. SendPing(s, c) = u
  BY Zenon DEF SendPing
<1> HIDE DEF v
<1>3. v.pongs = s.pongs /\ v.pongs \in Seq(Callback)
  BY <1>1 DEF Same, Fields, Node
<1>4. p \in Seq(Callback)
  BY <1>3
<1> HIDE DEF p
<1>5. u \in Node /\ u.pongs = p /\ Same(u, v, {"pongs"})
  BY <1>1, <1>4 DEF Node, Same, Fields
<1>6. u.out = v.out
  BY <1>5 DEF Same, Fields
<1> HIDE DEF u
<1> QED
  BY <1>1, <1>2, <1>3, <1>5, <1>6 DEF Same, p

(* Asking for hashes, ... *)
LEMMA QuietSend ==
    ASSUME NEW s \in Node, NEW v \in Node, Same(v, s, Idle), NEW m, AsksHashes(m)
    PROVE  Quiet(v, s) /\ Quiet(Send(v, m), s)
<1>1. v.out = s.out
  BY DEF Same, Fields, Idle
<1>2. /\ Send(v, m) \in Node /\ Send(v, m).out = Append(v.out, m)
      /\ Same(Send(v, m), v, {"out"})
  BY SendNode DEF AsksHashes
<1>3. Same(Send(v, m), s, Idle \cup {"out"}) /\ Same(v, s, Idle \cup {"out"})
  BY <1>2 DEF Same
<1> QED
  BY <1>1, <1>2, <1>3 DEF Quiet

(* ... SendGetblocks ... *)
LEMMA GetblocksQuiet ==
    ASSUME NEW s \in Node
    PROVE  Quiet(SendGetblocks(s), s) /\ Same(SendGetblocks(s), s, {"out"})
<1> DEFINE m == [type |-> "getblocks", from |-> s.lastBlock]
<1>1. s.lastBlock \in 0..Len(Mined)
  BY DEF Node
<1>2. AsksHashes(m)
  BY <1>1 DEF AsksHashes, OutMsg
<1>3. SendGetblocks(s) = Send(s, m)
  BY Zenon DEF SendGetblocks
<1>4. Same(s, s, Idle) /\ m \in OutMsg
  BY <1>2 DEF Same, AsksHashes
<1> HIDE DEF m
<1> QED
  BY <1>2, <1>3, <1>4, QuietSend, SendNode

(* ... and SendMempool are quiet. *)
LEMMA MempoolQuiet ==
    ASSUME NEW s \in Node, NEW v \in Node, Same(v, s, Idle), NEW wantsCallback \in BOOLEAN
    PROVE  Quiet(SendMempool(v, wantsCallback), s)
<1> DEFINE x == [v EXCEPT !.sentMempool = TRUE]
           y == [v EXCEPT !.sentMempool = TRUE, !.mempool = wantsCallback]
           m == [type |-> "mempool"]
<1>1. x \in Node /\ y \in Node /\ Same(x, v, Idle) /\ Same(y, v, Idle)
  BY DEF Node, Same, Fields, Idle
<1>2. AsksHashes(m)
  BY DEF AsksHashes, OutMsg
<1>3. SendMempool(v, wantsCallback) = IF v.sentMempool \/ v.mempool THEN x ELSE Send(y, m)
  BY Zenon DEF SendMempool
<1> HIDE DEF x, y, m
<1>4. Same(x, s, Idle) /\ Same(y, s, Idle)
  BY <1>1 DEF Same
<1>5. Quiet(x, s) /\ Quiet(Send(y, m), s)
  BY <1>1, <1>2, <1>4, QuietSend
<1> QED
  BY <1>3, <1>5

(* KeepTimer ... *)
LEMMA TimerQuiet ==
    ASSUME NEW s \in Node, NEW isWalletTx \in BOOLEAN
    PROVE  /\ KeepTimer(s, isWalletTx) \in Node
           /\ Same(KeepTimer(s, isWalletTx), s, {"timer"})
<1> DEFINE b == IF s.syncing THEN s.timer \/ isWalletTx ELSE FALSE
<1>1. b \in BOOLEAN
  BY DEF Node
<1>2. KeepTimer(s, isWalletTx) = [s EXCEPT !.timer = b]
  BY Zenon DEF KeepTimer
<1> HIDE DEF b
<1> QED
  BY <1>1, <1>2 DEF Node, Same, Fields

(* ... and HasTxs change the timer alone. *)
LEMMA HasTxsQuiet ==
    ASSUME NEW s \in Node, NEW txs
    PROVE  HasTxs(s, txs) \in Node /\ Same(HasTxs(s, txs), s, {"timer"})
<1> DEFINE b == Range(txs) \cap Range(s.wallet.transactions) # {}
<1>1. HasTxs(s, txs) = IF txs = << >> THEN s ELSE KeepTimer(s, b)
  BY Zenon DEF HasTxs
<1>2. b \in BOOLEAN
  OBVIOUS
<1> HIDE DEF b
<1>3. KeepTimer(s, b) \in Node /\ Same(KeepTimer(s, b), s, {"timer"})
  BY <1>2, TimerQuiet
<1>4. Same(s, s, {"timer"})
  BY DEF Same
<1> QED
  BY <1>1, <1>3, <1>4

(* SendGetdata sends one message, unless it would ask for nothing. *)
LEMMA GetdataNode ==
    ASSUME NEW s \in Node, NEW txs \in Seq(Tx), NEW blocks \in Seq(Num)
    PROVE  LET v == SendGetdata(s, txs, blocks)
               m == [type |-> "getdata", txs |-> txs, blocks |-> blocks]
           IN  /\ v \in Node /\ m \in OutMsg /\ Same(v, s, {"out"})
               /\ \/ v.out = s.out /\ txs = << >> /\ blocks = << >>
                  \/ v.out = Append(s.out, m)
<1> DEFINE m == [type |-> "getdata", txs |-> txs, blocks |-> blocks]
           v == SendGetdata(s, txs, blocks)
<1>1. m \in OutMsg
  BY DEF OutMsg
<1>2. v = IF txs = << >> /\ blocks = << >> THEN s ELSE Send(s, m)
  BY Zenon DEF SendGetdata
<1> HIDE DEF m, v
<1>3. Send(s, m) \in Node /\ Send(s, m).out = Append(s.out, m) /\ Same(Send(s, m), s, {"out"})
  BY <1>1, SendNode
<1>4. Same(s, s, {"out"})
  BY DEF Same
<1>5. v \in Node /\ Same(v, s, {"out"})
  BY <1>2, <1>3, <1>4
<1>6. (v.out = s.out /\ txs = << >> /\ blocks = << >>) \/ v.out = Append(s.out, m)
  BY <1>2, <1>3
<1> QED
  BY <1>1, <1>5, <1>6 DEF m, v

(* RerequestBlocks asks for hashes that the node kept, or does nothing. *)
LEMMA RerequestNode ==
    ASSUME NEW s \in Node
    PROVE  LET v == RerequestBlocks(s)
           IN  \/ v = s
               \/ \E kept \in Seq(Num) :
                    /\ Range(kept) \subseteq Range(s.known)
                    /\ v \in Node /\ Same(v, s, {"known", "out"}) /\ v.known = kept
                    /\ [type |-> "getdata", txs |-> << >>, blocks |-> kept] \in OutMsg
                    /\ v.out = Append(s.out, [type |-> "getdata", txs |-> << >>, blocks |-> kept])
<1> DEFINE at == {i \in DOMAIN s.known : s.known[i] = s.lastBlock}
           k == Max(at)
           kept == SubSeq(s.known, k, Len(s.known))
           u == [s EXCEPT !.known = kept]
           e == << >>
           v == SendGetdata(u, e, kept)
           m == [type |-> "getdata", txs |-> e, blocks |-> kept]
<1>1. RerequestBlocks(s) = IF at = {} THEN s ELSE v
  BY Zenon DEF RerequestBlocks
<1>2. CASE at = {}
  BY <1>1, <1>2
<1>3. CASE at # {}
  <2>1. s.known \in Seq(Num)
    BY DEF Node
  <2>2. Len(s.known) \in Nat /\ at \in SUBSET (0..Len(s.known)) /\ at \subseteq 1..Len(s.known)
    BY <2>1
  <2> HIDE DEF at
  <2>3. k \in 1..Len(s.known)
    BY <1>3, <2>2, MaxIsGreatest
  <2> HIDE DEF k
  <2>4. /\ kept \in Seq(Num) /\ Len(kept) > 0
        /\ \A i \in 1..Len(kept) : \E j \in 1..Len(s.known) : kept[i] = s.known[j]
    <3>1. Len(kept) = Len(s.known) - k + 1
      BY <2>1, <2>3
    <3>2. \A i \in 1..Len(kept) : kept[i] = s.known[k + i - 1] /\ k + i - 1 \in 1..Len(s.known)
      BY <2>1, <2>3
    <3>3. kept \in Seq(Num)
      BY <2>1, <2>3
    <3> QED
      BY <2>2, <2>3, <3>1, <3>2, <3>3
  <2>5. Range(kept) \subseteq Range(s.known) /\ kept # << >>
    <3>1. DOMAIN kept = 1..Len(kept) /\ DOMAIN s.known = 1..Len(s.known)
      BY <2>1, <2>4
    <3> HIDE DEF kept
    <3>2. Range(kept) \subseteq Range(s.known)
      BY <2>4, <3>1 DEF Range
    <3> QED
      BY <2>4, <3>2
  <2> HIDE DEF kept
  <2>6. u \in Node /\ u.known = kept /\ Same(u, s, {"known"})
    BY <2>4 DEF Node, Same, Fields
  <2> HIDE DEF u
  <2>7. u.out = s.out
    BY <2>6 DEF Same, Fields
  <2>8. e \in Seq(Tx)
    OBVIOUS
  <2> HIDE DEF e
  <2>9. v \in Node /\ m \in OutMsg /\ Same(v, u, {"out"}) /\ (kept = << >> \/ v.out = Append(u.out, m))
    BY <2>4, <2>6, <2>8, GetdataNode
  <2> HIDE DEF v
  <2>10. v.known = kept
    BY <2>6, <2>9 DEF Same, Fields
  <2>11. Same(v, s, {"known", "out"})
    BY <2>6, <2>9 DEF Same
  <2>12. v.out = Append(s.out, m)
    BY <2>5, <2>7, <2>9
  <2>13. RerequestBlocks(s) = v
    BY <1>1, <1>3
  <2> QED
    BY <2>4, <2>5, <2>9, <2>10, <2>11, <2>12, <2>13 DEF e
<1> QED
  BY <1>2, <1>3

(* An output that pays an address of a set. *)
PaysTo(u, addrs) == u \in Output /\ Outputs[u[1]][u[2] + 1].address \in addrs

(* What PaidTo adds pays the addresses. *)
LEMMA PaidToPays ==
    ASSUME NEW t \in Tx, NEW addrs, NEW u \in PaidTo(t, addrs)
    PROVE  PaysTo(u, addrs) /\ u[1] = t /\ Pays(t, addrs)
<1>1. PICK i \in DOMAIN Outputs[t] : u = <<t, i - 1>> /\ Outputs[t][i].address \in addrs
  BY DEF PaidTo, Utxo
<1>2. i \in Nat /\ i > 0
  BY OutputsType
<1>3. u[1] = t /\ u[2] = i - 1 /\ u[2] + 1 = i
  BY <1>1, <1>2
<1>4. u \in Output
  BY <1>1, <1>2, <1>3 DEF Output
<1> QED
  BY <1>1, <1>3, <1>4 DEF PaysTo, Pays

(* What the filter is loaded with. *)
Watched(w) == Range(w.utxos) \cup SpentOutputs(w)

(* A filter is made of addresses and outputs of the wallet. *)
LEMMA WatchedOwn ==
    ASSUME NEW w, Purse(w)
    PROVE  /\ Filter(w, Watched(w)) \in Bloom
           /\ \A u \in Watched(w) : PaysTo(u, AllAddrs(w)) /\ u[1] \in w.allTx
<1> DEFINE L == Range(w.transactions)
<1>1. w \in Wallet /\ Ledger(w, L) /\ L \subseteq w.allTx /\ w.allTx \subseteq Tx
  <2>1. w \in Wallet /\ Ledger(w, L) /\ L \subseteq w.allTx
    BY DEF Purse, WalletOK, Shape, InOrder, LedgerOK
  <2> QED
    BY <2>1, WalletFields
<1>2. ASSUME NEW u \in Range(w.utxos) PROVE PaysTo(u, AllAddrs(w)) /\ u[1] \in w.allTx
  <2>1. u \in PaidBy(CountedOf(w, L), w.ledgerAddrs)
    BY <1>1 DEF Ledger
  <2>2. PICK t \in L : u \in PaidTo(t, w.ledgerAddrs)
    BY <2>1 DEF PaidBy, CountedOf
  <2>3. PaysTo(u, w.ledgerAddrs) /\ u[1] = t
    BY <1>1, <2>2, PaidToPays
  <2> QED
    BY <1>1, <2>2, <2>3 DEF PaysTo, Purse
<1>3. ASSUME NEW u \in SpentOutputs(w) PROVE PaysTo(u, AllAddrs(w)) /\ u[1] \in w.allTx
  <2>1. u[1] \in w.allTx /\ u \in Range(Received(w, u[1]))
    BY DEF SpentOutputs
  <2>2. u \in PaidTo(u[1], AllAddrs(w))
    BY <1>1, <2>1, ReceivedList
  <2> QED
    BY <1>1, <2>1, <2>2, PaidToPays
<1>4. \A u \in Watched(w) : PaysTo(u, AllAddrs(w)) /\ u[1] \in w.allTx
  BY <1>2, <1>3 DEF Watched
<1>5. Filter(w, Watched(w)) \in Bloom
  <2> DEFINE A == AllAddrs(w)
             O == Watched(w)
  <2>1. A \in SUBSET (Chains \X Nat)
    BY <1>1, AllAddrsType
  <2>4. O \in SUBSET Output
    BY <1>4 DEF PaysTo
  <2>5. Filter(w, O) = [addrs |-> A, outs |-> O, none |-> FALSE]
    BY Zenon DEF Filter
  <2> HIDE DEF A, O
  <2> QED
    BY <2>1, <2>4, <2>5 DEF Bloom, O
<1> QED
  BY <1>4, <1>5

(* LoadBloomFilter, field by field. *)
LEMMA LoadNode ==
    ASSUME NEW s \in Node, Purse(s.wallet)
    PROVE  LET v == LoadBloomFilter(s)
               w == GrowChains(s.wallet, Spare)
               m == [type |-> "filterload", filter |-> Filter(w, Watched(w))]
           IN  /\ v \in Node /\ m \in OutMsg
               /\ v.wallet = w /\ v.filter = m.filter /\ v.orphans = {}
               /\ v.out = Append(s.out, m)
               /\ Same(v, s, {"wallet", "filter", "orphans", "lastOrphan", "sentMempool", "out"})
<1> DEFINE w == GrowChains(s.wallet, Spare)
           filter == Filter(w, Watched(w))
           m == [type |-> "filterload", filter |-> filter]
           u == [s EXCEPT !.wallet = w, !.filter = filter, !.orphans = {},
                          !.lastOrphan = 0, !.sentMempool = FALSE]
           v == LoadBloomFilter(s)
<1>1. v = Send(u, m)
  BY Zenon DEF LoadBloomFilter, Watched
<1>2. Purse(w)
  BY PurseCounted, CountedGrows, SyncAssumption
<1>3. w \in Wallet /\ filter \in Bloom
  BY <1>2, PurseCounted, WatchedOwn
<1>4. m \in OutMsg /\ m.filter = filter
  BY <1>3 DEF OutMsg
<1> HIDE DEF w, filter, m, v
<1>5. /\ u \in Node /\ u.wallet = w /\ u.filter = filter /\ u.orphans = {}
      /\ Same(u, s, {"wallet", "filter", "orphans", "lastOrphan", "sentMempool"})
  BY <1>3 DEF Node, Same, Fields
<1> HIDE DEF u
<1>6. u.out = s.out
  BY <1>5 DEF Same, Fields
<1>7. v \in Node /\ v.out = Append(u.out, m) /\ Same(v, u, {"out"})
  BY <1>1, <1>4, <1>5, SendNode
<1>8. v.wallet = w /\ v.filter = filter /\ v.orphans = {}
  BY <1>5, <1>7 DEF Same, Fields
<1>9. Same(v, s, {"wallet", "filter", "orphans", "lastOrphan", "sentMempool", "out"})
  BY <1>5, <1>7 DEF Same
<1> QED
  BY <1>4, <1>6, <1>7, <1>8, <1>9 DEF m, filter, w, v

-----------------------------------------------------------------------------
(* What is under way.  The messages of q, from the peer, come before those    *)
(* the answers to out, to the peer, will bring.                              *)

(* What must not be missed: the transactions of the chain that pay the wallet *)
(* or spend from it.                                                         *)
Wanted ==
    {t \in Tx : (OursPaid(t) \/ OursSpent(t)) /\ \E n \in Num : t \in Range(Mined[n])}

(* A parent of a mined transaction is mined, no later. *)
LEMMA ParentsMined ==
    ASSUME NEW n \in Num, NEW t \in Range(Mined[n]), NEW p \in Parents(t)
    PROVE  \E m \in 1..n : p \in Range(Mined[m])
<1>1. DOMAIN Mined = Num /\ n \in Nat \ {0} /\ Mined[n] \in Seq(Tx)
  BY SyncAssumption, NumNat DEF Num
<1>2. PICK k \in DOMAIN Mined[n] : t = Mined[n][k]
  BY DEF Range
<1>3. \/ \E m \in 1..(n - 1) : p \in Range(Mined[m])
      \/ \E j \in 1..(k - 1) : Mined[n][j] = p
  BY <1>1, <1>2, ChainAssumption
<1>4. CASE \E m \in 1..(n - 1) : p \in Range(Mined[m])
  <2>1. \A m \in 1..(n - 1) : m \in 1..n
    BY <1>1
  <2> QED
    BY <1>4, <2>1
<1>5. CASE \E j \in 1..(k - 1) : Mined[n][j] = p
  <2>1. \A j \in 1..(k - 1) : j \in DOMAIN Mined[n]
    BY <1>1, <1>2
  <2>2. p \in Range(Mined[n]) /\ n \in 1..n
    BY <1>1, <1>5, <2>1 DEF Range
  <2> QED
    BY <2>2
<1> QED
  BY <1>3, <1>4, <1>5

(* The transaction is in block n or an earlier one. *)
MinedBy(t, n) == \E m \in Num : m <= n /\ t \in Range(Mined[m])

Carries(m, t) == m.type = "tx" /\ m.tx = t
NamesTx(m, t) == m.type = "inv" /\ t \in Range(m.txs)
AsksTx(m, t) == m.type = "getdata" /\ t \in Range(m.txs)
(* The message is, names or asks for the block of t or a later one. *)
BlockOf(m, t) == m.type = "merkleblock" /\ MinedBy(t, m.block.height)
NamesBlockOf(m, t) == m.type = "inv" /\ \E n \in Range(m.blocks) : MinedBy(t, n)
AsksBlockOf(m, t) == m.type = "getdata" /\ \E n \in Range(m.blocks) : MinedBy(t, n)

CarriedIn(q, k) == {t \in Tx : \E j \in 1..k : Carries(q[j], t)}
NamedIn(q, k) == {t \in Tx : \E j \in 1..k : NamesTx(q[j], t)}
AskedIn(o, k) == {t \in Tx : \E j \in 1..k : AsksTx(o[j], t)}
Carried(q) == CarriedIn(q, Len(q))
Named(q) == NamedIn(q, Len(q))
Before(txs, k) == {txs[j] : j \in 1..(k - 1)}

(* A transaction will be recognised as the wallet's, when those of P are in   *)
(* the wallet: it pays a known address, or spends an output that does.       *)
Backed(t, A, P) ==
    Pays(t, A) \/ \E u \in Inputs[t] : PaysTo(u, A) /\ u[1] \in P
BackedTxs(txs, A, P) ==
    \A k \in 1..Len(txs) : txs[k] \in Wanted => Backed(txs[k], A, P \cup Before(txs, k))

(* Every block number under way is on the chain, and a message that names or  *)
(* asks for transactions does not for blocks.                                *)
InChain(m, h) ==
    /\ m.type = "merkleblock" => m.block.height <= h
    /\ m.type \in {"inv", "getdata"} =>
          (m.txs = << >> \/ m.blocks = << >>) /\ \A n \in Range(m.blocks) : n <= h
HeightsOK(known, q, o, h) ==
    /\ \A n \in Range(known) : n <= h
    /\ \A i \in 1..Len(q) : InChain(q[i], h)
    /\ \A i \in 1..Len(o) : InChain(o[i], h)

(* A payment that is announced comes before its block and the later ones. *)
NamedFresh(known, q, o) ==
    \A i \in 1..Len(q) : \A t \in Wanted : NamesTx(q[i], t) =>
        /\ \A n \in Range(known) : ~MinedBy(t, n)
        /\ \A j \in 1..Len(q) : ~BlockOf(q[j], t) /\ (j <= i => ~NamesBlockOf(q[j], t))
        /\ \A j \in 1..Len(o) : ~AsksBlockOf(o[j], t)

(* A payment the node will not wait for with its block is in the wallet, or   *)
(* comes before the block.                                                   *)
CarriedFirst(t, q) ==
    \E j \in 1..Len(q) : Carries(q[j], t) /\ \A i \in 1..j : ~BlockOf(q[i], t)
AskedFirst(t, q, o) ==
    \E j \in 1..Len(o) :
      /\ AsksTx(o[j], t) /\ \A i \in 1..j : ~AsksBlockOf(o[i], t)
      /\ \A i \in 1..Len(q) : ~BlockOf(q[i], t)
KnownInTime(knownTx, L, q, o) ==
    \A t \in knownTx \cap Wanted : t \in L \/ CarriedFirst(t, q) \/ AskedFirst(t, q, o)

(* Wanted come after those they spend from. *)
CarriedBacked(A, L, q) ==
    \A i \in 1..Len(q) : \A t \in Wanted : Carries(q[i], t) =>
        Backed(t, A, L \cup CarriedIn(q, i - 1))
AskedBacked(A, L, q, o) ==
    \A i \in 1..Len(o) : o[i].type = "getdata" =>
        BackedTxs(o[i].txs, A, L \cup Carried(q) \cup AskedIn(o, i - 1))
NamedBacked(A, L, knownTx, q) ==
    \A i \in 1..Len(q) : q[i].type = "inv" =>
        BackedTxs(q[i].txs, A, L \cup knownTx \cup Carried(q) \cup NamedIn(q, i - 1))

(* The outputs a filter watches are those of addresses of the wallet, in      *)
(* transactions that were announced or sent.                                 *)
WatchesOwn(outs, A, P) ==
    \A u \in outs : PaysTo(u, A) /\ (u[1] \in Wanted => u[1] \in P)
OutsOK(A, L, knownTx, q, o, outs) ==
    /\ WatchesOwn(outs, A, L \cup knownTx \cup Carried(q) \cup Named(q))
    /\ \A i \in 1..Len(o) : o[i].type = "filterload" => WatchesOwn(o[i].filter.outs, A, L)

Traffic(A, L, known, knownTx, q, o, outs, h) ==
    /\ HeightsOK(known, q, o, h) /\ NamedFresh(known, q, o) /\ KnownInTime(knownTx, L, q, o)
    /\ CarriedBacked(A, L, q) /\ AskedBacked(A, L, q, o) /\ NamedBacked(A, L, knownTx, q)
    /\ OutsOK(A, L, knownTx, q, o, outs)

(* Positions. *)
LEMMA AppendAt ==
    ASSUME NEW S, NEW q \in Seq(S), NEW m \in S
    PROVE  /\ Append(q, m) \in Seq(S) /\ Len(Append(q, m)) = Len(q) + 1 /\ Len(q) \in Nat
           /\ \A i \in 1..Len(q) : i \in 1..(Len(q) + 1) /\ Append(q, m)[i] = q[i]
           /\ Append(q, m)[Len(q) + 1] = m
           /\ \A i \in 1..(Len(q) + 1) : i \in 1..Len(q) \/ i = Len(q) + 1
  OBVIOUS

(* The elements of a tail, ... *)
LEMMA TailAt ==
    ASSUME NEW S, NEW q \in Seq(S), q # << >>
    PROVE  /\ Tail(q) \in Seq(S) /\ Len(Tail(q)) = Len(q) - 1 /\ Len(q) \in Nat \ {0}
           /\ Head(q) = q[1] /\ 1 \in 1..Len(q)
           /\ \A i \in 1..(Len(q) - 1) : i + 1 \in 1..Len(q) /\ Tail(q)[i] = q[i + 1]
           /\ \A i \in 1..Len(q) : i = 1 \/ (i - 1 \in 1..(Len(q) - 1) /\ Tail(q)[i - 1] = q[i])
<1>1. Len(q) \in Nat \ {0}
  OBVIOUS
<1>2. Tail(q) \in Seq(S) /\ Len(Tail(q)) = Len(q) - 1 /\ Head(q) = q[1] /\ 1 \in 1..Len(q)
  BY <1>1
<1>3. \A i \in 1..(Len(q) - 1) : i + 1 \in 1..Len(q) /\ Tail(q)[i] = q[i + 1]
  BY <1>1
<1>4. \A i \in 1..Len(q) : i = 1 \/ (i - 1 \in 1..(Len(q) - 1) /\ Tail(q)[i - 1] = q[i])
  <2> SUFFICES ASSUME NEW i \in 1..Len(q), i # 1
               PROVE  i - 1 \in 1..(Len(q) - 1) /\ Tail(q)[i - 1] = q[i]
    OBVIOUS
  <2>1. i - 1 \in 1..(Len(q) - 1) /\ (i - 1) + 1 = i
    BY <1>1
  <2>2. Tail(q)[i - 1] = q[(i - 1) + 1]
    BY <1>3, <2>1
  <2> QED
    BY <2>1, <2>2
<1> QED
  BY <1>1, <1>2, <1>3, <1>4

(* ... and of a concatenation. *)
LEMMA ConcatAt ==
    ASSUME NEW S, NEW a \in Seq(S), NEW b \in Seq(S)
    PROVE  /\ a \o b \in Seq(S) /\ Len(a \o b) = Len(a) + Len(b) /\ Len(a) \in Nat /\ Len(b) \in Nat
           /\ \A i \in 1..Len(a) : i \in 1..(Len(a) + Len(b)) /\ (a \o b)[i] = a[i]
           /\ \A i \in 1..Len(b) : /\ Len(a) + i \in 1..(Len(a) + Len(b))
                                   /\ (a \o b)[Len(a) + i] = b[i]
           /\ \A i \in 1..(Len(a) + Len(b)) :
                 i \in 1..Len(a) \/ (i - Len(a) \in 1..Len(b) /\ (a \o b)[i] = b[i - Len(a)])
<1>1. Len(a) \in Nat /\ Len(b) \in Nat
  OBVIOUS
<1>2. a \o b \in Seq(S) /\ Len(a \o b) = Len(a) + Len(b)
  OBVIOUS
<1>3. \A i \in 1..Len(a) : i \in 1..(Len(a) + Len(b)) /\ (a \o b)[i] = a[i]
  BY <1>1
<1>4. \A i \in 1..Len(b) : Len(a) + i \in 1..(Len(a) + Len(b)) /\ (a \o b)[Len(a) + i] = b[i]
  BY <1>1
<1>5. ASSUME NEW i \in 1..(Len(a) + Len(b)), i \notin 1..Len(a)
      PROVE  i - Len(a) \in 1..Len(b) /\ (a \o b)[i] = b[i - Len(a)]
  <2>1. i - Len(a) \in 1..Len(b) /\ Len(a) + (i - Len(a)) = i
    BY <1>1, <1>5
  <2>2. (a \o b)[Len(a) + (i - Len(a))] = b[i - Len(a)]
    BY <1>4, <2>1
  <2> QED
    BY <2>1, <2>2
<1> QED
  BY <1>1, <1>2, <1>3, <1>4, <1>5

(* More addresses and more transactions back what fewer did, ... *)
LEMMA BackedGrows ==
    ASSUME NEW A, NEW B, A \subseteq B, NEW P, NEW Q, P \subseteq Q
    PROVE  /\ \A t : Backed(t, A, P) => Backed(t, B, Q)
           /\ \A txs : BackedTxs(txs, A, P) => BackedTxs(txs, B, Q)
           /\ \A outs : WatchesOwn(outs, A, P) => WatchesOwn(outs, B, Q)
<1>1. \A u : PaysTo(u, A) => PaysTo(u, B)
  BY DEF PaysTo
<1>2. ASSUME NEW X, NEW Y, X \subseteq Y, NEW t, Backed(t, A, X) PROVE Backed(t, B, Y)
  <2>1. Pays(t, A) => Pays(t, B)
    BY DEF Pays
  <2> QED
    BY <1>1, <1>2, <2>1 DEF Backed
<1>3. \A txs, k : P \cup Before(txs, k) \subseteq Q \cup Before(txs, k)
  OBVIOUS
<1>4. \A txs : BackedTxs(txs, A, P) => BackedTxs(txs, B, Q)
  BY <1>2, <1>3 DEF BackedTxs
<1>5. \A outs : WatchesOwn(outs, A, P) => WatchesOwn(outs, B, Q)
  BY <1>1 DEF WatchesOwn
<1> QED
  BY <1>2, <1>4, <1>5

(* What is in a block stays there when the chain grows. *)
LEMMA MinedByGrows ==
    ASSUME NEW t, NEW n \in Nat, NEW h \in Nat, n <= h, MinedBy(t, n)
    PROVE  MinedBy(t, h)
<1>1. \A m \in Num : m \in Nat
  BY NumNat
<1> QED
  BY <1>1 DEF MinedBy

(* No block up to the height has t: no message names its block. *)
LEMMA InChainFresh ==
    ASSUME NEW h \in Nat, NEW t, ~MinedBy(t, h)
    PROVE  /\ \A m \in InMsg : InChain(m, h) => ~BlockOf(m, t) /\ ~NamesBlockOf(m, t)
           /\ \A m \in OutMsg : InChain(m, h) => ~AsksBlockOf(m, t)
           /\ \A s \in Seq(Num) : (\A n \in Range(s) : n <= h) => \A n \in Range(s) : ~MinedBy(t, n)
<1>1. \A s \in Seq(Num) : Range(s) \subseteq Nat
  BY NumNat DEF Range
<1>2. ASSUME NEW m \in InMsg, InChain(m, h) PROVE ~BlockOf(m, t) /\ ~NamesBlockOf(m, t)
  <2>1. CASE m.type = "merkleblock"
    <3>1. m.block.height \in Nat /\ m.block.height <= h
      BY <1>2, <2>1, NumNat DEF InMsg, InChain, Block
    <3> QED
      BY <2>1, <3>1, MinedByGrows DEF BlockOf, NamesBlockOf
  <2>2. CASE m.type = "inv"
    <3>1. m.blocks \in Seq(Num)
      BY <2>2 DEF InMsg
    <3>2. \A n \in Range(m.blocks) : n \in Nat /\ n <= h
      BY <1>1, <1>2, <2>2, <3>1 DEF InChain
    <3> QED
      BY <2>2, <3>2, MinedByGrows DEF BlockOf, NamesBlockOf
  <2> QED
    BY <2>1, <2>2 DEF BlockOf, NamesBlockOf
<1>3. ASSUME NEW m \in OutMsg, InChain(m, h) PROVE ~AsksBlockOf(m, t)
  <2>1. CASE m.type = "getdata"
    <3>1. m.blocks \in Seq(Num)
      BY <2>1 DEF OutMsg
    <3>2. \A n \in Range(m.blocks) : n \in Nat /\ n <= h
      BY <1>1, <1>3, <2>1, <3>1 DEF InChain
    <3> QED
      BY <2>1, <3>2, MinedByGrows DEF AsksBlockOf
  <2> QED
    BY <2>1 DEF AsksBlockOf
<1>4. \A s \in Seq(Num) : (\A n \in Range(s) : n <= h) => \A n \in Range(s) : ~MinedBy(t, n)
  BY <1>1, MinedByGrows
<1> QED
  BY <1>2, <1>3, <1>4

(* ... with the same addresses. *)
LEMMA BackedByMore ==
    ASSUME NEW A, NEW P, NEW Q, P \subseteq Q
    PROVE  /\ \A t : Backed(t, A, P) => Backed(t, A, Q)
           /\ \A txs : BackedTxs(txs, A, P) => BackedTxs(txs, A, Q)
           /\ \A outs : WatchesOwn(outs, A, P) => WatchesOwn(outs, A, Q)
<1>1. A \subseteq A
  OBVIOUS
<1> QED
  BY <1>1, BackedGrows

(* What Traffic allows to happen: the wallet grows, ... *)
LEMMA TrafficGrows ==
    ASSUME NEW A, NEW B, A \subseteq B, NEW L, NEW M, L \subseteq M,
           NEW known, NEW knownTx, NEW q, NEW o, NEW outs, NEW h,
           Traffic(A, L, known, knownTx, q, o, outs, h)
    PROVE  Traffic(B, M, known, knownTx, q, o, outs, h)
<1>1. \A P, t : Backed(t, A, L \cup P) => Backed(t, B, M \cup P)
  BY BackedGrows
<1>2. \A P, txs : BackedTxs(txs, A, L \cup P) => BackedTxs(txs, B, M \cup P)
  BY BackedGrows
<1>3. \A P, us : WatchesOwn(us, A, L \cup P) => WatchesOwn(us, B, M \cup P)
  BY BackedGrows
<1>4. \A us : WatchesOwn(us, A, L) => WatchesOwn(us, B, M)
  BY BackedGrows
<1>5. KnownInTime(knownTx, M, q, o)
  BY DEF Traffic, KnownInTime
<1>6. CarriedBacked(B, M, q)
  BY <1>1 DEF Traffic, CarriedBacked
<1>7. AskedBacked(B, M, q, o)
  <2>1. \A i : L \cup Carried(q) \cup AskedIn(o, i) = L \cup (Carried(q) \cup AskedIn(o, i))
           /\ M \cup Carried(q) \cup AskedIn(o, i) = M \cup (Carried(q) \cup AskedIn(o, i))
    OBVIOUS
  <2> QED
    BY <1>2, <2>1 DEF Traffic, AskedBacked
<1>8. NamedBacked(B, M, knownTx, q)
  <2> DEFINE P(i) == knownTx \cup Carried(q) \cup NamedIn(q, i - 1)
  <2>1. \A i : L \cup knownTx \cup Carried(q) \cup NamedIn(q, i - 1) = L \cup P(i)
           /\ M \cup knownTx \cup Carried(q) \cup NamedIn(q, i - 1) = M \cup P(i)
    OBVIOUS
  <2> HIDE DEF P
  <2> QED
    BY <1>2, <2>1 DEF Traffic, NamedBacked
<1>9. OutsOK(B, M, knownTx, q, o, outs)
  <2> DEFINE P == knownTx \cup Carried(q) \cup Named(q)
  <2>1. /\ L \cup knownTx \cup Carried(q) \cup Named(q) = L \cup P
        /\ M \cup knownTx \cup Carried(q) \cup Named(q) = M \cup P
    OBVIOUS
  <2> HIDE DEF P
  <2> QED
    BY <1>3, <1>4, <2>1 DEF Traffic, OutsOK
<1> QED
  BY <1>5, <1>6, <1>7, <1>8, <1>9 DEF Traffic

(* ... the node sends a message, ... *)
LEMMA TrafficAsks ==
    ASSUME NEW A, NEW L, NEW known, NEW knownTx, NEW q \in Seq(InMsg), NEW o \in Seq(OutMsg),
           NEW outs, NEW h, Traffic(A, L, known, knownTx, q, o, outs, h),
           NEW m \in OutMsg, InChain(m, h),
           \A i \in 1..Len(q) : \A t \in Wanted : NamesTx(q[i], t) => ~AsksBlockOf(m, t),
           m.type = "getdata" =>
              BackedTxs(m.txs, A, L \cup Carried(q) \cup AskedIn(o, Len(o))),
           m.type = "filterload" => WatchesOwn(m.filter.outs, A, L)
    PROVE  Traffic(A, L, known, knownTx, q, Append(o, m), outs, h)
<1> DEFINE p == Append(o, m)
           N == Len(o)
<1>1. /\ p \in Seq(OutMsg) /\ Len(p) = N + 1 /\ N \in Nat
      /\ \A i \in 1..N : i \in 1..(N + 1) /\ p[i] = o[i]
      /\ p[N + 1] = m
      /\ \A i \in 1..(N + 1) : i \in 1..N \/ i = N + 1
  BY AppendAt
<1> HIDE DEF p, N
<1>2. HeightsOK(known, q, p, h)
  BY <1>1 DEF Traffic, HeightsOK, N
<1>3. NamedFresh(known, q, p)
  BY <1>1 DEF Traffic, NamedFresh, N
<1>4. \A t : AskedFirst(t, q, o) => AskedFirst(t, q, p)
  <2> SUFFICES ASSUME NEW t, AskedFirst(t, q, o) PROVE AskedFirst(t, q, p)
    OBVIOUS
  <2>1. PICK j \in 1..N : /\ AsksTx(o[j], t) /\ \A i \in 1..j : ~AsksBlockOf(o[i], t)
                          /\ \A i \in 1..Len(q) : ~BlockOf(q[i], t)
    BY DEF AskedFirst, N
  <2>2. \A i \in 1..j : i \in 1..N
    BY <1>1
  <2>3. j \in 1..Len(p) /\ AsksTx(p[j], t) /\ \A i \in 1..j : ~AsksBlockOf(p[i], t)
    BY <1>1, <2>1, <2>2
  <2> QED
    BY <2>1, <2>3 DEF AskedFirst
<1>5. KnownInTime(knownTx, L, q, p)
  BY <1>4 DEF Traffic, KnownInTime
<1>6. AskedBacked(A, L, q, p)
  <2>1. \A k \in 0..N : AskedIn(p, k) = AskedIn(o, k)
    <3>1. \A k \in 0..N : \A j \in 1..k : p[j] = o[j]
      BY <1>1
    <3> QED
      BY <3>1 DEF AskedIn
  <2> SUFFICES ASSUME NEW i \in 1..(N + 1), p[i].type = "getdata"
               PROVE  BackedTxs(p[i].txs, A, L \cup Carried(q) \cup AskedIn(p, i - 1))
    BY <1>1 DEF AskedBacked
  <2>2. i - 1 \in 0..N
    BY <1>1
  <2>3. CASE i \in 1..N
    BY <1>1, <2>1, <2>2, <2>3 DEF Traffic, AskedBacked, N
  <2>4. CASE i = N + 1
    <3>1. i - 1 = N
      BY <1>1, <2>4
    <3> QED
      BY <1>1, <2>1, <2>2, <2>4, <3>1 DEF N
  <2> QED
    BY <1>1, <2>3, <2>4
<1>7. OutsOK(A, L, knownTx, q, p, outs)
  BY <1>1 DEF Traffic, OutsOK, N
<1> QED
  BY <1>2, <1>3, <1>5, <1>6, <1>7 DEF Traffic, p

(* ... or the peer does, ... *)
LEMMA TrafficSends ==
    ASSUME NEW A, NEW L, NEW known \in Seq(Num), NEW knownTx, NEW q \in Seq(InMsg),
           NEW o \in Seq(OutMsg), NEW outs, NEW h \in Nat,
           Traffic(A, L, known, knownTx, q, o, outs, h),
           NEW m \in InMsg, InChain(m, h),
           \A t \in Wanted : NamesTx(m, t) => ~MinedBy(t, h),
           \A t \in Wanted : BlockOf(m, t) => Len(o) > 0 /\ AsksBlockOf(o[1], t),
           \A t \in Wanted : Carries(m, t) => Backed(t, A, L \cup Carried(q)),
           m.type = "inv" => BackedTxs(m.txs, A, L \cup knownTx \cup Carried(q) \cup Named(q))
    PROVE  Traffic(A, L, known, knownTx, Append(q, m), o, outs, h)
<1> DEFINE r == Append(q, m)
           N == Len(q)
<1>1. /\ r \in Seq(InMsg) /\ Len(r) = N + 1 /\ N \in Nat
      /\ \A i \in 1..N : i \in 1..(N + 1) /\ r[i] = q[i]
      /\ r[N + 1] = m
      /\ \A i \in 1..(N + 1) : i \in 1..N \/ i = N + 1
  BY AppendAt
<1> HIDE DEF r, N
<1>2. HeightsOK(known, r, o, h)
  BY <1>1 DEF Traffic, HeightsOK, N
<1>3. /\ \A k \in 0..N : CarriedIn(r, k) = CarriedIn(q, k) /\ NamedIn(r, k) = NamedIn(q, k)
      /\ Carried(q) \subseteq Carried(r) /\ Named(q) \subseteq Named(r)
      /\ Carried(q) = CarriedIn(q, N) /\ Named(q) = NamedIn(q, N) /\ N \in 0..N
  <2>1. \A k \in 0..N : \A j \in 1..k : r[j] = q[j]
    BY <1>1
  <2>2. \A k \in 0..N : CarriedIn(r, k) = CarriedIn(q, k) /\ NamedIn(r, k) = NamedIn(q, k)
    BY <2>1 DEF CarriedIn, NamedIn
  <2>3. Carried(q) \subseteq Carried(r) /\ Named(q) \subseteq Named(r)
    BY <1>1 DEF Carried, Named, CarriedIn, NamedIn, N
  <2>4. Carried(q) = CarriedIn(q, N) /\ Named(q) = NamedIn(q, N)
    BY DEF Carried, Named, N
  <2> QED
    BY <1>1, <2>2, <2>3, <2>4
<1>4. NamedFresh(known, r, o)
  <2> SUFFICES ASSUME NEW i \in 1..(N + 1), NEW t \in Wanted, NamesTx(r[i], t)
               PROVE  /\ \A n \in Range(known) : ~MinedBy(t, n)
                      /\ \A j \in 1..(N + 1) :
                            ~BlockOf(r[j], t) /\ (j <= i => ~NamesBlockOf(r[j], t))
                      /\ \A j \in 1..Len(o) : ~AsksBlockOf(o[j], t)
    BY <1>1 DEF NamedFresh
  <2>1. CASE i \in 1..N
    <3>1. /\ \A n \in Range(known) : ~MinedBy(t, n)
          /\ \A j \in 1..N : ~BlockOf(q[j], t) /\ (j <= i => ~NamesBlockOf(q[j], t))
          /\ \A j \in 1..Len(o) : ~AsksBlockOf(o[j], t)
      BY <1>1, <2>1 DEF Traffic, NamedFresh, N
    <3>2. Len(o) \in Nat
      OBVIOUS
    <3>3. ~BlockOf(m, t)
      BY <3>1, <3>2
    <3>4. ~(N + 1 <= i)
      BY <1>1, <2>1
    <3> QED
      BY <1>1, <3>1, <3>3, <3>4
  <2>2. CASE i = N + 1
    <3>1. ~MinedBy(t, h)
      BY <1>1, <2>2
    <3>2. \A n \in Range(known) : ~MinedBy(t, n)
      BY <1>2, <3>1, InChainFresh DEF HeightsOK
    <3>3. \A j \in 1..(N + 1) : r[j] \in InMsg /\ InChain(r[j], h)
      BY <1>1, <1>2 DEF HeightsOK
    <3>4. \A j \in 1..(N + 1) : ~BlockOf(r[j], t) /\ ~NamesBlockOf(r[j], t)
      BY <3>1, <3>3, InChainFresh
    <3>5. \A j \in 1..Len(o) : o[j] \in OutMsg /\ InChain(o[j], h)
      BY <1>2 DEF HeightsOK
    <3>6. \A j \in 1..Len(o) : ~AsksBlockOf(o[j], t)
      BY <3>1, <3>5, InChainFresh
    <3> QED
      BY <3>2, <3>4, <3>6
  <2> QED
    BY <1>1, <2>1, <2>2
<1>5. KnownInTime(knownTx, L, r, o)
  <2> SUFFICES ASSUME NEW t \in knownTx \cap Wanted
               PROVE  t \in L \/ CarriedFirst(t, r) \/ AskedFirst(t, r, o)
    BY DEF KnownInTime
  <2>1. t \in L \/ CarriedFirst(t, q) \/ AskedFirst(t, q, o)
    BY DEF Traffic, KnownInTime
  <2>2. ASSUME CarriedFirst(t, q) PROVE CarriedFirst(t, r)
    <3>1. PICK j \in 1..N : Carries(q[j], t) /\ \A i \in 1..j : ~BlockOf(q[i], t)
      BY <2>2 DEF CarriedFirst, N
    <3>2. j \in 1..(N + 1) /\ r[j] = q[j] /\ \A i \in 1..j : r[i] = q[i]
      BY <1>1
    <3> QED
      BY <1>1, <3>1, <3>2 DEF CarriedFirst
  <2>3. ASSUME AskedFirst(t, q, o) PROVE AskedFirst(t, r, o)
    <3>1. PICK j \in 1..Len(o) : /\ AsksTx(o[j], t) /\ \A i \in 1..j : ~AsksBlockOf(o[i], t)
                                 /\ \A i \in 1..N : ~BlockOf(q[i], t)
      BY <2>3 DEF AskedFirst, N
    <3>2. 1 \in 1..j
      OBVIOUS
    <3>3. ~BlockOf(m, t)
      BY <3>1, <3>2
    <3>4. \A i \in 1..(N + 1) : ~BlockOf(r[i], t)
      BY <1>1, <3>1, <3>3
    <3> QED
      BY <1>1, <3>1, <3>4 DEF AskedFirst
  <2> QED
    BY <2>1, <2>2, <2>3
<1>6. CarriedBacked(A, L, r)
  <2> SUFFICES ASSUME NEW i \in 1..(N + 1), NEW t \in Wanted, Carries(r[i], t)
               PROVE  Backed(t, A, L \cup CarriedIn(r, i - 1))
    BY <1>1 DEF CarriedBacked
  <2>1. i - 1 \in 0..N
    BY <1>1
  <2>2. CASE i \in 1..N
    BY <1>1, <1>3, <2>1, <2>2 DEF Traffic, CarriedBacked, N
  <2>3. CASE i = N + 1
    <3>1. i - 1 = N
      BY <1>1, <2>3
    <3> QED
      BY <1>1, <1>3, <2>3, <3>1
  <2> QED
    BY <1>1, <2>2, <2>3
<1>7. AskedBacked(A, L, r, o)
  <2> SUFFICES ASSUME NEW i \in 1..Len(o), o[i].type = "getdata"
               PROVE  BackedTxs(o[i].txs, A, L \cup Carried(r) \cup AskedIn(o, i - 1))
    BY DEF AskedBacked
  <2> DEFINE P == L \cup Carried(q) \cup AskedIn(o, i - 1)
             Q == L \cup Carried(r) \cup AskedIn(o, i - 1)
  <2>1. BackedTxs(o[i].txs, A, P)
    BY DEF Traffic, AskedBacked
  <2>2. P \subseteq Q
    BY <1>3
  <2> HIDE DEF P, Q
  <2>3. BackedTxs(o[i].txs, A, Q)
    BY <2>1, <2>2, BackedByMore
  <2> QED
    BY <2>3 DEF Q
<1>8. NamedBacked(A, L, knownTx, r)
  <2> SUFFICES ASSUME NEW i \in 1..(N + 1), r[i].type = "inv"
               PROVE  BackedTxs(r[i].txs, A, L \cup knownTx \cup Carried(r) \cup NamedIn(r, i - 1))
    BY <1>1 DEF NamedBacked
  <2>1. i - 1 \in 0..N
    BY <1>1
  <2> DEFINE P == L \cup knownTx \cup Carried(q) \cup NamedIn(q, i - 1)
             Q == L \cup knownTx \cup Carried(r) \cup NamedIn(r, i - 1)
  <2>2. BackedTxs(r[i].txs, A, P)
    <3>1. CASE i \in 1..N
      BY <1>1, <3>1 DEF Traffic, NamedBacked, N
    <3>2. CASE i = N + 1
      <4>1. i - 1 = N
        BY <1>1, <3>2
      <4> QED
        BY <1>1, <1>3, <3>2, <4>1
    <3> QED
      BY <1>1, <3>1, <3>2
  <2>3. P \subseteq Q
    BY <1>3, <2>1
  <2> HIDE DEF P, Q
  <2>4. BackedTxs(r[i].txs, A, Q)
    BY <2>2, <2>3, BackedByMore
  <2> QED
    BY <2>4 DEF Q
<1>9. OutsOK(A, L, knownTx, r, o, outs)
  <2> DEFINE P == L \cup knownTx \cup Carried(q) \cup Named(q)
             Q == L \cup knownTx \cup Carried(r) \cup Named(r)
  <2>1. P \subseteq Q
    BY <1>3
  <2>2. WatchesOwn(outs, A, P)
    BY DEF Traffic, OutsOK
  <2> HIDE DEF P, Q
  <2>3. WatchesOwn(outs, A, Q)
    BY <2>1, <2>2, BackedByMore
  <2> QED
    BY <2>3 DEF Traffic, OutsOK, Q
<1> QED
  BY <1>2, <1>4, <1>5, <1>6, <1>7, <1>8, <1>9 DEF Traffic, r

(* What a payment spends from is a payment, when it pays the wallet. *)
LEMMA BackedByPayments ==
    ASSUME NEW A \in SUBSET (Chains \X Nat), NEW P, NEW Q, P \cap Wanted \subseteq Q
    PROVE  /\ \A t \in Wanted : Backed(t, A, P) => Backed(t, A, Q)
           /\ \A txs : BackedTxs(txs, A, P) => BackedTxs(txs, A, Q)
           /\ \A outs : WatchesOwn(outs, A, P) => WatchesOwn(outs, A, Q)
<1>1. ASSUME NEW X, NEW Y, X \cap Wanted \subseteq Y, NEW t \in Wanted, Backed(t, A, X)
      PROVE  Backed(t, A, Y)
  <2>1. CASE Pays(t, A)
    BY <2>1 DEF Backed
  <2>2. CASE \E u \in Inputs[t] : PaysTo(u, A) /\ u[1] \in X
    <3>1. PICK u \in Inputs[t] : PaysTo(u, A) /\ u[1] \in X
      BY <2>2
    <3> DEFINE p == u[1]
    <3>2. p \in Tx /\ u[2] + 1 \in DOMAIN Outputs[p] /\ Outputs[p][u[2] + 1].address \in Chains \X Nat
      BY <3>1 DEF PaysTo, Output
    <3>3. OursPaid(p)
      BY <3>2 DEF OursPaid, Ours
    <3>4. p \in Parents(t)
      BY <3>1, <3>2 DEF Parents
    <3>5. PICK n \in Num : t \in Range(Mined[n])
      BY DEF Wanted
    <3>6. DOMAIN Mined = Num /\ n \in Nat /\ n <= Len(Mined)
      BY SyncAssumption, NumNat DEF Num
    <3>7. PICK m \in 1..n : p \in Range(Mined[m])
      BY <3>4, <3>5, ParentsMined
    <3>8. m \in Num
      BY <3>6, NumNat DEF Num
    <3>9. p \in Wanted
      BY <3>2, <3>3, <3>7, <3>8 DEF Wanted
    <3> QED
      BY <1>1, <3>1, <3>9 DEF Backed
  <2> QED
    BY <1>1, <2>1, <2>2 DEF Backed
<1>2. \A txs, k : (P \cup Before(txs, k)) \cap Wanted \subseteq Q \cup Before(txs, k)
  OBVIOUS
<1>3. \A txs : BackedTxs(txs, A, P) => BackedTxs(txs, A, Q)
  BY <1>1, <1>2 DEF BackedTxs
<1>4. \A outs : WatchesOwn(outs, A, P) => WatchesOwn(outs, A, Q)
  BY DEF WatchesOwn
<1> QED
  BY <1>1, <1>3, <1>4

(* ... the node takes a message, with what it brings in the wallet, ... *)
LEMMA TrafficTaken ==
    ASSUME NEW A \in SUBSET (Chains \X Nat), NEW L, NEW known, NEW knownTx,
           NEW q \in Seq(InMsg), NEW o \in Seq(OutMsg), NEW outs, NEW h,
           Traffic(A, L, known, knownTx, q, o, outs, h), q # << >>,
           \A t \in Wanted : Carries(q[1], t) => t \in L,
           \A t \in Wanted : NamesTx(q[1], t) => t \in knownTx
    PROVE  Traffic(A, L, known, knownTx, Tail(q), o, outs, h)
<1> DEFINE r == Tail(q)
           N == Len(q) - 1
<1>1. /\ r \in Seq(InMsg) /\ Len(r) = N /\ Len(q) = N + 1 /\ N \in Nat
      /\ \A i \in 1..N : i + 1 \in 1..(N + 1) /\ r[i] = q[i + 1]
      /\ \A i \in 1..(N + 1) : i = 1 \/ (i - 1 \in 1..N /\ r[i - 1] = q[i])
  BY TailAt
<1> HIDE DEF r, N
<1>2. HeightsOK(known, r, o, h)
  BY <1>1 DEF Traffic, HeightsOK
<1>3. /\ \A k \in 0..N : CarriedIn(q, k + 1) \cap Wanted \subseteq L \cup CarriedIn(r, k)
      /\ \A k \in 0..N : NamedIn(q, k + 1) \cap Wanted \subseteq knownTx \cup NamedIn(r, k)
  <2> SUFFICES ASSUME NEW k \in 0..N, NEW t \in Wanted
               PROVE  /\ t \in CarriedIn(q, k + 1) => t \in L \cup CarriedIn(r, k)
                      /\ t \in NamedIn(q, k + 1) => t \in knownTx \cup NamedIn(r, k)
    OBVIOUS
  <2>1. \A j \in 1..(k + 1) : j = 1 \/ (j - 1 \in 1..k /\ r[j - 1] = q[j])
    <3>1. \A j \in 1..(k + 1) : j \in 1..(N + 1) /\ (j = 1 \/ j - 1 \in 1..k)
      BY <1>1
    <3> QED
      BY <1>1, <3>1
  <2>2. t \in Tx
    BY DEF Wanted
  <2> QED
    BY <2>1, <2>2 DEF CarriedIn, NamedIn
<1>4. /\ Carried(q) \cap Wanted \subseteq L \cup Carried(r)
      /\ Named(q) \cap Wanted \subseteq knownTx \cup Named(r)
  BY <1>1, <1>3 DEF Carried, Named
<1>5. NamedFresh(known, r, o)
  <2> SUFFICES ASSUME NEW i \in 1..N, NEW t \in Wanted, NamesTx(r[i], t)
               PROVE  /\ \A n \in Range(known) : ~MinedBy(t, n)
                      /\ \A j \in 1..N : ~BlockOf(r[j], t) /\ (j <= i => ~NamesBlockOf(r[j], t))
                      /\ \A j \in 1..Len(o) : ~AsksBlockOf(o[j], t)
    BY <1>1 DEF NamedFresh
  <2>1. i + 1 \in 1..(N + 1) /\ NamesTx(q[i + 1], t)
    BY <1>1
  <2>2. /\ \A n \in Range(known) : ~MinedBy(t, n)
        /\ \A j \in 1..(N + 1) : ~BlockOf(q[j], t) /\ (j <= i + 1 => ~NamesBlockOf(q[j], t))
        /\ \A j \in 1..Len(o) : ~AsksBlockOf(o[j], t)
    BY <1>1, <2>1 DEF Traffic, NamedFresh
  <2>3. \A j \in 1..N : j + 1 \in 1..(N + 1) /\ r[j] = q[j + 1] /\ (j <= i => j + 1 <= i + 1)
    BY <1>1
  <2> QED
    BY <2>2, <2>3
<1>6. KnownInTime(knownTx, L, r, o)
  <2> SUFFICES ASSUME NEW t \in knownTx \cap Wanted, t \notin L
               PROVE  CarriedFirst(t, r) \/ AskedFirst(t, r, o)
    BY DEF KnownInTime
  <2>1. CarriedFirst(t, q) \/ AskedFirst(t, q, o)
    BY DEF Traffic, KnownInTime
  <2>2. ASSUME CarriedFirst(t, q) PROVE CarriedFirst(t, r)
    <3>1. PICK j \in 1..(N + 1) : Carries(q[j], t) /\ \A i \in 1..j : ~BlockOf(q[i], t)
      BY <1>1, <2>2 DEF CarriedFirst
    <3>2. j - 1 \in 1..N /\ r[j - 1] = q[j]
      BY <1>1, <3>1
    <3>3. \A i \in 1..(j - 1) : i + 1 \in 1..j /\ r[i] = q[i + 1]
      BY <1>1, <3>2
    <3> QED
      BY <1>1, <3>1, <3>2, <3>3 DEF CarriedFirst
  <2>3. ASSUME AskedFirst(t, q, o) PROVE AskedFirst(t, r, o)
    BY <1>1, <2>3 DEF AskedFirst
  <2> QED
    BY <2>1, <2>2, <2>3
<1>7. CarriedBacked(A, L, r)
  <2> SUFFICES ASSUME NEW i \in 1..N, NEW t \in Wanted, Carries(r[i], t)
               PROVE  Backed(t, A, L \cup CarriedIn(r, i - 1))
    BY <1>1 DEF CarriedBacked
  <2>1. i + 1 \in 1..(N + 1) /\ (i + 1) - 1 = i /\ (i - 1) + 1 = i /\ i - 1 \in 0..N
    BY <1>1
  <2>2. Backed(t, A, L \cup CarriedIn(q, i))
    BY <1>1, <2>1 DEF Traffic, CarriedBacked
  <2> DEFINE P == L \cup CarriedIn(q, i)
             Q == L \cup CarriedIn(r, i - 1)
  <2>3. P \cap Wanted \subseteq Q
    BY <1>3, <2>1
  <2> HIDE DEF P, Q
  <2>4. Backed(t, A, Q)
    BY <2>2, <2>3, BackedByPayments DEF P
  <2> QED
    BY <2>4 DEF Q
<1>8. AskedBacked(A, L, r, o)
  <2> SUFFICES ASSUME NEW i \in 1..Len(o), o[i].type = "getdata"
               PROVE  BackedTxs(o[i].txs, A, L \cup Carried(r) \cup AskedIn(o, i - 1))
    BY DEF AskedBacked
  <2> DEFINE P == L \cup Carried(q) \cup AskedIn(o, i - 1)
             Q == L \cup Carried(r) \cup AskedIn(o, i - 1)
  <2>1. BackedTxs(o[i].txs, A, P)
    BY DEF Traffic, AskedBacked
  <2>2. P \cap Wanted \subseteq Q
    BY <1>4
  <2> HIDE DEF P, Q
  <2>3. BackedTxs(o[i].txs, A, Q)
    BY <2>1, <2>2, BackedByPayments
  <2> QED
    BY <2>3 DEF Q
<1>9. NamedBacked(A, L, knownTx, r)
  <2> SUFFICES ASSUME NEW i \in 1..N, r[i].type = "inv"
               PROVE  BackedTxs(r[i].txs, A, L \cup knownTx \cup Carried(r) \cup NamedIn(r, i - 1))
    BY <1>1 DEF NamedBacked
  <2>1. i + 1 \in 1..(N + 1) /\ (i + 1) - 1 = i /\ (i - 1) + 1 = i /\ i - 1 \in 0..N
    BY <1>1
  <2> DEFINE P == L \cup knownTx \cup Carried(q) \cup NamedIn(q, i)
             Q == L \cup knownTx \cup Carried(r) \cup NamedIn(r, i - 1)
  <2>2. BackedTxs(r[i].txs, A, P)
    BY <1>1, <2>1 DEF Traffic, NamedBacked
  <2>3. P \cap Wanted \subseteq Q
    BY <1>3, <1>4, <2>1
  <2> HIDE DEF P, Q
  <2>4. BackedTxs(r[i].txs, A, Q)
    BY <2>2, <2>3, BackedByPayments
  <2> QED
    BY <2>4 DEF Q
<1>10. OutsOK(A, L, knownTx, r, o, outs)
  <2> DEFINE P == L \cup knownTx \cup Carried(q) \cup Named(q)
             Q == L \cup knownTx \cup Carried(r) \cup Named(r)
  <2>1. P \cap Wanted \subseteq Q
    BY <1>4
  <2>2. WatchesOwn(outs, A, P)
    BY DEF Traffic, OutsOK
  <2> HIDE DEF P, Q
  <2>3. WatchesOwn(outs, A, Q)
    BY <2>1, <2>2, BackedByPayments
  <2> QED
    BY <2>3 DEF Traffic, OutsOK, Q
<1> QED
  BY <1>2, <1>5, <1>6, <1>7, <1>8, <1>9, <1>10 DEF Traffic, r

(* ... the peer has answered one, ... *)
LEMMA TrafficServed ==
    ASSUME NEW A, NEW L, NEW known, NEW knownTx,
           NEW q \in Seq(InMsg), NEW o \in Seq(OutMsg), NEW outs, NEW h,
           Traffic(A, L, known, knownTx, q, o, outs, h), o # << >>,
           \A t \in Tx : AsksTx(o[1], t) => t \in Carried(q)
    PROVE  Traffic(A, L, known, knownTx, q, Tail(o), outs, h)
<1> DEFINE p == Tail(o)
           N == Len(o) - 1
<1>1. /\ p \in Seq(OutMsg) /\ Len(p) = N /\ Len(o) = N + 1 /\ N \in Nat
      /\ \A i \in 1..N : i + 1 \in 1..(N + 1) /\ p[i] = o[i + 1]
      /\ \A i \in 1..(N + 1) : i = 1 \/ (i - 1 \in 1..N /\ p[i - 1] = o[i])
  BY TailAt
<1> HIDE DEF p, N
<1>2. HeightsOK(known, q, p, h)
  BY <1>1 DEF Traffic, HeightsOK
<1>3. NamedFresh(known, q, p)
  BY <1>1 DEF Traffic, NamedFresh
<1>4. KnownInTime(knownTx, L, q, p)
  <2> SUFFICES ASSUME NEW t \in knownTx \cap Wanted, AskedFirst(t, q, o)
               PROVE  CarriedFirst(t, q) \/ AskedFirst(t, q, p)
    BY DEF Traffic, KnownInTime
  <2>1. PICK j \in 1..(N + 1) :
           /\ AsksTx(o[j], t) /\ \A i \in 1..j : ~AsksBlockOf(o[i], t)
           /\ \A i \in 1..Len(q) : ~BlockOf(q[i], t)
    BY <1>1 DEF AskedFirst
  <2>2. CASE j = 1
    <3>1. t \in Carried(q)
      BY <2>1, <2>2 DEF Wanted
    <3>2. PICK k \in 1..Len(q) : Carries(q[k], t)
      BY <3>1 DEF Carried, CarriedIn
    <3>3. \A i \in 1..k : i \in 1..Len(q)
      OBVIOUS
    <3> QED
      BY <2>1, <3>2, <3>3 DEF CarriedFirst
  <2>3. CASE j # 1
    <3>1. j - 1 \in 1..N /\ p[j - 1] = o[j]
      BY <1>1, <2>3
    <3>2. \A i \in 1..(j - 1) : i + 1 \in 1..j /\ p[i] = o[i + 1]
      BY <1>1, <3>1
    <3> QED
      BY <1>1, <2>1, <3>1, <3>2 DEF AskedFirst
  <2> QED
    BY <2>2, <2>3
<1>5. AskedBacked(A, L, q, p)
  <2> SUFFICES ASSUME NEW i \in 1..N, p[i].type = "getdata"
               PROVE  BackedTxs(p[i].txs, A, L \cup Carried(q) \cup AskedIn(p, i - 1))
    BY <1>1 DEF AskedBacked
  <2>1. i + 1 \in 1..(N + 1) /\ (i + 1) - 1 = i
    BY <1>1
  <2> DEFINE P == L \cup Carried(q) \cup AskedIn(o, i)
             Q == L \cup Carried(q) \cup AskedIn(p, i - 1)
  <2>2. BackedTxs(p[i].txs, A, P)
    BY <1>1, <2>1 DEF Traffic, AskedBacked
  <2>3. \A j \in 1..i : j = 1 \/ (j - 1 \in 1..(i - 1) /\ p[j - 1] = o[j])
    <3>1. \A j \in 1..i : j \in 1..(N + 1) /\ (j = 1 \/ j - 1 \in 1..(i - 1))
      BY <1>1
    <3> QED
      BY <1>1, <3>1
  <2>4. AskedIn(o, i) \subseteq Carried(q) \cup AskedIn(p, i - 1)
    BY <2>3 DEF AskedIn
  <2>5. P \subseteq Q
    BY <2>4
  <2> HIDE DEF P, Q
  <2>6. BackedTxs(p[i].txs, A, Q)
    BY <2>2, <2>5, BackedByMore
  <2> QED
    BY <2>6 DEF Q
<1>6. OutsOK(A, L, knownTx, q, p, outs)
  BY <1>1 DEF Traffic, OutsOK
<1> QED
  BY <1>2, <1>3, <1>4, <1>5, <1>6 DEF Traffic, p

(* ... the node keeps the hashes of an inv it is taking, or drops some, ... *)
LEMMA TrafficKnows ==
    ASSUME NEW A, NEW L, NEW known, NEW knownTx,
           NEW q \in Seq(InMsg), NEW o, NEW outs, NEW h,
           Traffic(A, L, known, knownTx, q, o, outs, h), NEW kept,
           \A n \in Range(kept) : \/ n \in Range(known)
                                  \/ /\ q # << >> /\ q[1].type = "inv"
                                     /\ n \in Range(q[1].blocks)
    PROVE  Traffic(A, L, kept, knownTx, q, o, outs, h)
<1>1. q # << >> => 1 \in 1..Len(q)
  BY TailAt
<1>2. HeightsOK(kept, q, o, h)
  BY <1>1 DEF Traffic, HeightsOK, InChain
<1>3. NamedFresh(kept, q, o)
  <2> SUFFICES ASSUME NEW i \in 1..Len(q), NEW t \in Wanted, NamesTx(q[i], t),
                      NEW n \in Range(kept)
               PROVE  ~MinedBy(t, n)
    BY DEF Traffic, NamedFresh
  <2>1. /\ \A k \in Range(known) : ~MinedBy(t, k)
        /\ \A j \in 1..Len(q) : j <= i => ~NamesBlockOf(q[j], t)
    BY DEF Traffic, NamedFresh
  <2>2. 1 <= i
    OBVIOUS
  <2> QED
    BY <1>1, <2>1, <2>2 DEF NamesBlockOf
<1> QED
  BY <1>2, <1>3 DEF Traffic

(* ... or those of transactions, ... *)
LEMMA TrafficNotes ==
    ASSUME NEW A, NEW L, NEW known, NEW knownTx, NEW q, NEW o, NEW outs, NEW h,
           Traffic(A, L, known, knownTx, q, o, outs, h), NEW kept, knownTx \subseteq kept,
           \A t \in (kept \ knownTx) \cap Wanted :
              t \in L \/ CarriedFirst(t, q) \/ AskedFirst(t, q, o)
    PROVE  Traffic(A, L, known, kept, q, o, outs, h)
<1>1. KnownInTime(kept, L, q, o)
  BY DEF Traffic, KnownInTime
<1>2. NamedBacked(A, L, kept, q)
  <2> SUFFICES ASSUME NEW i \in 1..Len(q), q[i].type = "inv"
               PROVE  BackedTxs(q[i].txs, A, L \cup kept \cup Carried(q) \cup NamedIn(q, i - 1))
    BY DEF NamedBacked
  <2> DEFINE P == L \cup knownTx \cup Carried(q) \cup NamedIn(q, i - 1)
             Q == L \cup kept \cup Carried(q) \cup NamedIn(q, i - 1)
  <2>1. BackedTxs(q[i].txs, A, P)
    BY DEF Traffic, NamedBacked
  <2>2. P \subseteq Q
    OBVIOUS
  <2> HIDE DEF P, Q
  <2>3. BackedTxs(q[i].txs, A, Q)
    BY <2>1, <2>2, BackedByMore
  <2> QED
    BY <2>3 DEF Q
<1>3. OutsOK(A, L, kept, q, o, outs)
  <2> DEFINE P == L \cup knownTx \cup Carried(q) \cup Named(q)
             Q == L \cup kept \cup Carried(q) \cup Named(q)
  <2>1. WatchesOwn(outs, A, P)
    BY DEF Traffic, OutsOK
  <2>2. P \subseteq Q
    OBVIOUS
  <2> HIDE DEF P, Q
  <2>3. WatchesOwn(outs, A, Q)
    BY <2>1, <2>2, BackedByMore
  <2> QED
    BY <2>3 DEF Traffic, OutsOK, Q
<1> QED
  BY <1>1, <1>2, <1>3 DEF Traffic

(* ... the peer's filter changes, ... *)
LEMMA TrafficWatches ==
    ASSUME NEW A, NEW L, NEW known, NEW knownTx, NEW q, NEW o, NEW outs, NEW h,
           Traffic(A, L, known, knownTx, q, o, outs, h), NEW watched,
           WatchesOwn(watched, A, L \cup knownTx \cup Carried(q) \cup Named(q))
    PROVE  Traffic(A, L, known, knownTx, q, o, watched, h)
  BY DEF Traffic, OutsOK

(* ... or its chain grows. *)
LEMMA TrafficMined ==
    ASSUME NEW A, NEW L, NEW known \in Seq(Num), NEW knownTx, NEW q \in Seq(InMsg),
           NEW o \in Seq(OutMsg), NEW outs, NEW h \in Nat,
           Traffic(A, L, known, knownTx, q, o, outs, h)
    PROVE  Traffic(A, L, known, knownTx, q, o, outs, h + 1)
<1>1. \A n \in Num : n <= h => n <= h + 1
  BY NumNat
<1>2. \A s \in Seq(Num) : Range(s) \subseteq Num
  BY DEF Range
<1>3. \A m \in InMsg : InChain(m, h) => InChain(m, h + 1)
  BY <1>1, <1>2 DEF InChain, InMsg, Block
<1>4. \A m \in OutMsg : InChain(m, h) => InChain(m, h + 1)
  BY <1>1, <1>2 DEF InChain, OutMsg
<1>5. HeightsOK(known, q, o, h + 1)
  BY <1>1, <1>2, <1>3, <1>4 DEF Traffic, HeightsOK
<1> QED
  BY <1>5 DEF Traffic

(* A new connection has no traffic. *)
LEMMA TrafficNew ==
    ASSUME NEW A, NEW L, NEW h
    PROVE  Traffic(A, L, << >>, {}, << >>, << >>, {}, h)
<1>1. Len(<< >>) = 0 /\ 1..0 = {} /\ Range(<< >>) = {}
  BY DEF Range
<1> QED
  BY <1>1 DEF Traffic, HeightsOK, NamedFresh, KnownInTime, CarriedBacked, AskedBacked,
              NamedBacked, OutsOK, WatchesOwn

-----------------------------------------------------------------------------
(* Pings.  Every callback waits for a ping or pong under way, in their order; *)
(* behind the first ping of an update no block and no filter is under way.   *)

IsPing(m) == m.type \in {"ping", "pong"}
HasBlocks(m) == m.type = "merkleblock" \/ (m.type = "getdata" /\ m.blocks # << >>)
Late(m) == HasBlocks(m) \/ m.type = "filterload"

PongsAt(pongs, fl, f) ==
    /\ f \in [1..Len(pongs) -> 1..Len(fl)]
    /\ \A k, l \in 1..Len(pongs) : k < l => f[k] < f[l]
    /\ \A i \in 1..Len(fl) : IsPing(fl[i]) <=> \E k \in 1..Len(pongs) : f[k] = i
    /\ \A k \in 1..Len(pongs) : pongs[k] = "pingDone" =>
          \A i \in 1..Len(fl) : i > f[k] => ~Late(fl[i])
PongsDue(pongs, fl) == \E f : PongsAt(pongs, fl, f)

Msg == InMsg \cup OutMsg

(* The elements of what is under way. *)
LEMMA FlightAt ==
    ASSUME NEW q \in Seq(InMsg), NEW o \in Seq(OutMsg)
    PROVE  /\ q \in Seq(Msg) /\ o \in Seq(Msg) /\ q \o o \in Seq(Msg)
           /\ Len(q \o o) = Len(q) + Len(o) /\ Len(q) \in Nat /\ Len(o) \in Nat
           /\ \A i \in 1..Len(q) : i \in 1..(Len(q) + Len(o)) /\ (q \o o)[i] = q[i]
           /\ \A i \in 1..Len(o) : /\ Len(q) + i \in 1..(Len(q) + Len(o))
                                   /\ (q \o o)[Len(q) + i] = o[i]
           /\ \A i \in 1..(Len(q) + Len(o)) :
                 i \in 1..Len(q) \/ (i - Len(q) \in 1..Len(o) /\ (q \o o)[i] = o[i - Len(q)])
<1>1. q \in Seq(Msg) /\ o \in Seq(Msg)
  BY DEF Msg
<1> QED
  BY <1>1, ConcatAt

(* The pings may move, in their order, when nothing late comes behind one. *)
NoUpdate(pongs) == \A k \in 1..Len(pongs) : pongs[k] # "pingDone"
Moves(fl, to, g) ==
    /\ \A i \in 1..Len(fl) : IsPing(fl[i]) => g[i] \in 1..Len(to) /\ IsPing(to[g[i]])
    /\ \A i, j \in 1..Len(fl) : IsPing(fl[i]) /\ IsPing(fl[j]) /\ i < j => g[i] < g[j]
    /\ \A j \in 1..Len(to) : IsPing(to[j]) => \E i \in 1..Len(fl) : IsPing(fl[i]) /\ g[i] = j
NotLater(fl, to, g) ==
    \A i \in 1..Len(fl), j \in 1..Len(to) : IsPing(fl[i]) /\ j > g[i] /\ Late(to[j]) =>
       \E l \in 1..Len(fl) : l > i /\ Late(fl[l])

(* A move that keeps the order of the pings keeps every callback its pong. *)
LEMMA PongsMoved ==
    ASSUME NEW pongs \in Seq(Callback), NEW fl \in Seq(Msg), NEW to \in Seq(Msg),
           PongsDue(pongs, fl), NEW g, Moves(fl, to, g), NoUpdate(pongs) \/ NotLater(fl, to, g)
    PROVE  PongsDue(pongs, to)
<1>1. PICK f : PongsAt(pongs, fl, f)
  BY DEF PongsDue
<1>0. /\ \A i \in 1..Len(fl) : IsPing(fl[i]) => g[i] \in 1..Len(to) /\ IsPing(to[g[i]])
      /\ \A i, j \in 1..Len(fl) : IsPing(fl[i]) /\ IsPing(fl[j]) /\ i < j => g[i] < g[j]
      /\ \A j \in 1..Len(to) : IsPing(to[j]) => \E i \in 1..Len(fl) : IsPing(fl[i]) /\ g[i] = j
  BY DEF Moves
<1> DEFINE h == [k \in 1..Len(pongs) |-> g[f[k]]]
<1>2. \A k \in 1..Len(pongs) : f[k] \in 1..Len(fl) /\ IsPing(fl[f[k]]) /\ h[k] = g[f[k]]
  BY <1>1 DEF PongsAt
<1>3. h \in [1..Len(pongs) -> 1..Len(to)]
  BY <1>0, <1>2
<1>4. \A k, l \in 1..Len(pongs) : k < l => f[k] < f[l]
  BY <1>1 DEF PongsAt
<1>5. \A i \in 1..Len(fl) : IsPing(fl[i]) => \E k \in 1..Len(pongs) : f[k] = i
  BY <1>1 DEF PongsAt
<1>6. \A k \in 1..Len(pongs) : pongs[k] = "pingDone" =>
          \A i \in 1..Len(fl) : i > f[k] => ~Late(fl[i])
  BY <1>1 DEF PongsAt
<1> HIDE DEF h
<1>7. \A k, l \in 1..Len(pongs) : k < l => h[k] < h[l]
  BY <1>0, <1>2, <1>4
<1>8. \A i \in 1..Len(to) : IsPing(to[i]) <=> \E k \in 1..Len(pongs) : h[k] = i
  <2>1. ASSUME NEW i \in 1..Len(to), IsPing(to[i]) PROVE \E k \in 1..Len(pongs) : h[k] = i
    <3>1. PICK j \in 1..Len(fl) : IsPing(fl[j]) /\ g[j] = i
      BY <1>0, <2>1
    <3>2. PICK k \in 1..Len(pongs) : f[k] = j
      BY <1>5, <3>1
    <3> QED
      BY <1>2, <3>1, <3>2
  <2>2. ASSUME NEW i \in 1..Len(to), NEW k \in 1..Len(pongs), h[k] = i PROVE IsPing(to[i])
    BY <1>0, <1>2, <2>2
  <2> QED
    BY <2>1, <2>2
<1>9. \A k \in 1..Len(pongs) : pongs[k] = "pingDone" =>
          \A i \in 1..Len(to) : i > h[k] => ~Late(to[i])
  BY <1>2, <1>6 DEF NoUpdate, NotLater
<1>10. PongsAt(pongs, to, h)
  BY <1>3, <1>7, <1>8, <1>9 DEF PongsAt
<1> QED
  BY <1>10 DEF PongsDue

(* Such are: the node sends something else than a ping, ... *)
LEMMA PongsAsked ==
    ASSUME NEW pongs \in Seq(Callback), NEW q \in Seq(InMsg), NEW o \in Seq(OutMsg),
           PongsDue(pongs, q \o o), NEW m \in OutMsg, ~IsPing(m),
           Late(m) => NoUpdate(pongs)
    PROVE  PongsDue(pongs, q \o Append(o, m))
<1> DEFINE fl == q \o o
           p == Append(o, m)
           to == q \o p
           M == Len(q)
           N == Len(o)
           g == [i \in 1..(M + N) |-> i]
<1>1. /\ p \in Seq(OutMsg) /\ Len(p) = N + 1 /\ N \in Nat
      /\ \A i \in 1..N : i \in 1..(N + 1) /\ p[i] = o[i]
      /\ p[N + 1] = m /\ \A i \in 1..(N + 1) : i \in 1..N \/ i = N + 1
  BY AppendAt
<1>2. /\ fl \in Seq(Msg) /\ Len(fl) = M + N /\ M \in Nat
      /\ \A i \in 1..M : fl[i] = q[i]
      /\ \A i \in 1..N : fl[M + i] = o[i]
      /\ \A i \in 1..(M + N) : i \in 1..M \/ (i - M \in 1..N /\ fl[i] = o[i - M])
  BY FlightAt
<1> HIDE DEF p
<1>3. /\ to \in Seq(Msg) /\ Len(to) = M + (N + 1)
      /\ \A i \in 1..M : to[i] = q[i]
      /\ \A i \in 1..(M + (N + 1)) : i \in 1..M \/ (i - M \in 1..(N + 1) /\ to[i] = p[i - M])
  <2>1. p \in Seq(OutMsg) /\ Len(p) = N + 1
    BY <1>1
  <2>2. /\ to \in Seq(Msg) /\ Len(to) = M + Len(p)
        /\ \A i \in 1..M : to[i] = q[i]
        /\ \A i \in 1..(M + Len(p)) :
              i \in 1..M \/ (i - M \in 1..Len(p) /\ to[i] = p[i - M])
    BY <2>1, FlightAt
  <2> HIDE DEF to, M, N
  <2> QED
    BY <2>1, <2>2
<1> HIDE DEF fl, to, M, N
<1>4. \A i \in 1..(M + N) : to[i] = fl[i] /\ i \in 1..(M + (N + 1)) /\ g[i] = i
  <2> SUFFICES ASSUME NEW i \in 1..(M + N) PROVE to[i] = fl[i] /\ i \in 1..(M + (N + 1))
    OBVIOUS
  <2>1. i \in 1..(M + (N + 1))
    BY <1>1, <1>2
  <2>2. CASE i \in 1..M
    BY <1>2, <1>3, <2>1, <2>2
  <2>3. CASE i \notin 1..M
    BY <1>1, <1>2, <1>3, <2>1, <2>3
  <2> QED
    BY <2>1, <2>2, <2>3
<1>5. \A i \in 1..(M + (N + 1)) : i \in 1..(M + N) \/ to[i] = m
  <2> SUFFICES ASSUME NEW i \in 1..(M + (N + 1)), i \notin 1..(M + N) PROVE to[i] = m
    OBVIOUS
  <2>1. i - M = N + 1 /\ i \notin 1..M
    BY <1>1, <1>2
  <2> QED
    BY <1>1, <1>3, <2>1
<1> HIDE DEF g
<1>6. NoUpdate(pongs) \/ NotLater(fl, to, g)
  BY <1>2, <1>3, <1>4, <1>5 DEF NoUpdate, NotLater
<1>7. \A i \in 1..Len(fl) : IsPing(fl[i]) => g[i] \in 1..Len(to) /\ IsPing(to[g[i]])
  BY <1>2, <1>3, <1>4
<1>8. \A i, j \in 1..Len(fl) : IsPing(fl[i]) /\ IsPing(fl[j]) /\ i < j => g[i] < g[j]
  BY <1>2, <1>4
<1>9. \A j \in 1..Len(to) : IsPing(to[j]) => \E i \in 1..Len(fl) : IsPing(fl[i]) /\ g[i] = j
  BY <1>2, <1>3, <1>4, <1>5
<1>10. Moves(fl, to, g) /\ PongsDue(pongs, fl) /\ fl \in Seq(Msg) /\ to \in Seq(Msg)
  BY <1>2, <1>3, <1>7, <1>8, <1>9 DEF Moves, fl
<1>11. PongsDue(pongs, to)
  BY <1>6, <1>10, PongsMoved
<1> QED
  BY <1>11 DEF to, p

(* ... or the peer does; ... *)
LEMMA PongsSent ==
    ASSUME NEW pongs \in Seq(Callback), NEW q \in Seq(InMsg), NEW o \in Seq(OutMsg),
           PongsDue(pongs, q \o o), NEW m \in InMsg, ~IsPing(m),
           Late(m) => Len(o) > 0 /\ Late(o[1])
    PROVE  PongsDue(pongs, Append(q, m) \o o)
<1> DEFINE fl == q \o o
           p == Append(q, m)
           to == p \o o
           M == Len(q)
           N == Len(o)
           g == [i \in 1..(M + N) |-> IF i \in 1..M THEN i ELSE i + 1]
<1>1. /\ p \in Seq(InMsg) /\ Len(p) = M + 1 /\ M \in Nat
      /\ \A i \in 1..M : i \in 1..(M + 1) /\ p[i] = q[i]
      /\ p[M + 1] = m
  BY AppendAt
<1>2. /\ fl \in Seq(Msg) /\ Len(fl) = M + N /\ N \in Nat
      /\ \A i \in 1..M : i \in 1..(M + N) /\ fl[i] = q[i]
      /\ \A i \in 1..N : M + i \in 1..(M + N) /\ fl[M + i] = o[i]
      /\ \A i \in 1..(M + N) : i \in 1..M \/ (i - M \in 1..N /\ fl[i] = o[i - M])
  BY FlightAt
<1> HIDE DEF p
<1>3. /\ to \in Seq(Msg) /\ Len(to) = (M + 1) + N
      /\ \A i \in 1..(M + 1) : to[i] = p[i]
      /\ \A i \in 1..N : (M + 1) + i \in 1..((M + 1) + N) /\ to[(M + 1) + i] = o[i]
      /\ \A i \in 1..((M + 1) + N) :
            i \in 1..(M + 1) \/ (i - (M + 1) \in 1..N /\ to[i] = o[i - (M + 1)])
  <2>1. p \in Seq(InMsg) /\ Len(p) = M + 1
    BY <1>1
  <2>2. /\ to \in Seq(Msg) /\ Len(to) = Len(p) + N
        /\ \A i \in 1..Len(p) : to[i] = p[i]
        /\ \A i \in 1..N : Len(p) + i \in 1..(Len(p) + N) /\ to[Len(p) + i] = o[i]
        /\ \A i \in 1..(Len(p) + N) :
              i \in 1..Len(p) \/ (i - Len(p) \in 1..N /\ to[i] = o[i - Len(p)])
    BY <2>1, FlightAt
  <2> HIDE DEF to, M, N
  <2> QED
    BY <2>1, <2>2
<1> HIDE DEF fl, to, M, N
<1>4. \A i \in 1..(M + N) : g[i] \in 1..((M + 1) + N) /\ to[g[i]] = fl[i]
  <2> SUFFICES ASSUME NEW i \in 1..(M + N)
               PROVE  g[i] \in 1..((M + 1) + N) /\ to[g[i]] = fl[i]
    OBVIOUS
  <2>1. CASE i \in 1..M
    <3>1. g[i] = i /\ i \in 1..((M + 1) + N) /\ i \in 1..(M + 1)
      BY <1>1, <1>2, <2>1
    <3> QED
      BY <1>1, <1>2, <1>3, <2>1, <3>1
  <2>2. CASE i \notin 1..M
    <3>1. g[i] = i + 1 /\ i + 1 \in 1..((M + 1) + N) /\ i - M \in 1..N /\ (M + 1) + (i - M) = i + 1
      BY <1>1, <1>2, <2>2
    <3>2. to[(M + 1) + (i - M)] = o[i - M] /\ fl[i] = o[i - M]
      BY <1>2, <1>3, <2>2, <3>1
    <3> QED
      BY <3>1, <3>2
  <2> QED
    BY <2>1, <2>2
<1>5. \A i, j \in 1..(M + N) : i < j => g[i] < g[j]
  BY <1>1, <1>2
<1>6. \A j \in 1..((M + 1) + N) :
          \/ j = M + 1 /\ to[j] = m
          \/ \E i \in 1..(M + N) : g[i] = j
  <2> SUFFICES ASSUME NEW j \in 1..((M + 1) + N), j # M + 1
               PROVE  \E i \in 1..(M + N) : g[i] = j
    <3>1. M + 1 \in 1..(M + 1)
      BY <1>1
    <3> QED
      BY <1>1, <1>3, <3>1
  <2>1. CASE j \in 1..M
    BY <1>1, <1>2, <2>1
  <2>2. CASE j \notin 1..M
    <3>1. j - 1 \in 1..(M + N) /\ j - 1 \notin 1..M
      BY <1>1, <1>2, <2>2
    <3>2. g[j - 1] = (j - 1) + 1 /\ (j - 1) + 1 = j
      BY <3>1
    <3> QED
      BY <3>1, <3>2
  <2> QED
    BY <2>1, <2>2
<1>7. \A i \in 1..(M + N) : M + 1 > g[i] => i \in 1..M /\ M + 1 > i
  BY <1>1, <1>2
<1> HIDE DEF g
<1>8. \A i \in 1..(M + N), j \in 1..((M + 1) + N) : IsPing(fl[i]) /\ j > g[i] /\ Late(to[j]) =>
         \E l \in 1..(M + N) : l > i /\ Late(fl[l])
  <2> SUFFICES ASSUME NEW i \in 1..(M + N), NEW j \in 1..((M + 1) + N),
                      j > g[i], Late(to[j])
               PROVE  \E l \in 1..(M + N) : l > i /\ Late(fl[l])
    OBVIOUS
  <2>1. CASE j = M + 1
    <3>1. 1 \in 1..N /\ Late(o[1])
      BY <1>1, <1>2, <1>3, <2>1 DEF N
    <3>2. M + 1 \in 1..(M + N) /\ fl[M + 1] = o[1]
      BY <1>2, <3>1
    <3> QED
      BY <1>7, <2>1, <3>1, <3>2
  <2>2. CASE \E l \in 1..(M + N) : g[l] = j
    <3>1. PICK l \in 1..(M + N) : g[l] = j
      BY <2>2
    <3>2. Late(fl[l])
      BY <1>4, <3>1
    <3>3. l > i
      <4>1. g[i] \in Int /\ g[l] \in Int /\ l \in Int /\ i \in Int
        BY <1>4
      <4> QED
        BY <1>5, <3>1, <4>1
    <3> QED
      BY <3>2, <3>3
  <2> QED
    BY <1>6, <2>1, <2>2
<1>9. \A i \in 1..Len(fl) : IsPing(fl[i]) => g[i] \in 1..Len(to) /\ IsPing(to[g[i]])
  BY <1>2, <1>3, <1>4
<1>10. \A i, j \in 1..Len(fl) : IsPing(fl[i]) /\ IsPing(fl[j]) /\ i < j => g[i] < g[j]
  BY <1>2, <1>5
<1>11. \A j \in 1..Len(to) : IsPing(to[j]) => \E i \in 1..Len(fl) : IsPing(fl[i]) /\ g[i] = j
  BY <1>2, <1>3, <1>4, <1>6
<1>12. NotLater(fl, to, g)
  BY <1>2, <1>3, <1>8 DEF NotLater
<1>13. Moves(fl, to, g) /\ PongsDue(pongs, fl) /\ fl \in Seq(Msg) /\ to \in Seq(Msg)
  BY <1>2, <1>3, <1>9, <1>10, <1>11 DEF Moves, fl
<1>14. PongsDue(pongs, to)
  BY <1>12, <1>13, PongsMoved
<1> QED
  BY <1>14 DEF to, p

(* ... the node takes something else, ... *)
LEMMA PongsTaken ==
    ASSUME NEW pongs \in Seq(Callback), NEW q \in Seq(InMsg), NEW o \in Seq(OutMsg),
           PongsDue(pongs, q \o o), q # << >>, ~IsPing(q[1])
    PROVE  PongsDue(pongs, Tail(q) \o o)
<1> DEFINE fl == q \o o
           r == Tail(q)
           to == r \o o
           F == Len(fl)
           g == [i \in 1..F |-> i - 1]
<1>1. /\ r \in Seq(InMsg) /\ Len(q) = Len(r) + 1 /\ Len(r) \in Nat
      /\ \A i \in 1..Len(r) : i + 1 \in 1..Len(q) /\ r[i] = q[i + 1] /\ 1 \in 1..Len(q)
  <2>1. r \in Seq(InMsg) /\ Len(r) = Len(q) - 1 /\ Len(q) \in Nat \ {0}
        /\ \A i \in 1..(Len(q) - 1) : i + 1 \in 1..Len(q) /\ r[i] = q[i + 1]
    BY TailAt
  <2> HIDE DEF r
  <2> QED
    BY <2>1
<1>2. /\ fl \in Seq(Msg) /\ F = Len(q) + Len(o) /\ Len(o) \in Nat
      /\ \A i \in 1..Len(q) : fl[i] = q[i]
      /\ \A i \in 1..Len(o) : fl[Len(q) + i] = o[i]
  BY FlightAt
<1> HIDE DEF r
<1>3. /\ to \in Seq(Msg) /\ Len(to) = Len(r) + Len(o)
      /\ \A i \in 1..Len(r) : to[i] = r[i]
      /\ \A i \in 1..(Len(r) + Len(o)) :
            i \in 1..Len(r) \/ (i - Len(r) \in 1..Len(o) /\ to[i] = o[i - Len(r)])
  BY <1>1, FlightAt
<1> HIDE DEF fl, to
<1>4. F = Len(to) + 1 /\ Len(to) \in Nat
  BY <1>1, <1>2, <1>3
<1>5. \A j \in 1..Len(to) : j + 1 \in 1..F /\ to[j] = fl[j + 1]
  <2> SUFFICES ASSUME NEW j \in 1..Len(to) PROVE j + 1 \in 1..F /\ to[j] = fl[j + 1]
    OBVIOUS
  <2>1. j + 1 \in 1..F
    BY <1>4
  <2>2. CASE j \in 1..Len(r)
    BY <1>1, <1>2, <1>3, <2>2
  <2>3. CASE j \notin 1..Len(r)
    <3>1. j - Len(r) \in 1..Len(o) /\ to[j] = o[j - Len(r)]
      BY <1>3, <2>3
    <3>2. Len(q) + (j - Len(r)) = j + 1
      BY <1>1
    <3>3. fl[Len(q) + (j - Len(r))] = o[j - Len(r)]
      BY <1>2, <3>1
    <3> QED
      BY <2>1, <3>1, <3>2, <3>3
  <2> QED
    BY <2>1, <2>2, <2>3
<1>6. \A i \in 1..F : g[i] = i - 1 /\ (IsPing(fl[i]) => i # 1)
  BY <1>1, <1>2
<1> HIDE DEF g
<1>7. \A i \in 1..F : i # 1 => g[i] \in 1..Len(to) /\ to[g[i]] = fl[i]
  <2> SUFFICES ASSUME NEW i \in 1..F, i # 1 PROVE g[i] \in 1..Len(to) /\ to[g[i]] = fl[i]
    OBVIOUS
  <2>2. i - 1 \in 1..Len(to) /\ (i - 1) + 1 = i
    BY <1>4
  <2>1. g[i] \in 1..Len(to) /\ g[i] + 1 = i
    BY <1>6, <2>2
  <2> QED
    BY <1>5, <2>1
<1>8. \A i \in 1..Len(fl) : IsPing(fl[i]) => g[i] \in 1..Len(to) /\ IsPing(to[g[i]])
  BY <1>6, <1>7
<1>9. \A i, j \in 1..Len(fl) : IsPing(fl[i]) /\ IsPing(fl[j]) /\ i < j => g[i] < g[j]
  BY <1>4, <1>6
<1>10. \A j \in 1..Len(to) : IsPing(to[j]) => \E i \in 1..Len(fl) : IsPing(fl[i]) /\ g[i] = j
  <2> SUFFICES ASSUME NEW j \in 1..Len(to), IsPing(to[j])
               PROVE  \E i \in 1..Len(fl) : IsPing(fl[i]) /\ g[i] = j
    OBVIOUS
  <2>1. j + 1 \in 1..F /\ IsPing(fl[j + 1]) /\ (j + 1) - 1 = j
    BY <1>5
  <2> QED
    BY <1>6, <2>1
<1>11. NotLater(fl, to, g)
  <2> SUFFICES ASSUME NEW i \in 1..F, NEW j \in 1..Len(to), j > g[i], Late(to[j])
               PROVE  \E l \in 1..F : l > i /\ Late(fl[l])
    BY DEF NotLater
  <2>1. j + 1 \in 1..F /\ Late(fl[j + 1]) /\ j + 1 > i
    BY <1>4, <1>5, <1>6
  <2> QED
    BY <2>1
<1>12. Moves(fl, to, g) /\ PongsDue(pongs, fl) /\ fl \in Seq(Msg) /\ to \in Seq(Msg)
  BY <1>2, <1>3, <1>8, <1>9, <1>10 DEF Moves, fl
<1>13. PongsDue(pongs, to)
  BY <1>11, <1>12, PongsMoved
<1> QED
  BY <1>13 DEF to, r

(* ... or the peer does, ... *)
LEMMA PongsServed ==
    ASSUME NEW pongs \in Seq(Callback), NEW q \in Seq(InMsg), NEW o \in Seq(OutMsg),
           PongsDue(pongs, q \o o), o # << >>, ~IsPing(o[1])
    PROVE  PongsDue(pongs, q \o Tail(o))
<1> DEFINE fl == q \o o
           r == Tail(o)
           to == q \o r
           M == Len(q)
           N == Len(r)
           F == Len(fl)
           g == [i \in 1..F |-> IF i \in 1..M THEN i ELSE i - 1]
<1>1. /\ r \in Seq(OutMsg) /\ Len(o) = N + 1 /\ N \in Nat /\ 1 \in 1..Len(o)
      /\ \A i \in 1..N : i + 1 \in 1..Len(o) /\ r[i] = o[i + 1]
  <2>1. r \in Seq(OutMsg) /\ Len(r) = Len(o) - 1 /\ Len(o) \in Nat \ {0}
        /\ \A i \in 1..(Len(o) - 1) : i + 1 \in 1..Len(o) /\ r[i] = o[i + 1]
    BY TailAt
  <2> HIDE DEF r
  <2> QED
    BY <2>1
<1>2. /\ fl \in Seq(Msg) /\ F = M + Len(o) /\ M \in Nat
      /\ \A i \in 1..M : fl[i] = q[i]
      /\ \A i \in 1..Len(o) : fl[M + i] = o[i]
  BY FlightAt
<1> HIDE DEF r
<1>3. /\ to \in Seq(Msg) /\ Len(to) = M + N
      /\ \A i \in 1..M : to[i] = q[i]
      /\ \A i \in 1..N : M + i \in 1..(M + N) /\ to[M + i] = r[i]
  BY <1>1, FlightAt
<1> HIDE DEF fl, to, M, N
<1>4. F = (M + N) + 1 /\ F \in Nat
  BY <1>1, <1>2
<1>5. \A i \in 1..F : i # M + 1 => g[i] \in 1..(M + N) /\ to[g[i]] = fl[i]
  <2> SUFFICES ASSUME NEW i \in 1..F, i # M + 1
               PROVE  g[i] \in 1..(M + N) /\ to[g[i]] = fl[i]
    OBVIOUS
  <2>1. CASE i \in 1..M
    <3>1. g[i] = i /\ i \in 1..(M + N)
      BY <1>1, <1>2, <2>1
    <3> QED
      BY <1>2, <1>3, <2>1, <3>1
  <2>2. CASE i \notin 1..M
    <3>1. /\ g[i] = i - 1 /\ i - 1 \in 1..(M + N) /\ (i - 1) - M \in 1..N
          /\ M + ((i - 1) - M) = i - 1 /\ M + (((i - 1) - M) + 1) = i
      BY <1>1, <1>2, <1>4, <2>2
    <3> DEFINE k == (i - 1) - M
    <3>2. to[M + k] = r[k] /\ r[k] = o[k + 1] /\ k + 1 \in 1..Len(o)
      BY <1>1, <1>3, <3>1
    <3>3. fl[M + (k + 1)] = o[k + 1]
      BY <1>2, <3>2
    <3> QED
      BY <3>1, <3>2, <3>3
  <2> QED
    BY <2>1, <2>2
<1>6. \A i, j \in 1..F : i < j /\ i # M + 1 /\ j # M + 1 => g[i] < g[j]
  <2> SUFFICES ASSUME NEW i \in 1..F, NEW j \in 1..F, i < j, i # M + 1, j # M + 1
               PROVE  g[i] < g[j]
    OBVIOUS
  <2>1. CASE j \in 1..M
    <3>1. g[j] = j /\ i \in 1..M
      BY <1>2, <2>1
    <3> QED
      BY <3>1
  <2>2. CASE j \notin 1..M
    <3>1. g[j] = j - 1 /\ j - 1 > M
      BY <1>2, <1>4, <2>2
    <3>2. g[i] = i \/ g[i] = i - 1
      OBVIOUS
    <3> HIDE DEF g
    <3>3. g[i] = i => i < j - 1
      <4>1. i \in 1..M => i < j - 1
        BY <1>2, <3>1
      <4>2. i \notin 1..M => g[i] = i - 1
        BY DEF g
      <4> QED
        BY <1>2, <1>4, <3>1, <4>1, <4>2
    <3> QED
      BY <1>2, <1>4, <3>1, <3>2, <3>3
  <2> QED
    BY <2>1, <2>2
<1>7. \A j \in 1..(M + N) : \E i \in 1..F : i # M + 1 /\ g[i] = j
  <2> SUFFICES ASSUME NEW j \in 1..(M + N) PROVE \E i \in 1..F : i # M + 1 /\ g[i] = j
    OBVIOUS
  <2>1. CASE j \in 1..M
    <3>1. j \in 1..F /\ j # M + 1
      BY <1>1, <1>2, <1>4, <2>1
    <3>2. g[j] = j
      BY <2>1, <3>1
    <3> QED
      BY <3>1, <3>2
  <2>2. CASE j \notin 1..M
    <3>1. j + 1 \in 1..F /\ j + 1 \notin 1..M /\ j + 1 # M + 1 /\ (j + 1) - 1 = j
      BY <1>1, <1>2, <1>4, <2>2
    <3> QED
      BY <3>1
  <2> QED
    BY <2>1, <2>2
<1>8. fl[M + 1] = o[1]
  BY <1>1, <1>2
<1> HIDE DEF g
<1>9. \A i, j \in 1..F : i # M + 1 /\ j # M + 1 /\ g[j] > g[i] => j > i
  <2> SUFFICES ASSUME NEW i \in 1..F, NEW j \in 1..F, i # M + 1, j # M + 1, g[j] > g[i]
               PROVE  j > i
    OBVIOUS
  <2>1. g[i] \in Int /\ g[j] \in Int
    BY <1>5
  <2> QED
    BY <1>6, <2>1
<1>10. /\ \A i \in 1..Len(fl) : IsPing(fl[i]) => g[i] \in 1..Len(to) /\ IsPing(to[g[i]])
       /\ \A i, j \in 1..Len(fl) : IsPing(fl[i]) /\ IsPing(fl[j]) /\ i < j => g[i] < g[j]
  BY <1>3, <1>5, <1>6, <1>8
<1>11. \A j \in 1..Len(to) : IsPing(to[j]) => \E i \in 1..Len(fl) : IsPing(fl[i]) /\ g[i] = j
  BY <1>3, <1>5, <1>7
<1>12. NotLater(fl, to, g)
  <2> SUFFICES ASSUME NEW i \in 1..F, NEW j \in 1..(M + N), IsPing(fl[i]), j > g[i], Late(to[j])
               PROVE  \E l \in 1..F : l > i /\ Late(fl[l])
    BY <1>3 DEF NotLater
  <2>1. PICK l \in 1..F : l # M + 1 /\ g[l] = j
    BY <1>7
  <2>2. Late(fl[l]) /\ i # M + 1
    BY <1>5, <1>8, <2>1
  <2> QED
    BY <1>9, <2>1, <2>2
<1>13. Moves(fl, to, g) /\ PongsDue(pongs, fl) /\ fl \in Seq(Msg) /\ to \in Seq(Msg)
  BY <1>2, <1>3, <1>10, <1>11 DEF Moves, fl
<1>14. PongsDue(pongs, to)
  BY <1>12, <1>13, PongsMoved
<1> QED
  BY <1>14 DEF to, r

(* ... or it answers a ping. *)
LEMMA PongsAnswered ==
    ASSUME NEW pongs \in Seq(Callback), NEW q \in Seq(InMsg), NEW o \in Seq(OutMsg),
           PongsDue(pongs, q \o o), o # << >>, o[1].type = "ping"
    PROVE  PongsDue(pongs, Append(q, [type |-> "pong"]) \o Tail(o))
<1> DEFINE pong == [type |-> "pong"]
           fl == q \o o
           p == Append(q, pong)
           r == Tail(o)
           to == p \o r
           M == Len(q)
           N == Len(r)
           g == [i \in 1..Len(fl) |-> i]
<1>0. pong \in InMsg /\ IsPing(pong) /\ ~Late(pong) /\ IsPing(o[1])
  BY DEF InMsg, IsPing, Late, HasBlocks
<1> HIDE DEF pong
<1>1. /\ r \in Seq(OutMsg) /\ Len(o) = N + 1 /\ N \in Nat /\ 1 \in 1..Len(o)
      /\ \A i \in 1..N : i + 1 \in 1..Len(o) /\ r[i] = o[i + 1]
  <2>1. r \in Seq(OutMsg) /\ Len(r) = Len(o) - 1 /\ Len(o) \in Nat \ {0}
        /\ \A i \in 1..(Len(o) - 1) : i + 1 \in 1..Len(o) /\ r[i] = o[i + 1]
    BY TailAt
  <2> HIDE DEF r
  <2> QED
    BY <2>1
<1>2. /\ p \in Seq(InMsg) /\ Len(p) = M + 1 /\ M \in Nat
      /\ \A i \in 1..M : i \in 1..(M + 1) /\ p[i] = q[i]
      /\ p[M + 1] = pong
  BY <1>0, AppendAt
<1>3. /\ fl \in Seq(Msg) /\ Len(fl) = M + Len(o)
      /\ \A i \in 1..M : fl[i] = q[i]
      /\ \A i \in 1..Len(o) : fl[M + i] = o[i]
  BY FlightAt
<1> HIDE DEF p, r
<1>4. /\ to \in Seq(Msg) /\ Len(to) = Len(p) + N
      /\ \A i \in 1..Len(p) : to[i] = p[i]
      /\ \A i \in 1..N : to[Len(p) + i] = r[i]
  BY <1>1, <1>2, FlightAt
<1> HIDE DEF fl, to, M, N
<1>5. Len(fl) = M + (N + 1) /\ Len(to) = M + (N + 1)
  BY <1>1, <1>2, <1>3, <1>4
<1>6. to[M + 1] = pong /\ fl[M + 1] = o[1] /\ M + 1 \in 1..(M + (N + 1))
  <2>1. M + 1 \in 1..Len(p) /\ M + 1 \in 1..(M + (N + 1))
    BY <1>1, <1>2
  <2> QED
    BY <1>1, <1>2, <1>3, <1>4, <2>1
<1>7. \A i \in 1..(M + (N + 1)) : i # M + 1 => to[i] = fl[i]
  <2> SUFFICES ASSUME NEW i \in 1..(M + (N + 1)), i # M + 1 PROVE to[i] = fl[i]
    OBVIOUS
  <2>1. CASE i \in 1..M
    <3>1. i \in 1..Len(p)
      BY <1>2, <2>1
    <3> QED
      BY <1>2, <1>3, <1>4, <2>1, <3>1
  <2>2. CASE i \notin 1..M
    <3> DEFINE k == (i - 1) - M
    <3>1. k \in 1..N /\ Len(p) + k = i /\ M + (k + 1) = i
      BY <1>1, <1>2, <2>2
    <3>2. to[Len(p) + k] = r[k] /\ r[k] = o[k + 1] /\ k + 1 \in 1..Len(o)
      BY <1>1, <1>4, <3>1
    <3>3. fl[M + (k + 1)] = o[k + 1]
      BY <1>3, <3>2
    <3> QED
      BY <3>1, <3>2, <3>3
  <2> QED
    BY <2>1, <2>2
<1>8. \A i \in 1..Len(fl) : g[i] = i
  OBVIOUS
<1> HIDE DEF g
<1>9. \A i \in 1..(M + (N + 1)) : (IsPing(to[i]) <=> IsPing(fl[i])) /\ (Late(to[i]) => Late(fl[i]))
  BY <1>0, <1>6, <1>7
<1>10. Moves(fl, to, g) /\ NotLater(fl, to, g)
  BY <1>5, <1>8, <1>9 DEF Moves, NotLater
<1>11. PongsDue(pongs, fl) /\ fl \in Seq(Msg) /\ to \in Seq(Msg)
  BY <1>3, <1>4 DEF fl
<1>12. PongsDue(pongs, to)
  BY <1>10, <1>11, PongsMoved
<1> QED
  BY <1>12 DEF to, p, r, pong

(* A new ping comes last, with its callback. *)
LEMMA PongsPinged ==
    ASSUME NEW pongs \in Seq(Callback), NEW q \in Seq(InMsg), NEW o \in Seq(OutMsg),
           PongsDue(pongs, q \o o), NEW c \in Callback
    PROVE  PongsDue(Append(pongs, c), q \o Append(o, [type |-> "ping"]))
<1> DEFINE ping == [type |-> "ping"]
           fl == q \o o
           p == Append(o, ping)
           to == q \o p
           F == Len(fl)
           N == Len(pongs)
           calls == Append(pongs, c)
<1>0. ping \in OutMsg /\ IsPing(ping) /\ ~Late(ping)
  BY DEF OutMsg, IsPing, Late, HasBlocks
<1> HIDE DEF ping
<1>1. /\ p \in Seq(OutMsg) /\ Len(p) = Len(o) + 1 /\ Len(o) \in Nat
      /\ \A i \in 1..Len(o) : i \in 1..(Len(o) + 1) /\ p[i] = o[i]
      /\ p[Len(o) + 1] = ping
  BY <1>0, AppendAt
<1>2. /\ calls \in Seq(Callback) /\ Len(calls) = N + 1 /\ N \in Nat
      /\ \A k \in 1..N : k \in 1..(N + 1) /\ calls[k] = pongs[k]
      /\ \A k \in 1..(N + 1) : k \in 1..N \/ k = N + 1
  BY AppendAt
<1>3. /\ fl \in Seq(Msg) /\ F = Len(q) + Len(o) /\ Len(q) \in Nat
      /\ \A i \in 1..Len(q) : fl[i] = q[i]
      /\ \A i \in 1..Len(o) : fl[Len(q) + i] = o[i]
      /\ \A i \in 1..F : i \in 1..Len(q) \/ (i - Len(q) \in 1..Len(o) /\ fl[i] = o[i - Len(q)])
  BY FlightAt
<1> HIDE DEF p, calls
<1>4. /\ to \in Seq(Msg) /\ Len(to) = Len(q) + Len(p)
      /\ \A i \in 1..Len(q) : to[i] = q[i]
      /\ \A i \in 1..Len(p) : to[Len(q) + i] = p[i]
  BY <1>1, FlightAt
<1>5. PICK f : PongsAt(pongs, fl, f)
  BY DEF PongsDue
<1> HIDE DEF fl, to, F, N
<1>6. Len(to) = F + 1 /\ F \in Nat /\ \A i \in 1..(F + 1) : i \in 1..F \/ i = F + 1
  <2>1. F \in Nat
    BY <1>1, <1>3
  <2>2. Len(to) = F + 1
    BY <1>1, <1>3, <1>4
  <2> QED
    BY <2>1, <2>2
<1>7. to[F + 1] = ping
  <2>1. Len(o) + 1 \in 1..Len(p) /\ Len(q) + (Len(o) + 1) = F + 1
    BY <1>1, <1>3
  <2>2. to[Len(q) + (Len(o) + 1)] = p[Len(o) + 1]
    BY <1>4, <2>1
  <2> QED
    BY <1>1, <2>1, <2>2
<1>8. \A i \in 1..F : to[i] = fl[i]
  <2> SUFFICES ASSUME NEW i \in 1..F PROVE to[i] = fl[i]
    OBVIOUS
  <2>1. CASE i \in 1..Len(q)
    BY <1>3, <1>4, <2>1
  <2>2. CASE i \notin 1..Len(q)
    <3> DEFINE k == i - Len(q)
    <3>1. k \in 1..Len(o) /\ fl[i] = o[k]
      BY <1>3, <2>2
    <3>2. k \in 1..Len(p) /\ p[k] = o[k] /\ Len(q) + k = i
      BY <1>1, <1>3, <3>1
    <3>3. to[Len(q) + k] = p[k]
      BY <1>4, <3>2
    <3> QED
      BY <3>1, <3>2, <3>3
  <2> QED
    BY <2>1, <2>2
<1> DEFINE h == [k \in 1..(N + 1) |-> IF k = N + 1 THEN F + 1 ELSE f[k]]
<1>9. /\ f \in [1..N -> 1..F] /\ \A k, l \in 1..N : k < l => f[k] < f[l]
      /\ \A i \in 1..F : IsPing(fl[i]) <=> \E k \in 1..N : f[k] = i
      /\ \A k \in 1..N : pongs[k] = "pingDone" => \A i \in 1..F : i > f[k] => ~Late(fl[i])
  BY <1>5 DEF PongsAt, F, N
<1>10. h[N + 1] = F + 1 /\ N + 1 \in 1..(N + 1) /\ \A k \in 1..N : h[k] = f[k] /\ h[k] \in 1..F
  BY <1>2, <1>9
<1>11. h \in [1..(N + 1) -> 1..(F + 1)]
  BY <1>2, <1>6, <1>9
<1> HIDE DEF h
<1>12. \A k, l \in 1..(N + 1) : k < l => h[k] < h[l]
  <2> SUFFICES ASSUME NEW k \in 1..(N + 1), NEW l \in 1..(N + 1), k < l PROVE h[k] < h[l]
    OBVIOUS
  <2>1. k \in 1..N
    BY <1>2
  <2>2. CASE l \in 1..N
    BY <1>9, <1>10, <2>1, <2>2
  <2>3. CASE l = N + 1
    <3>1. h[k] \in 1..F /\ h[l] = F + 1
      BY <1>10, <2>1, <2>3
    <3> QED
      BY <1>6, <3>1
  <2> QED
    BY <1>2, <2>2, <2>3
<1>13. \A i \in 1..(F + 1) : IsPing(to[i]) <=> \E k \in 1..(N + 1) : h[k] = i
  <2> SUFFICES ASSUME NEW i \in 1..(F + 1)
               PROVE  IsPing(to[i]) <=> \E k \in 1..(N + 1) : h[k] = i
    OBVIOUS
  <2>1. CASE i = F + 1
    BY <1>0, <1>7, <1>10, <2>1
  <2>2. CASE i \in 1..F
    <3>1. i # F + 1
      BY <1>6, <2>2
    <3>2. IsPing(to[i]) <=> \E k \in 1..N : f[k] = i
      BY <1>8, <1>9, <2>2
    <3>3. (\E k \in 1..(N + 1) : h[k] = i) <=> \E k \in 1..N : f[k] = i
      BY <1>2, <1>10, <3>1
    <3> QED
      BY <3>2, <3>3
  <2> QED
    BY <1>6, <2>1, <2>2
<1>14. \A k \in 1..(N + 1) : calls[k] = "pingDone" =>
          \A i \in 1..(F + 1) : i > h[k] => ~Late(to[i])
  <2> SUFFICES ASSUME NEW k \in 1..(N + 1), calls[k] = "pingDone",
                      NEW i \in 1..(F + 1), i > h[k]
               PROVE  ~Late(to[i])
    OBVIOUS
  <2>1. CASE i = F + 1
    BY <1>0, <1>7, <2>1
  <2>2. CASE i \in 1..F
    <3>1. k # N + 1
      BY <1>6, <1>10, <2>2
    <3>2. k \in 1..N /\ pongs[k] = "pingDone" /\ i > f[k]
      BY <1>2, <1>10, <3>1
    <3> QED
      BY <1>8, <1>9, <2>2, <3>2
  <2> QED
    BY <1>6, <2>1, <2>2
<1>15. PongsAt(calls, to, h)
  BY <1>2, <1>6, <1>11, <1>12, <1>13, <1>14 DEF PongsAt
<1>16. PongsDue(calls, to)
  BY <1>15 DEF PongsDue
<1> QED
  BY <1>16 DEF calls, to, p, ping

(* The first pong is for the first callback; behind that of an update no      *)
(* block comes.                                                               *)
LEMMA PongTaken ==
    ASSUME NEW pongs \in Seq(Callback), NEW q \in Seq(InMsg), NEW o \in Seq(OutMsg),
           PongsDue(pongs, q \o o), q # << >>, IsPing(q[1])
    PROVE  /\ pongs # << >> /\ PongsDue(Tail(pongs), Tail(q) \o o)
           /\ Head(pongs) = "pingDone" =>
                 /\ \A i \in 1..Len(Tail(q)) : ~Late(Tail(q)[i])
                 /\ \A i \in 1..Len(o) : ~Late(o[i])
<1> DEFINE fl == q \o o
           r == Tail(q)
           to == r \o o
           N == Len(pongs)
           T == Len(to)
<1>1. /\ r \in Seq(InMsg) /\ Len(q) = Len(r) + 1 /\ Len(r) \in Nat /\ 1 \in 1..Len(q)
      /\ \A i \in 1..Len(r) : i + 1 \in 1..Len(q) /\ r[i] = q[i + 1]
  <2>1. r \in Seq(InMsg) /\ Len(r) = Len(q) - 1 /\ Len(q) \in Nat \ {0}
        /\ \A i \in 1..(Len(q) - 1) : i + 1 \in 1..Len(q) /\ r[i] = q[i + 1]
    BY TailAt
  <2> HIDE DEF r
  <2> QED
    BY <2>1
<1>2. /\ fl \in Seq(Msg) /\ Len(fl) = Len(q) + Len(o) /\ Len(o) \in Nat
      /\ \A i \in 1..Len(q) : i \in 1..(Len(q) + Len(o)) /\ fl[i] = q[i]
      /\ \A i \in 1..Len(o) : Len(q) + i \in 1..(Len(q) + Len(o)) /\ fl[Len(q) + i] = o[i]
  BY FlightAt
<1> HIDE DEF r
<1>3. /\ to \in Seq(Msg) /\ T = Len(r) + Len(o)
      /\ \A i \in 1..Len(r) : i \in 1..(Len(r) + Len(o)) /\ to[i] = r[i]
      /\ \A i \in 1..Len(o) : Len(r) + i \in 1..(Len(r) + Len(o)) /\ to[Len(r) + i] = o[i]
      /\ \A i \in 1..(Len(r) + Len(o)) :
            i \in 1..Len(r) \/ (i - Len(r) \in 1..Len(o) /\ to[i] = o[i - Len(r)])
  BY <1>1, FlightAt
<1>4. PICK f : PongsAt(pongs, fl, f)
  BY DEF PongsDue
<1>5. N \in Nat
  OBVIOUS
<1> HIDE DEF fl, to, N, T
<1>6. Len(fl) = T + 1 /\ T \in Nat /\ 1 \in 1..(T + 1)
  BY <1>1, <1>2, <1>3
<1>7. \A j \in 1..T : j + 1 \in 1..(T + 1) /\ to[j] = fl[j + 1]
  <2> SUFFICES ASSUME NEW j \in 1..T PROVE j + 1 \in 1..(T + 1) /\ to[j] = fl[j + 1]
    OBVIOUS
  <2>1. j + 1 \in 1..(T + 1)
    BY <1>6
  <2>2. CASE j \in 1..Len(r)
    BY <1>1, <1>2, <1>3, <2>2
  <2>3. CASE j \notin 1..Len(r)
    <3>1. j - Len(r) \in 1..Len(o) /\ to[j] = o[j - Len(r)]
      BY <1>3, <2>3
    <3>2. Len(q) + (j - Len(r)) = j + 1
      BY <1>1
    <3>3. fl[Len(q) + (j - Len(r))] = o[j - Len(r)]
      BY <1>2, <3>1
    <3> QED
      BY <2>1, <3>1, <3>2, <3>3
  <2> QED
    BY <2>1, <2>2, <2>3
<1>8. /\ f \in [1..N -> 1..(T + 1)] /\ \A k, l \in 1..N : k < l => f[k] < f[l]
      /\ \A i \in 1..(T + 1) : IsPing(fl[i]) <=> \E k \in 1..N : f[k] = i
      /\ \A k \in 1..N : pongs[k] = "pingDone" =>
            \A i \in 1..(T + 1) : i > f[k] => ~Late(fl[i])
  BY <1>4, <1>6 DEF PongsAt, N
<1>9. 1 \in 1..N /\ f[1] = 1
  <2>1. PICK k \in 1..N : f[k] = 1
    <3>1. IsPing(fl[1])
      BY <1>1, <1>2
    <3> QED
      BY <1>6, <1>8, <3>1
  <2>2. 1 \in 1..N /\ (1 < k \/ k = 1)
    BY <1>5
  <2>3. f[1] \in 1..(T + 1)
    BY <1>8, <2>2
  <2>4. ~(f[1] < 1)
    BY <1>6, <2>3
  <2> QED
    BY <1>8, <2>1, <2>2, <2>4
<1>10. pongs # << >>
  BY <1>9 DEF N
<1> DEFINE calls == Tail(pongs)
           h == [k \in 1..(N - 1) |-> f[k + 1] - 1]
<1>11. /\ Len(calls) = N - 1 /\ Head(pongs) = pongs[1]
       /\ \A k \in 1..(N - 1) : k + 1 \in 1..N /\ calls[k] = pongs[k + 1]
  BY <1>10, TailAt DEF N
<1> HIDE DEF calls
<1>12. \A k \in 1..(N - 1) : f[k + 1] \in 1..(T + 1) /\ f[k + 1] # 1 /\ h[k] = f[k + 1] - 1
                             /\ h[k] \in 1..T /\ h[k] + 1 = f[k + 1]
  <2> SUFFICES ASSUME NEW k \in 1..(N - 1)
               PROVE  /\ f[k + 1] \in 1..(T + 1) /\ f[k + 1] # 1
                      /\ f[k + 1] - 1 \in 1..T /\ (f[k + 1] - 1) + 1 = f[k + 1]
    OBVIOUS
  <2>1. k + 1 \in 1..N /\ 1 < k + 1
    BY <1>11
  <2>2. f[k + 1] \in 1..(T + 1) /\ f[1] < f[k + 1]
    BY <1>8, <1>9, <2>1
  <2> QED
    BY <1>6, <1>9, <2>2
<1>13. h \in [1..(N - 1) -> 1..T]
  BY <1>12
<1> HIDE DEF h
<1>14. \A k, l \in 1..(N - 1) : k < l => h[k] < h[l]
  <2> SUFFICES ASSUME NEW k \in 1..(N - 1), NEW l \in 1..(N - 1), k < l PROVE h[k] < h[l]
    OBVIOUS
  <2>1. k + 1 \in 1..N /\ l + 1 \in 1..N /\ k + 1 < l + 1
    BY <1>11
  <2>2. f[k + 1] < f[l + 1]
    BY <1>8, <2>1
  <2>3. f[k + 1] \in Int /\ f[l + 1] \in Int /\ h[k] = f[k + 1] - 1 /\ h[l] = f[l + 1] - 1
    BY <1>12
  <2> QED
    BY <2>2, <2>3
<1>15. \A i \in 1..T : IsPing(to[i]) <=> \E k \in 1..(N - 1) : h[k] = i
  <2>1. ASSUME NEW i \in 1..T, IsPing(to[i]) PROVE \E k \in 1..(N - 1) : h[k] = i
    <3>1. i + 1 \in 1..(T + 1) /\ IsPing(fl[i + 1]) /\ i + 1 # 1 /\ (i + 1) - 1 = i
      BY <1>7, <2>1
    <3>2. PICK k \in 1..N : f[k] = i + 1
      BY <1>8, <3>1
    <3>3. k # 1
      BY <1>9, <3>1, <3>2
    <3>4. k - 1 \in 1..(N - 1) /\ (k - 1) + 1 = k
      BY <1>5, <3>3
    <3>5. h[k - 1] = f[(k - 1) + 1] - 1
      BY <1>12, <3>4
    <3> QED
      BY <3>1, <3>2, <3>4, <3>5
  <2>2. ASSUME NEW i \in 1..T, NEW k \in 1..(N - 1), h[k] = i PROVE IsPing(to[i])
    <3>1. f[k + 1] = i + 1 /\ k + 1 \in 1..N /\ i + 1 \in 1..(T + 1)
      BY <1>7, <1>11, <1>12, <2>2
    <3>2. IsPing(fl[i + 1])
      BY <1>8, <3>1
    <3> QED
      BY <1>7, <3>2
  <2> QED
    BY <2>1, <2>2
<1>16. \A k \in 1..(N - 1) : calls[k] = "pingDone" => \A i \in 1..T : i > h[k] => ~Late(to[i])
  <2> SUFFICES ASSUME NEW k \in 1..(N - 1), calls[k] = "pingDone", NEW i \in 1..T, i > h[k]
               PROVE  ~Late(to[i])
    OBVIOUS
  <2>1. k + 1 \in 1..N /\ pongs[k + 1] = "pingDone"
    BY <1>11
  <2>2. i + 1 \in 1..(T + 1) /\ h[k] \in Int /\ f[k + 1] = h[k] + 1
    BY <1>7, <1>12
  <2>3. i + 1 > f[k + 1]
    BY <2>2
  <2> QED
    BY <1>7, <1>8, <2>1, <2>2, <2>3
<1>17. PongsDue(calls, to)
  <2>1. Len(calls) = N - 1 /\ Len(to) = T
    BY <1>11 DEF T
  <2>2. PongsAt(calls, to, h)
    BY <1>13, <1>14, <1>15, <1>16, <2>1 DEF PongsAt
  <2> QED
    BY <2>2 DEF PongsDue
<1>18. ASSUME Head(pongs) = "pingDone"
       PROVE  (\A i \in 1..Len(r) : ~Late(r[i])) /\ (\A i \in 1..Len(o) : ~Late(o[i]))
  <2>1. \A i \in 1..(T + 1) : i > 1 => ~Late(fl[i])
    BY <1>8, <1>9, <1>11, <1>18
  <2>2. \A i \in 1..T : ~Late(to[i])
    <3>1. \A i \in 1..T : i + 1 > 1
      OBVIOUS
    <3> QED
      BY <1>7, <2>1, <3>1
  <2> QED
    BY <1>3, <2>2
<1> QED
  BY <1>10, <1>17, <1>18 DEF calls, to, r

(* A pong is due for every callback. *)
LEMMA PongsCounted ==
    ASSUME NEW pongs \in Seq(Callback), NEW q \in Seq(InMsg), NEW o \in Seq(OutMsg),
           PongsDue(pongs, q \o o)
    PROVE  Len(pongs) = Cardinality({i \in DOMAIN o : o[i].type = "ping"})
                        + Cardinality({i \in DOMAIN q : q[i].type = "pong"})
<1> DEFINE fl == q \o o
           N == Len(pongs)
           M == Len(q)
           K == Len(o)
           Q == {i \in DOMAIN q : q[i].type = "pong"}
           O == {i \in DOMAIN o : o[i].type = "ping"}
           P == {i \in 1..(M + K) : IsPing(fl[i])}
           R == {i \in P : i \notin 1..M}
           g == [i \in O |-> M + i]
<1>1. /\ fl \in Seq(Msg) /\ Len(fl) = M + K /\ M \in Nat /\ K \in Nat
      /\ \A i \in 1..M : i \in 1..(M + K) /\ fl[i] = q[i]
      /\ \A i \in 1..K : M + i \in 1..(M + K) /\ fl[M + i] = o[i]
      /\ \A i \in 1..(M + K) : i \in 1..M \/ (i - M \in 1..K /\ fl[i] = o[i - M])
  BY FlightAt
<1>2. DOMAIN q = 1..M /\ DOMAIN o = 1..K /\ N \in Nat
  OBVIOUS
<1>3. \A i \in 1..M : IsPing(q[i]) <=> q[i].type = "pong"
  BY <1>2 DEF IsPing, InMsg
<1>4. \A i \in 1..K : IsPing(o[i]) <=> o[i].type = "ping"
  BY <1>2 DEF IsPing, OutMsg
<1>5. PICK f : PongsAt(pongs, fl, f)
  BY DEF PongsDue
<1>6. /\ f \in [1..N -> 1..(M + K)] /\ \A k, l \in 1..N : k < l => f[k] < f[l]
      /\ \A i \in 1..(M + K) : IsPing(fl[i]) <=> \E k \in 1..N : f[k] = i
  BY <1>1, <1>5 DEF PongsAt
<1> HIDE DEF fl
<1>7. IsFiniteSet(P) /\ Cardinality(P) = N
  <2>1. f \in [1..N -> P]
    BY <1>6
  <2>2. IsInjective(f)
    <3> SUFFICES ASSUME NEW a \in 1..N, NEW b \in 1..N, f[a] = f[b] PROVE a = b
      BY <1>6 DEF IsInjective
    <3>1. f[a] \in Int /\ a \in Int /\ b \in Int
      BY <1>6
    <3>2. ~(a < b) /\ ~(b < a)
      BY <1>6, <3>1
    <3> QED
      BY <3>1, <3>2
  <2>3. \A i \in P : \E k \in 1..N : f[k] = i
    BY <1>6
  <2>4. ExistsBijection(1..N, P)
    <3> HIDE DEF P, N
    <3> QED
      BY <2>1, <2>2, <2>3, Zenon DEF ExistsBijection, Bijection, Injection, Surjection
  <2>5. IsFiniteSet(1..N) /\ Cardinality(1..N) = N
    <3> HIDE DEF N
    <3>1. 1 \in Int /\ N \in Int
      BY <1>2
    <3>2. IsFiniteSet(1..N) /\ Cardinality(1..N) = IF 1 > N THEN 0 ELSE N - 1 + 1
      BY <3>1, FS_Interval
    <3>3. (1 > N => N = 0) /\ N - 1 + 1 = N
      BY <1>2
    <3> QED
      BY <3>2, <3>3
  <2> HIDE DEF P
  <2> QED
    BY <2>4, <2>5, FS_Bijection
<1>8. P = Q \cup R /\ Q \cap R = {}
  BY <1>1, <1>2, <1>3
<1>9. IsFiniteSet(Q) /\ IsFiniteSet(R) /\ IsFiniteSet(O)
  <2>1. Q \in SUBSET P /\ R \in SUBSET P
    BY <1>8
  <2>2. IsFiniteSet(1..K) /\ O \in SUBSET (1..K)
    BY <1>1, <1>2, FS_Interval
  <2> HIDE DEF P, Q, R, O
  <2> QED
    BY <1>7, <2>1, <2>2, FS_Subset
<1>10. N = Cardinality(Q) + Cardinality(R)
  <2>1. Cardinality(Q \cup R) = Cardinality(Q) + Cardinality(R) - Cardinality(Q \cap R)
    BY <1>9, FS_Union
  <2>2. Cardinality({}) = 0
    BY FS_EmptySet
  <2>3. Cardinality(Q) \in Nat /\ Cardinality(R) \in Nat
    BY <1>9, FS_CardinalityType
  <2> HIDE DEF P, Q, R, N
  <2>4. Cardinality(Q \cup R) = N /\ Cardinality(Q \cap R) = 0
    BY <1>7, <1>8, <2>2
  <2>5. N = Cardinality(Q) + Cardinality(R) - 0
    BY <2>1, <2>4
  <2> QED
    BY <2>3, <2>5
<1>11. Cardinality(R) = Cardinality(O)
  <2>1. g \in [O -> R]
    <3>1. \A i \in O : M + i \in 1..(M + K) /\ M + i \notin 1..M /\ IsPing(fl[M + i])
      BY <1>1, <1>2, <1>4
    <3> QED
      BY <3>1
  <2>2. IsInjective(g)
    BY <1>1, <1>2 DEF IsInjective
  <2>3. \A i \in R : \E k \in O : g[k] = i
    <3> SUFFICES ASSUME NEW i \in R PROVE \E k \in O : g[k] = i
      OBVIOUS
    <3>1. i - M \in 1..K /\ fl[i] = o[i - M] /\ M + (i - M) = i
      BY <1>1
    <3>2. i - M \in O
      BY <1>2, <1>4, <3>1
    <3> QED
      BY <3>1, <3>2
  <2>4. ExistsBijection(O, R)
    <3> HIDE DEF R, O, g
    <3> QED
      BY <2>1, <2>2, <2>3, Zenon DEF ExistsBijection, Bijection, Injection, Surjection
  <2> HIDE DEF R, O
  <2> QED
    BY <1>9, <2>4, FS_Bijection
<1>12. Cardinality(Q) \in Nat /\ Cardinality(O) \in Nat
  BY <1>9, FS_CardinalityType
<1> HIDE DEF N, Q, O, R
<1>13. N = Cardinality(O) + Cardinality(Q)
  BY <1>10, <1>11, <1>12
<1> QED
  BY <1>13 DEF N, Q, O

-----------------------------------------------------------------------------
(* The invariant. *)

(* The wallet is right, and has every payment up to the last block.          *)
Got(w, last) ==
    /\ Purse(w) /\ w.allTx \cap Wanted \subseteq Listed(w)
    /\ \A n \in Num : n <= last => \A t \in Range(Mined[n]) :
          OursPaid(t) => t \in Listed(w) /\ w.height[t] = n

(* The filter is updated by one at a time, and there is none at first. *)
UpdateStep(c) == c \in {"pingDone", "loadDone"}
Updates(pongs, filter, updating) ==
    /\ \A k \in 1..Len(pongs) : /\ pongs[k] = "pingDone" => filter = NULL
                                /\ UpdateStep(pongs[k]) => updating
    /\ \A k, l \in 1..Len(pongs) : UpdateStep(pongs[k]) /\ UpdateStep(pongs[l]) => k = l

(* The peer has the node's filter, or will have it before it is asked for a   *)
(* block.                                                                    *)
IsLoad(m) == m.type = "filterload"
Sent(filter, q, o, watched) ==
    filter # NULL =>
      /\ \A j \in 1..Len(o) : IsLoad(o[j]) =>
            /\ o[j].filter.addrs = filter.addrs
            /\ \A i \in 1..j : ~HasBlocks(o[i])
            /\ \A i \in 1..Len(q) : ~HasBlocks(q[i])
      /\ (\A j \in 1..Len(o) : ~IsLoad(o[j])) => watched.addrs = filter.addrs

(* The node's filter has the next unused addresses, and none left out before. *)
Reach(w, filter, o, watched) ==
    /\ filter # NULL =>
         /\ NextUnused(w) \subseteq filter.addrs
         /\ \A a \in filter.addrs : \A k \in 0..(a[2] - 1) : <<a[1], k>> \in filter.addrs
    /\ filter.addrs \subseteq AllAddrs(w) /\ watched.addrs \subseteq AllAddrs(w)
    /\ \A j \in 1..Len(o) : IsLoad(o[j]) => o[j].filter.addrs \subseteq AllAddrs(w)

(* A block under way has all that pays an address of the node's filter.      *)
Complete(b, filter) ==
    /\ Range(b.matched) \subseteq Range(Mined[b.height])
    /\ filter # NULL =>
         \A t \in Range(Mined[b.height]) : Pays(t, filter.addrs) => t \in Range(b.matched)
Blocks(L, filter, q, current, orphans) ==
    /\ \A i \in 1..Len(q) : q[i].type = "merkleblock" => Complete(q[i].block, filter)
    /\ current # NoBlock => Complete(current, filter)
    /\ \A o \in orphans : Complete(o, filter) /\ Range(o.matched) \cap Wanted \subseteq L

(* Its transactions follow it. *)
Follow(q) ==
    \A i \in 1..Len(q) : q[i].type = "merkleblock" =>
       \A k \in 1..Len(q[i].block.matched) :
          i + k \in 1..Len(q) /\ Carries(q[i + k], q[i].block.matched[k])
Waits(L, current, missing, q) ==
    /\ missing = {} <=> current = NoBlock
    /\ missing \subseteq Range(current.matched)
    /\ \A t \in missing : \E j \in 1..Len(q) :
          Carries(q[j], t) /\ \A i \in 1..j : q[i].type = "tx"
    /\ Range(current.matched) \cap Wanted \subseteq L \cup missing

Inv(s, q, rem) ==
    /\ s \in Node /\ q \in Seq(InMsg) /\ rem \in Remote
    /\ Got(s.wallet, s.lastBlock)
    /\ Traffic(AllAddrs(s.wallet), Listed(s.wallet), s.known, s.knownTx, q, s.out,
               rem.filter.outs, rem.height)
    /\ PongsDue(s.pongs, q \o s.out) /\ Updates(s.pongs, s.filter, s.updating)
    /\ Sent(s.filter, q, s.out, rem.filter) /\ Reach(s.wallet, s.filter, s.out, rem.filter)
    /\ Blocks(Listed(s.wallet), s.filter, q, s.current, s.orphans) /\ Follow(q)
    /\ Waits(Listed(s.wallet), s.current, s.missing, q)

(* The types of the fields of a node. *)
LEMMA NodeFields ==
    ASSUME NEW s \in Node
    PROVE  /\ s.wallet \in Wallet /\ s.lastBlock \in 0..Len(Mined) /\ s.estimated \in 0..Len(Mined)
           /\ s.orphans \in SUBSET Block /\ s.filter \in Bloom /\ s.updating \in BOOLEAN
           /\ s.known \in Seq(Num) /\ s.knownTx \in SUBSET Tx /\ s.current \in Block \cup {NoBlock}
           /\ s.missing \in SUBSET Tx /\ s.pongs \in Seq(Callback) /\ s.out \in Seq(OutMsg)
           /\ s.mempool \in BOOLEAN /\ s.syncing \in BOOLEAN /\ s.lastBlock \in Nat
<1>1. \A n \in 0..Len(Mined) : n \in Nat
  BY NumNat
<1> QED
  BY <1>1 DEF Node

(* The node sends a message, ... *)
LEMMA InvAsks ==
    ASSUME NEW s, NEW q, NEW rem, Inv(s, q, rem), NEW v \in Node, Same(v, s, Idle \cup {"out"}),
           NEW m \in OutMsg, ~IsPing(m), ~IsLoad(m), v.out = Append(s.out, m),
           InChain(m, rem.height), HasBlocks(m) => NoUpdate(s.pongs),
           \A i \in 1..Len(q) : \A t \in Wanted : NamesTx(q[i], t) => ~AsksBlockOf(m, t),
           m.type = "getdata" => BackedTxs(m.txs, AllAddrs(s.wallet),
              Listed(s.wallet) \cup Carried(q) \cup AskedIn(s.out, Len(s.out)))
    PROVE  Inv(v, q, rem)
<1> DEFINE o == s.out
           p == v.out
<1>1. s \in Node /\ q \in Seq(InMsg) /\ rem \in Remote
  BY DEF Inv
<1>2. o \in Seq(OutMsg) /\ s.pongs \in Seq(Callback)
  BY <1>1, NodeFields
<1>3. /\ v.wallet = s.wallet /\ v.lastBlock = s.lastBlock /\ v.known = s.known
      /\ v.knownTx = s.knownTx /\ v.pongs = s.pongs /\ v.filter = s.filter
      /\ v.updating = s.updating /\ v.current = s.current /\ v.missing = s.missing
      /\ v.orphans = s.orphans
  BY DEF Same, Fields, Idle
<1>4. Traffic(AllAddrs(s.wallet), Listed(s.wallet), s.known, s.knownTx, q, p,
              rem.filter.outs, rem.height)
  <2>1. Traffic(AllAddrs(s.wallet), Listed(s.wallet), s.known, s.knownTx, q, o,
              rem.filter.outs, rem.height)
    BY DEF Inv
  <2>2. m.type # "filterload"
    BY DEF IsLoad
  <2> QED
    BY <1>1, <1>2, <2>1, <2>2, TrafficAsks
<1>5. PongsDue(s.pongs, q \o p)
  <2>1. PongsDue(s.pongs, q \o o)
    BY DEF Inv
  <2>2. Late(m) => NoUpdate(s.pongs)
    BY DEF Late, IsLoad
  <2> QED
    BY <1>1, <1>2, <2>1, <2>2, PongsAsked
<1>6. /\ Len(p) = Len(o) + 1 /\ Len(o) \in Nat
      /\ \A i \in 1..Len(o) : i \in 1..(Len(o) + 1) /\ p[i] = o[i]
      /\ \A i \in 1..(Len(o) + 1) : i \in 1..Len(o) \/ i = Len(o) + 1
      /\ p[Len(o) + 1] = m
  BY <1>2, AppendAt
<1> HIDE DEF p
<1>7. \A j \in 1..Len(p) : IsLoad(p[j]) => j \in 1..Len(o) /\ p[j] = o[j]
  BY <1>6
<1>8. Sent(s.filter, q, p, rem.filter)
  <2> SUFFICES ASSUME s.filter # NULL
               PROVE  /\ \A j \in 1..Len(p) : IsLoad(p[j]) =>
                            /\ p[j].filter.addrs = s.filter.addrs
                            /\ \A i \in 1..j : ~HasBlocks(p[i])
                            /\ \A i \in 1..Len(q) : ~HasBlocks(q[i])
                      /\ (\A j \in 1..Len(p) : ~IsLoad(p[j])) =>
                            rem.filter.addrs = s.filter.addrs
    BY DEF Sent
  <2>1. /\ \A j \in 1..Len(o) : IsLoad(o[j]) =>
              /\ o[j].filter.addrs = s.filter.addrs
              /\ \A i \in 1..j : ~HasBlocks(o[i])
              /\ \A i \in 1..Len(q) : ~HasBlocks(q[i])
        /\ (\A j \in 1..Len(o) : ~IsLoad(o[j])) => rem.filter.addrs = s.filter.addrs
    BY DEF Inv, Sent
  <2>2. \A j \in 1..Len(o) : \A i \in 1..j : i \in 1..Len(o)
    BY <1>6
  <2>3. \A j \in 1..Len(p) : IsLoad(p[j]) =>
              /\ p[j].filter.addrs = s.filter.addrs
              /\ \A i \in 1..j : ~HasBlocks(p[i])
              /\ \A i \in 1..Len(q) : ~HasBlocks(q[i])
    BY <1>6, <1>7, <2>1, <2>2
  <2>4. (\A j \in 1..Len(p) : ~IsLoad(p[j])) => \A j \in 1..Len(o) : ~IsLoad(o[j])
    BY <1>6
  <2> QED
    BY <2>1, <2>3, <2>4
<1>9. Reach(s.wallet, s.filter, p, rem.filter)
  BY <1>7 DEF Inv, Reach
<1>10. /\ Got(s.wallet, s.lastBlock) /\ Updates(s.pongs, s.filter, s.updating)
       /\ Blocks(Listed(s.wallet), s.filter, q, s.current, s.orphans) /\ Follow(q)
       /\ Waits(Listed(s.wallet), s.current, s.missing, q)
  BY DEF Inv
<1> QED
  BY <1>1, <1>3, <1>4, <1>5, <1>8, <1>9, <1>10 DEF Inv, p

(* ... early is not looked at, ... *)
LEMMA InvEarly ==
    ASSUME NEW s, NEW q, NEW rem, Inv(s, q, rem), NEW v \in Node, Same(v, s, Idle \cup {"early"})
    PROVE  Inv(v, q, rem)
<1>1. /\ v.wallet = s.wallet /\ v.lastBlock = s.lastBlock /\ v.known = s.known
      /\ v.knownTx = s.knownTx /\ v.pongs = s.pongs /\ v.filter = s.filter
      /\ v.updating = s.updating /\ v.current = s.current /\ v.missing = s.missing
      /\ v.orphans = s.orphans /\ v.out = s.out
  BY DEF Same, Fields, Idle
<1> QED
  BY <1>1 DEF Inv

(* ... nothing the invariant looks at changes, ... *)
LEMMA InvIdle ==
    ASSUME NEW s, NEW q, NEW rem, Inv(s, q, rem), NEW v \in Node, Same(v, s, Idle)
    PROVE  Inv(v, q, rem)
<1>1. Same(v, s, Idle \cup {"early"})
  BY DEF Same
<1> QED
  BY <1>1, InvEarly

(* ... or the step is quiet, ... *)
LEMMA InvQuiet ==
    ASSUME NEW s, NEW q, NEW rem, Inv(s, q, rem), NEW v, Quiet(v, s)
    PROVE  Inv(v, q, rem)
<1>1. v \in Node /\ Same(v, s, Idle \cup {"out"})
  BY DEF Quiet
<1>2. CASE v.out = s.out
  <2>1. Same(v, s, Idle)
    BY <1>1, <1>2 DEF Same
  <2> QED
    BY <1>1, <2>1, InvIdle
<1>3. CASE v.out # s.out
  <2>1. PICK m : AsksHashes(m) /\ v.out = Append(s.out, m)
    BY <1>3 DEF Quiet
  <2>2. /\ m \in OutMsg /\ ~IsPing(m) /\ ~IsLoad(m) /\ ~HasBlocks(m) /\ InChain(m, rem.height)
        /\ m.type # "getdata" /\ \A t : ~AsksBlockOf(m, t)
    BY <2>1 DEF AsksHashes, IsPing, IsLoad, HasBlocks, InChain, AsksBlockOf
  <2> QED
    BY <1>1, <2>1, <2>2, InvAsks
<1> QED
  BY <1>2, <1>3

(* ... or a ping, ... *)
LEMMA InvPings ==
    ASSUME NEW s, NEW q, NEW rem, Inv(s, q, rem), NEW c \in Callback,
           c = "pingDone" => s.filter = NULL,
           UpdateStep(c) => s.updating /\ \A k \in 1..Len(s.pongs) : ~UpdateStep(s.pongs[k])
    PROVE  Inv(SendPing(s, c), q, rem)
<1> DEFINE v == SendPing(s, c)
           ping == [type |-> "ping"]
           o == s.out
           p == v.out
           calls == v.pongs
<1>1. s \in Node /\ q \in Seq(InMsg) /\ rem \in Remote
  BY DEF Inv
<1>2. /\ o \in Seq(OutMsg) /\ s.pongs \in Seq(Callback) /\ ping \in OutMsg
      /\ ~IsLoad(ping) /\ ~HasBlocks(ping) /\ InChain(ping, rem.height)
      /\ ping.type # "getdata" /\ ping.type # "filterload" /\ \A t : ~AsksBlockOf(ping, t)
  BY <1>1, NodeFields DEF OutMsg, IsLoad, HasBlocks, InChain, AsksBlockOf
<1>3. v \in Node /\ p = Append(o, ping) /\ calls = Append(s.pongs, c) /\ Same(v, s, {"out", "pongs"})
  BY <1>1, PingNode
<1> HIDE DEF v
<1>4. /\ v.wallet = s.wallet /\ v.lastBlock = s.lastBlock /\ v.known = s.known
      /\ v.knownTx = s.knownTx /\ v.filter = s.filter
      /\ v.updating = s.updating /\ v.current = s.current /\ v.missing = s.missing
      /\ v.orphans = s.orphans
  BY <1>3 DEF Same, Fields
<1>5. Traffic(AllAddrs(s.wallet), Listed(s.wallet), s.known, s.knownTx, q, p,
              rem.filter.outs, rem.height)
  <2>1. Traffic(AllAddrs(s.wallet), Listed(s.wallet), s.known, s.knownTx, q, o,
              rem.filter.outs, rem.height)
    BY DEF Inv
  <2> HIDE DEF ping
  <2> QED
    BY <1>1, <1>2, <1>3, <2>1, TrafficAsks
<1>6. PongsDue(calls, q \o p)
  <2>1. PongsDue(s.pongs, q \o o)
    BY DEF Inv
  <2> QED
    BY <1>1, <1>2, <1>3, <2>1, PongsPinged
<1>7. /\ Len(p) = Len(o) + 1 /\ Len(o) \in Nat
      /\ \A i \in 1..Len(o) : i \in 1..(Len(o) + 1) /\ p[i] = o[i]
      /\ \A i \in 1..(Len(o) + 1) : i \in 1..Len(o) \/ i = Len(o) + 1
      /\ p[Len(o) + 1] = ping
  BY <1>2, <1>3, AppendAt
<1>8. /\ Len(calls) = Len(s.pongs) + 1 /\ calls[Len(s.pongs) + 1] = c
      /\ \A k \in 1..Len(s.pongs) : calls[k] = s.pongs[k]
      /\ \A k \in 1..(Len(s.pongs) + 1) : k \in 1..Len(s.pongs) \/ k = Len(s.pongs) + 1
  BY <1>2, <1>3, AppendAt
<1> HIDE DEF p, calls, ping
<1>9. \A j \in 1..Len(p) : IsLoad(p[j]) => j \in 1..Len(o) /\ p[j] = o[j]
  BY <1>2, <1>7
<1>10. Sent(s.filter, q, p, rem.filter)
  <2> SUFFICES ASSUME s.filter # NULL
               PROVE  /\ \A j \in 1..Len(p) : IsLoad(p[j]) =>
                            /\ p[j].filter.addrs = s.filter.addrs
                            /\ \A i \in 1..j : ~HasBlocks(p[i])
                            /\ \A i \in 1..Len(q) : ~HasBlocks(q[i])
                      /\ (\A j \in 1..Len(p) : ~IsLoad(p[j])) =>
                            rem.filter.addrs = s.filter.addrs
    BY DEF Sent
  <2>1. /\ \A j \in 1..Len(o) : IsLoad(o[j]) =>
              /\ o[j].filter.addrs = s.filter.addrs
              /\ \A i \in 1..j : ~HasBlocks(o[i])
              /\ \A i \in 1..Len(q) : ~HasBlocks(q[i])
        /\ (\A j \in 1..Len(o) : ~IsLoad(o[j])) => rem.filter.addrs = s.filter.addrs
    BY DEF Inv, Sent
  <2>2. \A j \in 1..Len(o) : \A i \in 1..j : i \in 1..Len(o)
    BY <1>7
  <2>3. \A j \in 1..Len(p) : IsLoad(p[j]) =>
              /\ p[j].filter.addrs = s.filter.addrs
              /\ \A i \in 1..j : ~HasBlocks(p[i])
              /\ \A i \in 1..Len(q) : ~HasBlocks(q[i])
    BY <1>7, <1>9, <2>1, <2>2
  <2>4. (\A j \in 1..Len(p) : ~IsLoad(p[j])) => \A j \in 1..Len(o) : ~IsLoad(o[j])
    BY <1>7
  <2> QED
    BY <2>1, <2>3, <2>4
<1>11. Reach(s.wallet, s.filter, p, rem.filter)
  BY <1>9 DEF Inv, Reach
<1>12. Updates(calls, s.filter, s.updating)
  <2>1. /\ \A k \in 1..Len(s.pongs) : /\ s.pongs[k] = "pingDone" => s.filter = NULL
                                      /\ UpdateStep(s.pongs[k]) => s.updating
        /\ \A k, l \in 1..Len(s.pongs) : UpdateStep(s.pongs[k]) /\ UpdateStep(s.pongs[l]) => k = l
    BY DEF Inv, Updates
  <2> QED
    BY <1>8, <2>1 DEF Updates
<1>13. /\ Got(s.wallet, s.lastBlock)
       /\ Blocks(Listed(s.wallet), s.filter, q, s.current, s.orphans) /\ Follow(q)
       /\ Waits(Listed(s.wallet), s.current, s.missing, q)
  BY DEF Inv
<1> QED
  BY <1>1, <1>3, <1>4, <1>5, <1>6, <1>10, <1>11, <1>12, <1>13 DEF Inv, p, calls, v

(* ... its wallet grows, but the filter still watches enough, ... *)
LEMMA InvGrows ==
    ASSUME NEW s, NEW q, NEW rem, Inv(s, q, rem), NEW v \in Node,
           Same(v, s, Idle \cup {"wallet"}), Got(v.wallet, s.lastBlock),
           AllAddrs(s.wallet) \subseteq AllAddrs(v.wallet),
           Listed(s.wallet) \subseteq Listed(v.wallet),
           s.filter # NULL => NextUnused(v.wallet) \subseteq s.filter.addrs
    PROVE  Inv(v, q, rem)
<1>1. /\ v.lastBlock = s.lastBlock /\ v.known = s.known
      /\ v.knownTx = s.knownTx /\ v.pongs = s.pongs /\ v.filter = s.filter
      /\ v.updating = s.updating /\ v.current = s.current /\ v.missing = s.missing
      /\ v.orphans = s.orphans /\ v.out = s.out
  BY DEF Same, Fields, Idle
<1>2. Traffic(AllAddrs(v.wallet), Listed(v.wallet), s.known, s.knownTx, q, s.out,
              rem.filter.outs, rem.height)
  BY TrafficGrows DEF Inv
<1>3. Reach(v.wallet, s.filter, s.out, rem.filter)
  BY DEF Inv, Reach
<1>4. Blocks(Listed(v.wallet), s.filter, q, s.current, s.orphans)
  BY DEF Inv, Blocks
<1>5. Waits(Listed(v.wallet), s.current, s.missing, q)
  BY DEF Inv, Waits
<1> QED
  BY <1>1, <1>2, <1>3, <1>4, <1>5 DEF Inv

(* ... or it gives its filter up. *)
LEMMA InvForgets ==
    ASSUME NEW s, NEW q, NEW rem, Inv(s, q, rem), NEW v \in Node,
           Same(v, s, Idle \cup {"filter"}), v.filter = NULL
    PROVE  Inv(v, q, rem)
<1>1. /\ v.lastBlock = s.lastBlock /\ v.known = s.known /\ v.wallet = s.wallet
      /\ v.knownTx = s.knownTx /\ v.pongs = s.pongs
      /\ v.updating = s.updating /\ v.current = s.current /\ v.missing = s.missing
      /\ v.orphans = s.orphans /\ v.out = s.out
  BY DEF Same, Fields, Idle
<1>2. Updates(s.pongs, NULL, s.updating)
  BY DEF Inv, Updates
<1>3. Sent(NULL, q, s.out, rem.filter)
  BY DEF Sent
<1>4. Reach(s.wallet, NULL, s.out, rem.filter)
  <2>1. NULL.addrs = {}
    BY DEF NULL
  <2> QED
    BY <2>1 DEF Inv, Reach
<1>5. \A b : Complete(b, s.filter) => Complete(b, NULL)
  BY DEF Complete
<1>6. Blocks(Listed(s.wallet), NULL, q, s.current, s.orphans)
  BY <1>5 DEF Inv, Blocks
<1> QED
  BY <1>1, <1>2, <1>3, <1>4, <1>6 DEF Inv

-----------------------------------------------------------------------------
(* What spends from the wallet.  A filter matches a transaction that spends   *)
(* an output it watches; the peer adds the outputs of what it matches, so the *)
(* blocks it scans after one another, with the same filter, have every        *)
(* transaction that spends from them.                                        *)

AddrOf(u) == Outputs[u[1]][u[2] + 1].address
(* The outputs of block n that pay the wallet. *)
PaidOuts(n) == {u \in Output : u[1] \in Range(Mined[n]) /\ Ours(AddrOf(u))}

(* The ledger was computed with every address that the chain, so far, pays.   *)
(* It is not where a transaction is recognised before the wallet has all the  *)
(* addresses it pays, as _BRWalletUpdateBalance is not called for new addresses. *)
OwnAddrs(t) == {a \in {Outputs[t][i].address : i \in DOMAIN Outputs[t]} : Ours(a)}
LedgerHas(w, last) ==
    \A n \in 1..last : \A t \in Range(Mined[n]) : OwnAddrs(t) \subseteq w.ledgerAddrs
LedgerCurrent == LedgerHas(node.wallet, node.lastBlock)

(* What spends from the wallet is in it, but for the blocks of early. *)
HasSpends(w, n) ==
    \A t \in Range(Mined[n]) : OursSpent(t) => t \in Listed(w) /\ w.height[t] = n
Held(w, last, early) == \A n \in Num : n <= last /\ n \notin early => HasSpends(w, n)

(* The filters the peer has, or will have, for the blocks it is asked for.   *)
LoadsIn(o) == {o[i].filter : i \in {j \in 1..Len(o) : IsLoad(o[j])}}
Filters(o, watched) == IF LoadsIn(o) = {} THEN {watched} ELSE LoadsIn(o)

Watches(f, n) == \A u \in PaidOuts(n) : AddrOf(u) \in f.addrs => u \in f.outs

(* The block has what spends from the outputs of the blocks of a set, and     *)
(* from its own.                                                             *)
SpentIn(b, f, heights) ==
    \A t \in Range(Mined[b.height]) : \A u \in Inputs[t] : \A n \in heights \cup {b.height} :
        u \in PaidOuts(n) /\ AddrOf(u) \in f.addrs => t \in Range(b.matched)

(* The blocks the node has taken from the peer, and those on their way.      *)
Taken(last, current, orphans) ==
    {n \in Num : \/ n <= last
                 \/ current # NoBlock /\ n = current.height
                 \/ \E o \in orphans : o.height = n}
Sending(q, k) ==
    {n \in Num : \E j \in 1..k : q[j].type = "merkleblock" /\ q[j].block.height = n}

SpendsSent(filter, filters, taken, current, q) ==
    filter # NULL =>
      /\ \A f \in filters : \A n \in taken \cup Sending(q, Len(q)) : Watches(f, n)
      /\ \A i \in 1..Len(q) : q[i].type = "merkleblock" =>
            SpentIn(q[i].block, filter, taken \cup Sending(q, i - 1))
      /\ current # NoBlock => SpentIn(current, filter, taken)
Spends(s, q, rem) ==
    SpendsSent(s.filter, Filters(s.out, rem.filter), Taken(s.lastBlock, s.current, s.orphans),
               s.current, q)

(* What a transaction of the chain spends from the wallet was paid by it or a *)
(* block before.                                                              *)
LEMMA SpentOutput ==
    ASSUME NEW n \in Num, NEW t \in Range(Mined[n])
    PROVE  /\ t \in Tx
           /\ \A u \in Inputs[t] : u[1] \in Tx => u \in Output
           /\ OursSpent(t) => \E u \in Inputs[t] : \E m \in 1..n : u \in PaidOuts(m)
<1>1. n \in DOMAIN Mined /\ Mined[n] \in Seq(Tx)
  BY SyncAssumption, NumNat DEF Num
<1>2. t \in Tx
  BY <1>1 DEF Range
<1>3. ASSUME NEW u \in Inputs[t], u[1] \in Tx PROVE u \in Output
  <2>1. PICK i \in DOMAIN Outputs[u[1]] : u = Utxo(u[1], i)
    BY <1>1, <1>3, ChainAssumption
  <2> DEFINE p == u[1]
  <2>2. u = <<p, i - 1>>
    BY <2>1, Zenon DEF Utxo
  <2>3. p \in Tx /\ i \in DOMAIN Outputs[p]
    BY <1>3, <2>1
  <2> HIDE DEF p
  <2>4. i \in Nat /\ i > 0
    BY <2>3, OutputsType
  <2>5. i - 1 \in Nat /\ (i - 1) + 1 = i
    BY <2>4
  <2> QED
    BY <2>2, <2>3, <2>5 DEF Output
<1>4. ASSUME OursSpent(t) PROVE \E u \in Inputs[t] : \E m \in 1..n : u \in PaidOuts(m)
  <2>1. PICK u \in Inputs[t] : u[1] \in Tx /\ Ours(Outputs[u[1]][u[2] + 1].address)
    BY <1>4 DEF OursSpent
  <2>2. u[1] \in Parents(t)
    BY <2>1 DEF Parents
  <2>3. PICK m \in 1..n : u[1] \in Range(Mined[m])
    BY <2>2, ParentsMined
  <2> QED
    BY <1>3, <2>1, <2>3 DEF PaidOuts, AddrOf
<1> QED
  BY <1>2, <1>3, <1>4

(* Another message changes no filter, ... *)
LEMMA FiltersAppend ==
    ASSUME NEW o \in Seq(OutMsg), NEW m \in OutMsg, ~IsLoad(m)
    PROVE  \A x : Filters(Append(o, m), x) = Filters(o, x)
<1>1. LoadsIn(Append(o, m)) = LoadsIn(o)
  <2> DEFINE p == Append(o, m)
  <2>1. /\ Len(p) = Len(o) + 1 /\ Len(o) \in Nat /\ p[Len(o) + 1] = m
        /\ \A i \in 1..Len(o) : i \in 1..(Len(o) + 1) /\ p[i] = o[i]
        /\ \A i \in 1..(Len(o) + 1) : i \in 1..Len(o) \/ i = Len(o) + 1
    BY AppendAt
  <2> HIDE DEF p
  <2>2. LoadsIn(p) = LoadsIn(o)
    BY <2>1 DEF LoadsIn
  <2> QED
    BY <2>2 DEF p
<1> QED
  BY <1>1 DEF Filters

(* ... the peer takes the first message, ... *)
LEMMA FiltersTail ==
    ASSUME NEW o \in Seq(OutMsg), o # << >>, NEW x
    PROVE  Filters(Tail(o), IF IsLoad(o[1]) THEN o[1].filter ELSE x) \subseteq Filters(o, x)
<1> DEFINE p == Tail(o)
<1>1. /\ Len(p) = Len(o) - 1 /\ Len(o) \in Nat \ {0} /\ 1 \in 1..Len(o)
      /\ \A i \in 1..(Len(o) - 1) : i + 1 \in 1..Len(o) /\ p[i] = o[i + 1]
      /\ \A i \in 1..Len(o) : i = 1 \/ (i - 1 \in 1..(Len(o) - 1) /\ p[i - 1] = o[i])
  BY TailAt
<1> HIDE DEF p
<1>2. LoadsIn(p) \subseteq LoadsIn(o)
  BY <1>1 DEF LoadsIn
<1>3. CASE IsLoad(o[1])
  <2>1. o[1].filter \in LoadsIn(o)
    BY <1>1, <1>3 DEF LoadsIn
  <2> QED
    BY <1>2, <1>3, <2>1 DEF Filters, p
<1>4. CASE ~IsLoad(o[1])
  <2>1. LoadsIn(o) \subseteq LoadsIn(p)
    BY <1>1, <1>4 DEF LoadsIn
  <2> QED
    BY <1>2, <1>4, <2>1 DEF Filters, p
<1> QED
  BY <1>3, <1>4

(* ... and a new filter is the only one. *)
LEMMA FiltersLoaded ==
    ASSUME NEW o \in Seq(OutMsg), \A i \in 1..Len(o) : ~IsLoad(o[i]), NEW m \in OutMsg, IsLoad(m)
    PROVE  \A x : Filters(Append(o, m), x) = {m.filter}
<1> DEFINE p == Append(o, m)
<1>1. /\ Len(p) = Len(o) + 1 /\ Len(o) \in Nat /\ p[Len(o) + 1] = m
      /\ \A i \in 1..Len(o) : i \in 1..(Len(o) + 1) /\ p[i] = o[i]
      /\ \A i \in 1..(Len(o) + 1) : i \in 1..Len(o) \/ i = Len(o) + 1
  BY AppendAt
<1>2. Len(o) + 1 \in 1..(Len(o) + 1)
  BY <1>1
<1> HIDE DEF p
<1>3. LoadsIn(p) = {m.filter}
  BY <1>1, <1>2 DEF LoadsIn
<1> QED
  BY <1>3 DEF Filters, p

(* v is s after a step that takes no block and loads no filter.              *)
Keeps(v, s) ==
    /\ v.lastBlock = s.lastBlock /\ v.early = s.early
    /\ Listed(s.wallet) \subseteq Listed(v.wallet) /\ v.wallet.height = s.wallet.height
    /\ v.orphans \subseteq s.orphans /\ v.current \in {s.current, NoBlock}
    /\ v.filter \in {s.filter, NULL}
    /\ \A x : Filters(v.out, x) \subseteq Filters(s.out, x)
Minor ==
    {"estimated", "lastOrphan", "updating", "syncing", "timer", "known", "knownTx", "missing",
     "pongs", "lastInv", "sentMempool", "mempool", "reported", "out"}

(* Such are what the node asks and notes, ... *)
LEMMA KeepsMinor ==
    ASSUME NEW s \in Node, NEW v, Same(v, s, Minor),
           v.out = s.out \/ \E m \in OutMsg : ~IsLoad(m) /\ v.out = Append(s.out, m)
    PROVE  Keeps(v, s)
<1>1. /\ v.lastBlock = s.lastBlock /\ v.early = s.early /\ v.wallet = s.wallet
      /\ v.orphans = s.orphans /\ v.current = s.current /\ v.filter = s.filter
  BY DEF Same, Fields, Minor
<1>2. s.out \in Seq(OutMsg)
  BY NodeFields
<1>3. \A x : Filters(v.out, x) = Filters(s.out, x)
  BY <1>2, FiltersAppend
<1> QED
  BY <1>1, <1>3 DEF Keeps

(* ... nothing at all, ... *)
LEMMA KeepsSelf ==
    ASSUME NEW s
    PROVE  Keeps(s, s)
  BY DEF Keeps

(* ... and two such steps. *)
LEMMA KeepsOn ==
    ASSUME NEW s, NEW v, NEW z, Keeps(v, s), Keeps(z, v)
    PROVE  Keeps(z, s)
<1>1. /\ z.lastBlock = s.lastBlock /\ z.early = s.early
      /\ Listed(s.wallet) \subseteq Listed(z.wallet) /\ z.wallet.height = s.wallet.height
  BY DEF Keeps
<1>2. z.orphans \subseteq s.orphans /\ z.current \in {s.current, NoBlock}
  BY DEF Keeps
<1>3. z.filter \in {s.filter, NULL}
  BY DEF Keeps
<1>4. \A x : Filters(z.out, x) \subseteq Filters(s.out, x)
  BY DEF Keeps
<1> QED
  BY <1>1, <1>2, <1>3, <1>4 DEF Keeps

(* A block that has all spent from more blocks has it from fewer. *)
LEMMA SpentInLess ==
    ASSUME NEW b, NEW f, NEW N, NEW M, M \subseteq N, SpentIn(b, f, N)
    PROVE  SpentIn(b, f, M)
  BY DEF SpentIn

(* Less taken, and less to wait for. *)
LEMMA SpendsLess ==
    ASSUME NEW f, NEW g, g \in {f, NULL}, NEW F, NEW G, G \subseteq F, NEW T, NEW S, S \subseteq T,
           NEW b, NEW c, c \in {b, NoBlock}, NEW q, SpendsSent(f, F, T, b, q)
    PROVE  SpendsSent(g, G, S, c, q)
<1> SUFFICES ASSUME g # NULL, g = f
             PROVE  /\ \A h \in G : \A n \in S \cup Sending(q, Len(q)) : Watches(h, n)
                    /\ \A i \in 1..Len(q) : q[i].type = "merkleblock" =>
                          SpentIn(q[i].block, f, S \cup Sending(q, i - 1))
                    /\ c # NoBlock => SpentIn(c, f, S)
  BY DEF SpendsSent
<1>1. \A h \in G : \A n \in S \cup Sending(q, Len(q)) : Watches(h, n)
  BY DEF SpendsSent
<1>2. ASSUME NEW i \in 1..Len(q), q[i].type = "merkleblock"
      PROVE  SpentIn(q[i].block, f, S \cup Sending(q, i - 1))
  <2>1. SpentIn(q[i].block, f, T \cup Sending(q, i - 1))
    BY <1>2 DEF SpendsSent
  <2>2. S \cup Sending(q, i - 1) \subseteq T \cup Sending(q, i - 1)
    OBVIOUS
  <2> QED
    BY <2>1, <2>2, SpentInLess
<1>3. c # NoBlock => SpentIn(c, f, S)
  <2>1. c # NoBlock => SpentIn(c, f, T)
    BY DEF SpendsSent
  <2> QED
    BY <2>1, SpentInLess
<1> QED
  BY <1>1, <1>2, <1>3

(* The first message is taken. *)
LEMMA SpendsTaken ==
    ASSUME NEW f, NEW F, NEW T, NEW b, NEW q \in Seq(InMsg), q # << >>, SpendsSent(f, F, T, b, q),
           NEW g \in {f, NULL}, NEW G, G \subseteq F, NEW S, S \subseteq T \cup Sending(q, 1),
           NEW c, g # NULL /\ c # NoBlock => SpentIn(c, f, S)
    PROVE  SpendsSent(g, G, S, c, Tail(q))
<1> DEFINE r == Tail(q)
<1>1. /\ Len(r) = Len(q) - 1 /\ Len(q) \in Nat \ {0}
      /\ \A i \in 1..(Len(q) - 1) : i + 1 \in 1..Len(q) /\ r[i] = q[i + 1]
  BY TailAt
<1> HIDE DEF r
<1> SUFFICES ASSUME g # NULL, g = f
             PROVE  /\ \A h \in G : \A n \in S \cup Sending(r, Len(r)) : Watches(h, n)
                    /\ \A i \in 1..Len(r) : r[i].type = "merkleblock" =>
                          SpentIn(r[i].block, f, S \cup Sending(r, i - 1))
  BY DEF SpendsSent, r
<1>2. ASSUME NEW k \in 0..Len(r)
      PROVE  S \cup Sending(r, k) \subseteq T \cup Sending(q, k + 1)
  <2>1. \A j \in 1..k : j + 1 \in 1..(k + 1) /\ r[j] = q[j + 1]
    BY <1>1, <1>2
  <2>2. Sending(r, k) \subseteq Sending(q, k + 1)
    BY <2>1 DEF Sending
  <2>3. \A j \in 1..1 : j \in 1..(k + 1)
    OBVIOUS
  <2>4. Sending(q, 1) \subseteq Sending(q, k + 1)
    BY <2>3 DEF Sending
  <2> QED
    BY <2>2, <2>4
<1>3. ASSUME NEW h \in G, NEW n \in S \cup Sending(r, Len(r)) PROVE Watches(h, n)
  <2>1. Len(r) \in 0..Len(r) /\ Len(r) + 1 = Len(q)
    BY <1>1
  <2>2. n \in T \cup Sending(q, Len(q))
    BY <1>2, <1>3, <2>1
  <2> QED
    BY <1>3, <2>2 DEF SpendsSent
<1>4. ASSUME NEW i \in 1..Len(r), r[i].type = "merkleblock"
      PROVE  SpentIn(r[i].block, f, S \cup Sending(r, i - 1))
  <2>1. i - 1 \in 0..Len(r) /\ (i - 1) + 1 = i /\ (i + 1) - 1 = i
    BY <1>1
  <2>2. i + 1 \in 1..Len(q) /\ r[i] = q[i + 1]
    BY <1>1, <1>4
  <2>3. SpentIn(r[i].block, f, T \cup Sending(q, i))
    BY <1>4, <2>1, <2>2 DEF SpendsSent
  <2>4. S \cup Sending(r, i - 1) \subseteq T \cup Sending(q, i)
    BY <1>2, <2>1
  <2> QED
    BY <2>3, <2>4, SpentInLess
<1> QED
  BY <1>3, <1>4

(* Fewer blocks are taken without some orphans, or the current one. *)
LEMMA TakenLess ==
    ASSUME NEW last, NEW b, NEW c, c \in {b, NoBlock}, NEW O, NEW P, P \subseteq O
    PROVE  Taken(last, c, P) \subseteq Taken(last, b, O)
  BY DEF Taken

(* Such a step keeps what is held, ... *)
LEMMA HeldKeeps ==
    ASSUME NEW s, NEW v, Keeps(v, s), Held(s.wallet, s.lastBlock, s.early)
    PROVE  Held(v.wallet, v.lastBlock, v.early)
  BY DEF Keeps, Held, HasSpends

(* ... and what will be found. *)
LEMMA SpendsKeeps ==
    ASSUME NEW s, NEW v, Keeps(v, s), NEW q, NEW rem, Spends(s, q, rem)
    PROVE  Spends(v, q, rem)
<1>1. /\ v.filter \in {s.filter, NULL} /\ v.current \in {s.current, NoBlock}
      /\ Filters(v.out, rem.filter) \subseteq Filters(s.out, rem.filter)
      /\ v.lastBlock = s.lastBlock /\ v.orphans \subseteq s.orphans
  BY DEF Keeps
<1>2. Taken(v.lastBlock, v.current, v.orphans) \subseteq Taken(s.lastBlock, s.current, s.orphans)
  BY <1>1, TakenLess
<1> QED
  BY <1>1, <1>2, SpendsLess DEF Spends

(* A message that is no block is received. *)
LEMMA SpendsReceives ==
    ASSUME NEW s, NEW v, Keeps(v, s), NEW q \in Seq(InMsg), q # << >>, NEW rem, Spends(s, q, rem)
    PROVE  Spends(v, Tail(q), rem)
<1>1. /\ v.filter \in {s.filter, NULL} /\ v.current \in {s.current, NoBlock}
      /\ Filters(v.out, rem.filter) \subseteq Filters(s.out, rem.filter)
      /\ v.lastBlock = s.lastBlock /\ v.orphans \subseteq s.orphans
  BY DEF Keeps
<1> DEFINE T == Taken(s.lastBlock, s.current, s.orphans)
           S == Taken(v.lastBlock, v.current, v.orphans)
<1>2. S \subseteq T
  BY <1>1, TakenLess
<1> HIDE DEF S, T
<1>3. v.filter # NULL /\ v.current # NoBlock => SpentIn(v.current, s.filter, S)
  <2> SUFFICES ASSUME v.filter # NULL, v.current # NoBlock PROVE SpentIn(v.current, s.filter, S)
    OBVIOUS
  <2>1. SpentIn(v.current, s.filter, T)
    BY <1>1 DEF Spends, SpendsSent, T
  <2> QED
    BY <1>2, <2>1, SpentInLess
<1>4. S \subseteq T \cup Sending(q, 1)
  BY <1>2
<1>5. SpendsSent(s.filter, Filters(s.out, rem.filter), T, s.current, q)
  BY DEF Spends, T
<1>6. SpendsSent(v.filter, Filters(v.out, rem.filter), S, v.current, Tail(q))
  BY <1>1, <1>3, <1>4, <1>5, SpendsTaken
<1> QED
  BY <1>6 DEF Spends, S

(* Minor changes: nothing is sent, ... *)
LEMMA KeepsSame ==
    ASSUME NEW s \in Node, NEW v, Same(v, s, Minor \ {"out"})
    PROVE  Keeps(v, s)
<1>1. v.out = s.out /\ Same(v, s, Minor)
  BY DEF Same, Fields, Minor
<1> QED
  BY <1>1, KeepsMinor

(* ... or a ping is, ... *)
LEMMA KeepsPing ==
    ASSUME NEW s \in Node, NEW c \in Callback
    PROVE  Keeps(SendPing(s, c), s)
<1> DEFINE v == SendPing(s, c)
           m == [type |-> "ping"]
<1>1. v.out = Append(s.out, m) /\ Same(v, s, {"out", "pongs"})
  BY PingNode
<1>2. m \in OutMsg /\ ~IsLoad(m)
  BY DEF OutMsg, IsLoad
<1> HIDE DEF v, m
<1>3. Same(v, s, Minor)
  BY <1>1 DEF Same, Minor
<1>4. Keeps(v, s)
  BY <1>1, <1>2, <1>3, KeepsMinor
<1> QED
  BY <1>4 DEF v

(* ... or hashes are asked for. *)
LEMMA KeepsQuiet ==
    ASSUME NEW s \in Node, NEW v, Quiet(v, s)
    PROVE  Keeps(v, s)
<1>1. Same(v, s, Minor)
  BY DEF Quiet, Same, Minor, Idle
<1>2. v.out = s.out \/ \E m \in OutMsg : ~IsLoad(m) /\ v.out = Append(s.out, m)
  <2>1. \A m : AsksHashes(m) => m \in OutMsg /\ ~IsLoad(m)
    BY DEF AsksHashes, IsLoad
  <2> QED
    BY <2>1 DEF Quiet
<1> QED
  BY <1>1, <1>2, KeepsMinor

(* v asks the peer for what s did, and for no other filter. *)
SameFilters(v, s) == \A x : Filters(v.out, x) \subseteq Filters(s.out, x)

(* v is s after block b was taken. *)
Settles(v, s, b) ==
    LET T == Taken(s.lastBlock, s.current, s.orphans)
    IN  /\ v.filter = s.filter /\ v.current = s.current /\ SameFilters(v, s)
        /\ Taken(v.lastBlock, v.current, v.orphans) \subseteq T \cup {b.height}
        /\ /\ Held(s.wallet, s.lastBlock, s.early)
           /\ s.filter # NULL => SpentIn(b, s.filter, T)
           => Held(v.wallet, v.lastBlock, v.early)

(* v is s with a new filter, made for the grown wallet. *)
Loads(v, s) ==
    LET w == GrowChains(s.wallet, Spare)
    IN  /\ v.wallet = w /\ v.lastBlock = s.lastBlock /\ v.early = s.early
        /\ v.orphans = {} /\ v.current = NoBlock
        /\ v.filter = Filter(w, Watched(w)) /\ \A x : Filters(v.out, x) = {v.filter}
Reloads(v, s) == \E x : Loads(x, s) /\ Keeps(v, x)

(* More may be listed, while the filter is given up, ... *)
LEMMA KeepsWallet ==
    ASSUME NEW s \in Node, NEW v, Same(v, s, Idle \cup {"wallet", "filter"}),
           v.filter \in {s.filter, NULL}, Listed(s.wallet) \subseteq Listed(v.wallet),
           v.wallet.height = s.wallet.height
    PROVE  Keeps(v, s)
<1>1. /\ v.lastBlock = s.lastBlock /\ v.early = s.early /\ v.out = s.out
      /\ v.orphans = s.orphans /\ v.current = s.current
  BY DEF Same, Fields, Idle
<1> QED
  BY <1>1 DEF Keeps

(* ... or kept. *)
LEMMA KeepsRegisters ==
    ASSUME NEW s \in Node, NEW v, Same(v, s, Idle \cup {"wallet"}),
           Listed(s.wallet) \subseteq Listed(v.wallet), v.wallet.height = s.wallet.height
    PROVE  Keeps(v, s)
<1>1. Same(v, s, Idle \cup {"wallet", "filter"}) /\ v.filter \in {s.filter, NULL}
  BY DEF Same, Fields, Idle
<1> QED
  BY <1>1, KeepsWallet

(* No spend is missed, and none will be. *)
Safe(s, q, rem) ==
    Held(s.wallet, s.lastBlock, s.early) /\ Spends(s, q, rem)

(* Steps that take no block, ... *)
LEMMA KeepsSafe ==
    ASSUME NEW s, NEW v, Keeps(v, s), NEW q, NEW rem, Safe(s, q, rem)
    PROVE  Safe(v, q, rem)
  BY HeldKeeps, SpendsKeeps DEF Safe

(* ... with a message received. *)
LEMMA KeepsReceives ==
    ASSUME NEW s, NEW v, Keeps(v, s), NEW q \in Seq(InMsg), q # << >>, NEW rem, Safe(s, q, rem)
    PROVE  Safe(v, Tail(q), rem)
  BY HeldKeeps, SpendsReceives DEF Safe

(* A filter watches the outputs, to the addresses of the ledger, of what is   *)
(* listed.                                                                   *)
LEMMA WatchedAll ==
    ASSUME NEW w, Purse(w), NEW u \in Output, u[1] \in Listed(w), AddrOf(u) \in w.ledgerAddrs
    PROVE  u \in Watched(w)
<1> DEFINE L == Range(w.transactions)
           t == u[1]
<1>1. w \in Wallet /\ Ledger(w, L) /\ L \subseteq w.allTx /\ w.allTx \subseteq Tx
  <2>1. w \in Wallet /\ Ledger(w, L) /\ L \subseteq w.allTx
    BY DEF Purse, WalletOK, Shape, InOrder, LedgerOK
  <2> QED
    BY <2>1, WalletFields
<1>2. \A A : AddrOf(u) \in A => u \in PaidTo(t, A)
  <2> SUFFICES ASSUME NEW A, AddrOf(u) \in A PROVE u \in PaidTo(t, A)
    OBVIOUS
  <2> DEFINE i == u[2] + 1
  <2>1. u = <<t, u[2]>> /\ u[2] \in Nat /\ i \in DOMAIN Outputs[t]
    BY DEF Output
  <2>2. i - 1 = u[2]
    BY <2>1
  <2>3. u = Utxo(t, i)
    BY <2>1, <2>2, Zenon DEF Utxo
  <2>4. Outputs[t][i].address \in A
    BY DEF AddrOf
  <2> HIDE DEF i
  <2> QED
    BY <2>1, <2>3, <2>4 DEF PaidTo
<1>3. CountedOf(w, L) = L /\ NonInvalid(w, L) = L
  BY DEF CountedOf, NonInvalid, Purse
<1>4. t \in L
  BY DEF Listed
<1>5. u \in PaidBy(L, w.ledgerAddrs)
  BY <1>2, <1>4 DEF PaidBy
<1>6. CASE u \notin w.spentOutputs
  <2>1. u \in Range(w.utxos)
    BY <1>1, <1>3, <1>5, <1>6 DEF Ledger
  <2> QED
    BY <2>1 DEF Watched
<1>7. CASE u \in w.spentOutputs
  <2>1. u \in UNION {Inputs[x] : x \in L}
    BY <1>1, <1>3, <1>7 DEF Ledger, Spent
  <2>2. AddrOf(u) \in AllAddrs(w)
    BY DEF Purse
  <2>3. Range(Received(w, t)) = PaidTo(t, AllAddrs(w)) /\ t \in w.allTx
    BY <1>1, <1>4, ReceivedList
  <2>4. u \in Range(Received(w, u[1]))
    BY <1>2, <2>2, <2>3
  <2>5. u \in SpentOutputs(w)
    BY <2>1, <2>3, <2>4 DEF SpentOutputs
  <2> QED
    BY <2>5 DEF Watched
<1> QED
  BY <1>6, <1>7

(* A new filter watches what the chain, so far, pays the wallet. *)
LEMMA LoadsWatches ==
    ASSUME NEW s \in Node, NEW v, Loads(v, s), Got(s.wallet, s.lastBlock),
           LedgerHas(s.wallet, s.lastBlock), NEW n \in Num, n <= s.lastBlock
    PROVE  Watches(v.filter, n)
<1> DEFINE w == GrowChains(s.wallet, Spare)
<1>1. Counted(s.wallet) /\ Spare \in Nat /\ s.wallet \in Wallet /\ Shape(s.wallet)
  BY PurseCounted, SyncAssumption DEF Got
<1>2. Purse(w) /\ Listed(w) = Listed(s.wallet)
  BY <1>1, CountedGrows DEF Listed
<1>3. w.ledgerAddrs = s.wallet.ledgerAddrs
  <2> DEFINE ch == w.chain
  <2>1. w = [s.wallet EXCEPT !.chain = ch]
    BY <1>1, GrowChainsOK
  <2> HIDE DEF ch, w
  <2> QED
    BY <1>1, <2>1 DEF Wallet
<1> HIDE DEF w
<1>4. v.filter = Filter(w, Watched(w))
  BY DEF Loads, w
<1>5. v.filter.outs = Watched(w)
  BY <1>4 DEF Filter
<1>6. ASSUME NEW u \in PaidOuts(n) PROVE u \in Watched(w)
  <2> DEFINE t == u[1]
             i == u[2] + 1
  <2>1. u \in Output /\ t \in Range(Mined[n]) /\ i \in DOMAIN Outputs[t]
        /\ AddrOf(u) = Outputs[t][i].address /\ Ours(AddrOf(u))
    BY DEF PaidOuts, Output, AddrOf
  <2> HIDE DEF t, i
  <2>2. OursPaid(t)
    BY <2>1 DEF OursPaid
  <2>3. t \in Listed(s.wallet)
    BY <2>1, <2>2 DEF Got
  <2>4. s.lastBlock \in Nat /\ n \in Nat \ {0}
    BY NodeFields, NumNat DEF Num
  <2>5. n \in 1..s.lastBlock
    BY <2>4
  <2>6. AddrOf(u) \in s.wallet.ledgerAddrs
    BY <2>1, <2>5 DEF LedgerHas, OwnAddrs
  <2> QED
    BY <1>2, <1>3, <2>1, <2>3, <2>6, WatchedAll DEF t
<1> QED
  BY <1>5, <1>6 DEF Watches

(* So nothing is missed after it, ... *)
LEMMA LoadsSafe ==
    ASSUME NEW s \in Node, NEW v, Loads(v, s), Got(s.wallet, s.lastBlock),
           LedgerHas(s.wallet, s.lastBlock), Held(s.wallet, s.lastBlock, s.early),
           NEW q, \A i \in 1..Len(q) : q[i].type # "merkleblock", NEW rem
    PROVE  Safe(v, q, rem)
<1>1. Held(v.wallet, v.lastBlock, v.early)
  <2>1. Counted(s.wallet) /\ Spare \in Nat
    BY PurseCounted, SyncAssumption DEF Got
  <2>2. Listed(v.wallet) = Listed(s.wallet) /\ v.wallet.height = s.wallet.height
    BY <2>1, CountedGrows DEF Loads, Listed
  <2>3. v.lastBlock = s.lastBlock /\ v.early = s.early
    BY DEF Loads
  <2> QED
    BY <2>2, <2>3 DEF Held, HasSpends
<1>2. Spends(v, q, rem)
  <2>1. Taken(v.lastBlock, v.current, v.orphans) \subseteq {n \in Num : n <= s.lastBlock}
    BY DEF Taken, Loads
  <2>2. Sending(q, Len(q)) = {}
    BY DEF Sending
  <2>3. Filters(v.out, rem.filter) = {v.filter} /\ v.current = NoBlock
    BY DEF Loads
  <2>4. \A n \in Num : n <= s.lastBlock => Watches(v.filter, n)
    BY LoadsWatches
  <2> QED
    BY <2>1, <2>2, <2>3, <2>4 DEF Spends, SpendsSent
<1> QED
  BY <1>1, <1>2 DEF Safe

(* ... nor after what is sent then. *)
LEMMA ReloadsSafe ==
    ASSUME NEW s \in Node, NEW v, Reloads(v, s), Got(s.wallet, s.lastBlock),
           LedgerHas(s.wallet, s.lastBlock), Held(s.wallet, s.lastBlock, s.early),
           NEW q, \A i \in 1..Len(q) : q[i].type # "merkleblock", NEW rem
    PROVE  Safe(v, q, rem)
<1>1. PICK x : Loads(x, s) /\ Keeps(v, x)
  BY DEF Reloads
<1>2. Safe(x, q, rem)
  BY <1>1, LoadsSafe
<1> QED
  BY <1>1, <1>2, KeepsSafe

(* A block comes, and waits for its transactions, ... *)
LEMMA WaitsSafe ==
    ASSUME NEW s, NEW q \in Seq(InMsg), q # << >>, q[1].type = "merkleblock", NEW rem,
           Safe(s, q, rem), s.current = NoBlock, NEW v, Same(v, s, {"current", "missing"}),
           v.current = q[1].block, v.current \in Block
    PROVE  Safe(v, Tail(q), rem)
<1> DEFINE b == q[1].block
           T == Taken(s.lastBlock, s.current, s.orphans)
           S == Taken(v.lastBlock, v.current, v.orphans)
<1>1. /\ v.lastBlock = s.lastBlock /\ v.early = s.early /\ v.wallet = s.wallet
      /\ v.orphans = s.orphans /\ v.filter = s.filter /\ v.out = s.out
  BY DEF Same, Fields
<1>2. 1 \in 1..Len(q) /\ 1 \in 1..1 /\ b.height \in Num
  BY TailAt DEF Block
<1>3. S \subseteq T \cup {b.height}
  BY <1>1 DEF Taken
<1>4. b.height \in Sending(q, 1)
  BY <1>2 DEF Sending
<1>5. SpendsSent(s.filter, Filters(s.out, rem.filter), T, s.current, q)
  BY DEF Safe, Spends
<1>6. s.filter # NULL => SpentIn(b, s.filter, T)
  <2>1. s.filter # NULL => SpentIn(b, s.filter, T \cup Sending(q, 1 - 1))
    BY <1>2, <1>5 DEF SpendsSent
  <2>2. T \subseteq T \cup Sending(q, 1 - 1)
    OBVIOUS
  <2> HIDE DEF b, T
  <2> QED
    BY <2>1, <2>2, SpentInLess
<1>7. s.filter # NULL => SpentIn(b, s.filter, S)
  BY <1>3, <1>6 DEF SpentIn
<1>8. v.filter \in {s.filter, NULL} /\ Filters(v.out, rem.filter) \subseteq Filters(s.out, rem.filter)
      /\ S \subseteq T \cup Sending(q, 1) /\ v.current = b
  BY <1>1, <1>3, <1>4
<1> HIDE DEF T, S, b
<1>9. SpendsSent(v.filter, Filters(v.out, rem.filter), S, v.current, Tail(q))
  BY <1>1, <1>5, <1>7, <1>8, SpendsTaken
<1> QED
  BY <1>1, <1>9 DEF Safe, Spends, S

(* ... or is taken, at once ... *)
LEMMA SettlesSafe ==
    ASSUME NEW s, NEW q \in Seq(InMsg), q # << >>, q[1].type = "merkleblock", NEW rem,
           Safe(s, q, rem), s.current = NoBlock, q[1].block \in Block,
           NEW v, Settles(v, s, q[1].block)
    PROVE  Safe(v, Tail(q), rem)
<1> DEFINE b == q[1].block
           T == Taken(s.lastBlock, s.current, s.orphans)
           S == Taken(v.lastBlock, v.current, v.orphans)
<1>1. /\ v.filter = s.filter /\ v.current = NoBlock /\ S \subseteq T \cup {b.height}
      /\ Filters(v.out, rem.filter) \subseteq Filters(s.out, rem.filter)
  BY DEF Settles, SameFilters
<1>2. 1 \in 1..Len(q) /\ 1 \in 1..1 /\ b.height \in Num
  BY TailAt DEF Block
<1>3. b.height \in Sending(q, 1)
  BY <1>2 DEF Sending
<1>4. SpendsSent(s.filter, Filters(s.out, rem.filter), T, s.current, q)
  BY DEF Safe, Spends
<1>5. s.filter # NULL => SpentIn(b, s.filter, T)
  <2>1. s.filter # NULL => SpentIn(b, s.filter, T \cup Sending(q, 1 - 1))
    BY <1>2, <1>4 DEF SpendsSent
  <2>2. T \subseteq T \cup Sending(q, 1 - 1)
    OBVIOUS
  <2> HIDE DEF b, T
  <2> QED
    BY <2>1, <2>2, SpentInLess
<1>6. Held(v.wallet, v.lastBlock, v.early)
  BY <1>5 DEF Settles, Safe
<1>7. S \subseteq T \cup Sending(q, 1) /\ v.filter \in {s.filter, NULL}
  BY <1>1, <1>3
<1> HIDE DEF T, S, b
<1>8. SpendsSent(v.filter, Filters(v.out, rem.filter), S, v.current, Tail(q))
  BY <1>1, <1>4, <1>7, SpendsTaken
<1> QED
  BY <1>6, <1>8 DEF Safe, Spends, S

(* ... or after the last of its transactions. *)
LEMMA CompletesSafe ==
    ASSUME NEW s, NEW q \in Seq(InMsg), q # << >>, NEW rem, Safe(s, q, rem),
           s.current \in Block, s.current # NoBlock,
           NEW z, Keeps(z, s), z.current = NoBlock, NEW v, Settles(v, z, s.current)
    PROVE  Safe(v, Tail(q), rem)
<1> DEFINE b == s.current
           T == Taken(s.lastBlock, s.current, s.orphans)
           R == Taken(z.lastBlock, z.current, z.orphans)
           S == Taken(v.lastBlock, v.current, v.orphans)
<1>1. /\ v.filter = z.filter /\ v.current = NoBlock /\ S \subseteq R \cup {b.height}
      /\ Filters(v.out, rem.filter) \subseteq Filters(z.out, rem.filter)
  BY DEF Settles, SameFilters
<1>2. /\ z.filter \in {s.filter, NULL} /\ z.lastBlock = s.lastBlock /\ z.orphans \subseteq s.orphans
      /\ Filters(z.out, rem.filter) \subseteq Filters(s.out, rem.filter)
      /\ z.current \in {s.current, NoBlock}
  BY DEF Keeps
<1>3. R \subseteq T
  BY <1>2, TakenLess
<1>4. b.height \in T
  BY DEF Taken, Block
<1>5. SpendsSent(s.filter, Filters(s.out, rem.filter), T, s.current, q)
  BY DEF Safe, Spends
<1>6. z.filter # NULL => SpentIn(b, z.filter, R)
  <2>1. z.filter # NULL => SpentIn(b, z.filter, T)
    BY <1>2, <1>5 DEF SpendsSent
  <2> HIDE DEF b, T, R
  <2> QED
    BY <1>3, <2>1, SpentInLess
<1>7. Held(v.wallet, v.lastBlock, v.early)
  <2>1. Held(z.wallet, z.lastBlock, z.early)
    BY HeldKeeps DEF Safe
  <2> QED
    BY <1>6, <2>1 DEF Settles
<1>8. /\ S \subseteq T \cup Sending(q, 1) /\ v.filter \in {s.filter, NULL}
      /\ Filters(v.out, rem.filter) \subseteq Filters(s.out, rem.filter)
  BY <1>1, <1>2, <1>3, <1>4
<1> HIDE DEF T, R, S, b
<1>9. SpendsSent(v.filter, Filters(v.out, rem.filter), S, v.current, Tail(q))
  BY <1>1, <1>5, <1>8, SpendsTaken
<1> QED
  BY <1>7, <1>9 DEF Safe, Spends, S

(* A block no longer waits. *)
LEMMA KeepsWaits ==
    ASSUME NEW s, NEW v, Same(v, s, {"current", "missing"}), v.current \in {s.current, NoBlock}
    PROVE  Keeps(v, s)
<1>1. /\ v.lastBlock = s.lastBlock /\ v.early = s.early /\ v.wallet = s.wallet
      /\ v.orphans = s.orphans /\ v.filter = s.filter /\ v.out = s.out
  BY DEF Same, Fields
<1> QED
  BY <1>1 DEF Keeps

(* No filter is a filter that watches nothing. *)
LEMMA NullBloom == NULL \in Bloom /\ NULL.addrs = {} /\ NULL.outs = {}
  BY DEF NULL, Bloom

(* The next unused addresses depend on the used ones and the chains. *)
LEMMA NextUnusedSame ==
    ASSUME NEW v, NEW w, v.usedAddrs = w.usedAddrs, v.chain = w.chain
    PROVE  NextUnused(v) = NextUnused(w)
<1>1. \A c, n : FirstUnused(v, c, n) = FirstUnused(w, c, n)
  BY Zenon DEF FirstUnused
<1> QED
  BY <1>1 DEF NextUnused

(* UpdateFilter, once the filter is given up. *)
LEMMA UpdateFilterInv ==
    ASSUME NEW s, NEW q, NEW rem, Inv(s, q, rem), s.filter = NULL
    PROVE  /\ Inv(UpdateFilter(s), q, rem)
           /\ Same(UpdateFilter(s), s, {"updating", "pongs", "out"})
           /\ Keeps(UpdateFilter(s), s)
<1> DEFINE u == [s EXCEPT !.updating = TRUE]
           v == SendPing(u, "pingDone")
<1>1. s \in Node
  BY DEF Inv
<1>2. UpdateFilter(s) = IF s.updating THEN s ELSE v
  BY Zenon DEF UpdateFilter
<1>3. CASE s.updating
  BY <1>2, <1>3, KeepsSelf DEF Same
<1>4. CASE ~s.updating
  <2>1. u \in Node /\ u.updating = TRUE /\ Same(u, s, {"updating"})
    BY <1>1 DEF Node, Same, Fields
  <2> HIDE DEF u
  <2>2. /\ u.lastBlock = s.lastBlock /\ u.known = s.known /\ u.wallet = s.wallet
        /\ u.knownTx = s.knownTx /\ u.pongs = s.pongs /\ u.filter = s.filter
        /\ u.current = s.current /\ u.missing = s.missing
        /\ u.orphans = s.orphans /\ u.out = s.out
    BY <2>1 DEF Same, Fields
  <2>3. Updates(s.pongs, s.filter, TRUE) /\ \A k \in 1..Len(s.pongs) : ~UpdateStep(s.pongs[k])
    BY <1>4 DEF Inv, Updates
  <2>4. Inv(u, q, rem)
    BY <2>1, <2>2, <2>3 DEF Inv
  <2>5. Inv(v, q, rem)
    <3>1. "pingDone" \in Callback
      BY DEF Callback
    <3> HIDE DEF v
    <3> QED
      BY <2>1, <2>2, <2>3, <2>4, <3>1, InvPings DEF v
  <2>6. Same(v, u, {"out", "pongs"})
    BY <2>1, PingNode DEF Callback
  <2>7. Same(v, s, {"updating", "pongs", "out"})
    BY <2>1, <2>6 DEF Same
  <2>8. Keeps(v, s)
    <3>1. Same(u, s, Minor \ {"out"}) /\ "pingDone" \in Callback
      BY <2>1 DEF Same, Minor, Callback
    <3>2. Keeps(u, s) /\ Keeps(v, u)
      BY <1>1, <2>1, <3>1, KeepsSame, KeepsPing
    <3> QED
      BY <3>2, KeepsOn
  <2> QED
    BY <1>2, <1>4, <2>5, <2>7, <2>8
<1> QED
  BY <1>3, <1>4

(* LoadBloomFilter: nothing that an older filter matched may be under way.   *)
LEMMA LoadInv ==
    ASSUME NEW s \in Node, NEW q \in Seq(InMsg), NEW rem \in Remote, Got(s.wallet, s.lastBlock),
           Traffic(AllAddrs(s.wallet), Listed(s.wallet), s.known, s.knownTx, q, s.out,
                   rem.filter.outs, rem.height),
           PongsDue(s.pongs, q \o s.out), NoUpdate(s.pongs), Updates(s.pongs, NULL, s.updating),
           \A i \in 1..Len(q) : ~Late(q[i]), \A i \in 1..Len(s.out) : ~Late(s.out[i]),
           s.missing = {}, s.current = NoBlock, rem.filter.addrs \subseteq AllAddrs(s.wallet)
    PROVE  Inv(LoadBloomFilter(s), q, rem) /\ Loads(LoadBloomFilter(s), s)
<1> DEFINE v == LoadBloomFilter(s)
           w == GrowChains(s.wallet, Spare)
           filter == Filter(w, Watched(w))
           m == [type |-> "filterload", filter |-> filter]
           o == s.out
           p == v.out
<1>1. Purse(s.wallet) /\ Counted(s.wallet) /\ Spare \in Nat
  BY PurseCounted, SyncAssumption DEF Got
<1>2. /\ v \in Node /\ m \in OutMsg /\ v.wallet = w /\ v.filter = m.filter /\ v.orphans = {}
      /\ p = Append(o, m)
      /\ Same(v, s, {"wallet", "filter", "orphans", "lastOrphan", "sentMempool", "out"})
  BY <1>1, LoadNode
<1>3. /\ Purse(w) /\ w.transactions = s.wallet.transactions /\ w.allTx = s.wallet.allTx
      /\ w.height = s.wallet.height /\ AllAddrs(s.wallet) \subseteq AllAddrs(w)
  BY <1>1, CountedGrows
<1> HIDE DEF w
<1>4. \A u \in Watched(w) : PaysTo(u, AllAddrs(w)) /\ u[1] \in w.allTx
  BY <1>3, WatchedOwn
<1>5. /\ filter.addrs = AllAddrs(w) /\ filter.outs = Watched(w) /\ m.type = "filterload"
      /\ m.filter = filter
  BY DEF Filter
<1> HIDE DEF filter, m, v
<1>6. Listed(w) = Listed(s.wallet)
  BY <1>3 DEF Listed
<1>7. /\ v.lastBlock = s.lastBlock /\ v.known = s.known /\ v.knownTx = s.knownTx
      /\ v.pongs = s.pongs /\ v.updating = s.updating /\ v.current = NoBlock /\ v.missing = {}
  BY <1>2 DEF Same, Fields
<1>8. Got(w, s.lastBlock)
  BY <1>3, <1>6 DEF Got
<1>9. Traffic(AllAddrs(w), Listed(w), s.known, s.knownTx, q, p, rem.filter.outs, rem.height)
  <2>1. Traffic(AllAddrs(w), Listed(w), s.known, s.knownTx, q, o, rem.filter.outs, rem.height)
    BY <1>3, <1>6, TrafficGrows
  <2>2. WatchesOwn(m.filter.outs, AllAddrs(w), Listed(w))
    <3>1. \A t \in Wanted : t \in w.allTx => t \in Listed(w)
      BY <1>8 DEF Got
    <3> QED
      BY <1>4, <1>5, <3>1 DEF WatchesOwn
  <2>3. InChain(m, rem.height) /\ m.type # "getdata" /\ \A t : ~AsksBlockOf(m, t)
    BY <1>5 DEF InChain, AsksBlockOf
  <2>4. o \in Seq(OutMsg) /\ m \in OutMsg
    BY <1>2, NodeFields
  <2>5. \A i \in 1..Len(q) : \A t \in Wanted : NamesTx(q[i], t) => ~AsksBlockOf(m, t)
    BY <2>3
  <2> HIDE DEF o, p
  <2>6. Traffic(AllAddrs(w), Listed(w), s.known, s.knownTx, q, Append(o, m), rem.filter.outs,
                rem.height)
    BY <2>1, <2>2, <2>3, <2>4, <2>5, TrafficAsks
  <2> QED
    BY <1>2, <2>6
<1>10. PongsDue(s.pongs, q \o p)
  <2>1. o \in Seq(OutMsg) /\ s.pongs \in Seq(Callback) /\ ~IsPing(m)
    BY <1>5, NodeFields DEF IsPing
  <2> QED
    BY <1>2, <2>1, PongsAsked
<1>11. Updates(s.pongs, filter, s.updating)
  BY DEF Updates, NoUpdate
<1>12. \A i \in 1..Len(p) : ~HasBlocks(p[i]) /\ (IsLoad(p[i]) => p[i] = m)
  <2>1. o \in Seq(OutMsg)
    BY NodeFields
  <2>2. /\ Len(p) = Len(o) + 1 /\ Len(o) \in Nat
        /\ \A i \in 1..Len(o) : p[i] = o[i]
        /\ \A i \in 1..(Len(o) + 1) : i \in 1..Len(o) \/ i = Len(o) + 1
        /\ p[Len(o) + 1] = m
    BY <1>2, <2>1, AppendAt
  <2>3. ~HasBlocks(m)
    BY <1>5 DEF HasBlocks
  <2> QED
    BY <2>2, <2>3 DEF Late, IsLoad
<1>13. \E i \in 1..Len(p) : IsLoad(p[i])
  <2>1. o \in Seq(OutMsg)
    BY NodeFields
  <2>2. Len(p) = Len(o) + 1 /\ Len(o) \in Nat /\ p[Len(o) + 1] = m
    BY <1>2, <2>1, AppendAt
  <2> HIDE DEF p, o
  <2>3. Len(o) + 1 \in 1..Len(p) /\ IsLoad(m)
    BY <1>5, <2>2 DEF IsLoad
  <2> QED
    BY <2>2, <2>3
<1>14. Sent(filter, q, p, rem.filter)
  <2> HIDE DEF p
  <2>1. \A j \in 1..Len(p) : \A i \in 1..j : i \in 1..Len(p)
    OBVIOUS
  <2>2. \A i \in 1..Len(q) : ~HasBlocks(q[i])
    BY DEF Late
  <2> QED
    BY <1>5, <1>12, <1>13, <2>1, <2>2 DEF Sent
<1>15. Reach(w, filter, p, rem.filter)
  <2>1. w \in Wallet /\ AddrBound(w.usedAddrs) /\ Grown(w)
    BY <1>3, PurseCounted DEF Purse
  <2>2. NextUnused(w) \subseteq AllAddrs(w)
    <3> SUFFICES ASSUME NEW c \in Chains, NEW k \in 0..(GapLimit[c] - 1)
                 PROVE  FirstUnused(w, c, w.chain[c]) + k \in 0..(w.chain[c] - 1)
      BY DEF NextUnused, AllAddrs
    <3>1. w.chain[c] \in Nat /\ GapLimit[c] \in Nat
      BY <2>1, WalletFields, TxAssumption
    <3>2. FirstUnused(w, c, w.chain[c]) \in 0..w.chain[c]
      BY <2>1, <3>1, FirstUnusedNat
    <3>3. FirstUnused(w, c, w.chain[c]) + GapLimit[c] <= w.chain[c]
      BY <2>1 DEF Grown
    <3> DEFINE u == FirstUnused(w, c, w.chain[c])
    <3> HIDE DEF u
    <3>4. u \in Nat /\ u + GapLimit[c] <= w.chain[c]
      BY <3>1, <3>2, <3>3 DEF u
    <3>5. u + k \in 0..(w.chain[c] - 1)
      BY <3>1, <3>4
    <3> QED
      BY <3>5 DEF u
  <2>3. \A a \in AllAddrs(w) : \A k \in 0..(a[2] - 1) : <<a[1], k>> \in AllAddrs(w)
    <3> SUFFICES ASSUME NEW c \in Chains, NEW n \in 0..(w.chain[c] - 1), NEW k \in 0..(n - 1)
                 PROVE  k \in 0..(w.chain[c] - 1)
      BY DEF AllAddrs
    <3>1. w.chain[c] \in Nat
      BY <2>1, WalletFields
    <3> QED
      BY <3>1
  <2>4. rem.filter.addrs \subseteq AllAddrs(w)
    BY <1>3
  <2> HIDE DEF p
  <2> QED
    BY <1>5, <1>12, <2>2, <2>3, <2>4 DEF Reach
<1>16. Blocks(Listed(w), filter, q, NoBlock, {})
  BY DEF Blocks, Late, HasBlocks
<1>17. Follow(q)
  BY DEF Follow, Late, HasBlocks
<1>18. Waits(Listed(w), NoBlock, {}, q)
  BY DEF Waits, NoBlock, Range
<1>19. Inv(v, q, rem)
  BY <1>2, <1>5, <1>7, <1>8, <1>9, <1>10, <1>11, <1>14, <1>15, <1>16, <1>17, <1>18 DEF Inv, p
<1>20. Loads(v, s)
  <2>1. o \in Seq(OutMsg) /\ \A i \in 1..Len(o) : ~IsLoad(o[i])
    BY NodeFields DEF Late, IsLoad
  <2>2. IsLoad(m) /\ m \in OutMsg /\ v.early = s.early
    BY <1>2, <1>5 DEF IsLoad, Same, Fields
  <2> HIDE DEF o, p
  <2>3. \A x : Filters(Append(o, m), x) = {m.filter}
    BY <2>1, <2>2, FiltersLoaded
  <2>4. \A x : Filters(p, x) = {v.filter}
    BY <1>2, <2>3
  <2> QED
    BY <1>2, <1>5, <1>7, <2>2, <2>4 DEF Loads, w, filter, p
<1> QED
  BY <1>19, <1>20 DEF v

-----------------------------------------------------------------------------
(* BRPeerManager.c: a transaction comes. *)

(* BRWalletRegisterTransaction and the addresses generated after it. *)
LEMMA GotRegisters ==
    ASSUME NEW w, NEW last, Got(w, last), NEW t \in Tx, t \in Wanted => ContainsTx(w, t),
           CountsAll(RegisterTransaction(w, t))
    PROVE  LET v == RegisterTransaction(w, t)
               g == GrowChains(v, 0)
           IN  /\ Got(v, last) /\ Got(g, last) /\ v \in Wallet /\ g \in Wallet
               /\ v.height = w.height /\ g.height = w.height
               /\ Listed(w) \subseteq Listed(v) /\ Listed(g) = Listed(v)
               /\ AllAddrs(w) \subseteq AllAddrs(v) /\ AllAddrs(v) \subseteq AllAddrs(g)
               /\ t \in Wanted => t \in Listed(v)
               /\ ~ContainsTx(w, t) => NextUnused(v) = NextUnused(w)
<1> DEFINE v == RegisterTransaction(w, t)
           g == GrowChains(v, 0)
<1>1. Purse(w)
  BY DEF Got
<1>2. /\ Purse(v) /\ v.height = w.height
      /\ w.allTx \subseteq v.allTx /\ v.allTx \subseteq w.allTx \cup {t}
      /\ AllAddrs(w) \subseteq AllAddrs(v)
      /\ Listed(w) \subseteq Listed(v)
      /\ ContainsTx(w, t) /\ t \notin w.allTx => t \in Listed(v)
      /\ ~ContainsTx(w, t) => v.usedAddrs = w.usedAddrs /\ v.chain = w.chain
  BY <1>1, PurseRegisters
<1> HIDE DEF v
<1>3. Counted(v) /\ 0 \in Nat
  BY <1>2, PurseCounted
<1>4. /\ Purse(g) /\ g.transactions = v.transactions /\ g.allTx = v.allTx /\ g.height = v.height
      /\ AllAddrs(v) \subseteq AllAddrs(g)
  BY <1>3, CountedGrows
<1> HIDE DEF g
<1>5. Listed(g) = Listed(v)
  BY <1>4 DEF Listed
<1>6. t \in Wanted => t \in Listed(v)
  BY <1>2 DEF Got
<1>7. v.allTx \cap Wanted \subseteq Listed(v)
  BY <1>2, <1>6 DEF Got
<1>8. Got(v, last)
  BY <1>2, <1>7 DEF Got
<1>9. Got(g, last)
  BY <1>4, <1>5, <1>8 DEF Got
<1>10. ~ContainsTx(w, t) => NextUnused(v) = NextUnused(w)
  BY <1>2, NextUnusedSame
<1>11. v \in Wallet /\ g \in Wallet
  BY <1>2, <1>4, PurseCounted
<1> QED
  BY <1>2, <1>4, <1>5, <1>6, <1>8, <1>9, <1>10, <1>11 DEF v, g

(* What a transaction may change beside what is idle. *)
Learns == {"wallet", "filter", "updating", "pongs", "out"}

(* RelayedTx: a payment that comes is listed, whichever branch is taken. *)
LEMMA RelayedTxInv ==
    ASSUME NEW s, NEW q, NEW rem, Inv(s, q, rem), NEW t \in Tx,
           t \in Wanted => ContainsTx(s.wallet, t),
           CountsAll(RegisterTransaction(s.wallet, t))
    PROVE  LET v == RelayedTx(s, t)
           IN  /\ Inv(v, q, rem) /\ Same(v, s, Idle \cup Learns) /\ Keeps(v, s)
               /\ t \in Wanted => t \in Listed(v.wallet)
<1> DEFINE w == RegisterTransaction(s.wallet, t)
           g == GrowChains(w, 0)
           own == t \in s.wallet.allTx \/ ContainsTx(s.wallet, t)
           other == (s.syncing /\ ~ContainsTx(s.wallet, t)) \/ ~own
           kept == IF s.syncing THEN s.wallet ELSE w
           s1 == [s EXCEPT !.wallet = kept]
           s2 == [s EXCEPT !.wallet = w]
           s3 == [s EXCEPT !.wallet = g]
           k3 == KeepTimer(s3, TRUE)
           s4 == [k3 EXCEPT !.filter = NULL]
           v == RelayedTx(s, t)
<1>1. s \in Node /\ Got(s.wallet, s.lastBlock)
  BY DEF Inv
<1>2. /\ Got(w, s.lastBlock) /\ Got(g, s.lastBlock) /\ w \in Wallet /\ g \in Wallet
      /\ w.height = s.wallet.height /\ g.height = s.wallet.height
      /\ Listed(s.wallet) \subseteq Listed(w) /\ Listed(g) = Listed(w)
      /\ AllAddrs(s.wallet) \subseteq AllAddrs(w) /\ AllAddrs(w) \subseteq AllAddrs(g)
      /\ t \in Wanted => t \in Listed(w)
      /\ ~ContainsTx(s.wallet, t) => NextUnused(w) = NextUnused(s.wallet)
  BY <1>1, GotRegisters
<1>3. v = IF other THEN KeepTimer(s1, FALSE)
          ELSE IF s.filter = NULL THEN KeepTimer(s2, TRUE)
          ELSE IF NextUnused(g) \subseteq s.filter.addrs THEN k3
          ELSE UpdateFilter(s4)
  <2>1. s1 = [s EXCEPT !.wallet = IF s.syncing THEN @ ELSE w]
    BY DEF Node
  <2> QED
    BY <2>1, Zenon DEF RelayedTx
<1>4. s.filter # NULL => NextUnused(s.wallet) \subseteq s.filter.addrs
  BY DEF Inv, Reach
<1>5. s.wallet \in Wallet
  BY <1>1, NodeFields
<1> HIDE DEF w, g, v, own
<1>6. CASE other
  <2>1. ~ContainsTx(s.wallet, t) /\ t \notin Wanted
    BY <1>6 DEF own
  <2>2. /\ Got(kept, s.lastBlock) /\ kept \in Wallet /\ Listed(s.wallet) \subseteq Listed(kept)
        /\ AllAddrs(s.wallet) \subseteq AllAddrs(kept) /\ NextUnused(kept) = NextUnused(s.wallet)
        /\ kept.height = s.wallet.height
    BY <1>1, <1>2, <1>5, <2>1
  <2> HIDE DEF kept
  <2>3. s1 \in Node /\ s1.wallet = kept /\ Same(s1, s, {"wallet"})
    BY <1>1, <2>2 DEF Node, Same, Fields
  <2> HIDE DEF s1
  <2> DEFINE u == KeepTimer(s1, FALSE)
  <2>4. u \in Node /\ Same(u, s1, {"timer"})
    BY <2>3, TimerQuiet
  <2> HIDE DEF u
  <2>5. u.wallet = kept /\ Same(u, s, Idle \cup {"wallet"})
    BY <2>3, <2>4 DEF Same, Fields, Idle
  <2>6. Inv(u, q, rem)
    BY <1>4, <2>2, <2>4, <2>5, InvGrows
  <2>7. Same(u, s, Idle \cup Learns)
    BY <2>5 DEF Same, Learns
  <2>8. v = u
    BY <1>3, <1>6 DEF u
  <2>9. Keeps(u, s)
    BY <1>1, <2>2, <2>5, KeepsRegisters
  <2> QED
    BY <2>1, <2>6, <2>7, <2>8, <2>9 DEF v
<1>7. CASE ~other /\ s.filter = NULL
  <2>1. s2 \in Node /\ s2.wallet = w /\ Same(s2, s, {"wallet"})
    BY <1>1, <1>2 DEF Node, Same, Fields
  <2> HIDE DEF s2
  <2> DEFINE u == KeepTimer(s2, TRUE)
  <2>2. u \in Node /\ Same(u, s2, {"timer"})
    BY <2>1, TimerQuiet
  <2> HIDE DEF u
  <2>3. u.wallet = w /\ Same(u, s, Idle \cup {"wallet"})
    BY <2>1, <2>2 DEF Same, Fields, Idle
  <2>4. Inv(u, q, rem)
    BY <1>2, <1>7, <2>2, <2>3, InvGrows
  <2>5. Same(u, s, Idle \cup Learns)
    BY <2>3 DEF Same, Learns
  <2>6. v = u
    BY <1>3, <1>7 DEF u
  <2>7. Keeps(u, s)
    BY <1>1, <1>2, <2>3, KeepsRegisters
  <2> QED
    BY <1>2, <2>3, <2>4, <2>5, <2>6, <2>7 DEF v
<1>8. /\ k3 \in Node /\ k3.wallet = g /\ Same(k3, s, Idle \cup {"wallet"})
      /\ AllAddrs(s.wallet) \subseteq AllAddrs(g) /\ Listed(s.wallet) \subseteq Listed(g)
  <2>1. s3 \in Node /\ s3.wallet = g /\ Same(s3, s, {"wallet"})
    BY <1>1, <1>2 DEF Node, Same, Fields
  <2> HIDE DEF s3
  <2>2. k3 \in Node /\ Same(k3, s3, {"timer"})
    BY <2>1, TimerQuiet
  <2> HIDE DEF k3
  <2>3. k3.wallet = g /\ Same(k3, s, Idle \cup {"wallet"})
    BY <2>1, <2>2 DEF Same, Fields, Idle
  <2> QED
    BY <1>2, <2>2, <2>3
<1> HIDE DEF k3, other
<1>9. CASE ~other /\ s.filter # NULL /\ NextUnused(g) \subseteq s.filter.addrs
  <2>1. Inv(k3, q, rem)
    BY <1>2, <1>8, <1>9, InvGrows
  <2>2. Same(k3, s, Idle \cup Learns)
    BY <1>8 DEF Same, Learns
  <2>3. v = k3
    BY <1>3, <1>9
  <2>4. Keeps(k3, s)
    BY <1>1, <1>2, <1>8, KeepsRegisters
  <2> QED
    BY <1>2, <1>8, <2>1, <2>2, <2>3, <2>4 DEF v
<1>10. CASE ~other /\ s.filter # NULL /\ ~(NextUnused(g) \subseteq s.filter.addrs)
  <2> DEFINE x == [s EXCEPT !.filter = NULL]
  <2>1. x \in Node /\ x.filter = NULL /\ Same(x, s, {"filter"})
    BY <1>1, NullBloom DEF Node, Same, Fields
  <2> HIDE DEF x
  <2>2. Same(x, s, Idle \cup {"filter"}) /\ x.wallet = s.wallet /\ x.lastBlock = s.lastBlock
    BY <2>1 DEF Same, Fields
  <2>3. Inv(x, q, rem)
    BY <2>1, <2>2, InvForgets
  <2>4. s4 \in Node /\ s4.filter = NULL /\ Same(s4, k3, {"filter"})
    BY <1>8, NullBloom DEF Node, Same, Fields
  <2> HIDE DEF s4
  <2>5. s4.wallet = g /\ Same(s4, s, Idle \cup {"wallet", "filter"})
    BY <1>8, <2>4 DEF Same, Fields
  <2>6. Same(s4, x, Idle \cup {"wallet"})
    BY <2>1, <2>4, <2>5 DEF Same
  <2>7. Inv(s4, q, rem)
    BY <1>2, <1>8, <2>1, <2>2, <2>3, <2>4, <2>5, <2>6, InvGrows
  <2>8. /\ Inv(UpdateFilter(s4), q, rem)
        /\ Same(UpdateFilter(s4), s4, {"updating", "pongs", "out"})
        /\ Keeps(UpdateFilter(s4), s4)
    BY <2>4, <2>7, UpdateFilterInv
  <2>11. Keeps(s4, s)
    <3>1. Same(s4, s, Idle \cup {"wallet", "filter"}) /\ s4.filter \in {s.filter, NULL}
      BY <2>4, <2>5
    <3> QED
      BY <1>1, <1>2, <1>8, <2>5, <3>1, KeepsWallet
  <2> DEFINE u == UpdateFilter(s4)
  <2>9. v = u
    BY <1>3, <1>10
  <2> HIDE DEF u
  <2>10. Same(u, s, Idle \cup Learns) /\ u.wallet = g
    BY <2>5, <2>8 DEF Same, Learns, Fields, u
  <2>12. Keeps(u, s)
    BY <2>8, <2>11, KeepsOn DEF u
  <2> QED
    BY <1>2, <2>8, <2>9, <2>10, <2>12 DEF v, u
<1> QED
  BY <1>6, <1>7, <1>9, <1>10

-----------------------------------------------------------------------------
(* BRPeerManager.c: a block comes. *)

(* A filter with the next unused addresses has all addresses up to them. *)
LEMMA FilterReach ==
    ASSUME NEW w, Purse(w), NEW F, NextUnused(w) \subseteq F,
           \A a \in F : \A k \in 0..(a[2] - 1) : <<a[1], k>> \in F, NEW c \in Chains,
           NEW k \in Nat, k < FirstUnused(w, c, w.chain[c]) + GapLimit[c]
    PROVE  <<c, k>> \in F
<1> DEFINE u == FirstUnused(w, c, w.chain[c])
           g == GapLimit[c]
           a == <<c, u + (g - 1)>>
<1>1. w \in Wallet /\ AddrBound(w.usedAddrs)
  BY PurseCounted
<1>2. w.chain[c] \in Nat /\ g \in Nat \ {0}
  BY <1>1, WalletFields, TxAssumption
<1>3. u \in 0..w.chain[c]
  BY <1>1, <1>2, FirstUnusedNat
<1>4. a \in NextUnused(w)
  <2>1. g - 1 \in 0..(g - 1)
    BY <1>2
  <2> HIDE DEF g
  <2> QED
    BY <2>1 DEF NextUnused, g
<1> HIDE DEF u, g
<1>5. CASE k = u + (g - 1)
  BY <1>4, <1>5
<1>6. CASE k # u + (g - 1)
  <2>1. k \in 0..((u + (g - 1)) - 1)
    BY <1>2, <1>3, <1>6 DEF u, g
  <2>2. a[1] = c /\ a[2] = u + (g - 1) /\ a \in F
    BY <1>4
  <2> HIDE DEF a
  <2>3. k \in 0..(a[2] - 1)
    BY <2>1, <2>2
  <2> QED
    BY <2>2, <2>3
<1> QED
  BY <1>5, <1>6

(* The filter's addresses and the gap limit reach all that a block pays.     *)
LEMMA BlockWatched ==
    ASSUME NEW w, NEW last \in Nat, Got(w, last), NEW filter, filter # NULL,
           NextUnused(w) \subseteq filter.addrs,
           \A a \in filter.addrs : \A k \in 0..(a[2] - 1) : <<a[1], k>> \in filter.addrs,
           filter.addrs \subseteq AllAddrs(w), NEW b \in Block, Complete(b, filter),
           Range(b.matched) \cap Wanted \subseteq Listed(w), b.height <= last + 1
    PROVE  /\ \A t \in Range(Mined[b.height]) :
                 OursPaid(t) => t \in Range(b.matched) /\ t \in Listed(w)
           /\ \A m \in Num : m <= b.height =>
                 \A a \in PaidIn(m) : a[1] \in Chains => a \in filter.addrs
<1> DEFINE F == filter.addrs
           h == b.height
           Near(a) == \E m \in Num : m <= h /\ a \in PaidIn(m)
<1>1. h \in Num /\ h \in Nat /\ Purse(w)
  BY NumNat DEF Block, Got
<1>2. w \in Wallet /\ AddrBound(w.usedAddrs)
  BY <1>1, PurseCounted
<1>3. \A m \in Num : m \in Nat /\ Range(Mined[m]) \subseteq Tx /\ DOMAIN Mined = Num
  <2>1. DOMAIN Mined = Num
    BY SyncAssumption DEF Num
  <2>2. \A s \in Seq(Tx) : Range(s) \subseteq Tx
    BY DEF Range
  <2> QED
    BY <2>1, <2>2, NumNat
<1>4. ASSUME NEW a, Near(a) PROVE a \in STRING \X Nat
  <2>1. PICK m \in Num : a \in PaidIn(m)
    BY <1>4
  <2>2. PICK t \in Range(Mined[m]) : \E i \in DOMAIN Outputs[t] : a = Outputs[t][i].address
    BY <2>1 DEF PaidIn
  <2>3. t \in Tx
    BY <1>3, <2>2
  <2> QED
    BY <2>2, <2>3, OutputsType
<1>5. ASSUME NEW m \in Num, m <= h, NEW t \in Range(Mined[m]), OursPaid(t),
             Pays(t, F) \/ m <= last
      PROVE  t \in Listed(w) /\ (m = h /\ Pays(t, F) => t \in Range(b.matched))
  <2>1. t \in Wanted
    BY <1>3, <1>5 DEF Wanted
  <2>2. m = h /\ Pays(t, F) => t \in Range(b.matched)
    BY DEF Complete
  <2>3. m <= last \/ m = h
    BY <1>1, <1>3, <1>5
  <2> QED
    BY <1>5, <2>1, <2>2, <2>3 DEF Got
<1>6. ASSUME NEW a, Near(a), a[1] \in Chains, a \in F PROVE a[2] < FirstUnused(w, a[1], w.chain[a[1]])
  <2>1. PICK m \in Num : m <= h /\ a \in PaidIn(m)
    BY <1>6
  <2>2. PICK t \in Range(Mined[m]) : \E i \in DOMAIN Outputs[t] : a = Outputs[t][i].address
    BY <2>1 DEF PaidIn
  <2>3. OursPaid(t) /\ Pays(t, F) /\ a \in AddrsOf(t)
    BY <1>6, <2>2 DEF OursPaid, Ours, Pays, AddrsOf
  <2>4. t \in Listed(w)
    BY <1>5, <2>1, <2>3
  <2>5. a \in w.usedAddrs
    BY <1>1, <2>3, <2>4 DEF Purse
  <2>6. a \in AllAddrs(w)
    BY <1>6
  <2>7. a = <<a[1], a[2]>> /\ a[2] \in 0..(w.chain[a[1]] - 1)
    BY <2>6 DEF AllAddrs
  <2>8. w.chain[a[1]] \in Nat
    BY <1>2, <1>6, WalletFields
  <2> QED
    BY <1>2, <1>6, <2>5, <2>7, <2>8, FirstUnusedNat
<1> DEFINE G(N) == {k \in 0..N : \A a : Near(a) /\ a[1] \in Chains /\ a[2] < k => a \in F}
<1>7. ASSUME NEW N \in Nat, NEW k \in 0..(N - 1), k \in G(N) PROVE k + 1 \in G(N)
  <2>1. k + 1 \in 0..N /\ k \in Nat
    OBVIOUS
  <2> SUFFICES ASSUME NEW a, Near(a), a[1] \in Chains, a[2] < k + 1 PROVE a \in F
    BY <2>1
  <2>2. a \in STRING \X Nat
    BY <1>4
  <2>3. a = <<a[1], a[2]>> /\ a[2] \in Nat
    BY <2>2
  <2> DEFINE c == a[1]
             g == GapLimit[c]
             u == FirstUnused(w, c, w.chain[c])
  <2>4. g \in Nat /\ u \in Nat
    <3>1. GapLimit[c] \in Nat /\ w.chain[c] \in Nat
      BY <1>2, WalletFields, TxAssumption
    <3>2. FirstUnused(w, c, w.chain[c]) \in 0..w.chain[c]
      BY <1>2, <3>1, FirstUnusedNat
    <3> QED
      BY <3>1, <3>2
  <2>5. CASE a[2] < g
    <3>1. a[2] < u + g
      BY <2>3, <2>4, <2>5
    <3> QED
      BY <1>1, <2>3, <3>1, FilterReach
  <2>6. CASE ~(a[2] < g)
    <3>1. PICK m \in Num : m <= h /\ a \in PaidIn(m)
      OBVIOUS
    <3>2. \E l \in 1..m : \E d \in PaidIn(l) : d[1] = c /\ d[2] < a[2] /\ a[2] <= d[2] + g
      <4>1. a[2] >= GapLimit[a[1]] /\ m \in DOMAIN Mined
        BY <1>3, <2>3, <2>4, <2>6
      <4> QED
        BY <3>1, <4>1, GapAssumption
    <3>10. PICK l \in 1..m : \E d \in PaidIn(l) : d[1] = c /\ d[2] < a[2] /\ a[2] <= d[2] + g
      BY <3>2
    <3>3. PICK d \in PaidIn(l) : d[1] = c /\ d[2] < a[2] /\ a[2] <= d[2] + g
      BY <3>10
    <3>4. Near(d)
      <4>1. l \in Num /\ l <= h
        BY <1>1, <1>3, <3>1, NumNat DEF Num
      <4> QED
        BY <3>3, <4>1
    <3>5. d[2] \in Nat
      <4>1. d \in STRING \X Nat
        BY <1>4, <3>4
      <4> QED
        BY <4>1
    <3>6. d[2] < k
      BY <2>1, <2>3, <3>3, <3>5
    <3>7. d \in F
      BY <1>7, <3>3, <3>4, <3>6
    <3>8. d[2] < u
      BY <1>6, <3>3, <3>4, <3>7
    <3>9. a[2] < u + g
      BY <2>3, <2>4, <3>3, <3>5, <3>8
    <3> QED
      BY <1>1, <2>3, <3>9, FilterReach
  <2> QED
    BY <2>5, <2>6
<1>8. ASSUME NEW a, Near(a), a[1] \in Chains PROVE a \in F
  <2> DEFINE N == a[2] + 1
  <2>1. a[2] \in Nat /\ N \in Nat
    <3>1. a \in STRING \X Nat
      BY <1>4, <1>8
    <3> QED
      BY <3>1
  <2>2. 0 \in G(N)
    <3>1. \A e : Near(e) => ~(e[2] < 0)
      <4>1. \A e : Near(e) => e[2] \in Nat
        BY <1>4
      <4> QED
        BY <4>1
    <3> QED
      BY <2>1, <3>1
  <2> HIDE DEF G, N, Near, F
  <2>3. \A k \in 0..N : k \in G(N)
    BY <1>7, <2>1, <2>2, UpTo
  <2>4. N \in G(N) /\ a[2] < N
    BY <2>1, <2>3 DEF N
  <2> QED
    BY <1>8, <2>4 DEF G
<1>9. ASSUME NEW t \in Range(Mined[h]), OursPaid(t)
      PROVE  t \in Range(b.matched) /\ t \in Listed(w)
  <2>1. PICK i \in DOMAIN Outputs[t] : Outputs[t][i].address[1] \in Chains
    BY <1>9 DEF OursPaid, Ours
  <2>2. Outputs[t][i].address \in PaidIn(h)
    BY DEF PaidIn
  <2>3. Outputs[t][i].address \in F
    BY <1>1, <1>8, <2>1, <2>2
  <2>4. Pays(t, F)
    BY <2>3 DEF Pays
  <2> QED
    BY <1>1, <1>5, <1>9, <2>4
<1> QED
  BY <1>8, <1>9

(* The wallet has the block's payments confirmed. *)
LEMMA GotConfirms ==
    ASSUME NEW w, NEW last \in Nat, Got(w, last), NEW filter, filter # NULL,
           NextUnused(w) \subseteq filter.addrs,
           \A a \in filter.addrs : \A k \in 0..(a[2] - 1) : <<a[1], k>> \in filter.addrs,
           filter.addrs \subseteq AllAddrs(w), NEW b \in Block, Complete(b, filter),
           Range(b.matched) \cap Wanted \subseteq Listed(w), b.height <= last + 1
    PROVE  LET v == ConfirmTransactions(w, b.matched, b.height)
           IN  /\ Got(v, last) /\ (b.height = last + 1 => Got(v, b.height)) /\ v \in Wallet
               /\ AllAddrs(v) = AllAddrs(w) /\ Listed(v) = Listed(w)
               /\ NextUnused(v) = NextUnused(w)
               /\ \A t \in Listed(w) :
                     v.height[t] = IF t \in Range(b.matched) THEN b.height ELSE w.height[t]
<1> DEFINE v == ConfirmTransactions(w, b.matched, b.height)
           n == b.height
<1>1. Purse(w) /\ n \in Num /\ n \in Nat /\ n < TX_UNCONFIRMED /\ b.matched \in Seq(Tx)
  <2>1. n \in Num /\ n \in Nat /\ n <= Len(Mined) /\ b.matched \in Seq(Tx)
    BY NumNat DEF Block, Num
  <2>2. n < TX_UNCONFIRMED
    BY <2>1, NumNat, TxUnconfirmedNat
  <2> QED
    BY <2>1, <2>2 DEF Got
<1>2. /\ Purse(v) /\ v.usedAddrs = w.usedAddrs /\ v.chain = w.chain
      /\ Listed(v) = Listed(w) /\ v.allTx \subseteq w.allTx
      /\ \A t \in Listed(w) :
            v.height[t] = IF t \in Range(b.matched) THEN n ELSE w.height[t]
  BY <1>1, PurseConfirms
<1> HIDE DEF v
<1>3. v.allTx \cap Wanted \subseteq Listed(v)
  BY <1>2 DEF Got
<1>4. ASSUME NEW m \in Num, m <= last, NEW t \in Range(Mined[m]), OursPaid(t)
      PROVE  t \in Listed(v) /\ v.height[t] = m
  <2>1. t \in Listed(w) /\ w.height[t] = m
    BY <1>4 DEF Got
  <2>2. t \in Range(b.matched) => n = m
    <3>1. m \in DOMAIN Mined /\ n \in DOMAIN Mined
      BY <1>1, SyncAssumption DEF Num
    <3>2. t \in Range(b.matched) => t \in Range(Mined[n]) \cap Range(Mined[m])
      BY DEF Complete
    <3> QED
      BY <3>1, <3>2, ChainAssumption
  <2> QED
    BY <1>2, <2>1, <2>2
<1>5. Got(v, last)
  BY <1>2, <1>3, <1>4 DEF Got
<1>6. ASSUME n = last + 1 PROVE Got(v, n)
  <2>1. ASSUME NEW t \in Range(Mined[n]), OursPaid(t) PROVE t \in Listed(v) /\ v.height[t] = n
    <3>1. t \in Range(b.matched) /\ t \in Listed(w)
      BY <2>1, BlockWatched
    <3> QED
      BY <1>2, <3>1
  <2>2. \A m \in Num : m <= n => m <= last \/ m = n
    BY <1>1, <1>6, NumNat
  <2> QED
    BY <1>2, <1>3, <1>4, <2>1, <2>2 DEF Got
<1>7. AllAddrs(v) = AllAddrs(w)
  BY <1>2 DEF AllAddrs
<1>8. NextUnused(v) = NextUnused(w)
  BY <1>2, NextUnusedSame
<1>9. v \in Wallet
  BY <1>2, PurseCounted
<1> QED
  BY <1>2, <1>5, <1>6, <1>7, <1>8, <1>9 DEF v

(* What spends from the wallet stays in it, and what the block has of it     *)
(* comes in when the block was matched after all before it.                  *)
LEMMA HeldConfirms ==
    ASSUME NEW w, NEW last \in Nat, Got(w, last), NEW filter, filter # NULL,
           NextUnused(w) \subseteq filter.addrs,
           \A a \in filter.addrs : \A k \in 0..(a[2] - 1) : <<a[1], k>> \in filter.addrs,
           filter.addrs \subseteq AllAddrs(w), NEW b \in Block, Complete(b, filter),
           Range(b.matched) \cap Wanted \subseteq Listed(w), b.height <= last + 1,
           NEW early, Held(w, last, early)
    PROVE  LET v == ConfirmTransactions(w, b.matched, b.height)
           IN  /\ Held(v, last, early)
               /\ \A heights : (\A n \in Num : n <= last => n \in heights)
                              /\ SpentIn(b, filter, heights)
                              => HasSpends(v, b.height)
<1> DEFINE v == ConfirmTransactions(w, b.matched, b.height)
           h == b.height
<1>1. /\ Listed(v) = Listed(w)
      /\ \A t \in Listed(w) : v.height[t] = IF t \in Range(b.matched) THEN h ELSE w.height[t]
  BY GotConfirms
<1> HIDE DEF v
<1>2. h \in Num /\ h \in Nat /\ DOMAIN Mined = Num /\ \A n \in Num : n \in Nat
  BY SyncAssumption, NumNat DEF Block, Num
<1>3. ASSUME NEW n \in Num, n <= last, n \notin early, NEW t \in Range(Mined[n]), OursSpent(t)
      PROVE  t \in Listed(v) /\ v.height[t] = n
  <2>1. t \in Listed(w) /\ w.height[t] = n
    BY <1>3 DEF Held, HasSpends
  <2>2. t \in Range(b.matched) => t \in Range(Mined[h])
    BY DEF Complete
  <2>3. t \in Range(b.matched) => n = h
    BY <1>2, <2>2, ChainAssumption
  <2> QED
    BY <1>1, <2>1, <2>3
<1>4. ASSUME NEW heights, \A n \in Num : n <= last => n \in heights, SpentIn(b, filter, heights),
             NEW t \in Range(Mined[h]), OursSpent(t)
      PROVE  t \in Listed(v) /\ v.height[t] = h
  <2>1. PICK u \in Inputs[t] : \E m \in 1..h : u \in PaidOuts(m)
    BY <1>2, <1>4, SpentOutput
  <2>2. PICK m \in 1..h : u \in PaidOuts(m)
    BY <2>1
  <2>3. m \in Num /\ m <= h /\ m \in heights \cup {h}
    <3>1. m \in Num /\ m <= h
      BY <1>2, NumNat DEF Num
    <3>2. m <= last \/ m = h
      BY <1>2, <3>1
    <3> QED
      BY <1>4, <3>1, <3>2
  <2>4. AddrOf(u) \in PaidIn(m) /\ AddrOf(u)[1] \in Chains
    BY <2>2 DEF PaidOuts, AddrOf, PaidIn, Ours, Output
  <2>5. AddrOf(u) \in filter.addrs
    BY <2>3, <2>4, BlockWatched
  <2>6. t \in Range(b.matched)
    BY <1>4, <2>2, <2>3, <2>5 DEF SpentIn
  <2>7. t \in Wanted
    BY <1>2, <1>4, SpentOutput DEF Wanted
  <2> QED
    BY <1>1, <2>6, <2>7
<1>5. Held(v, last, early)
  BY <1>3 DEF Held, HasSpends
<1> QED
  BY <1>4, <1>5 DEF v, HasSpends

(* The last block may change with the wallet, ... *)
LEMMA InvExtends ==
    ASSUME NEW s, NEW q, NEW rem, Inv(s, q, rem), NEW v \in Node,
           Same(v, s, Idle \cup {"lastBlock"}), Got(v.wallet, v.lastBlock)
    PROVE  Inv(v, q, rem)
<1>1. /\ v.wallet = s.wallet /\ v.known = s.known /\ v.out = s.out
      /\ v.knownTx = s.knownTx /\ v.pongs = s.pongs /\ v.filter = s.filter
      /\ v.updating = s.updating /\ v.current = s.current /\ v.missing = s.missing
      /\ v.orphans = s.orphans
  BY DEF Same, Fields, Idle
<1> QED
  BY <1>1 DEF Inv

(* ... and a node with a filter watches the next unused addresses. *)
LEMMA InvReaches ==
    ASSUME NEW s, NEW q, NEW rem, Inv(s, q, rem), s.filter # NULL
    PROVE  /\ s.wallet \in Wallet /\ s.lastBlock \in Nat /\ Got(s.wallet, s.lastBlock)
           /\ NextUnused(s.wallet) \subseteq s.filter.addrs
           /\ \A a \in s.filter.addrs : \A k \in 0..(a[2] - 1) : <<a[1], k>> \in s.filter.addrs
           /\ s.filter.addrs \subseteq AllAddrs(s.wallet)
<1>1. s \in Node
  BY DEF Inv
<1>2. s.wallet \in Wallet /\ s.lastBlock \in Nat
  BY <1>1, NodeFields
<1> QED
  BY <1>2 DEF Inv, Reach

(* What a block may change beside what is idle. *)
Extends == {"wallet", "lastBlock", "out"}

(* AcceptBlock: a complete block, whose payments are listed, may be taken. *)
LEMMA AcceptBlockInv ==
    ASSUME NEW s, NEW q, NEW rem, Inv(s, q, rem), s.filter # NULL, NEW b \in Block,
           Complete(b, s.filter), Range(b.matched) \cap Wanted \subseteq Listed(s.wallet),
           b.height <= s.lastBlock + 1
    PROVE  LET v == AcceptBlock(s, b)
           IN  /\ Inv(v, q, rem) /\ Same(v, s, Idle \cup Extends)
               /\ Listed(v.wallet) = Listed(s.wallet) /\ v.lastBlock >= b.height
               /\ v.wallet = ConfirmTransactions(s.wallet, b.matched, b.height)
               /\ v.lastBlock \in {s.lastBlock, b.height} /\ SameFilters(v, s)
<1> DEFINE n == b.height
           w == ConfirmTransactions(s.wallet, b.matched, n)
           late == s.timer \/ n < s.estimated
           top == Max({s.estimated, n})
           x == [s EXCEPT !.wallet = w]
           y == [s EXCEPT !.lastBlock = n, !.wallet = w, !.timer = late, !.estimated = top]
           v == AcceptBlock(s, b)
<1>1. s \in Node /\ s.lastBlock \in Nat /\ n \in Num /\ n \in Nat /\ n \in 0..Len(Mined)
  BY InvReaches, NumNat DEF Inv, Block
<1>2. /\ Got(w, s.lastBlock) /\ (n = s.lastBlock + 1 => Got(w, n)) /\ w \in Wallet
      /\ AllAddrs(w) = AllAddrs(s.wallet) /\ Listed(w) = Listed(s.wallet)
      /\ NextUnused(w) = NextUnused(s.wallet)
  BY InvReaches, GotConfirms
<1>3. v = IF n # s.lastBlock + 1 THEN x
          ELSE IF n = s.estimated THEN SendMempool(y, TRUE) ELSE y
  BY Zenon DEF AcceptBlock
<1>4. late \in BOOLEAN
  <2>1. s.timer \in BOOLEAN
    BY <1>1 DEF Node
  <2> QED
    BY <2>1
<1>5. top \in 0..Len(Mined)
  <2> DEFINE S == {s.estimated, n}
  <2>1. S \in SUBSET (0..Len(Mined)) /\ S # {} /\ Len(Mined) \in Nat
    BY <1>1, NodeFields, NumNat
  <2> HIDE DEF S
  <2>2. Max(S) \in S
    BY <2>1, MaxIsGreatest
  <2>3. Max(S) \in 0..Len(Mined)
    BY <2>1, <2>2
  <2> QED
    BY <2>3 DEF S
<1> HIDE DEF w, late, top, v
<1>6. x \in Node /\ x.wallet = w /\ Same(x, s, {"wallet"})
  BY <1>1, <1>2 DEF Node, Same, Fields
<1>7. /\ y \in Node /\ y.wallet = w /\ y.lastBlock = n
      /\ Same(y, s, {"lastBlock", "wallet", "timer", "estimated"})
  BY <1>1, <1>2, <1>4, <1>5 DEF Node, Same, Fields
<1> HIDE DEF x, y
<1>8. Inv(x, q, rem)
  <2>1. Same(x, s, Idle \cup {"wallet"})
    BY <1>6 DEF Same
  <2>2. s.filter # NULL => NextUnused(w) \subseteq s.filter.addrs
    BY <1>2, InvReaches
  <2> QED
    BY <1>2, <1>6, <2>1, <2>2, InvGrows
<1>9. CASE n # s.lastBlock + 1
  <2>1. v = x /\ v.lastBlock = s.lastBlock
    BY <1>3, <1>6, <1>9 DEF Same, Fields
  <2>2. s.lastBlock >= n
    BY <1>1, <1>9
  <2>3. Same(v, s, Idle \cup Extends)
    BY <1>6, <2>1 DEF Same, Extends
  <2>4. SameFilters(x, s)
    BY <1>6 DEF Same, Fields, SameFilters
  <2> QED
    BY <1>2, <1>6, <1>8, <2>1, <2>2, <2>3, <2>4 DEF v, w
<1>10. CASE n = s.lastBlock + 1
  <2>1. Inv(y, q, rem)
    <3>1. Same(y, x, Idle \cup {"lastBlock"})
      BY <1>6, <1>7 DEF Same, Idle, Fields
    <3> QED
      BY <1>2, <1>7, <1>8, <1>10, <3>1, InvExtends
  <2>2. Same(y, s, Idle \cup Extends)
    BY <1>7 DEF Same, Extends, Idle
  <2>5. SameFilters(y, s)
    BY <1>7 DEF Same, Fields, SameFilters
  <2>3. CASE n = s.estimated
    <3>1. Same(y, y, Idle) /\ TRUE \in BOOLEAN
      BY DEF Same
    <3> DEFINE z == SendMempool(y, TRUE)
    <3>2. Quiet(z, y)
      BY <1>7, <3>1, MempoolQuiet
    <3> HIDE DEF z
    <3>3. Inv(z, q, rem)
      BY <2>1, <3>2, InvQuiet
    <3>4. z.wallet = w /\ z.lastBlock = n
      BY <1>7, <3>2 DEF Quiet, Same, Fields, Idle
    <3>5. Same(z, s, Idle \cup Extends)
      BY <2>2, <3>2 DEF Quiet, Same, Extends
    <3>6. v = z
      BY <1>3, <1>10, <2>3 DEF z
    <3>7. n >= n
      BY <1>1
    <3>8. SameFilters(z, s)
      <4>1. Keeps(z, y)
        BY <1>7, <3>2, KeepsQuiet
      <4> QED
        BY <2>5, <4>1 DEF Keeps, SameFilters
    <3> QED
      BY <1>2, <3>3, <3>4, <3>5, <3>6, <3>7, <3>8 DEF v, w
  <2>4. CASE n # s.estimated
    <3>1. v = y
      BY <1>3, <1>10, <2>4
    <3>2. n >= n
      BY <1>1
    <3> QED
      BY <1>2, <1>7, <2>1, <2>2, <2>5, <3>1, <3>2 DEF v, w
  <2> QED
    BY <2>3, <2>4
<1> QED
  BY <1>9, <1>10

(* ... and what the wallet had of what spends from it, and the block has.    *)
LEMMA AcceptBlockHeld ==
    ASSUME NEW s, NEW q, NEW rem, Inv(s, q, rem), s.filter # NULL, NEW b \in Block,
           Complete(b, s.filter), Range(b.matched) \cap Wanted \subseteq Listed(s.wallet),
           b.height <= s.lastBlock + 1, NEW early, Held(s.wallet, s.lastBlock, early)
    PROVE  LET v == AcceptBlock(s, b)
           IN  /\ Held(v.wallet, s.lastBlock, early)
               /\ Held(v.wallet, v.lastBlock, early \cup {b.height})
               /\ \A heights : (\A n \in Num : n <= s.lastBlock => n \in heights)
                              /\ SpentIn(b, s.filter, heights)
                              => Held(v.wallet, v.lastBlock, early \ {b.height})
<1> DEFINE v == AcceptBlock(s, b)
           w == ConfirmTransactions(s.wallet, b.matched, b.height)
           h == b.height
<1>1. /\ Held(w, s.lastBlock, early)
      /\ \A heights : (\A n \in Num : n <= s.lastBlock => n \in heights)
                     /\ SpentIn(b, s.filter, heights)
                     => HasSpends(w, h)
  BY InvReaches, HeldConfirms
<1>2. v.wallet = w /\ v.lastBlock \in {s.lastBlock, h}
  BY AcceptBlockInv
<1>3. s.lastBlock \in Nat /\ h \in Nat
  BY InvReaches, NumNat DEF Block
<1> HIDE DEF v, w
<1>4. \A n \in Num : n <= v.lastBlock => n <= s.lastBlock \/ n = h
  BY <1>2, <1>3, NumNat
<1> HIDE DEF h
<1> QED
  BY <1>1, <1>2, <1>4 DEF Held, v, h

(* Orphans may be dropped, or complete ones be added. *)
LEMMA InvOrphans ==
    ASSUME NEW s, NEW q, NEW rem, Inv(s, q, rem), NEW v \in Node,
           Same(v, s, Idle \cup {"orphans"}),
           \A o \in v.orphans : \/ o \in s.orphans
                                \/ /\ Complete(o, s.filter)
                                   /\ Range(o.matched) \cap Wanted \subseteq Listed(s.wallet)
    PROVE  Inv(v, q, rem)
<1>1. /\ v.wallet = s.wallet /\ v.known = s.known /\ v.out = s.out
      /\ v.knownTx = s.knownTx /\ v.pongs = s.pongs /\ v.filter = s.filter
      /\ v.updating = s.updating /\ v.current = s.current /\ v.missing = s.missing
      /\ v.lastBlock = s.lastBlock
  BY DEF Same, Fields, Idle
<1>2. Blocks(Listed(s.wallet), s.filter, q, s.current, v.orphans)
  BY DEF Inv, Blocks
<1> QED
  BY <1>1, <1>2 DEF Inv

(* AcceptOrphan: so may a block from the orphans. *)
LEMMA AcceptOrphanInv ==
    ASSUME NEW s, NEW q, NEW rem, Inv(s, q, rem), s.filter # NULL, NEW o \in s.orphans,
           o.height <= s.lastBlock + 1
    PROVE  LET v == AcceptOrphan(s, o)
           IN  /\ Inv(v, q, rem) /\ Same(v, s, Idle \cup Extends \cup {"orphans", "early"})
               /\ v.orphans = s.orphans \ {o} /\ v.lastBlock >= o.height
               /\ v.lastBlock \in {s.lastBlock, o.height} /\ SameFilters(v, s)
               /\ Held(s.wallet, s.lastBlock, s.early) => Held(v.wallet, v.lastBlock, v.early)
<1> DEFINE x == [s EXCEPT !.orphans = s.orphans \ {o}]
           y == AcceptBlock(x, o)
           early == y.early \cup {o.height}
           z == [y EXCEPT !.early = early]
           v == AcceptOrphan(s, o)
<1>1. s \in Node /\ s.orphans \in SUBSET Block /\ o \in Block
  BY NodeFields DEF Inv
<1>2. v = z
  <2>1. [s EXCEPT !.orphans = @ \ {o}] = x
    OBVIOUS
  <2> HIDE DEF x
  <2> QED
    BY <2>1, Zenon DEF AcceptOrphan
<1>3. x \in Node /\ x.orphans = s.orphans \ {o} /\ Same(x, s, {"orphans"})
  BY <1>1 DEF Node, Same, Fields
<1> HIDE DEF x
<1>4. x.filter = s.filter /\ x.wallet = s.wallet /\ x.lastBlock = s.lastBlock
  BY <1>3 DEF Same, Fields
<1>5. Inv(x, q, rem)
  <2>1. Same(x, s, Idle \cup {"orphans"})
    BY <1>3 DEF Same
  <2> QED
    BY <1>3, <2>1, InvOrphans
<1>6. Complete(o, s.filter) /\ Range(o.matched) \cap Wanted \subseteq Listed(s.wallet)
  BY DEF Inv, Blocks
<1>7. /\ Inv(y, q, rem) /\ Same(y, x, Idle \cup Extends) /\ y.lastBlock >= o.height
      /\ y.lastBlock \in {s.lastBlock, o.height} /\ SameFilters(y, x)
  BY <1>1, <1>4, <1>5, <1>6, AcceptBlockInv
<1>14. Held(s.wallet, s.lastBlock, s.early) => Held(y.wallet, y.lastBlock, s.early \cup {o.height})
  BY <1>1, <1>4, <1>5, <1>6, AcceptBlockHeld
<1>15. y.early = s.early
  BY <1>3, <1>7 DEF Same, Fields, Idle, Extends
<1> HIDE DEF y, v
<1>8. y \in Node
  BY <1>7 DEF Inv
<1>9. early \in SUBSET Nat
  <2>1. y.early \in SUBSET Nat /\ o.height \in Nat
    BY <1>1, <1>8, NumNat DEF Node, Block
  <2> QED
    BY <2>1
<1>16. early = s.early \cup {o.height}
  BY <1>15
<1> HIDE DEF early
<1>10. z \in Node /\ z.early = early /\ Same(z, y, {"early"})
  BY <1>8, <1>9 DEF Node, Same, Fields
<1> HIDE DEF z
<1>11. Inv(z, q, rem)
  <2>1. Same(z, y, Idle \cup {"early"})
    BY <1>10 DEF Same, Idle
  <2> QED
    BY <1>7, <1>10, <2>1, InvEarly
<1>12. Same(z, s, Idle \cup Extends \cup {"orphans", "early"})
  BY <1>3, <1>7, <1>10 DEF Same, Idle
<1>13. z.orphans = s.orphans \ {o} /\ z.lastBlock = y.lastBlock
  BY <1>3, <1>7, <1>10 DEF Same, Idle, Fields, Extends
<1>17. z.wallet = y.wallet /\ z.out = y.out /\ x.out = s.out
  BY <1>3, <1>10 DEF Same, Fields
<1>18. Held(s.wallet, s.lastBlock, s.early) => Held(z.wallet, z.lastBlock, z.early)
  BY <1>10, <1>13, <1>14, <1>16, <1>17
<1>19. SameFilters(z, s)
  BY <1>7, <1>17 DEF SameFilters
<1> QED
  BY <1>2, <1>7, <1>11, <1>12, <1>13, <1>17, <1>18, <1>19 DEF v

(* The walk from a block to the orphans that follow it. *)
OrphanAt(s, h) == CHOOSE o \in s.orphans : o.height = h
Following(s, b) ==
    {k \in 0..Len(Mined) : \A j \in 1..k : \E o \in s.orphans : o.height = b.height + j}

(* The equations of the walk of AcceptBlocks. *)
LEMMA AcceptBlocksEquations ==
    ASSUME NEW s, NEW b
    PROVE  \E f : /\ AcceptBlocks(s, b) = f[Max(Following(s, b))]
                  /\ f[0] = [AcceptBlock(s, b) EXCEPT !.early = @ \ {b.height}]
                  /\ \A k \in 0..(Len(Mined) - 1) :
                        f[k + 1] = AcceptOrphan(f[k], OrphanAt(s, b.height + (k + 1)))
<1> DEFINE N == Len(Mined)
           init == [AcceptBlock(s, b) EXCEPT !.early = @ \ {b.height}]
           step(x, n) == AcceptOrphan(x, OrphanAt(s, b.height + n))
           is(h, k) == h = [n \in 0..k |-> IF n = 0 THEN init ELSE step(h[n - 1], n)]
           K == {k \in 0..N : \E h : is(h, k)}
           f == CHOOSE h : is(h, N)
<1>1. AcceptBlocks(s, b) = f[Max(Following(s, b))]
  BY Zenon DEF AcceptBlocks, OrphanAt, Following
<1>2. N \in Nat
  BY NumNat
<1> HIDE DEF init, N
<1>3. \A k \in 0..N : k \in K
  <2> HIDE DEF step
  <2>1. 0 \in K
    <3>1. is([n \in 0..0 |-> init], 0)
      OBVIOUS
    <3>2. 0 \in 0..N
      BY <1>2
    <3> HIDE DEF is
    <3> QED
      BY <3>1, <3>2
  <2>2. ASSUME NEW k \in 0..(N - 1), k \in K PROVE k + 1 \in K
    <3>1. PICK h : is(h, k)
      BY <2>2
    <3> DEFINE g == [n \in 0..(k + 1) |-> IF n <= k THEN h[n] ELSE step(h[k], k + 1)]
    <3>2. is(g, k + 1)
      BY <1>2, <3>1
    <3>3. k + 1 \in 0..N
      BY <1>2
    <3> HIDE DEF is
    <3> QED
      BY <3>2, <3>3
  <2> HIDE DEF K
  <2> QED
    BY <1>2, <2>1, <2>2, UpTo
<1>4. is(f, N)
  <2>1. N \in 0..N
    BY <1>2
  <2>2. \E h : is(h, N)
    BY <1>3, <2>1
  <2> QED
    BY <2>2, Zenon
<1> HIDE DEF f
<1>5. f[0] = init /\ \A n \in 0..(N - 1) : f[n + 1] = step(f[n], n + 1)
  <2> HIDE DEF step
  <2> QED
    BY <1>2, <1>4
<1> QED
  BY <1>1, <1>5 DEF init, N

(* AcceptBlocks, by induction on the length of the walk. *)
LEMMA AcceptBlocksInv ==
    ASSUME NEW s, NEW q, NEW rem, Inv(s, q, rem), s.filter # NULL, NEW b \in Block,
           Complete(b, s.filter), Range(b.matched) \cap Wanted \subseteq Listed(s.wallet),
           b.height <= s.lastBlock + 1
    PROVE  Inv(AcceptBlocks(s, b), q, rem) /\ Settles(AcceptBlocks(s, b), s, b)
<1> DEFINE N == Len(Mined)
           n == b.height
           M == Max(Following(s, b))
           Ahead(x, k) == \A o \in s.orphans : o.height > n + k => o \in x.orphans
           T == Taken(s.lastBlock, s.current, s.orphans)
           matched == Held(s.wallet, s.lastBlock, s.early) /\ SpentIn(b, s.filter, T)
           Low(x) == \A m \in Num : m <= x.lastBlock => m \in T \cup {n}
           Kept(x) == /\ x.current = s.current /\ x.orphans \subseteq s.orphans
                      /\ SameFilters(x, s) /\ Low(x)
                      /\ matched => Held(x.wallet, x.lastBlock, x.early)
           P(x, k) == /\ Inv(x, q, rem) /\ x.filter = s.filter
                      /\ x.lastBlock >= n + k /\ Ahead(x, k) /\ Kept(x)
<1>1. PICK f : /\ AcceptBlocks(s, b) = f[M]
               /\ f[0] = [AcceptBlock(s, b) EXCEPT !.early = @ \ {n}]
               /\ \A k \in 0..(N - 1) : f[k + 1] = AcceptOrphan(f[k], OrphanAt(s, n + (k + 1)))
  BY AcceptBlocksEquations
<1>2. N \in Nat /\ n \in Nat /\ s.orphans \in SUBSET Block /\ s \in Node
  BY NumNat, NodeFields DEF Inv, Block
<1>3. M \in 0..N /\ \A j \in 1..M : \E o \in s.orphans : o.height = n + j
  <2>1. Following(s, b) \in SUBSET (0..N)
    BY DEF Following
  <2>2. 0 \in Following(s, b)
    BY <1>2 DEF Following
  <2>3. M \in Following(s, b)
    <3>1. Following(s, b) # {}
      BY <2>2
    <3> QED
      BY <1>2, <2>1, <3>1, MaxIsGreatest
  <2> QED
    BY <2>1, <2>3 DEF Following
<1> HIDE DEF M
<1>10. /\ \A m \in Num : m \in Nat /\ (m <= s.lastBlock => m \in T)
       /\ \A o \in s.orphans : o.height \in T
       /\ s.lastBlock \in Nat /\ n \in Num
  BY <1>2, NodeFields, NumNat DEF Taken, Block
<1> HIDE DEF T
<1>4. P(f[0], 0)
  <2> DEFINE y == AcceptBlock(s, b)
             early == y.early \ {n}
             z == [y EXCEPT !.early = early]
  <2>1. /\ Inv(y, q, rem) /\ Same(y, s, Idle \cup Extends) /\ y.lastBlock >= n
        /\ y.lastBlock \in {s.lastBlock, n} /\ SameFilters(y, s)
    BY AcceptBlockInv
  <2>9. matched => Held(y.wallet, y.lastBlock, s.early \ {n})
    BY <1>10, AcceptBlockHeld
  <2>2. f[0] = z
    BY <1>1
  <2> HIDE DEF y
  <2>3. y \in Node
    BY <2>1 DEF Inv
  <2>4. early \in SUBSET Nat
    BY <2>3 DEF Node
  <2>10. early = s.early \ {n}
    BY <2>1 DEF Same, Fields, Idle, Extends
  <2> HIDE DEF early
  <2>5. z \in Node /\ z.early = early /\ Same(z, y, {"early"})
    BY <2>3, <2>4 DEF Node, Same, Fields
  <2> HIDE DEF z
  <2>6. Inv(z, q, rem)
    <3>1. Same(z, y, Idle \cup {"early"})
      BY <2>5 DEF Same, Idle
    <3> QED
      BY <2>1, <2>5, <3>1, InvEarly
  <2>7. z.lastBlock = y.lastBlock /\ z.filter = s.filter /\ z.orphans = s.orphans
    BY <2>1, <2>5 DEF Same, Idle, Fields, Extends
  <2>8. n + 0 = n
    BY <1>2
  <2>11. z.current = s.current /\ z.out = y.out /\ z.wallet = y.wallet
    BY <2>1, <2>5 DEF Same, Idle, Fields, Extends
  <2>12. Low(z)
    <3>1. \A m \in Num : m <= z.lastBlock => m <= s.lastBlock \/ m = n
      BY <1>2, <1>10, <2>1, <2>7
    <3> QED
      BY <1>10, <3>1
  <2>13. SameFilters(z, s)
    BY <2>1, <2>11 DEF SameFilters
  <2>14. matched => Held(z.wallet, z.lastBlock, z.early)
    BY <2>5, <2>7, <2>9, <2>10, <2>11
  <2>15. Kept(z)
    <3> HIDE DEF Low, matched
    <3> QED
      BY <2>1, <2>7, <2>11, <2>12, <2>13, <2>14
  <2> HIDE DEF Kept
  <2> QED
    BY <2>1, <2>2, <2>6, <2>7, <2>8, <2>15
<1>5. ASSUME NEW k \in 0..(N - 1), k + 1 <= M, P(f[k], k) PROVE P(f[k + 1], k + 1)
  <2> DEFINE h == n + (k + 1)
             o == OrphanAt(s, h)
             x == f[k]
             v == AcceptOrphan(x, o)
  <2>1. k \in Nat /\ h \in Nat /\ k + 1 \in 1..M /\ h > n + k /\ (n + k) + 1 = h
    <3>1. M \in Nat /\ k \in Nat /\ k + 1 <= M /\ n \in Nat
      BY <1>2, <1>3, <1>5
    <3> QED
      BY <3>1
  <2>2. o \in s.orphans /\ o.height = h
    BY <1>3, <2>1 DEF OrphanAt
  <2> HIDE DEF o, x
  <2>3. Inv(x, q, rem) /\ x.filter = s.filter /\ x.lastBlock >= n + k /\ Ahead(x, k)
    BY <1>5 DEF x
  <2>10. Kept(x)
    BY <1>5 DEF x
  <2>4. o \in x.orphans
    BY <2>1, <2>2, <2>3
  <2>5. o.height <= x.lastBlock + 1
    <3>1. x.lastBlock \in Nat
      BY <2>3, InvReaches
    <3> QED
      BY <1>2, <2>1, <2>2, <2>3, <3>1
  <2>6. /\ Inv(v, q, rem) /\ Same(v, x, Idle \cup Extends \cup {"orphans", "early"})
        /\ v.orphans = x.orphans \ {o} /\ v.lastBlock >= o.height
        /\ v.lastBlock \in {x.lastBlock, o.height} /\ SameFilters(v, x)
        /\ Held(x.wallet, x.lastBlock, x.early) => Held(v.wallet, v.lastBlock, v.early)
    BY <2>3, <2>4, <2>5, AcceptOrphanInv
  <2>7. f[k + 1] = v
    BY <1>1 DEF x, o
  <2> HIDE DEF v
  <2>8. v.filter = s.filter
    BY <2>3, <2>6 DEF Same, Fields, Idle, Extends
  <2>9. Ahead(v, k + 1)
    <3>1. \A e \in s.orphans : e.height \in Nat
      BY <1>2, NumNat DEF Block
    <3>2. \A e \in s.orphans : e.height > h => e.height > n + k /\ e # o
      BY <1>2, <2>1, <2>2, <3>1
    <3> QED
      BY <2>3, <2>6, <3>2
  <2>11. Low(v)
    <3>1. x.lastBlock \in Nat /\ o.height \in Nat
      BY <1>2, <2>2, <2>3, InvReaches, NumNat DEF Block
    <3>2. \A m \in Num : m <= v.lastBlock => m <= x.lastBlock \/ m = o.height
      BY <1>10, <2>5, <2>6, <3>1
    <3> QED
      BY <1>10, <2>2, <2>10, <3>2
  <2>12. v.current = s.current
    BY <2>6, <2>10 DEF Same, Fields, Idle, Extends
  <2>13. v.orphans \subseteq s.orphans /\ SameFilters(v, s)
    BY <2>6, <2>10 DEF SameFilters
  <2>14. matched => Held(v.wallet, v.lastBlock, v.early)
    BY <2>6, <2>10
  <2>15. Kept(v)
    <3> HIDE DEF Low, matched
    <3> QED
      BY <2>11, <2>12, <2>13, <2>14
  <2> HIDE DEF Ahead, Kept
  <2> QED
    BY <2>2, <2>6, <2>7, <2>8, <2>9, <2>15
<1> HIDE DEF P
<1> DEFINE G == {k \in 0..N : k <= M => P(f[k], k)}
<1>6. 0 \in G
  BY <1>2, <1>4
<1>7. ASSUME NEW k \in 0..(N - 1), k \in G PROVE k + 1 \in G
  <2>1. k + 1 \in 0..N /\ (k + 1 <= M => k <= M)
    BY <1>2, <1>3
  <2> QED
    BY <1>5, <1>7, <2>1
<1> HIDE DEF G
<1>8. \A k \in 0..N : k \in G
  BY <1>2, <1>6, <1>7, UpTo
<1>9. P(f[M], M)
  <2>1. M <= M
    BY <1>3
  <2> QED
    BY <1>3, <1>8, <2>1 DEF G
<1>11. Settles(f[M], s, b)
  <2> DEFINE v == f[M]
  <2>1. v.filter = s.filter /\ Kept(v)
    BY <1>9 DEF P
  <2> HIDE DEF v
  <2>2. Taken(v.lastBlock, v.current, v.orphans) \subseteq T \cup {n}
    BY <2>1 DEF Taken, T
  <2>3. matched => Held(v.wallet, v.lastBlock, v.early)
    BY <2>1
  <2> QED
    BY <2>1, <2>2, <2>3 DEF Settles, T, v
<1> QED
  BY <1>1, <1>9, <1>11 DEF P

(* AddOrphan. *)
LEMMA AddOrphanInv ==
    ASSUME NEW s, NEW q, NEW rem, Inv(s, q, rem), NEW b \in Block,
           Complete(b, s.filter), Range(b.matched) \cap Wanted \subseteq Listed(s.wallet)
    PROVE  Inv(AddOrphan(s, b), q, rem) /\ Settles(AddOrphan(s, b), s, b)
<1> DEFINE asks == s.lastBlock >= s.reported /\ s.lastOrphan # b.height - 1
           asked == IF asks THEN SendGetblocks(s) ELSE s
           left == {o \in asked.orphans : o.height # b.height} \cup {b}
           v == [asked EXCEPT !.orphans = left, !.lastOrphan = b.height]
<1>1. s \in Node
  BY DEF Inv
<1>2. AddOrphan(s, b) = v
  BY Zenon DEF AddOrphan
<1>3. Inv(asked, q, rem) /\ Same(asked, s, {"out"}) /\ Keeps(asked, s)
  <2>1. Quiet(SendGetblocks(s), s) /\ Same(SendGetblocks(s), s, {"out"})
    BY <1>1, GetblocksQuiet
  <2>2. Inv(SendGetblocks(s), q, rem)
    BY <2>1, InvQuiet
  <2>3. Same(s, s, {"out"}) /\ Keeps(s, s)
    BY KeepsSelf DEF Same
  <2>4. Keeps(SendGetblocks(s), s)
    BY <1>1, <2>1, KeepsQuiet
  <2> QED
    BY <2>1, <2>2, <2>3, <2>4
<1> HIDE DEF asked, asks
<1>4. /\ asked \in Node /\ asked.filter = s.filter /\ asked.wallet = s.wallet
      /\ asked.orphans = s.orphans /\ asked.current = s.current
      /\ asked.lastBlock = s.lastBlock /\ asked.early = s.early
  BY <1>3 DEF Inv, Same, Fields
<1>5. left \in SUBSET Block /\ b.height \in Nat
  BY <1>4, NodeFields, NumNat DEF Block
<1>6. \A o \in left : \/ o \in asked.orphans
                      \/ /\ Complete(o, asked.filter)
                         /\ Range(o.matched) \cap Wanted \subseteq Listed(asked.wallet)
  BY <1>4
<1>9. \A o \in left : o \in s.orphans \/ o = b
  BY <1>4
<1> HIDE DEF left
<1>7. v \in Node /\ v.orphans = left /\ Same(v, asked, {"orphans", "lastOrphan"})
  BY <1>4, <1>5 DEF Node, Same, Fields
<1> HIDE DEF v
<1>8. Same(v, asked, Idle \cup {"orphans"})
  BY <1>7 DEF Same, Idle
<1>10. /\ v.filter = s.filter /\ v.current = s.current /\ v.wallet = s.wallet
       /\ v.lastBlock = s.lastBlock /\ v.early = s.early /\ v.out = asked.out
  BY <1>4, <1>7 DEF Same, Fields
<1>11. SameFilters(v, s)
  BY <1>3, <1>10 DEF Keeps, SameFilters
<1>12. Taken(v.lastBlock, v.current, v.orphans)
         \subseteq Taken(s.lastBlock, s.current, s.orphans) \cup {b.height}
  BY <1>7, <1>9, <1>10 DEF Taken
<1>13. Settles(v, s, b)
  BY <1>10, <1>11, <1>12 DEF Settles
<1> QED
  BY <1>2, <1>3, <1>6, <1>7, <1>8, <1>13, InvOrphans

(* RelayedBlock, by its branches. *)
LEMMA RelayedBlockInv ==
    ASSUME NEW s, NEW q, NEW rem, Inv(s, q, rem), NEW b \in Block,
           Complete(b, s.filter), Range(b.matched) \cap Wanted \subseteq Listed(s.wallet)
    PROVE  Inv(RelayedBlock(s, b), q, rem) /\ Settles(RelayedBlock(s, b), s, b)
<1> DEFINE late == s.timer \/ s.lastBlock < s.estimated
           x == [s EXCEPT !.timer = late]
<1>1. s \in Node /\ s.lastBlock \in Nat
  BY NodeFields DEF Inv
<1>2. RelayedBlock(s, b) =
        IF s.filter = NULL THEN x
        ELSE IF b.height > s.lastBlock + 1
        THEN IF b.height < Recent THEN s ELSE AddOrphan(s, b)
        ELSE AcceptBlocks(s, b)
  BY Zenon DEF RelayedBlock
<1>6. Settles(s, s, b)
  BY DEF Settles, SameFilters
<1>3. Inv(x, q, rem) /\ (s.filter = NULL => Settles(x, s, b))
  <2>1. s.timer \in BOOLEAN
    BY <1>1 DEF Node
  <2>2. late \in BOOLEAN
    BY <2>1
  <2> HIDE DEF late
  <2>3. x \in Node /\ Same(x, s, {"timer"})
    BY <1>1, <2>2 DEF Node, Same, Fields
  <2> HIDE DEF x
  <2>4. Same(x, s, Idle)
    BY <2>3 DEF Same, Idle
  <2>5. /\ x.filter = s.filter /\ x.current = s.current /\ x.wallet = s.wallet
        /\ x.lastBlock = s.lastBlock /\ x.early = s.early /\ x.out = s.out
        /\ x.orphans = s.orphans
    BY <2>3 DEF Same, Fields
  <2>6. Settles(x, s, b)
    BY <2>5 DEF Settles, SameFilters
  <2> QED
    BY <2>3, <2>4, <2>6, InvIdle
<1>4. Inv(AddOrphan(s, b), q, rem) /\ Settles(AddOrphan(s, b), s, b)
  BY AddOrphanInv
<1>5. CASE s.filter # NULL /\ ~(b.height > s.lastBlock + 1)
  <2>1. b.height <= s.lastBlock + 1
    <3>1. b.height \in Nat
      BY NumNat DEF Block
    <3> QED
      BY <1>1, <1>5, <3>1
  <2>2. Inv(AcceptBlocks(s, b), q, rem) /\ Settles(AcceptBlocks(s, b), s, b)
    BY <1>5, <2>1, AcceptBlocksInv
  <2> QED
    BY <1>2, <1>5, <2>2
<1> HIDE DEF x
<1> QED
  BY <1>2, <1>3, <1>4, <1>5, <1>6

-----------------------------------------------------------------------------
(* BRPeer.c: a message comes, ... *)

(* What the node takes is in the wallet or known: the rest is still under     *)
(* way.                                                                       *)
LEMMA InvPops ==
    ASSUME NEW s, NEW q, NEW rem, Inv(s, q, rem), q # << >>,
           NEW v \in Node, Same(v, s, {"pongs"}),
           PongsDue(v.pongs, Tail(q) \o s.out), Updates(v.pongs, s.filter, s.updating),
           \A t \in Wanted : Carries(q[1], t) => t \in Listed(s.wallet),
           \A t \in Wanted : NamesTx(q[1], t) => t \in s.knownTx,
           \A t \in s.missing : ~Carries(q[1], t)
    PROVE  Inv(v, Tail(q), rem)
<1> DEFINE r == Tail(q)
           N == Len(q) - 1
           A == AllAddrs(s.wallet)
           L == Listed(s.wallet)
<1>1. s \in Node /\ q \in Seq(InMsg) /\ rem \in Remote
  BY DEF Inv
<1>2. /\ r \in Seq(InMsg) /\ Len(r) = N /\ Len(q) = N + 1 /\ N \in Nat
      /\ \A i \in 1..N : i + 1 \in 1..(N + 1) /\ r[i] = q[i + 1]
      /\ \A i \in 1..(N + 1) : i = 1 \/ (i - 1 \in 1..N /\ r[i - 1] = q[i])
  BY <1>1, TailAt
<1>3. /\ s.wallet \in Wallet /\ s.out \in Seq(OutMsg)
      /\ A \in SUBSET (Chains \X Nat)
  BY <1>1, NodeFields, AllAddrsType
<1> HIDE DEF N, A, L
<1>4. Traffic(A, L, s.known, s.knownTx, r, s.out, rem.filter.outs, rem.height)
  <2>1. Traffic(A, L, s.known, s.knownTx, q, s.out, rem.filter.outs, rem.height)
    BY DEF Inv, A, L
  <2>2. \A t \in Wanted : Carries(q[1], t) => t \in L
    BY DEF L
  <2> QED
    BY <1>1, <1>3, <2>1, <2>2, TrafficTaken
<1>5. /\ v.wallet = s.wallet /\ v.known = s.known /\ v.out = s.out /\ v.current = s.current
      /\ v.knownTx = s.knownTx /\ v.missing = s.missing /\ v.filter = s.filter
      /\ v.updating = s.updating /\ v.orphans = s.orphans /\ v.lastBlock = s.lastBlock
  BY DEF Same, Fields
<1> HIDE DEF r
<1>6. Sent(s.filter, r, s.out, rem.filter)
  <2> SUFFICES ASSUME s.filter # NULL, NEW j \in 1..Len(s.out), IsLoad(s.out[j]), NEW i \in 1..N
               PROVE  ~HasBlocks(r[i])
    BY <1>2 DEF Inv, Sent
  <2>1. \A k \in 1..Len(q) : ~HasBlocks(q[k])
    BY DEF Inv, Sent
  <2> QED
    BY <1>2, <2>1
<1>7. Blocks(L, s.filter, r, s.current, s.orphans)
  BY <1>2 DEF Inv, Blocks, L
<1>8. Follow(r)
  <2> SUFFICES ASSUME NEW i \in 1..N, r[i].type = "merkleblock",
                      NEW k \in 1..Len(r[i].block.matched)
               PROVE  i + k \in 1..N /\ Carries(r[i + k], r[i].block.matched[k])
    BY <1>2 DEF Follow
  <2>1. i + 1 \in 1..Len(q) /\ r[i] = q[i + 1]
    BY <1>2
  <2>2. (i + 1) + k \in 1..Len(q) /\ Carries(q[(i + 1) + k], q[i + 1].block.matched[k])
    BY <2>1 DEF Inv, Follow
  <2>3. i + k \in 1..N /\ (i + k) + 1 = (i + 1) + k
    <3>1. i \in Nat /\ k \in Nat /\ i > 0 /\ k > 0
      BY <1>2
    <3> QED
      BY <1>2, <2>2, <3>1
  <2>4. r[i + k] = q[(i + k) + 1]
    BY <1>2, <2>3
  <2> QED
    BY <2>1, <2>2, <2>3, <2>4
<1>9. Waits(L, s.current, s.missing, r)
  <2>1. ASSUME NEW t \in s.missing
        PROVE  \E j \in 1..N : Carries(r[j], t) /\ \A i \in 1..j : r[i].type = "tx"
    <3>1. PICK j \in 1..(N + 1) : Carries(q[j], t) /\ \A i \in 1..j : q[i].type = "tx"
      BY <1>2 DEF Inv, Waits
    <3>2. j # 1
      BY <3>1
    <3>3. j - 1 \in 1..N /\ r[j - 1] = q[j]
      BY <1>2, <3>2
    <3>4. \A i \in 1..(j - 1) : i \in 1..N /\ i + 1 \in 1..j
      BY <1>2, <3>3
    <3>5. \A i \in 1..(j - 1) : r[i].type = "tx"
      BY <1>2, <3>1, <3>4
    <3>6. Carries(r[j - 1], t)
      BY <3>1, <3>3
    <3> QED
      BY <3>3, <3>5, <3>6
  <2>2. /\ s.missing = {} <=> s.current = NoBlock
        /\ s.missing \subseteq Range(s.current.matched)
        /\ Range(s.current.matched) \cap Wanted \subseteq L \cup s.missing
    BY DEF Inv, Waits, L
  <2> QED
    BY <1>2, <2>1, <2>2 DEF Waits
<1>10. Got(s.wallet, s.lastBlock) /\ Reach(s.wallet, s.filter, s.out, rem.filter)
  BY DEF Inv
<1> QED
  BY <1>1, <1>2, <1>4, <1>5, <1>6, <1>7, <1>8, <1>9, <1>10 DEF Inv, r, A, L

(* ... one that is not a pong, ... *)
LEMMA InvTakes ==
    ASSUME NEW s, NEW q, NEW rem, Inv(s, q, rem), q # << >>, ~IsPing(q[1]),
           \A t \in Wanted : Carries(q[1], t) => t \in Listed(s.wallet),
           \A t \in Wanted : NamesTx(q[1], t) => t \in s.knownTx,
           \A t \in s.missing : ~Carries(q[1], t)
    PROVE  Inv(s, Tail(q), rem)
<1>1. s \in Node /\ q \in Seq(InMsg) /\ PongsDue(s.pongs, q \o s.out)
  BY DEF Inv
<1>2. s.out \in Seq(OutMsg) /\ s.pongs \in Seq(Callback)
  BY <1>1, NodeFields
<1>3. PongsDue(s.pongs, Tail(q) \o s.out)
  BY <1>1, <1>2, PongsTaken
<1>4. Same(s, s, {"pongs"}) /\ Updates(s.pongs, s.filter, s.updating)
  BY DEF Same, Inv
<1> QED
  BY <1>1, <1>3, <1>4, InvPops

(* What the node waits for changes. *)
LEMMA InvWaits ==
    ASSUME NEW s, NEW q, NEW rem, Inv(s, q, rem), NEW v \in Node,
           Same(v, s, {"current", "missing"}),
           Waits(Listed(s.wallet), v.current, v.missing, q),
           v.current # NoBlock => Complete(v.current, s.filter)
    PROVE  Inv(v, q, rem)
<1>1. /\ v.wallet = s.wallet /\ v.known = s.known /\ v.out = s.out
      /\ v.knownTx = s.knownTx /\ v.pongs = s.pongs /\ v.filter = s.filter
      /\ v.updating = s.updating /\ v.orphans = s.orphans /\ v.lastBlock = s.lastBlock
  BY DEF Same, Fields
<1>2. Blocks(Listed(s.wallet), s.filter, q, v.current, s.orphans)
  BY DEF Inv, Blocks
<1> QED
  BY <1>1, <1>2 DEF Inv

(* No block is NoBlock. *)
LEMMA BlockNotNone == \A b \in Block : b # NoBlock /\ Range(b.matched) \subseteq Tx
<1> SUFFICES ASSUME NEW b \in Block PROVE b # NoBlock /\ Range(b.matched) \subseteq Tx
  OBVIOUS
<1>1. b.height \in Num /\ b.matched \in Seq(Tx) /\ 0 \notin Num /\ NoBlock.height = 0
  BY DEF Block, NoBlock, Num
<1>2. Range(b.matched) \subseteq Tx
  BY <1>1 DEF Range
<1> QED
  BY <1>1, <1>2

(* ... a block, ... *)
LEMMA AcceptMerkleblockInv ==
    ASSUME NEW s, NEW q, NEW rem, Inv(s, q, rem), q # << >>, q[1].type = "merkleblock"
    PROVE  /\ Inv(AcceptMerkleblock(s, q[1].block), Tail(q), rem)
           /\ Safe(s, q, rem) => Safe(AcceptMerkleblock(s, q[1].block), Tail(q), rem)
<1> DEFINE b == q[1].block
           r == Tail(q)
           lost == Range(b.matched) \ s.knownTx
           v == [s EXCEPT !.current = b, !.missing = lost]
<1>1. s \in Node /\ q \in Seq(InMsg)
  BY DEF Inv
<1>2. 1 \in 1..Len(q) /\ q[1] \in InMsg
  BY <1>1, TailAt
<1>3. b \in Block /\ b # NoBlock /\ Range(b.matched) \subseteq Tx
  <2>1. b \in Block
    BY <1>2 DEF InMsg
  <2> HIDE DEF b
  <2> QED
    BY <2>1, BlockNotNone
<1>4. Complete(b, s.filter)
  BY <1>2 DEF Inv, Blocks
<1>5. s.current = NoBlock /\ s.missing = {}
  <2>1. ASSUME NEW t \in s.missing PROVE FALSE
    <3>1. PICK j \in 1..Len(q) : \A i \in 1..j : q[i].type = "tx"
      BY DEF Inv, Waits
    <3>2. 1 \in 1..j
      OBVIOUS
    <3> QED
      BY <3>1, <3>2
  <2> QED
    BY <2>1 DEF Inv, Waits
<1>6. Inv(s, r, rem)
  <2>1. ~IsPing(q[1]) /\ \A t : ~Carries(q[1], t) /\ ~NamesTx(q[1], t)
    BY DEF IsPing, Carries, NamesTx
  <2> QED
    BY <2>1, InvTakes
<1>7. ASSUME NEW t \in Range(b.matched) \cap Wanted, t \in s.knownTx PROVE t \in Listed(s.wallet)
  <2>1. BlockOf(q[1], t)
    <3>1. t \in Range(Mined[b.height]) /\ b.height \in Num /\ b.height <= b.height
      BY <1>3, <1>4, NumNat DEF Complete, Block
    <3> QED
      BY <3>1 DEF BlockOf, MinedBy
  <2>2. ~CarriedFirst(t, q)
    <3>1. \A j \in 1..Len(q) : 1 \in 1..j
      OBVIOUS
    <3> QED
      BY <2>1, <3>1 DEF CarriedFirst
  <2>3. ~AskedFirst(t, q, s.out)
    BY <1>2, <2>1 DEF AskedFirst
  <2>4. KnownInTime(s.knownTx, Listed(s.wallet), q, s.out)
    BY DEF Inv, Traffic
  <2> QED
    BY <1>7, <2>2, <2>3, <2>4 DEF KnownInTime
<1>8. AcceptMerkleblock(s, b) = IF lost = {} THEN RelayedBlock(s, b) ELSE v
  BY Zenon DEF AcceptMerkleblock
<1>9. CASE lost = {}
  <2>1. Range(b.matched) \cap Wanted \subseteq Listed(s.wallet)
    BY <1>7, <1>9
  <2>2. Inv(RelayedBlock(s, b), r, rem) /\ Settles(RelayedBlock(s, b), s, b)
    BY <1>3, <1>4, <1>6, <2>1, RelayedBlockInv
  <2>3. Safe(s, q, rem) => Safe(RelayedBlock(s, b), r, rem)
    BY <1>1, <1>3, <1>5, <2>2, SettlesSafe
  <2> QED
    BY <1>8, <1>9, <2>2, <2>3
<1>10. CASE lost # {}
  <2>1. v \in Node /\ v.current = b /\ v.missing = lost /\ Same(v, s, {"current", "missing"})
    <3>1. lost \in SUBSET Tx
      BY <1>3
    <3> HIDE DEF b, lost
    <3> QED
      BY <1>1, <1>3, <3>1 DEF Node, Same, Fields
  <2>2. ASSUME NEW t \in lost
        PROVE  \E j \in 1..Len(r) : Carries(r[j], t) /\ \A i \in 1..j : r[i].type = "tx"
    <3>1. PICK k \in 1..Len(b.matched) : b.matched[k] = t
      <4>1. DOMAIN b.matched = 1..Len(b.matched)
        BY <1>3 DEF Block
      <4> QED
        BY <2>2, <4>1 DEF Range
    <3>2. \A i \in 1..Len(b.matched) : 1 + i \in 1..Len(q) /\ Carries(q[1 + i], b.matched[i])
      BY <1>2 DEF Inv, Follow
    <3>3. Len(q) \in Nat /\ Len(r) = Len(q) - 1 /\ Len(b.matched) \in Nat
      BY <1>1, <1>3, TailAt DEF Block
    <3>4. \A i \in 1..Len(b.matched) : i \in 1..Len(r) /\ r[i] = q[1 + i]
      <4> SUFFICES ASSUME NEW i \in 1..Len(b.matched) PROVE i \in 1..Len(r) /\ r[i] = q[1 + i]
        OBVIOUS
      <4>1. i \in 1..(Len(q) - 1) /\ 1 + i = i + 1
        BY <3>2, <3>3
      <4> QED
        BY <1>1, <3>3, <4>1, TailAt
    <3>5. \A i \in 1..k : i \in 1..Len(b.matched)
      BY <3>3
    <3> HIDE DEF b, r
    <3>6. Carries(r[k], t) /\ k \in 1..Len(r)
      BY <3>1, <3>2, <3>4
    <3>7. \A i \in 1..k : r[i].type = "tx"
      <4>1. \A i \in 1..k : Carries(r[i], b.matched[i])
        BY <3>2, <3>4, <3>5
      <4> QED
        BY <4>1 DEF Carries
    <3> QED
      BY <3>6, <3>7
  <2>3. Waits(Listed(s.wallet), b, lost, r)
    <3>1. Range(b.matched) \cap Wanted \subseteq Listed(s.wallet) \cup lost
      BY <1>7
    <3> HIDE DEF b, r
    <3> QED
      BY <1>3, <1>10, <2>2, <3>1 DEF Waits
  <2> HIDE DEF b, r, v, lost
  <2>4. Inv(v, r, rem)
    BY <1>4, <1>6, <2>1, <2>3, InvWaits
  <2>5. Safe(s, q, rem) => Safe(v, r, rem)
    BY <1>1, <1>3, <1>5, <2>1, WaitsSafe DEF b, r
  <2> QED
    BY <1>8, <1>10, <2>4, <2>5 DEF b, r
<1> QED
  BY <1>9, <1>10

(* ... a transaction, the last one its block waits for or not, ... *)
LEMMA AcceptTxInv ==
    ASSUME NEW s, NEW q, NEW rem, Inv(s, q, rem), q # << >>, q[1].type = "tx",
           CountsAll(RegisterTransaction(s.wallet, q[1].tx))
    PROVE  /\ Inv(AcceptTx(s, q[1].tx), Tail(q), rem)
           /\ Safe(s, q, rem) => Safe(AcceptTx(s, q[1].tx), Tail(q), rem)
<1> DEFINE t == q[1].tx
           r == Tail(q)
           x == RelayedTx(s, t)
           left == x.missing \ {t}
           y == [x EXCEPT !.missing = left]
           z == [y EXCEPT !.current = NoBlock]
           b == s.current
<1>1. s \in Node /\ q \in Seq(InMsg)
  BY DEF Inv
<1>2. 1 \in 1..Len(q) /\ q[1] \in InMsg
  BY <1>1, TailAt
<1>3. t \in Tx /\ Carries(q[1], t)
  BY <1>2 DEF InMsg, Carries
<1>4. t \in Wanted => ContainsTx(s.wallet, t)
  <2> SUFFICES ASSUME t \in Wanted PROVE ContainsTx(s.wallet, t)
    OBVIOUS
  <2> DEFINE A == AllAddrs(s.wallet)
             L == Listed(s.wallet)
  <2>1. Backed(t, A, L \cup CarriedIn(q, 1 - 1))
    BY <1>2, <1>3 DEF Inv, Traffic, CarriedBacked
  <2>2. CarriedIn(q, 1 - 1) = {}
    BY DEF CarriedIn
  <2>3. L \subseteq s.wallet.allTx
    BY PurseCounted DEF Inv, Got, InOrder, Listed
  <2> HIDE DEF t
  <2>4. Pays(t, A) \/ \E u \in Inputs[t] : PaysTo(u, A) /\ u[1] \in L
    BY <2>1, <2>2 DEF Backed
  <2> QED
    BY <2>3, <2>4 DEF ContainsTx, PaysTo, Output
<1>5. AcceptTx(s, t) = IF s.missing # {t} THEN y ELSE RelayedBlock(z, b)
  <2>1. [RelayedTx(s, t) EXCEPT !.missing = @ \ {t}] = y
    OBVIOUS
  <2> HIDE DEF y, t
  <2> QED
    BY <2>1, Zenon DEF AcceptTx
<1>20. CountsAll(RegisterTransaction(s.wallet, t))
  OBVIOUS
<1> HIDE DEF t
<1>6. /\ Inv(x, q, rem) /\ Same(x, s, Idle \cup Learns) /\ Keeps(x, s)
      /\ t \in Wanted => t \in Listed(x.wallet)
  BY <1>3, <1>4, <1>20, RelayedTxInv
<1> HIDE DEF x
<1>7. x \in Node /\ x.missing = s.missing /\ x.current = b
  BY <1>6 DEF Inv, Same, Fields, Idle, Learns
<1>8. left \in SUBSET Tx
  BY <1>7, NodeFields
<1>9. /\ x.missing = {} <=> b = NoBlock
      /\ x.missing \subseteq Range(b.matched)
      /\ \A e \in x.missing : \E j \in 1..Len(q) :
            Carries(q[j], e) /\ \A i \in 1..j : q[i].type = "tx"
      /\ Range(b.matched) \cap Wanted \subseteq Listed(x.wallet) \cup x.missing
      /\ b # NoBlock => Complete(b, x.filter)
  BY <1>6, <1>7 DEF Inv, Waits, Blocks
<1>10. \A e \in left : ~Carries(q[1], e)
  BY <1>3 DEF Carries
<1>11. ~IsPing(q[1]) /\ \A e : ~NamesTx(q[1], e)
  BY DEF IsPing, NamesTx
<1>12. \A e \in Wanted : Carries(q[1], e) => e \in Listed(x.wallet)
  BY <1>3, <1>6 DEF Carries
<1>13. Range(b.matched) \cap Wanted \subseteq Listed(x.wallet) \cup left
  BY <1>6, <1>9
<1>14. CASE s.missing # {t}
  <2>1. y \in Node /\ y.missing = left /\ y.current = b /\ Same(y, x, {"current", "missing"})
    <3> HIDE DEF left
    <3> QED
      BY <1>7, <1>8 DEF Node, Same, Fields
  <2>2. left = {} <=> b = NoBlock
    BY <1>7, <1>9, <1>14
  <2>3. Waits(Listed(x.wallet), b, left, q)
    BY <1>9, <1>13, <2>2 DEF Waits
  <2> HIDE DEF y, left
  <2>4. Inv(y, q, rem) /\ y.wallet = x.wallet
    BY <1>6, <1>7, <1>9, <2>1, <2>3, InvWaits DEF Same, Fields
  <2>5. Inv(y, r, rem)
    BY <1>10, <1>11, <1>12, <2>1, <2>4, InvTakes
  <2>6. Safe(s, q, rem) => Safe(y, r, rem)
    <3>1. Keeps(y, x)
      BY <1>7, <2>1, KeepsWaits
    <3>2. Keeps(y, s)
      BY <1>6, <3>1, KeepsOn
    <3> QED
      BY <1>1, <3>2, KeepsReceives
  <2> QED
    BY <1>5, <1>14, <2>5, <2>6 DEF t
<1>15. CASE s.missing = {t}
  <2>1. left = {}
    BY <1>7, <1>15
  <2>2. /\ z \in Node /\ z.missing = left /\ z.current = NoBlock
        /\ Same(z, x, {"current", "missing"})
    <3> HIDE DEF left
    <3> QED
      BY <1>7, <1>8 DEF Node, Same, Fields
  <2>3. Waits(Listed(x.wallet), NoBlock, left, q)
    BY <2>1 DEF Waits, NoBlock, Range
  <2>4. b \in Block /\ Complete(b, x.filter) /\ b # NoBlock
    BY <1>1, <1>7, <1>9, <1>15, NodeFields
  <2> HIDE DEF z, left
  <2>5. Inv(z, q, rem) /\ z.wallet = x.wallet /\ z.filter = x.filter
    BY <1>6, <2>2, <2>3, InvWaits DEF Same, Fields
  <2>6. Inv(z, r, rem)
    BY <1>10, <1>11, <1>12, <2>2, <2>5, InvTakes
  <2>7. Range(b.matched) \cap Wanted \subseteq Listed(z.wallet)
    BY <1>13, <2>1, <2>5
  <2>9. Keeps(z, s)
    <3>1. Keeps(z, x)
      BY <2>2, KeepsWaits
    <3> QED
      BY <1>6, <3>1, KeepsOn
  <2> HIDE DEF b
  <2>8. Inv(RelayedBlock(z, b), r, rem) /\ Settles(RelayedBlock(z, b), z, b)
    BY <2>4, <2>5, <2>6, <2>7, RelayedBlockInv
  <2>10. Safe(s, q, rem) => Safe(RelayedBlock(z, b), r, rem)
    BY <1>1, <2>2, <2>4, <2>8, <2>9, CompletesSafe DEF b
  <2> QED
    BY <1>5, <1>15, <2>8, <2>10 DEF t
<1> QED
  BY <1>14, <1>15

(* The node keeps the hashes of blocks of an inv, ... *)
LEMMA InvKnows ==
    ASSUME NEW s, NEW q, NEW rem, Inv(s, q, rem), NEW v \in Node,
           Same(v, s, Idle \cup {"known"}),
           \A n \in Range(v.known) : \/ n \in Range(s.known)
                                     \/ /\ q # << >> /\ q[1].type = "inv"
                                        /\ n \in Range(q[1].blocks)
    PROVE  Inv(v, q, rem)
<1>1. /\ v.wallet = s.wallet /\ v.out = s.out /\ v.knownTx = s.knownTx
      /\ v.pongs = s.pongs /\ v.filter = s.filter /\ v.current = s.current
      /\ v.missing = s.missing /\ v.updating = s.updating /\ v.orphans = s.orphans
      /\ v.lastBlock = s.lastBlock
  BY DEF Same, Fields, Idle
<1>2. Traffic(AllAddrs(s.wallet), Listed(s.wallet), v.known, s.knownTx, q, s.out,
              rem.filter.outs, rem.height)
  BY TrafficKnows DEF Inv
<1> QED
  BY <1>1, <1>2 DEF Inv

(* ... and of transactions. *)
LEMMA InvNotes ==
    ASSUME NEW s, NEW q, NEW rem, Inv(s, q, rem), NEW v \in Node,
           Same(v, s, Idle \cup {"knownTx"}), s.knownTx \subseteq v.knownTx,
           \A t \in (v.knownTx \ s.knownTx) \cap Wanted :
              \/ t \in Listed(s.wallet) \/ CarriedFirst(t, q) \/ AskedFirst(t, q, s.out)
    PROVE  Inv(v, q, rem)
<1>1. /\ v.wallet = s.wallet /\ v.out = s.out /\ v.known = s.known
      /\ v.pongs = s.pongs /\ v.filter = s.filter /\ v.current = s.current
      /\ v.missing = s.missing /\ v.updating = s.updating /\ v.orphans = s.orphans
      /\ v.lastBlock = s.lastBlock
  BY DEF Same, Fields, Idle
<1>2. Traffic(AllAddrs(s.wallet), Listed(s.wallet), s.known, v.knownTx, q, s.out,
              rem.filter.outs, rem.height)
  BY TrafficNotes DEF Inv
<1> QED
  BY <1>1, <1>2 DEF Inv

(* The payments among those asked for come after those they spend from. *)
LEMMA UnknownBacked ==
    ASSUME NEW s, NEW q, NEW rem, Inv(s, q, rem), q # << >>, q[1].type = "inv"
    PROVE  BackedTxs(Without(q[1].txs, s.knownTx), AllAddrs(s.wallet),
                     Listed(s.wallet) \cup Carried(q) \cup AskedIn(s.out, Len(s.out)))
<1> DEFINE txs == q[1].txs
           A == AllAddrs(s.wallet)
           L == Listed(s.wallet)
           R == Range(txs) \ s.knownTx
           u == Without(txs, s.knownTx)
           Q == L \cup Carried(q) \cup AskedIn(s.out, Len(s.out))
           P == L \cup s.knownTx \cup Carried(q) \cup NamedIn(q, 1 - 1)
<1>1. s \in Node /\ q \in Seq(InMsg)
  BY DEF Inv
<1>2. 1 \in 1..Len(q) /\ q[1] \in InMsg
  BY <1>1, TailAt
<1>3. txs \in Seq(Tx)
  BY <1>2 DEF InMsg
<1>4. BackedTxs(txs, A, P)
  BY <1>2 DEF Inv, Traffic, NamedBacked
<1>5. A \in SUBSET (Chains \X Nat)
  BY <1>1, NodeFields, AllAddrsType
<1>6. s.knownTx \cap Wanted \subseteq Q
  <2> SUFFICES ASSUME NEW t \in s.knownTx \cap Wanted PROVE t \in Q
    OBVIOUS
  <2>1. t \in Tx
    BY DEF Wanted
  <2>2. CarriedFirst(t, q) => t \in Carried(q)
    BY <2>1 DEF CarriedFirst, Carried, CarriedIn
  <2>3. AskedFirst(t, q, s.out) => t \in AskedIn(s.out, Len(s.out))
    BY <2>1 DEF AskedFirst, AskedIn
  <2>4. t \in L \/ CarriedFirst(t, q) \/ AskedFirst(t, q, s.out)
    BY DEF Inv, Traffic, KnownInTime
  <2> QED
    BY <2>2, <2>3, <2>4
<1>7. NamedIn(q, 1 - 1) = {}
  BY DEF NamedIn
<1> HIDE DEF txs
<1>8. u \in Seq(Tx) /\ OfPrefix(txs, Len(txs), R, u)
  <2>1. u = Within(txs, R)
    BY DEF Without
  <2> QED
    BY <1>3, <2>1, WithinList
<1> HIDE DEF u, A
<1>9. PICK m \in [1..Len(u) -> 1..Len(txs)] :
         /\ \A i \in 1..Len(u) : u[i] = txs[m[i]] /\ txs[m[i]] \in R
         /\ \A i, j \in 1..Len(u) : i < j => m[i] < m[j]
         /\ \A k \in 1..Len(txs) : txs[k] \in R => \E i \in 1..Len(u) : m[i] = k
  BY <1>8 DEF OfPrefix
<1>10. ASSUME NEW k \in 1..Len(u), u[k] \in Wanted
       PROVE  Backed(u[k], A, Q \cup Before(u, k))
  <2>1. m[k] \in 1..Len(txs) /\ u[k] = txs[m[k]]
    BY <1>9
  <2>2. Backed(u[k], A, P \cup Before(txs, m[k]))
    BY <1>4, <1>10, <2>1 DEF BackedTxs
  <2>3. ASSUME NEW e \in Before(txs, m[k]) PROVE e \in s.knownTx \/ e \in Before(u, k)
    <3>1. PICK j \in 1..(m[k] - 1) : e = txs[j]
      BY DEF Before
    <3>2. Len(txs) \in Nat /\ DOMAIN txs = 1..Len(txs)
      BY <1>3
    <3>3. j \in 1..Len(txs) /\ j < m[k]
      BY <2>1, <3>2
    <3>4. CASE e \in R
      <4>1. PICK i \in 1..Len(u) : m[i] = j
        BY <1>9, <3>1, <3>3, <3>4
      <4>2. Len(u) \in Nat
        BY <1>8
      <4>3. ~(k < i) /\ i # k
        <5>1. k < i => m[k] < m[i]
          BY <1>9
        <5> QED
          BY <2>1, <3>3, <4>1, <5>1
      <4>4. i \in 1..(k - 1)
        BY <4>2, <4>3
      <4>5. u[i] = e
        BY <1>9, <3>1, <4>1
      <4> QED
        BY <4>4, <4>5 DEF Before
    <3>5. CASE e \notin R
      <4>1. e \in Range(txs)
        BY <3>1, <3>2, <3>3 DEF Range
      <4> QED
        BY <3>5, <4>1
    <3> QED
      BY <3>4, <3>5
  <2>4. (P \cup Before(txs, m[k])) \cap Wanted \subseteq Q \cup Before(u, k)
    BY <1>6, <1>7, <2>3
  <2> HIDE DEF P, Q
  <2> DEFINE X == P \cup Before(txs, m[k])
             Y == Q \cup Before(u, k)
  <2>5. Backed(u[k], A, X) /\ X \cap Wanted \subseteq Y
    BY <2>2, <2>4
  <2> HIDE DEF X, Y
  <2>6. Backed(u[k], A, Y)
    BY <1>5, <1>10, <2>5, BackedByPayments
  <2> QED
    BY <2>6 DEF Y
<1>11. BackedTxs(u, A, Q)
  <2> HIDE DEF Q
  <2> QED
    BY <1>10 DEF BackedTxs
<1> QED
  BY <1>11 DEF u, A, txs

(* ... an inv, ... *)
LEMMA AcceptInvInv ==
    ASSUME NEW s, NEW q, NEW rem, Inv(s, q, rem), q # << >>, q[1].type = "inv"
    PROVE  /\ Inv(AcceptInv(s, q[1].txs, q[1].blocks), Tail(q), rem)
           /\ Safe(s, q, rem) => Safe(AcceptInv(s, q[1].txs, q[1].blocks), Tail(q), rem)
<1> DEFINE txs == q[1].txs
           blocks == q[1].blocks
           repeated == Len(blocks) = 1 /\ blocks[1] = s.lastInv
           fresh == IF repeated THEN << >> ELSE blocks
           wanted == IF s.updating THEN << >> ELSE fresh
           unknown == Without(txs, s.knownTx)
           seen == Within(txs, s.knownTx)
           h == HasTxs(s, seen)
           known2 == h.known \o fresh
           inv2 == IF Len(fresh) = 1 THEN fresh[1] ELSE h.lastInv
           knownTx2 == h.knownTx \cup Range(unknown)
           noted == [h EXCEPT !.known = known2, !.lastInv = inv2, !.knownTx = knownTx2]
           asked == SendGetdata(noted, unknown, wanted)
           from == [type |-> "getblocks", from |-> Last(wanted)]
           more == IF Len(wanted) < MaxInv THEN asked ELSE Send(asked, from)
           off == [more EXCEPT !.mempool = FALSE]
           v == IF txs # << >> /\ s.mempool THEN SendPing(off, "mempoolDone") ELSE more
           get == [type |-> "getdata", txs |-> unknown, blocks |-> wanted]
<1>1. s \in Node /\ q \in Seq(InMsg) /\ rem \in Remote
  BY DEF Inv
<1>2. 1 \in 1..Len(q) /\ q[1] \in InMsg
  BY <1>1, TailAt
<1>3. txs \in Seq(Tx) /\ blocks \in Seq(Num)
  BY <1>2 DEF InMsg
<1>4. AcceptInv(s, txs, blocks) = v
  BY Zenon DEF AcceptInv
<1>5. BackedTxs(unknown, AllAddrs(s.wallet),
                Listed(s.wallet) \cup Carried(q) \cup AskedIn(s.out, Len(s.out)))
  BY UnknownBacked
<1>6. (txs = << >> \/ blocks = << >>) /\ \A n \in Range(blocks) : n <= rem.height
  BY <1>2 DEF Inv, Traffic, HeightsOK, InChain
<1>7. \A t \in Wanted : t \in Range(txs) => NamesTx(q[1], t)
  BY DEF NamesTx
<1>8. \A n \in Range(blocks) : q # << >> /\ q[1].type = "inv" /\ n \in Range(q[1].blocks)
  OBVIOUS
<1>9. \A t : NamesTx(q[1], t) => t \in Range(txs)
  BY DEF NamesTx
<1> HIDE DEF txs, blocks
<1>10. /\ fresh \in Seq(Num) /\ wanted \in Seq(Num) /\ Range(fresh) \subseteq Range(blocks)
       /\ Range(wanted) \subseteq Range(fresh) /\ (blocks = << >> => wanted = << >>)
       /\ (s.updating => wanted = << >>)
  <2>1. << >> \in Seq(Num) /\ Range(<< >>) = {}
    BY DEF Range
  <2> HIDE DEF repeated
  <2> QED
    BY <1>3, <2>1
<1>11. /\ unknown \in Seq(Tx) /\ Range(unknown) = Range(txs) \ s.knownTx
       /\ Range(unknown) \subseteq Tx /\ (txs = << >> => unknown = << >>)
  <2>1. unknown \in Seq(Tx) /\ Range(unknown) = Range(txs) \ s.knownTx
    BY <1>3, WithoutSet
  <2> HIDE DEF unknown
  <2>2. Range(unknown) \subseteq Tx
    BY <2>1 DEF Range
  <2>3. txs = << >> => Range(txs) = {}
    BY DEF Range
  <2>4. Range(unknown) = {} => unknown = << >>
    <3>1. unknown # << >> => 1 \in DOMAIN unknown
      BY <2>1
    <3> QED
      BY <3>1 DEF Range
  <2> QED
    BY <2>1, <2>2, <2>3, <2>4
<1> HIDE DEF wanted, fresh, unknown, seen
<1>12. h \in Node /\ Same(h, s, {"timer"})
  BY <1>1, HasTxsQuiet
<1> HIDE DEF h
<1>13. h.known = s.known /\ h.knownTx = s.knownTx /\ h.lastInv \in Nat
  BY <1>12 DEF Same, Fields, Node
<1>14. known2 \in Seq(Num) /\ Range(known2) = Range(s.known) \cup Range(fresh)
  <2> DEFINE k == s.known
             c == k \o fresh
  <2>1. k \in Seq(Num)
    BY <1>1, NodeFields
  <2> HIDE DEF k
  <2>2. c \in Seq(Num) /\ Range(c) = Range(k) \cup Range(fresh)
    <3>1. /\ c \in Seq(Num) /\ DOMAIN c = 1..(Len(k) + Len(fresh))
          /\ DOMAIN k = 1..Len(k) /\ DOMAIN fresh = 1..Len(fresh)
      BY <1>10, <2>1
    <3>2. Range(c) \subseteq Range(k) \cup Range(fresh)
      BY <1>10, <2>1, <3>1, ConcatAt DEF Range
    <3>6. /\ \A i \in 1..Len(k) : i \in DOMAIN c /\ c[i] = k[i]
          /\ \A i \in 1..Len(fresh) : Len(k) + i \in DOMAIN c /\ c[Len(k) + i] = fresh[i]
      BY <1>10, <2>1, <3>1, ConcatAt
    <3> HIDE DEF c
    <3>3. \A i \in 1..Len(k) : k[i] \in Range(c)
      BY <3>6 DEF Range
    <3>4. \A i \in 1..Len(fresh) : fresh[i] \in Range(c)
      BY <3>6 DEF Range
    <3>5. Range(k) = {k[i] : i \in 1..Len(k)} /\ Range(fresh) = {fresh[i] : i \in 1..Len(fresh)}
      BY <3>1 DEF Range
    <3> QED
      BY <3>1, <3>2, <3>3, <3>4, <3>5
  <2> QED
    BY <1>13, <2>2 DEF k
<1>15. inv2 \in Nat
  <2>1. Len(fresh) = 1 => fresh[1] \in Num
    <3>1. fresh \in Seq(Num)
      BY <1>10
    <3> QED
      BY <3>1
  <2> QED
    BY <1>13, <2>1, NumNat
<1>16. knownTx2 \in SUBSET Tx /\ knownTx2 = s.knownTx \cup Range(unknown)
  BY <1>1, <1>11, <1>13, NodeFields
<1> HIDE DEF known2, inv2, knownTx2
<1>17. /\ noted \in Node /\ noted.known = known2 /\ noted.knownTx = knownTx2
       /\ Same(noted, h, {"known", "lastInv", "knownTx"})
  BY <1>12, <1>14, <1>15, <1>16 DEF Node, Same, Fields
<1> HIDE DEF noted
<1>18. /\ asked \in Node /\ get \in OutMsg /\ Same(asked, noted, {"out"})
       /\ (asked.out = noted.out \/ asked.out = Append(noted.out, get))
       /\ (unknown # << >> => asked.out = Append(noted.out, get))
  BY <1>10, <1>11, <1>17, GetdataNode
<1> HIDE DEF asked, get
<1>19. /\ asked.known = known2 /\ asked.knownTx = knownTx2 /\ noted.out = s.out
       /\ Same(asked, s, Idle \cup {"known", "knownTx", "out"})
  BY <1>12, <1>17, <1>18 DEF Same, Fields, Idle
<1> DEFINE a1 == [asked EXCEPT !.out = s.out, !.knownTx = s.knownTx]
           a2 == [asked EXCEPT !.knownTx = s.knownTx]
<1>20. /\ a1 \in Node /\ a1.out = s.out /\ a1.known = known2
       /\ Same(a1, s, Idle \cup {"known"})
       /\ a2 \in Node /\ a2.out = asked.out /\ a2.knownTx = s.knownTx
       /\ Same(a2, a1, {"out"}) /\ Same(asked, a2, {"knownTx"})
  <2> DEFINE o == s.out
             x == s.knownTx
             c1 == [asked EXCEPT !.out = o, !.knownTx = x]
             c2 == [asked EXCEPT !.knownTx = x]
  <2>1. o \in Seq(OutMsg) /\ x \in SUBSET Tx
    BY <1>1, NodeFields
  <2>6. a1 = c1 /\ a2 = c2
    OBVIOUS
  <2> HIDE DEF o, x, a1, a2
  <2>7. c1 \in Node /\ c1.out = o /\ c1.knownTx = x /\ Same(c1, asked, {"out", "knownTx"})
    BY <1>18, <2>1 DEF Node, Same, Fields
  <2>8. c2 \in Node /\ c2.out = asked.out /\ c2.knownTx = x /\ Same(c2, asked, {"knownTx"})
    BY <1>18, <2>1 DEF Node, Same, Fields
  <2> HIDE DEF c1, c2
  <2>2. /\ a1 \in Node /\ a1.out = o /\ a1.knownTx = x /\ Same(a1, asked, {"out", "knownTx"})
        /\ a2 \in Node /\ a2.out = asked.out /\ a2.knownTx = x /\ Same(a2, asked, {"knownTx"})
    BY <2>6, <2>7, <2>8
  <2>3. a1.known = known2 /\ Same(a1, s, Idle \cup {"known"})
    <3>1. a1.known = asked.known
      BY <2>2 DEF Same, Fields
    <3>2. \A f \in Fields \ (Idle \cup {"known"}) : a1[f] = s[f]
      <4> SUFFICES ASSUME NEW f \in Fields \ (Idle \cup {"known"}) PROVE a1[f] = s[f]
        OBVIOUS
      <4>1. CASE f = "out"
        BY <2>2, <4>1 DEF o
      <4>2. CASE f = "knownTx"
        BY <2>2, <4>2 DEF x
      <4>3. CASE f # "out" /\ f # "knownTx"
        BY <1>19, <2>2, <4>3 DEF Same
      <4> QED
        BY <4>1, <4>2, <4>3
    <3> QED
      BY <1>19, <3>1, <3>2 DEF Same
  <2>4. Same(a2, a1, {"out"})
    <3> SUFFICES ASSUME NEW f \in Fields \ {"out"} PROVE a2[f] = a1[f]
      BY DEF Same
    <3>1. CASE f = "knownTx"
      BY <2>2, <3>1
    <3>2. CASE f # "knownTx"
      BY <2>2, <3>2 DEF Same
    <3> QED
      BY <3>1, <3>2
  <2>5. Same(asked, a2, {"knownTx"})
    BY <2>2 DEF Same
  <2> QED
    BY <2>2, <2>3, <2>4, <2>5 DEF o, x
<1> HIDE DEF a1, a2
<1>21. Inv(a1, q, rem)
  <2>1. \A n \in Range(a1.known) : \/ n \in Range(s.known)
                                   \/ /\ q # << >> /\ q[1].type = "inv"
                                      /\ n \in Range(q[1].blocks)
    BY <1>8, <1>10, <1>14, <1>20
  <2> QED
    BY <1>20, <2>1, InvKnows
<1>22. /\ a1.wallet = s.wallet /\ a1.pongs = s.pongs /\ a1.updating = s.updating
       /\ a1.filter = s.filter /\ a1.knownTx = s.knownTx
  BY <1>20 DEF Same, Fields, Idle
<1>23. Inv(a2, q, rem)
  <2>1. CASE a2.out = s.out
    <3>1. Same(a2, a1, Idle)
      BY <1>20, <2>1 DEF Same
    <3> QED
      BY <1>20, <1>21, <3>1, InvIdle
  <2>2. CASE a2.out # s.out
    <3>1. a2.out = Append(a1.out, get)
      BY <1>18, <1>19, <1>20, <2>2
    <3>2. get.type = "getdata" /\ get.txs = unknown /\ get.blocks = wanted
      BY DEF get
    <3>3. ~IsPing(get) /\ ~IsLoad(get)
      BY <3>2 DEF IsPing, IsLoad
    <3>4. InChain(get, rem.height)
      BY <1>6, <1>10, <1>11, <3>2 DEF InChain
    <3>5. HasBlocks(get) => NoUpdate(s.pongs)
      <4> SUFFICES ASSUME wanted # << >> PROVE NoUpdate(s.pongs)
        BY <3>2 DEF HasBlocks
      <4>1. ~s.updating
        BY <1>10
      <4> QED
        BY <4>1 DEF Inv, Updates, UpdateStep, NoUpdate
    <3>6. \A i \in 1..Len(q) : \A t \in Wanted : NamesTx(q[i], t) => ~AsksBlockOf(get, t)
      <4> SUFFICES ASSUME NEW i \in 1..Len(q), NEW t \in Wanted, NamesTx(q[i], t),
                          NEW n \in Range(wanted)
                   PROVE  ~MinedBy(t, n)
        BY <3>2 DEF AsksBlockOf
      <4>1. n \in Range(a1.known)
        BY <1>10, <1>14, <1>20
      <4> QED
        BY <1>21, <4>1 DEF Inv, Traffic, NamedFresh
    <3>7. BackedTxs(get.txs, AllAddrs(a1.wallet),
                    Listed(a1.wallet) \cup Carried(q) \cup AskedIn(a1.out, Len(a1.out)))
      BY <1>5, <1>20, <1>22, <3>2
    <3>8. Same(a2, a1, Idle \cup {"out"})
      BY <1>20 DEF Same
    <3> QED
      BY <1>18, <1>20, <1>21, <1>22, <3>1, <3>3, <3>4, <3>5, <3>6, <3>7, <3>8, InvAsks
  <2> QED
    BY <2>1, <2>2
<1>24. Inv(asked, q, rem)
  <2>1. ASSUME NEW t \in (asked.knownTx \ a2.knownTx) \cap Wanted
        PROVE  AskedFirst(t, q, a2.out)
    <3>1. t \in Range(unknown)
      BY <1>16, <1>19, <1>20
    <3>2. NamesTx(q[1], t) /\ unknown # << >>
      <4>1. unknown = << >> => Range(unknown) = {}
        BY DEF Range
      <4> QED
        BY <1>7, <1>11, <3>1, <4>1
    <3> DEFINE o == a2.out
    <3>3. o = Append(s.out, get) /\ s.out \in Seq(OutMsg)
      BY <1>1, <1>18, <1>19, <1>20, <3>2, NodeFields
    <3>4. Len(o) \in 1..Len(o) /\ o[Len(o)] = get
      <4>1. Len(o) = Len(s.out) + 1 /\ Len(s.out) \in Nat /\ o[Len(s.out) + 1] = get
        BY <1>18, <3>3, AppendAt
      <4> HIDE DEF o
      <4> QED
        BY <4>1
    <3> HIDE DEF o
    <3>5. AsksTx(get, t)
      BY <3>1 DEF AsksTx, get
    <3>6. /\ \A j \in 1..Len(q) : ~BlockOf(q[j], t)
          /\ \A j \in 1..Len(o) : ~AsksBlockOf(o[j], t)
      BY <1>2, <1>23, <3>2 DEF Inv, Traffic, NamedFresh, o
    <3>7. AskedFirst(t, q, o)
      BY <3>4, <3>5, <3>6 DEF AskedFirst
    <3> QED
      BY <3>7 DEF o
  <2>2. a2.knownTx \subseteq asked.knownTx
    BY <1>16, <1>19, <1>20
  <2>3. Same(asked, a2, Idle \cup {"knownTx"})
    BY <1>20 DEF Same
  <2> QED
    BY <1>18, <1>23, <2>1, <2>2, <2>3, InvNotes
<1>30. Keeps(asked, s)
  <2>1. Same(asked, s, Minor)
    BY <1>19 DEF Same, Idle, Minor
  <2>2. ~IsLoad(get)
    BY DEF get, IsLoad
  <2> QED
    BY <1>1, <1>18, <1>19, <2>1, <2>2, KeepsMinor
<1>25. /\ Inv(more, q, rem) /\ Same(more, asked, {"out"}) /\ more \in Node
       /\ Keeps(more, asked)
  <2>1. CASE Len(wanted) < MaxInv
    <3>1. Same(asked, asked, {"out"})
      BY DEF Same
    <3> QED
      BY <1>18, <1>24, <2>1, <3>1, KeepsSelf
  <2>2. CASE ~(Len(wanted) < MaxInv)
    <3>1. Last(wanted) \in Num
      <4>1. Len(wanted) \in Nat \ {0}
        BY <1>10, <2>2, SyncAssumption
      <4>2. wanted[Len(wanted)] \in Num
        BY <1>10, <4>1
      <4> QED
        BY <4>2 DEF Last
    <3>2. AsksHashes(from)
      <4> DEFINE l == Last(wanted)
      <4>1. l \in 0..Len(Mined)
        BY <3>1, NumNat
      <4> HIDE DEF l
      <4>2. AsksHashes([type |-> "getblocks", from |-> l])
        BY <4>1 DEF AsksHashes, OutMsg
      <4> QED
        BY <4>2 DEF l
    <3> HIDE DEF from
    <3>3. Same(asked, asked, Idle)
      BY DEF Same
    <3>4. Quiet(Send(asked, from), asked)
      BY <1>18, <3>2, <3>3, QuietSend
    <3>5. Inv(Send(asked, from), q, rem)
      BY <1>24, <3>4, InvQuiet
    <3>6. Same(Send(asked, from), asked, {"out"}) /\ Send(asked, from) \in Node
      BY <1>18, <3>2, SendNode DEF AsksHashes
    <3>7. Keeps(Send(asked, from), asked)
      BY <1>18, <3>4, KeepsQuiet
    <3> QED
      BY <2>2, <3>5, <3>6, <3>7
  <2> QED
    BY <2>1, <2>2
<1> HIDE DEF more
<1>26. Inv(v, q, rem) /\ v.knownTx = knownTx2 /\ Keeps(v, s)
  <2>1. more.knownTx = knownTx2
    BY <1>19, <1>25 DEF Same, Fields
  <2>2. off \in Node /\ Same(off, more, {"mempool"})
    BY <1>25 DEF Node, Same, Fields
  <2> HIDE DEF off
  <2>3. Inv(off, q, rem)
    <3>1. Same(off, more, Idle)
      BY <2>2 DEF Same, Idle
    <3> QED
      BY <1>25, <2>2, <3>1, InvIdle
  <2>4. "mempoolDone" \in Callback /\ ~UpdateStep("mempoolDone")
    BY DEF Callback, UpdateStep
  <2>5. Inv(SendPing(off, "mempoolDone"), q, rem)
    <3>1. "mempoolDone" # "pingDone"
      OBVIOUS
    <3> QED
      BY <2>3, <2>4, <3>1, InvPings
  <2>6. Same(SendPing(off, "mempoolDone"), off, {"out", "pongs"})
    BY <2>2, <2>4, PingNode
  <2>7. SendPing(off, "mempoolDone").knownTx = knownTx2
    BY <2>1, <2>2, <2>6 DEF Same, Fields
  <2>8. Keeps(more, s)
    BY <1>25, <1>30, KeepsOn
  <2>9. Keeps(SendPing(off, "mempoolDone"), s)
    <3>1. Keeps(off, more)
      <4>1. Same(off, more, Minor \ {"out"})
        BY <2>2 DEF Same, Minor
      <4> QED
        BY <1>25, <4>1, KeepsSame
    <3>2. Keeps(SendPing(off, "mempoolDone"), off)
      BY <2>2, <2>4, KeepsPing
    <3> QED
      BY <2>8, <3>1, <3>2, KeepsOn
  <2> QED
    BY <1>25, <2>1, <2>5, <2>7, <2>8, <2>9
<1> HIDE DEF v
<1>27. ~IsPing(q[1]) /\ \A t : ~Carries(q[1], t)
  BY DEF IsPing, Carries
<1>28. \A t \in Wanted : NamesTx(q[1], t) => t \in v.knownTx
  BY <1>9, <1>11, <1>16, <1>26
<1>29. Inv(v, Tail(q), rem)
  BY <1>26, <1>27, <1>28, InvTakes
<1>31. Safe(s, q, rem) => Safe(v, Tail(q), rem)
  BY <1>1, <1>26, KeepsReceives
<1> QED
  BY <1>4, <1>29, <1>31 DEF txs, blocks

(* ... a pong: the callbacks of the filter's update, ... *)

(* RerequestBlocks: no update waits for what is under way. *)
LEMMA RerequestInv ==
    ASSUME NEW s, NEW q, NEW rem, Inv(s, q, rem), NoUpdate(s.pongs)
    PROVE  /\ Inv(RerequestBlocks(s), q, rem) /\ RerequestBlocks(s).pongs = s.pongs
           /\ Keeps(RerequestBlocks(s), s)
<1> DEFINE v == RerequestBlocks(s)
<1>1. s \in Node
  BY DEF Inv
<1> HIDE DEF v
<1>2. CASE v = s
  BY <1>2, KeepsSelf DEF v
<1>3. CASE v # s
  <2>1. PICK kept \in Seq(Num) :
           /\ Range(kept) \subseteq Range(s.known)
           /\ v \in Node /\ Same(v, s, {"known", "out"}) /\ v.known = kept
           /\ [type |-> "getdata", txs |-> << >>, blocks |-> kept] \in OutMsg
           /\ v.out = Append(s.out, [type |-> "getdata", txs |-> << >>, blocks |-> kept])
    BY <1>1, <1>3, RerequestNode DEF v
  <2> DEFINE m == [type |-> "getdata", txs |-> << >>, blocks |-> kept]
             x == [s EXCEPT !.known = kept]
  <2>2. /\ m \in OutMsg /\ v.out = Append(s.out, m)
        /\ m.type = "getdata" /\ m.txs = << >> /\ m.blocks = kept
    BY <2>1
  <2> HIDE DEF m
  <2>3. x \in Node /\ x.known = kept /\ Same(x, s, {"known"})
    BY <1>1, <2>1 DEF Node, Same, Fields
  <2> HIDE DEF x
  <2>4. /\ x.out = s.out /\ x.pongs = s.pongs /\ v.pongs = s.pongs
        /\ Same(x, s, Idle \cup {"known"})
    BY <2>1, <2>3 DEF Same, Fields
  <2>5. Inv(x, q, rem)
    BY <2>1, <2>3, <2>4, InvKnows
  <2>6. Same(v, x, Idle \cup {"out"})
    <3> SUFFICES ASSUME NEW f \in Fields \ (Idle \cup {"out"}) PROVE v[f] = x[f]
      BY DEF Same
    <3>1. CASE f = "known"
      BY <2>1, <2>3, <3>1
    <3>2. CASE f # "known"
      BY <2>1, <2>3, <3>2 DEF Same
    <3> QED
      BY <3>1, <3>2
  <2>7. ~IsPing(m) /\ ~IsLoad(m)
    BY <2>2 DEF IsPing, IsLoad
  <2>8. InChain(m, rem.height)
    BY <2>1, <2>2 DEF Inv, Traffic, HeightsOK, InChain
  <2>9. \A i \in 1..Len(q) : \A t \in Wanted : NamesTx(q[i], t) => ~AsksBlockOf(m, t)
    BY <2>1, <2>2 DEF Inv, Traffic, NamedFresh, AsksBlockOf
  <2>10. BackedTxs(m.txs, AllAddrs(x.wallet),
                   Listed(x.wallet) \cup Carried(q) \cup AskedIn(x.out, Len(x.out)))
    <3>1. Len(m.txs) = 0
      BY <2>2
    <3> QED
      BY <3>1 DEF BackedTxs
  <2>11. Inv(v, q, rem)
    BY <2>1, <2>2, <2>4, <2>5, <2>6, <2>7, <2>8, <2>9, <2>10, InvAsks
  <2>12. Keeps(v, s)
    <3>1. Same(v, s, Minor)
      BY <2>1 DEF Same, Minor
    <3> QED
      BY <1>1, <2>2, <2>7, <3>1, KeepsMinor
  <2> QED
    BY <2>4, <2>11, <2>12 DEF v
<1> QED
  BY <1>2, <1>3

(* UpdateFilterPingDone: all the old filter matched has come. *)
LEMMA PingDoneInv ==
    ASSUME NEW s, NEW q, NEW rem, Inv(s, q, rem), s.filter = NULL, s.updating,
           \A k \in 1..Len(s.pongs) : ~UpdateStep(s.pongs[k]),
           \A i \in 1..Len(q) : ~Late(q[i]), \A i \in 1..Len(s.out) : ~Late(s.out[i]),
           s.missing = {}
    PROVE  /\ Inv(UpdateFilterPingDone(s), q, rem)
           /\ Reloads(UpdateFilterPingDone(s), s)
<1> DEFINE v == LoadBloomFilter(s)
<1>1. s \in Node /\ q \in Seq(InMsg) /\ rem \in Remote
  BY DEF Inv
<1>2. NoUpdate(s.pongs) /\ Updates(s.pongs, NULL, s.updating)
  BY DEF NoUpdate, UpdateStep, Inv, Updates
<1>3. s.current = NoBlock
  BY DEF Inv, Waits
<1>4. rem.filter.addrs \subseteq AllAddrs(s.wallet)
  BY DEF Inv, Reach
<1>5. /\ Got(s.wallet, s.lastBlock)
      /\ Traffic(AllAddrs(s.wallet), Listed(s.wallet), s.known, s.knownTx, q, s.out,
                 rem.filter.outs, rem.height)
      /\ PongsDue(s.pongs, q \o s.out)
  BY DEF Inv
<1>6. Inv(v, q, rem) /\ Loads(v, s)
  BY <1>1, <1>2, <1>3, <1>4, <1>5, LoadInv
<1>7. v.pongs = s.pongs /\ v.updating = s.updating
  <2>1. Purse(s.wallet)
    BY <1>5 DEF Got
  <2> QED
    BY <1>1, <2>1, LoadNode DEF Same, Fields
<1> HIDE DEF v
<1>8. "loadDone" \in Callback /\ "loadDone" # "pingDone"
  BY DEF Callback
<1>9. Inv(SendPing(v, "loadDone"), q, rem)
  BY <1>6, <1>7, <1>8, InvPings
<1>10. Reloads(SendPing(v, "loadDone"), s)
  <2>1. v \in Node
    BY <1>6 DEF Inv
  <2>2. Keeps(SendPing(v, "loadDone"), v)
    BY <1>8, <2>1, KeepsPing
  <2> QED
    BY <1>6, <2>2 DEF Reloads
<1> QED
  BY <1>9, <1>10 DEF UpdateFilterPingDone, v

(* UpdateFilterLoadDone: the new filter is in use. *)
LEMMA LoadDoneInv ==
    ASSUME NEW s, NEW q, NEW rem, Inv(s, q, rem),
           \A k \in 1..Len(s.pongs) : ~UpdateStep(s.pongs[k])
    PROVE  Inv(UpdateFilterLoadDone(s), q, rem) /\ Keeps(UpdateFilterLoadDone(s), s)
<1> DEFINE u == [s EXCEPT !.updating = FALSE]
           x == RerequestBlocks(u)
<1>1. s \in Node
  BY DEF Inv
<1>2. UpdateFilterLoadDone(s) = IF s.lastBlock < s.estimated THEN SendPing(x, "rerequestDone")
                                ELSE SendMempool(u, FALSE)
  BY Zenon DEF UpdateFilterLoadDone
<1>3. u \in Node /\ u.updating = FALSE /\ Same(u, s, {"updating"})
  BY <1>1 DEF Node, Same, Fields
<1> HIDE DEF u
<1>4. /\ u.lastBlock = s.lastBlock /\ u.known = s.known /\ u.wallet = s.wallet
      /\ u.knownTx = s.knownTx /\ u.pongs = s.pongs /\ u.filter = s.filter
      /\ u.current = s.current /\ u.missing = s.missing
      /\ u.orphans = s.orphans /\ u.out = s.out
  BY <1>3 DEF Same, Fields
<1>5. Updates(s.pongs, s.filter, FALSE) /\ NoUpdate(u.pongs)
  BY <1>4 DEF Inv, Updates, NoUpdate, UpdateStep
<1>6. Inv(u, q, rem)
  BY <1>3, <1>4, <1>5 DEF Inv
<1>9. Keeps(u, s)
  <2>1. Same(u, s, Minor \ {"out"})
    BY <1>3 DEF Same, Minor
  <2> QED
    BY <1>1, <2>1, KeepsSame
<1>7. Inv(SendPing(x, "rerequestDone"), q, rem) /\ Keeps(SendPing(x, "rerequestDone"), s)
  <2>1. Inv(x, q, rem) /\ Keeps(x, u)
    BY <1>5, <1>6, RerequestInv
  <2>2. /\ "rerequestDone" \in Callback /\ ~UpdateStep("rerequestDone")
        /\ "rerequestDone" # "pingDone"
    BY DEF Callback, UpdateStep
  <2> HIDE DEF x
  <2>3. Keeps(SendPing(x, "rerequestDone"), x)
    <3>1. x \in Node
      BY <2>1 DEF Inv
    <3> QED
      BY <2>2, <3>1, KeepsPing
  <2>4. Keeps(SendPing(x, "rerequestDone"), s)
    BY <1>9, <2>1, <2>3, KeepsOn
  <2> QED
    BY <2>1, <2>2, <2>4, InvPings
<1>8. Inv(SendMempool(u, FALSE), q, rem) /\ Keeps(SendMempool(u, FALSE), s)
  <2>1. Same(u, u, Idle) /\ FALSE \in BOOLEAN
    BY DEF Same
  <2>2. Quiet(SendMempool(u, FALSE), u)
    BY <1>3, <2>1, MempoolQuiet
  <2>3. Keeps(SendMempool(u, FALSE), u)
    BY <1>3, <2>2, KeepsQuiet
  <2>4. Keeps(SendMempool(u, FALSE), s)
    BY <1>9, <2>3, KeepsOn
  <2> QED
    BY <1>6, <2>2, <2>4, InvQuiet
<1> QED
  BY <1>2, <1>7, <1>8

(* Every callback finds the state it was sent for. *)
LEMMA AcceptPongInv ==
    ASSUME NEW s, NEW q, NEW rem, Inv(s, q, rem), q # << >>, q[1].type = "pong"
    PROVE  /\ Inv(AcceptPong(s), Tail(q), rem)
           /\ Safe(s, q, rem) /\ LedgerHas(s.wallet, s.lastBlock) =>
                 Safe(AcceptPong(s), Tail(q), rem)
<1> DEFINE pongs == s.pongs
           rest == Tail(pongs)
           c == Head(pongs)
           x == [s EXCEPT !.pongs = rest]
           r == Tail(q)
<1>1. s \in Node /\ q \in Seq(InMsg) /\ rem \in Remote /\ PongsDue(pongs, q \o s.out)
  BY DEF Inv
<1>2. s.out \in Seq(OutMsg) /\ pongs \in Seq(Callback)
  BY <1>1, NodeFields
<1>3. /\ pongs # << >> /\ PongsDue(rest, r \o s.out)
      /\ c = "pingDone" => /\ \A i \in 1..Len(r) : ~Late(r[i])
                           /\ \A i \in 1..Len(s.out) : ~Late(s.out[i])
  <2>1. IsPing(q[1])
    BY DEF IsPing
  <2> HIDE DEF pongs
  <2> QED
    BY <1>1, <1>2, <2>1, PongTaken
<1>4. Updates(pongs, s.filter, s.updating)
  BY DEF Inv
<1>5. AcceptPong(s) = PongDone(x, c)
  <2>1. [s EXCEPT !.pongs = Tail(@)] = x
    OBVIOUS
  <2> QED
    BY <2>1, Zenon DEF AcceptPong
<1> HIDE DEF pongs
<1>6. /\ rest \in Seq(Callback) /\ Len(rest) = Len(pongs) - 1 /\ Len(pongs) \in Nat \ {0}
      /\ c = pongs[1] /\ 1 \in 1..Len(pongs)
      /\ \A k \in 1..(Len(pongs) - 1) : k + 1 \in 1..Len(pongs) /\ rest[k] = pongs[k + 1]
  BY <1>2, <1>3, TailAt
<1> HIDE DEF rest, c, r
<1>7. c \in Callback
  BY <1>2, <1>6
<1>8. Updates(rest, s.filter, s.updating)
  <2>1. \A k, l \in 1..Len(rest) : k + 1 = l + 1 => k = l
    BY <1>6
  <2> QED
    BY <1>4, <1>6, <2>1 DEF Updates
<1>9. UpdateStep(c) => \A k \in 1..Len(rest) : ~UpdateStep(rest[k])
  <2>1. \A k \in 1..Len(rest) : k + 1 # 1
    BY <1>6
  <2> QED
    BY <1>4, <1>6, <2>1 DEF Updates
<1>10. c = "pingDone" => s.filter = NULL /\ s.updating
  <2>1. UpdateStep("pingDone")
    BY DEF UpdateStep
  <2> QED
    BY <1>4, <1>6, <2>1 DEF Updates
<1>11. s.missing = {}
  <2> SUFFICES ASSUME NEW t \in s.missing PROVE FALSE
    OBVIOUS
  <2>1. PICK j \in 1..Len(q) : \A i \in 1..j : q[i].type = "tx"
    BY DEF Inv, Waits
  <2>2. 1 \in 1..j
    OBVIOUS
  <2> QED
    BY <2>1, <2>2
<1>12. x \in Node /\ x.pongs = rest /\ Same(x, s, {"pongs"})
  BY <1>1, <1>6 DEF Node, Same, Fields
<1> HIDE DEF x
<1>13. /\ x.out = s.out /\ x.filter = s.filter /\ x.updating = s.updating
       /\ x.missing = s.missing
  BY <1>12 DEF Same, Fields
<1>14. Inv(x, r, rem)
  <2>1. \A t : ~Carries(q[1], t) /\ ~NamesTx(q[1], t)
    BY DEF Carries, NamesTx
  <2> QED
    BY <1>3, <1>8, <1>12, <2>1, InvPops DEF r
<1>19. Keeps(x, s) /\ x.wallet = s.wallet /\ x.lastBlock = s.lastBlock /\ x.early = s.early
  <2>1. Same(x, s, Minor \ {"out"})
    BY <1>12 DEF Same, Minor
  <2> QED
    BY <1>1, <1>12, <2>1, KeepsSame DEF Same, Fields
<1>20. \A v : Keeps(v, x) => (Safe(s, q, rem) => Safe(v, r, rem))
  BY <1>1, <1>19, KeepsOn, KeepsReceives DEF r
<1>15. CASE c = "pingDone"
  <2>1. UpdateStep(c)
    BY <1>15 DEF UpdateStep
  <2>2. Inv(UpdateFilterPingDone(x), r, rem) /\ Reloads(UpdateFilterPingDone(x), x)
    BY <1>3, <1>9, <1>10, <1>11, <1>12, <1>13, <1>14, <1>15, <2>1, PingDoneInv
  <2>3. PongDone(x, c) = UpdateFilterPingDone(x)
    BY <1>15 DEF PongDone
  <2>4. ASSUME Safe(s, q, rem), LedgerHas(s.wallet, s.lastBlock)
        PROVE  Safe(UpdateFilterPingDone(x), r, rem)
    <3>1. \A i \in 1..Len(r) : r[i].type # "merkleblock"
      BY <1>3, <1>15 DEF Late, HasBlocks
    <3>2. Got(x.wallet, x.lastBlock) /\ LedgerHas(x.wallet, x.lastBlock)
      BY <1>14, <1>19, <2>4 DEF Inv
    <3>3. Held(x.wallet, x.lastBlock, x.early)
      BY <1>19, <2>4 DEF Safe
    <3> QED
      BY <1>12, <2>2, <3>1, <3>2, <3>3, ReloadsSafe
  <2> QED
    BY <1>5, <2>2, <2>3, <2>4 DEF r
<1>16. CASE c = "loadDone"
  <2>1. UpdateStep(c)
    BY <1>16 DEF UpdateStep
  <2>2. Inv(UpdateFilterLoadDone(x), r, rem) /\ Keeps(UpdateFilterLoadDone(x), x)
    BY <1>9, <1>12, <1>14, <2>1, LoadDoneInv
  <2>3. PongDone(x, c) = UpdateFilterLoadDone(x)
    BY <1>16 DEF PongDone
  <2> QED
    BY <1>5, <1>20, <2>2, <2>3 DEF r
<1>17. CASE c = "rerequestDone"
  <2>1. PongDone(x, c) = IF x.updating THEN x ELSE SendGetblocks(x)
    BY <1>17 DEF PongDone, UpdateFilterRerequestDone
  <2>2. Inv(SendGetblocks(x), r, rem) /\ Keeps(SendGetblocks(x), x) /\ Keeps(x, x)
    BY <1>12, <1>14, GetblocksQuiet, InvQuiet, KeepsQuiet, KeepsSelf
  <2> QED
    BY <1>5, <1>14, <1>20, <2>1, <2>2 DEF r
<1>18. CASE c = "mempoolDone"
  <2> DEFINE kept == x.timer /\ ~x.syncing
             y == [x EXCEPT !.syncing = FALSE, !.timer = kept]
  <2>1. PongDone(x, c) = y
    BY <1>18 DEF PongDone, MempoolDone
  <2>2. kept \in BOOLEAN
    <3>1. x.timer \in BOOLEAN /\ x.syncing \in BOOLEAN
      BY <1>12 DEF Node
    <3> QED
      BY <3>1
  <2> HIDE DEF kept
  <2>3. y \in Node /\ Same(y, x, {"syncing", "timer"})
    BY <1>12, <2>2 DEF Node, Same, Fields
  <2> HIDE DEF y
  <2>4. Same(y, x, Idle)
    BY <2>3 DEF Same, Idle
  <2>5. Inv(y, r, rem)
    BY <1>14, <2>3, <2>4, InvIdle
  <2>6. Keeps(y, x)
    <3>1. Same(y, x, Minor \ {"out"})
      BY <2>3 DEF Same, Minor
    <3> QED
      BY <1>12, <3>1, KeepsSame
  <2> QED
    BY <1>5, <1>20, <2>1, <2>5, <2>6 DEF r
<1> QED
  BY <1>7, <1>15, <1>16, <1>17, <1>18 DEF Callback

(* ... or the answer to a mempool request does not. *)
LEMMA MempoolTimeoutInv ==
    ASSUME NEW s, NEW q, NEW rem, Inv(s, q, rem)
    PROVE  LET v == SendPing([s EXCEPT !.mempool = FALSE], "mempoolDone")
           IN  Inv(v, q, rem) /\ (Safe(s, q, rem) => Safe(v, q, rem))
<1> DEFINE x == [s EXCEPT !.mempool = FALSE]
<1>1. s \in Node
  BY DEF Inv
<1>2. x \in Node /\ Same(x, s, {"mempool"})
  BY <1>1 DEF Node, Same, Fields
<1> HIDE DEF x
<1>3. Inv(x, q, rem)
  <2>1. Same(x, s, Idle)
    BY <1>2 DEF Same, Idle
  <2> QED
    BY <1>2, <2>1, InvIdle
<1>4. "mempoolDone" \in Callback /\ ~UpdateStep("mempoolDone") /\ "mempoolDone" # "pingDone"
  BY DEF Callback, UpdateStep
<1>5. Inv(SendPing(x, "mempoolDone"), q, rem)
  BY <1>3, <1>4, InvPings
<1>6. Keeps(SendPing(x, "mempoolDone"), s)
  <2>1. Same(x, s, Minor \ {"out"})
    BY <1>2 DEF Same, Minor
  <2>2. Keeps(x, s) /\ Keeps(SendPing(x, "mempoolDone"), x)
    BY <1>1, <1>2, <1>4, <2>1, KeepsSame, KeepsPing
  <2> QED
    BY <2>2, KeepsOn
<1> QED
  BY <1>5, <1>6, KeepsSafe DEF x

(* The messages of the peer. *)
LEMMA ReceiveInv ==
    ASSUME NEW s, NEW q, NEW rem, Inv(s, q, rem), q # << >>,
           Head(q).type = "tx" => CountsAll(RegisterTransaction(s.wallet, Head(q).tx))
    PROVE  /\ Inv(AcceptMessage(s, Head(q)), Tail(q), rem)
           /\ Safe(s, q, rem) /\ LedgerHas(s.wallet, s.lastBlock) =>
                 Safe(AcceptMessage(s, Head(q)), Tail(q), rem)
<1> DEFINE m == Head(q)
<1>1. q \in Seq(InMsg)
  BY DEF Inv
<1>2. m = q[1] /\ m \in InMsg
  BY <1>1, TailAt
<1>3. m.type \in {"inv", "merkleblock", "tx", "pong"}
  BY <1>2 DEF InMsg
<1> HIDE DEF m
<1>4. CASE m.type = "inv"
  BY <1>2, <1>4, AcceptInvInv DEF AcceptMessage, m
<1>5. CASE m.type = "merkleblock"
  BY <1>2, <1>5, AcceptMerkleblockInv DEF AcceptMessage, m
<1>6. CASE m.type = "tx"
  BY <1>2, <1>6, AcceptTxInv DEF AcceptMessage, m
<1>7. CASE m.type = "pong"
  BY <1>2, <1>7, AcceptPongInv DEF AcceptMessage, m
<1> QED
  BY <1>3, <1>4, <1>5, <1>6, <1>7

-----------------------------------------------------------------------------
(* Connecting: nothing is under way, and what the wallet has stays. *)

(* A new connection has no callbacks. *)
LEMMA NothingDue ==
    /\ PongsDue(<< >>, << >> \o << >>) /\ NoUpdate(<< >>)
    /\ \A filter, updating : Updates(<< >>, filter, updating)
<1>1. << >> \o << >> = << >>
  OBVIOUS
<1>2. PongsAt(<< >>, << >>, << >>)
  BY DEF PongsAt
<1>3. PongsDue(<< >>, << >>)
  BY <1>2 DEF PongsDue
<1> QED
  BY <1>1, <1>3 DEF NoUpdate, Updates

(* PeerConnected: the invariant holds from what the wallet has. *)
LEMMA ConnectInv ==
    ASSUME NEW s \in Node, Got(s.wallet, s.lastBlock), NEW height \in 0..Len(Mined),
           NEW rem \in Remote
    PROVE  LET v == PeerConnected(s, height)
               r == [rem EXCEPT !.filter = NULL]
           IN  /\ Inv(v, << >>, r)
               /\ /\ LedgerHas(s.wallet, s.lastBlock)
                  /\ Held(s.wallet, s.lastBlock, s.early)
                  => Safe(v, << >>, r)
<1> DEFINE late == s.lastBlock < height
           fresh == [s EXCEPT
            !.known = << >>, !.knownTx = {}, !.current = NoBlock, !.missing = {},
            !.pongs = << >>, !.lastInv = 0, !.sentMempool = FALSE, !.mempool = FALSE,
            !.out = << >>, !.updating = FALSE, !.syncing = TRUE,
            !.reported = height, !.estimated = height, !.timer = late]
           loaded == LoadBloomFilter(fresh)
           r == [rem EXCEPT !.filter = NULL]
<1>1. PeerConnected(s, height) = IF late THEN SendGetblocks(loaded) ELSE SendMempool(loaded, TRUE)
  BY Zenon DEF PeerConnected
<1>2. late \in BOOLEAN
  OBVIOUS
<1> HIDE DEF late
<1>3. /\ fresh \in Node /\ fresh.wallet = s.wallet /\ fresh.lastBlock = s.lastBlock
      /\ fresh.known = << >> /\ fresh.knownTx = {} /\ fresh.current = NoBlock
      /\ fresh.missing = {} /\ fresh.pongs = << >> /\ fresh.out = << >>
      /\ fresh.early = s.early
  <2>1. /\ << >> \in Seq(Num) /\ << >> \in Seq(Callback) /\ << >> \in Seq(OutMsg)
        /\ {} \in SUBSET Tx /\ NoBlock \in Block \cup {NoBlock} /\ 0 \in Nat
    OBVIOUS
  <2> DEFINE none == << >>
  <2>2. none \in Seq(Num) /\ none \in Seq(Callback) /\ none \in Seq(OutMsg)
    BY <2>1
  <2> HIDE DEF none
  <2>3. fresh \in Node
    BY <1>2, <2>1, <2>2 DEF Node, none
  <2>4. /\ fresh.wallet = s.wallet /\ fresh.lastBlock = s.lastBlock
        /\ fresh.known = << >> /\ fresh.knownTx = {} /\ fresh.current = NoBlock
        /\ fresh.missing = {} /\ fresh.pongs = << >> /\ fresh.out = << >>
        /\ fresh.early = s.early
    BY DEF Node
  <2> QED
    BY <2>3, <2>4
<1> HIDE DEF fresh
<1>4. r \in Remote /\ r.filter.outs = {} /\ r.filter.addrs = {} /\ r.height = rem.height
  BY NullBloom DEF Remote
<1> HIDE DEF r
<1>5. Traffic(AllAddrs(s.wallet), Listed(s.wallet), << >>, {}, << >>, << >>, {}, r.height)
  BY TrafficNew
<1>6. << >> \in Seq(InMsg) /\ Len(<< >>) = 0
  OBVIOUS
<1>7. Inv(loaded, << >>, r) /\ Loads(loaded, fresh)
  <2>1. (\A i \in 1..Len(<< >>) : ~Late(<< >>[i])) /\ {} \subseteq AllAddrs(s.wallet)
    BY <1>6
  <2> HIDE DEF loaded
  <2> QED
    BY <1>3, <1>4, <1>5, <1>6, <2>1, NothingDue, LoadInv DEF loaded
<1>8. loaded \in Node
  BY <1>7 DEF Inv
<1> HIDE DEF loaded
<1>9. Quiet(SendGetblocks(loaded), loaded)
  BY <1>8, GetblocksQuiet
<1>10. Quiet(SendMempool(loaded, TRUE), loaded)
  <2>1. Same(loaded, loaded, Idle)
    BY DEF Same
  <2> QED
    BY <1>8, <2>1, MempoolQuiet
<1>11. ASSUME LedgerHas(s.wallet, s.lastBlock), Held(s.wallet, s.lastBlock, s.early)
       PROVE  Safe(loaded, << >>, r)
  <2>1. \A i \in 1..Len(<< >>) : << >>[i].type # "merkleblock"
    BY <1>6
  <2> QED
    BY <1>3, <1>7, <1>11, <2>1, LoadsSafe
<1>12. \A v : Quiet(v, loaded) => Keeps(v, loaded)
  BY <1>8, KeepsQuiet
<1>13. \A v : Quiet(v, loaded) /\ Safe(loaded, << >>, r) => Safe(v, << >>, r)
  BY <1>12, KeepsSafe
<1> QED
  BY <1>1, <1>7, <1>9, <1>10, <1>11, <1>13, InvQuiet DEF r

-----------------------------------------------------------------------------
(* The peer sends.  Between a block and the last of its transactions        *)
(* Follow does not hold; PongsDue is kept apart as well.                     *)

Flow(s, q, rem) ==
    /\ s \in Node /\ q \in Seq(InMsg) /\ rem \in Remote
    /\ Got(s.wallet, s.lastBlock)
    /\ Traffic(AllAddrs(s.wallet), Listed(s.wallet), s.known, s.knownTx, q, s.out,
               rem.filter.outs, rem.height)
    /\ Updates(s.pongs, s.filter, s.updating)
    /\ Sent(s.filter, q, s.out, rem.filter) /\ Reach(s.wallet, s.filter, s.out, rem.filter)
    /\ Blocks(Listed(s.wallet), s.filter, q, s.current, s.orphans)
    /\ Waits(Listed(s.wallet), s.current, s.missing, q)

(* The invariant, taken apart. *)
LEMMA InvParts ==
    ASSUME NEW s, NEW q, NEW rem
    PROVE  Inv(s, q, rem) <=> Flow(s, q, rem) /\ PongsDue(s.pongs, q \o s.out) /\ Follow(q)
  BY Zenon DEF Inv, Flow

(* The block m asks for next. *)
AsksNext(m, o) ==
    /\ Len(o) > 0 /\ o[1].type = "getdata" /\ m.block.height \in Range(o[1].blocks)

(* One message is sent. *)
LEMMA FlowSends ==
    ASSUME NEW s, NEW q, NEW rem, Flow(s, q, rem), NEW m \in InMsg, InChain(m, rem.height),
           \A t \in Wanted : NamesTx(m, t) => ~MinedBy(t, rem.height),
           HasBlocks(m) => AsksNext(m, s.out) /\ Complete(m.block, s.filter),
           \A t \in Wanted : Carries(m, t) =>
              Backed(t, AllAddrs(s.wallet), Listed(s.wallet) \cup Carried(q)),
           m.type = "inv" => BackedTxs(m.txs, AllAddrs(s.wallet),
              Listed(s.wallet) \cup s.knownTx \cup Carried(q) \cup Named(q))
    PROVE  Flow(s, Append(q, m), rem)
<1> DEFINE r == Append(q, m)
           N == Len(q)
           A == AllAddrs(s.wallet)
           L == Listed(s.wallet)
           o == s.out
<1>1. s \in Node /\ q \in Seq(InMsg) /\ rem \in Remote
  BY DEF Flow
<1>2. o \in Seq(OutMsg) /\ s.known \in Seq(Num) /\ rem.height \in Nat
  <2>1. rem.height \in Height0..Len(Mined) /\ Height0 \in Nat /\ Len(Mined) \in Nat
    BY <1>1, NumNat DEF Remote
  <2> QED
    BY <1>1, <2>1, NodeFields
<1>3. /\ r \in Seq(InMsg) /\ Len(r) = N + 1 /\ N \in Nat
      /\ \A i \in 1..N : i \in 1..(N + 1) /\ r[i] = q[i]
      /\ r[N + 1] = m
      /\ \A i \in 1..(N + 1) : i \in 1..N \/ i = N + 1
  BY <1>1, AppendAt
<1>4. HasBlocks(m) <=> m.type = "merkleblock"
  BY DEF InMsg, HasBlocks
<1>5. Traffic(A, L, s.known, s.knownTx, r, o, rem.filter.outs, rem.height)
  <2>1. Traffic(A, L, s.known, s.knownTx, q, o, rem.filter.outs, rem.height)
    BY DEF Flow
  <2>2. \A t \in Wanted : BlockOf(m, t) => Len(o) > 0 /\ AsksBlockOf(o[1], t)
    <3> SUFFICES ASSUME NEW t \in Wanted, BlockOf(m, t)
                 PROVE  Len(o) > 0 /\ AsksBlockOf(o[1], t)
      OBVIOUS
    <3>1. AsksNext(m, o) /\ MinedBy(t, m.block.height)
      BY <1>4 DEF BlockOf
    <3> QED
      BY <3>1 DEF AsksNext, AsksBlockOf
  <2> HIDE DEF A, L, o, r
  <2>3. \A t \in Wanted : Carries(m, t) => Backed(t, A, L \cup Carried(q))
    BY DEF A, L
  <2>4. m.type = "inv" => BackedTxs(m.txs, A, L \cup s.knownTx \cup Carried(q) \cup Named(q))
    BY DEF A, L
  <2> QED
    BY <1>1, <1>2, <2>1, <2>2, <2>3, <2>4, TrafficSends DEF r
<1> HIDE DEF r, N
<1>6. Sent(s.filter, r, o, rem.filter)
  <2> SUFFICES ASSUME s.filter # NULL, NEW j \in 1..Len(o), IsLoad(o[j]), NEW i \in 1..(N + 1)
               PROVE  ~HasBlocks(r[i])
    BY <1>3 DEF Flow, Sent
  <2>1. /\ \A k \in 1..j : ~HasBlocks(o[k])
        /\ \A k \in 1..N : ~HasBlocks(q[k])
    BY DEF Flow, Sent, N
  <2>2. ~HasBlocks(m)
    <3>1. 1 \in 1..j
      OBVIOUS
    <3>2. ~HasBlocks(o[1])
      BY <2>1, <3>1
    <3> SUFFICES ASSUME AsksNext(m, o) PROVE FALSE
      OBVIOUS
    <3>3. o[1].type = "getdata" /\ o[1] \in OutMsg
      BY <1>2 DEF AsksNext
    <3>4. o[1].blocks # << >>
      BY DEF AsksNext, Range
    <3> QED
      BY <3>2, <3>3, <3>4 DEF HasBlocks
  <2> QED
    BY <1>3, <2>1, <2>2
<1>7. Blocks(L, s.filter, r, s.current, s.orphans)
  <2>1. \A i \in 1..N : q[i].type = "merkleblock" => Complete(q[i].block, s.filter)
    BY DEF Flow, Blocks, N
  <2>2. \A i \in 1..Len(r) : r[i].type = "merkleblock" => Complete(r[i].block, s.filter)
    BY <1>3, <1>4, <2>1
  <2> QED
    BY <2>2 DEF Flow, Blocks
<1>8. Waits(L, s.current, s.missing, r)
  <2>1. ASSUME NEW t \in s.missing
        PROVE  \E j \in 1..(N + 1) : Carries(r[j], t) /\ \A i \in 1..j : r[i].type = "tx"
    <3>1. PICK j \in 1..N : Carries(q[j], t) /\ \A i \in 1..j : q[i].type = "tx"
      BY DEF Flow, Waits, N
    <3>2. j \in 1..(N + 1) /\ r[j] = q[j] /\ \A i \in 1..j : r[i] = q[i]
      BY <1>3
    <3> QED
      BY <3>1, <3>2
  <2> QED
    BY <1>3, <2>1 DEF Flow, Waits
<1> QED
  BY <1>1, <1>3, <1>5, <1>6, <1>7, <1>8 DEF Flow, r

(* What a message adds to what is carried and named. *)
LEMMA CarriedAppend ==
    ASSUME NEW q \in Seq(InMsg), NEW m \in InMsg
    PROVE  /\ Carried(Append(q, m)) = Carried(q) \cup {t \in Tx : Carries(m, t)}
           /\ Named(q) \subseteq Named(Append(q, m))
           /\ m.type # "inv" => Named(Append(q, m)) = Named(q)
<1> DEFINE r == Append(q, m)
           N == Len(q)
<1>1. /\ Len(r) = N + 1 /\ N \in Nat
      /\ \A i \in 1..N : i \in 1..(N + 1) /\ r[i] = q[i]
      /\ r[N + 1] = m /\ N + 1 \in 1..(N + 1)
      /\ \A i \in 1..(N + 1) : i \in 1..N \/ i = N + 1
  BY AppendAt
<1> HIDE DEF r
<1>2. Carried(r) = Carried(q) \cup {t \in Tx : Carries(m, t)}
  <2> HIDE DEF N
  <2>1. \A t : (\E j \in 1..(N + 1) : Carries(r[j], t)) <=>
               (Carries(m, t) \/ \E j \in 1..N : Carries(q[j], t))
    BY <1>1
  <2> QED
    BY <1>1, <2>1 DEF Carried, CarriedIn, N
<1>3. \A t : (\E j \in 1..(N + 1) : NamesTx(r[j], t)) <=>
               (NamesTx(m, t) \/ \E j \in 1..N : NamesTx(q[j], t))
  <2> HIDE DEF N
  <2> QED
    BY <1>1
<1>4. m.type # "inv" => \A t : ~NamesTx(m, t)
  BY DEF NamesTx
<1>5. Named(q) \subseteq Named(r) /\ (m.type # "inv" => Named(r) = Named(q))
  BY <1>1, <1>3, <1>4 DEF Named, NamedIn
<1> QED
  BY <1>2, <1>5 DEF r

(* b is added to a, one element after the other. *)
Continues(a, b, k) == a \o SubSeq(b, 1, k + 1) = Append(a \o SubSeq(b, 1, k), b[k + 1])

(* A concatenation, one element after the other. *)
LEMMA ConcatNext ==
    ASSUME NEW S, NEW a \in Seq(S), NEW b \in Seq(S)
    PROVE  /\ a \o SubSeq(b, 1, 0) = a /\ a \o SubSeq(b, 1, Len(b)) = a \o b
           /\ \A k \in 0..(Len(b) - 1) : k + 1 \in 1..Len(b) /\ Continues(a, b, k)
<1>0. Len(a) \in Nat /\ Len(b) \in Nat
  OBVIOUS
<1>1. SubSeq(b, 1, Len(b)) = b /\ SubSeq(b, 1, 0) = << >> /\ a \o << >> = a
  OBVIOUS
<1>2. ASSUME NEW k \in 0..(Len(b) - 1)
      PROVE  k + 1 \in 1..Len(b) /\ Continues(a, b, k)
  <2>1. k \in Nat /\ k + 1 \in 1..Len(b) /\ k <= Len(b)
    BY <1>0
  <2> DEFINE c == SubSeq(b, 1, k)
             d == SubSeq(b, 1, k + 1)
  <2>2. c \in Seq(S) /\ Len(c) = k /\ d \in Seq(S) /\ Len(d) = k + 1
    BY <2>1, SMT
  <2>3. d = Append(c, b[k + 1])
    BY <2>1
  <2>4. b[k + 1] \in S
    BY <2>1
  <2> HIDE DEF c, d
  <2>5. a \o Append(c, b[k + 1]) = Append(a \o c, b[k + 1])
    BY <2>2, <2>4
  <2> QED
    BY <2>1, <2>2, <2>3, <2>5 DEF c, d, Continues
<1> QED
  BY <1>1, <1>2

(* Several transactions, each after those it spends from, ... *)
LEMMA FlowSendsTxs ==
    ASSUME NEW s, NEW q, NEW rem, Flow(s, q, rem), PongsDue(s.pongs, q \o s.out),
           NEW txs \in Seq(Tx),
           BackedTxs(txs, AllAddrs(s.wallet), Listed(s.wallet) \cup Carried(q))
    PROVE  LET r == q \o TxMessages(txs)
           IN  /\ Flow(s, r, rem) /\ PongsDue(s.pongs, r \o s.out)
               /\ Carried(r) = Carried(q) \cup Range(txs) /\ Named(r) = Named(q)
<1> DEFINE ms == TxMessages(txs)
           N == Len(txs)
           A == AllAddrs(s.wallet)
           L == Listed(s.wallet)
           part(k) == q \o SubSeq(ms, 1, k)
           OK(k) == /\ Flow(s, part(k), rem) /\ PongsDue(s.pongs, part(k) \o s.out)
                    /\ Carried(part(k)) = Carried(q) \cup Before(txs, k + 1)
                    /\ Named(part(k)) = Named(q)
           K == {k \in 0..N : OK(k)}
<1>1. s \in Node /\ q \in Seq(InMsg) /\ s.out \in Seq(OutMsg) /\ s.pongs \in Seq(Callback)
  BY NodeFields DEF Flow
<1>2. N \in Nat
  OBVIOUS
<1>3. ms \in Seq(InMsg) /\ Len(ms) = N
  BY <1>2 DEF TxMessages, InMsg
<1>4. \A k \in 1..N : ms[k] = [type |-> "tx", tx |-> txs[k]] /\ txs[k] \in Tx
  BY <1>2 DEF TxMessages
<1> HIDE DEF ms
<1>5. /\ part(0) = q /\ part(N) = q \o ms
      /\ \A k \in 0..(N - 1) : k + 1 \in 1..N /\ part(k + 1) = Append(part(k), ms[k + 1])
  <2>1. /\ q \o SubSeq(ms, 1, 0) = q /\ q \o SubSeq(ms, 1, Len(ms)) = q \o ms
        /\ \A k \in 0..(Len(ms) - 1) :
              k + 1 \in 1..Len(ms) /\ Continues(q, ms, k)
    BY <1>1, <1>3, ConcatNext
  <2> QED
    BY <1>3, <2>1 DEF Continues
<1> HIDE DEF part, N
<1>6. OK(0)
  <2>1. Before(txs, 0 + 1) = {}
    BY DEF Before
  <2> QED
    BY <1>5, <2>1
<1>7. ASSUME NEW k \in 0..(N - 1), OK(k) PROVE OK(k + 1)
  <2> DEFINE m == ms[k + 1]
             r == part(k)
             t == txs[k + 1]
  <2>1. k + 1 \in 1..N /\ part(k + 1) = Append(r, m) /\ m = [type |-> "tx", tx |-> t] /\ t \in Tx
    BY <1>4, <1>5
  <2>2. m \in InMsg /\ m.type = "tx" /\ m.tx = t
    BY <2>1 DEF InMsg
  <2> HIDE DEF m, r, t
  <2>3. Flow(s, r, rem) /\ r \in Seq(InMsg) /\ PongsDue(s.pongs, r \o s.out)
    BY <1>7 DEF r, Flow
  <2>4. Carried(r) = Carried(q) \cup Before(txs, k + 1) /\ Named(r) = Named(q)
    BY <1>7 DEF r
  <2>5. t \in Wanted => Backed(t, A, L \cup Carried(r))
    <3>1. t \in Wanted => Backed(t, A, (L \cup Carried(q)) \cup Before(txs, k + 1))
      BY <2>1 DEF BackedTxs, t, N
    <3>2. (L \cup Carried(q)) \cup Before(txs, k + 1) = L \cup Carried(r)
      BY <2>4
    <3> QED
      BY <3>1, <3>2
  <2>6. /\ InChain(m, rem.height) /\ ~HasBlocks(m) /\ ~IsPing(m) /\ ~Late(m)
        /\ \A u : ~NamesTx(m, u) /\ (Carries(m, u) <=> u = t)
    BY <2>2 DEF InChain, HasBlocks, IsPing, Late, NamesTx, Carries
  <2>7. Flow(s, Append(r, m), rem)
    BY <2>2, <2>3, <2>5, <2>6, FlowSends
  <2>8. PongsDue(s.pongs, Append(r, m) \o s.out)
    BY <1>1, <2>2, <2>3, <2>6, PongsSent
  <2>9. Carried(Append(r, m)) = Carried(r) \cup {t} /\ Named(Append(r, m)) = Named(r)
    BY <2>1, <2>2, <2>3, <2>6, CarriedAppend
  <2>10. Before(txs, (k + 1) + 1) = Before(txs, k + 1) \cup {t}
    <3>1. k \in Nat
      OBVIOUS
    <3>2. \A j : j \in 1..(((k + 1) + 1) - 1) <=> (j \in 1..((k + 1) - 1) \/ j = k + 1)
      BY <3>1
    <3> QED
      BY <3>2 DEF Before, t
  <2>11. Carried(Append(r, m)) = Carried(q) \cup Before(txs, (k + 1) + 1)
    BY <2>4, <2>9, <2>10
  <2> QED
    BY <2>1, <2>4, <2>7, <2>8, <2>9, <2>11
<1>8. \A k \in 0..N : k \in K
  <2>1. 0 \in K
    BY <1>2, <1>6 DEF N
  <2>2. \A k \in 0..(N - 1) : k \in K => k + 1 \in K
    <3>1. \A k \in 0..(N - 1) : k + 1 \in 0..N
      BY <1>2 DEF N
    <3> HIDE DEF OK
    <3> QED
      BY <1>7, <3>1
  <2> HIDE DEF K
  <2> QED
    BY <1>2, <2>1, <2>2, UpTo DEF N
<1>9. OK(N)
  <2>1. N \in 0..N
    BY <1>2 DEF N
  <2> HIDE DEF OK
  <2> QED
    BY <1>8, <2>1
<1>10. Before(txs, N + 1) = Range(txs)
  <2>1. \A j : j \in 1..((N + 1) - 1) <=> j \in DOMAIN txs
    BY <1>2 DEF N
  <2> QED
    BY <2>1 DEF Before, Range
<1> QED
  BY <1>5, <1>9, <1>10 DEF ms

(* What a payment spends from, when it pays the wallet. *)
LEMMA SpendsPayment ==
    ASSUME NEW A \in SUBSET (Chains \X Nat), NEW t \in Wanted, NEW u \in Inputs[t], PaysTo(u, A)
    PROVE  /\ u[1] \in Wanted
           /\ \A n \in Num : t \in Range(Mined[n]) => MinedBy(u[1], n)
<1> DEFINE p == u[1]
<1>1. p \in Tx /\ u[2] + 1 \in DOMAIN Outputs[p] /\ Outputs[p][u[2] + 1].address \in Chains \X Nat
  BY DEF PaysTo, Output
<1>2. OursPaid(p) /\ p \in Parents(t)
  BY <1>1 DEF OursPaid, Ours, Parents
<1>3. ASSUME NEW n \in Num, t \in Range(Mined[n])
      PROVE  \E m \in Num : m <= n /\ p \in Range(Mined[m])
  <2>1. DOMAIN Mined = Num /\ n \in Nat /\ n <= Len(Mined)
    BY SyncAssumption, NumNat DEF Num
  <2>2. PICK m \in 1..n : p \in Range(Mined[m])
    BY <1>2, <1>3, ParentsMined
  <2>3. m \in Num /\ m <= n
    BY <2>1, NumNat DEF Num
  <2> QED
    BY <2>2, <2>3
<1>4. \E n \in Num : t \in Range(Mined[n])
  BY DEF Wanted
<1>5. p \in Wanted
  BY <1>1, <1>2, <1>3, <1>4 DEF Wanted
<1> QED
  BY <1>3, <1>5 DEF MinedBy

(* A payment the filter matches pays the wallet or spends from it. *)
LEMMA MatchedBacked ==
    ASSUME NEW A \in SUBSET (Chains \X Nat), NEW P, NEW f, f.addrs \subseteq A,
           WatchesOwn(f.outs, A, P), NEW t \in Wanted, Matches(f, t)
    PROVE  Backed(t, A, P)
<1>1. CASE Pays(t, f.addrs)
  BY <1>1 DEF Pays, Backed
<1>2. CASE Inputs[t] \cap f.outs # {}
  <2>1. PICK u \in Inputs[t] : u \in f.outs
    BY <1>2
  <2>2. PaysTo(u, A) /\ (u[1] \in Wanted => u[1] \in P)
    BY <2>1 DEF WatchesOwn
  <2>3. u[1] \in Wanted
    BY <2>2, SpendsPayment
  <2> QED
    BY <2>2, <2>3 DEF Backed
<1> QED
  BY <1>1, <1>2 DEF Matches

(* What a block that is asked for spends from was carried before it. *)
LEMMA SentBefore ==
    ASSUME NEW s, NEW q, NEW rem, Flow(s, q, rem), Len(s.out) > 0, s.out[1].type = "getdata",
           NEW n \in Range(s.out[1].blocks), NEW p \in Wanted, MinedBy(p, n),
           p \in Listed(s.wallet) \cup s.knownTx \cup Carried(q) \cup Named(q)
    PROVE  p \in Listed(s.wallet) \cup Carried(q)
<1> DEFINE L == Listed(s.wallet)
           o == s.out
<1>0. s \in Node /\ o \in Seq(OutMsg) /\ Len(o) \in Nat /\ 1 \in 1..Len(o)
  BY NodeFields DEF Flow
<1>1. AsksBlockOf(o[1], p)
  BY DEF AsksBlockOf
<1>2. NamedFresh(s.known, q, o) /\ KnownInTime(s.knownTx, L, q, o)
  BY DEF Flow, Traffic
<1> HIDE DEF o
<1>3. p \notin Named(q)
  BY <1>0, <1>1, <1>2 DEF NamedFresh, Named, NamedIn
<1>4. ASSUME p \in s.knownTx PROVE p \in L \cup Carried(q)
  <2>1. p \in L \/ CarriedFirst(p, q) \/ AskedFirst(p, q, o)
    BY <1>2, <1>4 DEF KnownInTime
  <2>2. CarriedFirst(p, q) => p \in Carried(q)
    BY DEF CarriedFirst, Carried, CarriedIn, Wanted
  <2>3. ~AskedFirst(p, q, o)
    <3> SUFFICES ASSUME NEW j \in 1..Len(o), \A i \in 1..j : ~AsksBlockOf(o[i], p) PROVE FALSE
      BY DEF AskedFirst
    <3>1. 1 \in 1..j
      BY <1>0
    <3> QED
      BY <1>1, <3>1
  <2> QED
    BY <2>1, <2>2, <2>3
<1> QED
  BY <1>3, <1>4

-----------------------------------------------------------------------------
(* The peer's scan of transactions. *)

ScanStep(r, t) ==
    IF Matches(r.filter, t)
    THEN [filter |-> WithOutputs(r.filter, t), matched |-> Append(r.matched, t)] ELSE r

(* The equations of Scan, as a recursive function, ... *)
LEMMA ScanEquations ==
    ASSUME NEW filter, NEW txs \in Seq(Tx)
    PROVE  \E f : /\ Scan(filter, txs) = f[Len(txs)]
                  /\ f[0] = [filter |-> filter, matched |-> << >>]
                  /\ \A k \in 0..(Len(txs) - 1) : f[k + 1] = ScanStep(f[k], txs[k + 1])
<1> DEFINE N == Len(txs)
           init == [filter |-> filter, matched |-> << >>]
           step(x, n) == ScanStep(x, txs[n])
           is(h, k) == h = [n \in 0..k |-> IF n = 0 THEN init ELSE step(h[n - 1], n)]
           K == {k \in 0..N : \E h : is(h, k)}
           f == CHOOSE h : is(h, N)
<1>1. Scan(filter, txs) = f[N]
  BY Zenon DEF Scan, ScanStep
<1>2. N \in Nat
  OBVIOUS
<1> HIDE DEF init, N
<1>3. \A k \in 0..N : k \in K
  <2> HIDE DEF step
  <2>1. 0 \in K
    <3>1. is([n \in 0..0 |-> init], 0)
      OBVIOUS
    <3>2. 0 \in 0..N
      BY <1>2
    <3> HIDE DEF is
    <3> QED
      BY <3>1, <3>2
  <2>2. ASSUME NEW k \in 0..(N - 1), k \in K PROVE k + 1 \in K
    <3>1. PICK h : is(h, k)
      BY <2>2
    <3> DEFINE g == [n \in 0..(k + 1) |-> IF n <= k THEN h[n] ELSE step(h[k], k + 1)]
    <3>2. is(g, k + 1)
      BY <1>2, <3>1
    <3>3. k + 1 \in 0..N
      BY <1>2
    <3> HIDE DEF is
    <3> QED
      BY <3>2, <3>3
  <2> HIDE DEF K
  <2> QED
    BY <1>2, <2>1, <2>2, UpTo
<1>4. is(f, N)
  <2>1. N \in 0..N
    BY <1>2
  <2>2. \E h : is(h, N)
    BY <1>3, <2>1
  <2> QED
    BY <2>2, Zenon
<1> HIDE DEF f
<1>5. f[0] = init /\ \A n \in 0..(N - 1) : f[n + 1] = step(f[n], n + 1)
  <2> HIDE DEF step
  <2> QED
    BY <1>2, <1>4
<1> QED
  BY <1>1, <1>5 DEF init, N

(* r comes of scanning the transactions T: all that pay the filter, backed.  *)
Scans(r, T, filter, A, P) ==
    /\ r.filter \in Bloom /\ r.filter.addrs = filter.addrs /\ r.matched \in Seq(Tx)
    /\ Range(r.matched) \subseteq T
    /\ \A t \in T : Pays(t, filter.addrs) => t \in Range(r.matched)
    /\ WatchesOwn(r.filter.outs, A, P \cup Range(r.matched))
    /\ BackedTxs(r.matched, A, P)

(* The elements of a sequence with one more. *)
LEMMA RangeAppend ==
    ASSUME NEW S, NEW q \in Seq(S), NEW m \in S
    PROVE  Range(Append(q, m)) = Range(q) \cup {m}
<1>1. /\ Append(q, m) \in Seq(S) /\ Len(Append(q, m)) = Len(q) + 1 /\ Len(q) \in Nat
      /\ \A i \in 1..Len(q) : i \in 1..(Len(q) + 1) /\ Append(q, m)[i] = q[i]
      /\ Append(q, m)[Len(q) + 1] = m
      /\ \A i \in 1..(Len(q) + 1) : i \in 1..Len(q) \/ i = Len(q) + 1
  BY AppendAt
<1> DEFINE r == Append(q, m)
<1>2. DOMAIN r = 1..(Len(q) + 1) /\ DOMAIN q = 1..Len(q) /\ Len(q) + 1 \in 1..(Len(q) + 1)
  BY <1>1
<1> HIDE DEF r
<1> QED
  BY <1>1, <1>2 DEF Range, r

(* ... one step of it, ... *)
LEMMA ScanStepOK ==
    ASSUME NEW A \in SUBSET (Chains \X Nat), NEW P, NEW filter, filter.addrs \subseteq A,
           NEW T, NEW r, Scans(r, T, filter, A, P), NEW t \in Tx
    PROVE  Scans(ScanStep(r, t), T \cup {t}, filter, A, P)
<1>1. CASE ~Matches(r.filter, t)
  <2>1. ~Pays(t, filter.addrs)
    BY <1>1 DEF Matches, Scans
  <2>2. ScanStep(r, t) = r
    BY <1>1 DEF ScanStep
  <2> QED
    BY <2>1, <2>2 DEF Scans
<1>2. CASE Matches(r.filter, t)
  <2> DEFINE f == r.filter
             g == WithOutputs(f, t)
             ms == r.matched
             ns == Append(ms, t)
             v == ScanStep(r, t)
  <2>1. v = [filter |-> g, matched |-> ns]
    BY <1>2 DEF ScanStep
  <2>2. f \in Bloom /\ f.addrs = filter.addrs /\ ms \in Seq(Tx)
    BY DEF Scans
  <2>3. g = [f EXCEPT !.outs = f.outs \cup PaidTo(t, f.addrs)]
    BY Zenon DEF WithOutputs, PaidTo
  <2>4. \A u \in PaidTo(t, f.addrs) : PaysTo(u, f.addrs) /\ u[1] = t
    BY PaidToPays
  <2>5. PaidTo(t, f.addrs) \subseteq Output
    BY <2>4 DEF PaysTo
  <2>6. g \in Bloom /\ g.addrs = f.addrs /\ g.outs = f.outs \cup PaidTo(t, f.addrs)
    BY <2>2, <2>3, <2>5 DEF Bloom
  <2>7. /\ ns \in Seq(Tx) /\ Len(ns) = Len(ms) + 1 /\ Len(ms) \in Nat
        /\ \A i \in 1..Len(ms) : i \in 1..(Len(ms) + 1) /\ ns[i] = ms[i]
        /\ ns[Len(ms) + 1] = t
        /\ \A i \in 1..(Len(ms) + 1) : i \in 1..Len(ms) \/ i = Len(ms) + 1
    BY <2>2, AppendAt
  <2>8. Range(ns) = Range(ms) \cup {t}
    BY <2>2, RangeAppend
  <2> HIDE DEF f, g, ns, v
  <2>9. WatchesOwn(g.outs, A, P \cup Range(ns))
    <3>1. WatchesOwn(f.outs, A, P \cup Range(ms))
      BY DEF Scans, f
    <3>2. \A u \in PaidTo(t, f.addrs) : PaysTo(u, A) /\ u[1] \in Range(ns)
      BY <2>2, <2>4, <2>8 DEF PaysTo
    <3> QED
      BY <2>6, <2>8, <3>1, <3>2 DEF WatchesOwn
  <2>10. BackedTxs(ns, A, P)
    <3>1. BackedTxs(ms, A, P)
      BY DEF Scans
    <3> SUFFICES ASSUME NEW k \in 1..(Len(ms) + 1), ns[k] \in Wanted
                 PROVE  Backed(ns[k], A, P \cup Before(ns, k))
      BY <2>7 DEF BackedTxs
    <3>2. CASE k \in 1..Len(ms)
      <4>1. \A j \in 1..(k - 1) : ns[j] = ms[j]
        BY <2>7, <3>2
      <4>2. Before(ns, k) = Before(ms, k)
        BY <4>1 DEF Before
      <4> QED
        BY <2>7, <3>1, <3>2, <4>2 DEF BackedTxs
    <3>3. CASE k = Len(ms) + 1
      <4>1. k - 1 = Len(ms)
        BY <2>7, <3>3
      <4>2. \A j \in 1..(k - 1) : ns[j] = ms[j]
        BY <2>7, <4>1
      <4>3. Before(ns, k) = Range(ms)
        BY <2>2, <4>1, <4>2 DEF Before, Range
      <4>4. t \in Wanted /\ ns[k] = t
        BY <2>7, <3>3
      <4>5. Matches(f, t) /\ f.addrs \subseteq A /\ WatchesOwn(f.outs, A, P \cup Range(ms))
        BY <1>2, <2>2 DEF Scans, f
      <4>6. Backed(t, A, P \cup Range(ms))
        BY <4>4, <4>5, MatchedBacked
      <4> QED
        BY <4>3, <4>4, <4>6
    <3> QED
      BY <2>7, <3>2, <3>3
  <2>11. v.filter = g /\ v.matched = ns
    BY <2>1
  <2>12. /\ Range(ns) \subseteq T \cup {t}
         /\ \A u \in T \cup {t} : Pays(u, filter.addrs) => u \in Range(ns)
    BY <2>8 DEF Scans
  <2> QED
    BY <2>2, <2>6, <2>7, <2>9, <2>10, <2>11, <2>12 DEF Scans, v
<1> QED
  BY <1>1, <1>2

(* ... and all of it, by induction. *)
LEMMA ScanOK ==
    ASSUME NEW A \in SUBSET (Chains \X Nat), NEW P, NEW filter \in Bloom, filter.addrs \subseteq A,
           WatchesOwn(filter.outs, A, P), NEW txs \in Seq(Tx)
    PROVE  Scans(Scan(filter, txs), Range(txs), filter, A, P)
<1> DEFINE N == Len(txs)
<1>1. PICK f : /\ Scan(filter, txs) = f[N]
               /\ f[0] = [filter |-> filter, matched |-> << >>]
               /\ \A k \in 0..(N - 1) : f[k + 1] = ScanStep(f[k], txs[k + 1])
  BY ScanEquations
<1>2. N \in Nat /\ \A k \in 1..N : txs[k] \in Tx
  OBVIOUS
<1> DEFINE OK(k) == Scans(f[k], Before(txs, k + 1), filter, A, P)
           K == {k \in 0..N : OK(k)}
<1>3. OK(0)
  <2>1. Before(txs, 0 + 1) = {} /\ Range(<< >>) = {} /\ << >> \in Seq(Tx) /\ Len(<< >>) = 0
    BY DEF Before, Range
  <2>2. f[0].filter = filter /\ f[0].matched = << >>
    BY <1>1
  <2>3. BackedTxs(<< >>, A, P)
    BY <2>1 DEF BackedTxs
  <2>4. WatchesOwn(filter.outs, A, P \cup Range(<< >>))
    BY <2>1
  <2> QED
    BY <2>1, <2>2, <2>3, <2>4 DEF Scans
<1>4. \A k \in 0..N : k \in K
  <2>1. 0 \in K
    BY <1>2, <1>3
  <2>2. ASSUME NEW k \in 0..(N - 1), k \in K PROVE k + 1 \in K
    <3>1. k + 1 \in 0..N /\ k + 1 \in 1..N /\ k \in Nat
      BY <1>2
    <3>2. Before(txs, (k + 1) + 1) = Before(txs, k + 1) \cup {txs[k + 1]}
      <4>1. \A j : j \in 1..(((k + 1) + 1) - 1) <=> (j \in 1..((k + 1) - 1) \/ j = k + 1)
        BY <3>1
      <4> QED
        BY <4>1 DEF Before
    <3>3. Scans(ScanStep(f[k], txs[k + 1]), Before(txs, k + 1) \cup {txs[k + 1]}, filter, A, P)
      BY <1>2, <2>2, <3>1, ScanStepOK
    <3>4. OK(k + 1)
      BY <1>1, <3>2, <3>3
    <3> QED
      BY <3>1, <3>4
  <2> HIDE DEF K, N
  <2> QED
    BY <1>2, <2>1, <2>2, UpTo
<1>5. Before(txs, N + 1) = Range(txs)
  <2>1. \A j : j \in 1..((N + 1) - 1) <=> j \in DOMAIN txs
    BY <1>2
  <2> QED
    BY <2>1 DEF Before, Range
<1>6. OK(N)
  <2>1. N \in 0..N
    BY <1>2
  <2> HIDE DEF OK, N
  <2> QED
    BY <1>4, <2>1
<1> QED
  BY <1>1, <1>5, <1>6

(* The peer's scan finds what spends from an output that is watched, or that  *)
(* an earlier one of the list pays to a watched address.                      *)
Finds(r, txs, k, filter) ==
    /\ r.filter \in Bloom /\ r.filter.addrs = filter.addrs /\ r.matched \in Seq(Tx)
    /\ filter.outs \subseteq r.filter.outs
    /\ \A j \in 1..k : PaidTo(txs[j], filter.addrs) \subseteq r.filter.outs
    /\ \A j \in 1..k : \A u \in Inputs[txs[j]] :
          u \in filter.outs \/ (\E i \in 1..(j - 1) : u \in PaidTo(txs[i], filter.addrs)) =>
             txs[j] \in Range(r.matched)

(* One step of the scan, ... *)
LEMMA FindsNext ==
    ASSUME NEW filter, NEW txs \in Seq(Tx), NEW k \in 0..(Len(txs) - 1), NEW r,
           Finds(r, txs, k, filter)
    PROVE  Finds(ScanStep(r, txs[k + 1]), txs, k + 1, filter)
<1> DEFINE t == txs[k + 1]
           f == r.filter
           A == filter.addrs
<1>1. /\ k \in Nat /\ k + 1 \in 1..Len(txs) /\ t \in Tx
      /\ \A j \in 1..(k + 1) : j \in 1..k \/ j = k + 1
      /\ \A j \in 1..((k + 1) - 1) : j \in 1..k
  OBVIOUS
<1>2. /\ f \in Bloom /\ f.addrs = A /\ r.matched \in Seq(Tx) /\ filter.outs \subseteq f.outs
      /\ \A j \in 1..k : PaidTo(txs[j], A) \subseteq f.outs
      /\ \A j \in 1..k : \A u \in Inputs[txs[j]] :
            u \in filter.outs \/ (\E i \in 1..(j - 1) : u \in PaidTo(txs[i], A)) =>
               txs[j] \in Range(r.matched)
  BY DEF Finds
<1>3. Pays(t, A) \/ PaidTo(t, A) = {}
  BY DEF Pays, PaidTo
<1>4. ASSUME NEW u \in Inputs[t],
             u \in filter.outs \/ \E i \in 1..((k + 1) - 1) : u \in PaidTo(txs[i], A)
      PROVE  Matches(f, t)
  <2>1. u \in f.outs
    BY <1>1, <1>2, <1>4
  <2> QED
    BY <2>1 DEF Matches
<1> DEFINE v == ScanStep(r, t)
<1>5. /\ v.filter \in Bloom /\ v.filter.addrs = A /\ v.matched \in Seq(Tx)
      /\ f.outs \cup PaidTo(t, A) \subseteq v.filter.outs
      /\ Range(r.matched) \subseteq Range(v.matched)
      /\ Matches(f, t) => t \in Range(v.matched)
  <2>1. CASE ~Matches(f, t)
    <3>1. v = r
      BY <2>1 DEF ScanStep
    <3>2. PaidTo(t, A) = {}
      BY <1>2, <1>3, <2>1 DEF Matches
    <3> HIDE DEF v
    <3> QED
      BY <1>2, <2>1, <3>1, <3>2
  <2>2. CASE Matches(f, t)
    <3> DEFINE g == WithOutputs(f, t)
               ns == Append(r.matched, t)
    <3>1. v = [filter |-> g, matched |-> ns]
      BY <2>2 DEF ScanStep
    <3>2. g = [f EXCEPT !.outs = f.outs \cup PaidTo(t, f.addrs)]
      BY Zenon DEF WithOutputs, PaidTo
    <3>3. PaidTo(t, A) \subseteq Output
      BY PaidToPays DEF PaysTo
    <3> DEFINE P == PaidTo(t, A)
    <3>4. g = [f EXCEPT !.outs = f.outs \cup P]
      BY <1>2, <3>2
    <3> HIDE DEF P, f, A
    <3>5. g \in Bloom /\ g.addrs = A /\ g.outs = f.outs \cup P
      BY <1>2, <3>3, <3>4 DEF Bloom, P
    <3>6. ns \in Seq(Tx) /\ Range(ns) = Range(r.matched) \cup {t}
      <4>1. ns \in Seq(Tx)
        BY <1>1, <1>2
      <4> HIDE DEF t
      <4> QED
        BY <1>1, <1>2, <4>1, RangeAppend
    <3> HIDE DEF g, ns
    <3>7. v.filter = g /\ v.matched = ns
      BY <3>1
    <3> HIDE DEF v
    <3> QED
      BY <3>5, <3>6, <3>7 DEF P
  <2> QED
    BY <2>1, <2>2
<1> HIDE DEF v
<1>6. \A j \in 1..(k + 1) : PaidTo(txs[j], A) \subseteq v.filter.outs
  BY <1>1, <1>2, <1>5
<1>7. ASSUME NEW j \in 1..(k + 1), NEW u \in Inputs[txs[j]],
             u \in filter.outs \/ \E i \in 1..(j - 1) : u \in PaidTo(txs[i], A)
      PROVE  txs[j] \in Range(v.matched)
  <2>1. CASE j \in 1..k
    BY <1>2, <1>5, <1>7, <2>1
  <2>2. CASE j = k + 1
    BY <1>4, <1>5, <1>7, <2>2
  <2> QED
    BY <1>1, <2>1, <2>2
<1> QED
  BY <1>2, <1>5, <1>6, <1>7 DEF Finds, v

(* ... and all of it, by induction. *)
LEMMA ScanFinds ==
    ASSUME NEW filter \in Bloom, NEW txs \in Seq(Tx)
    PROVE  Finds(Scan(filter, txs), txs, Len(txs), filter)
<1> DEFINE N == Len(txs)
<1>1. PICK f : /\ Scan(filter, txs) = f[N]
               /\ f[0] = [filter |-> filter, matched |-> << >>]
               /\ \A k \in 0..(N - 1) : f[k + 1] = ScanStep(f[k], txs[k + 1])
  BY ScanEquations
<1>2. N \in Nat
  OBVIOUS
<1> DEFINE OK(k) == Finds(f[k], txs, k, filter)
           K == {k \in 0..N : OK(k)}
<1>3. OK(0)
  <2>1. f[0].filter = filter /\ f[0].matched = << >> /\ << >> \in Seq(Tx)
    BY <1>1
  <2> QED
    BY <2>1 DEF Finds
<1>4. \A k \in 0..N : k \in K
  <2>1. 0 \in K
    BY <1>2, <1>3
  <2>2. ASSUME NEW k \in 0..(N - 1), k \in K PROVE k + 1 \in K
    <3>1. k + 1 \in 0..N
      BY <1>2
    <3>2. Finds(ScanStep(f[k], txs[k + 1]), txs, k + 1, filter)
      BY <2>2, FindsNext
    <3>3. OK(k + 1)
      BY <1>1, <3>2
    <3> QED
      BY <3>1, <3>3
  <2> HIDE DEF K, N
  <2> QED
    BY <1>2, <2>1, <2>2, UpTo
<1>5. OK(N)
  <2>1. N \in 0..N
    BY <1>2
  <2> HIDE DEF OK, N
  <2> QED
    BY <1>4, <2>1
<1> QED
  BY <1>1, <1>5

(* An output is paid by its transaction. *)
LEMMA PaidHere ==
    ASSUME NEW u \in Output, NEW A, AddrOf(u) \in A
    PROVE  u \in PaidTo(u[1], A)
<1> DEFINE i == u[2] + 1
           t == u[1]
<1>1. u = <<t, u[2]>> /\ u[2] \in Nat /\ i \in DOMAIN Outputs[t]
  BY DEF Output
<1>2. i - 1 = u[2]
  BY <1>1
<1>3. u = Utxo(t, i)
  BY <1>1, <1>2, Zenon DEF Utxo
<1>4. Outputs[t][i].address \in A
  BY DEF AddrOf
<1> HIDE DEF i
<1> QED
  BY <1>1, <1>3, <1>4 DEF PaidTo

(* The peer's filter may have more outputs added. *)
LEMMA SpendsWatches ==
    ASSUME NEW s, NEW q, NEW rem, Spends(s, q, rem), NEW r, r.filter.addrs = rem.filter.addrs,
           rem.filter.outs \subseteq r.filter.outs
    PROVE  Spends(s, q, r)
<1>1. \A n : Watches(rem.filter, n) => Watches(r.filter, n)
  BY DEF Watches
<1>2. CASE LoadsIn(s.out) = {}
  <2>1. Filters(s.out, rem.filter) = {rem.filter} /\ Filters(s.out, r.filter) = {r.filter}
    BY <1>2 DEF Filters
  <2> QED
    BY <1>1, <2>1 DEF Spends, SpendsSent
<1>3. CASE LoadsIn(s.out) # {}
  <2>1. Filters(s.out, rem.filter) = Filters(s.out, r.filter)
    BY <1>3 DEF Filters
  <2> QED
    BY <2>1 DEF Spends
<1> QED
  BY <1>2, <1>3

(* Messages that are no blocks are sent. *)
LEMMA SpendsPlain ==
    ASSUME NEW s, NEW q \in Seq(InMsg), NEW rem, Spends(s, q, rem), NEW ms \in Seq(InMsg),
           \A i \in 1..Len(ms) : ms[i].type # "merkleblock"
    PROVE  Spends(s, q \o ms, rem)
<1> DEFINE r == q \o ms
           N == Len(q)
           K == Len(ms)
<1>1. /\ Len(r) = N + K /\ N \in Nat /\ K \in Nat
      /\ \A i \in 1..N : i \in 1..(N + K) /\ r[i] = q[i]
      /\ \A i \in 1..(N + K) : i \in 1..N \/ (i - N \in 1..K /\ r[i] = ms[i - N])
  BY ConcatAt
<1> HIDE DEF r, N, K
<1>2. \A i \in 1..(N + K) : r[i].type = "merkleblock" => i \in 1..N
  BY <1>1 DEF K
<1>3. ASSUME NEW k \in Nat, k <= N PROVE Sending(r, k) = Sending(q, k)
  <2>1. \A j \in 1..k : r[j] = q[j]
    BY <1>1, <1>3
  <2> QED
    BY <2>1 DEF Sending
<1>4. Sending(r, Len(r)) \subseteq Sending(q, Len(q))
  BY <1>1, <1>2 DEF Sending, N
<1> SUFFICES ASSUME s.filter # NULL
             PROVE  SpendsSent(s.filter, Filters(s.out, rem.filter),
                       Taken(s.lastBlock, s.current, s.orphans), s.current, r)
  BY DEF Spends, SpendsSent, r
<1> DEFINE T == Taken(s.lastBlock, s.current, s.orphans)
           F == Filters(s.out, rem.filter)
<1>5. /\ \A f \in F : \A n \in T \cup Sending(q, Len(q)) : Watches(f, n)
      /\ \A i \in 1..Len(q) : q[i].type = "merkleblock" =>
            SpentIn(q[i].block, s.filter, T \cup Sending(q, i - 1))
      /\ s.current # NoBlock => SpentIn(s.current, s.filter, T)
  BY DEF Spends, SpendsSent
<1> HIDE DEF T, F
<1>6. ASSUME NEW i \in 1..Len(r), r[i].type = "merkleblock"
      PROVE  SpentIn(r[i].block, s.filter, T \cup Sending(r, i - 1))
  <2>1. i \in 1..N /\ i - 1 \in Nat /\ i - 1 <= N
    BY <1>1, <1>2, <1>6
  <2>2. r[i] = q[i] /\ Sending(r, i - 1) = Sending(q, i - 1)
    BY <1>1, <1>3, <2>1
  <2> QED
    BY <1>5, <1>6, <2>1, <2>2 DEF N
<1> QED
  BY <1>4, <1>5, <1>6 DEF SpendsSent, T, F

(* Such are transactions, ... *)
LEMMA PlainTxs ==
    ASSUME NEW txs \in Seq(Tx)
    PROVE  /\ TxMessages(txs) \in Seq(InMsg)
           /\ \A i \in 1..Len(TxMessages(txs)) : TxMessages(txs)[i].type # "merkleblock"
<1> DEFINE ms == TxMessages(txs)
<1>1. ms \in Seq(InMsg) /\ \A i \in 1..Len(ms) : ms[i].type # "merkleblock"
  BY DEF TxMessages, InMsg
<1> QED
  BY <1>1

(* ... and hashes. *)
LEMMA PlainInv ==
    ASSUME NEW txs \in Seq(Tx), NEW blocks \in Seq(Num)
    PROVE  /\ InvMessages(txs, blocks) \in Seq(InMsg)
           /\ \A i \in 1..Len(InvMessages(txs, blocks)) :
                 InvMessages(txs, blocks)[i].type # "merkleblock"
<1> DEFINE m == [type |-> "inv", txs |-> txs, blocks |-> blocks]
<1>1. m \in InMsg /\ m.type = "inv"
  BY DEF InMsg
<1>2. InvMessages(txs, blocks) \in {<< >>, <<m>>}
  BY DEF InvMessages
<1> HIDE DEF m
<1>3. << >> \in Seq(InMsg) /\ Len(<< >>) = 0
  OBVIOUS
<1>4. <<m>> \in Seq(InMsg) /\ Len(<<m>>) = 1 /\ <<m>>[1] = m
  BY <1>1
<1>5. \A ms \in {<< >>, <<m>>} :
         ms \in Seq(InMsg) /\ \A i \in 1..Len(ms) : ms[i].type # "merkleblock"
  <2>1. \A i \in 1..1 : <<m>>[i].type # "merkleblock"
    BY <1>1, <1>4
  <2>2. \A i \in 1..0 : FALSE
    OBVIOUS
  <2> QED
    BY <1>3, <1>4, <2>1, <2>2
<1> QED
  BY <1>2, <1>5

(* A block is sent, scanned by the node's filter. *)
LEMMA SpendsBlock ==
    ASSUME NEW s, NEW q, NEW rem, Flow(s, q, rem), Spends(s, q, rem),
           Len(s.out) > 0, HasBlocks(s.out[1]), NEW n \in Num, NEW r,
           Finds(r, Mined[n], Len(Mined[n]), rem.filter),
           NEW b \in Block, b.height = n, b.matched = r.matched,
           NEW v, v.filter = r.filter
    PROVE  Spends(s, Append(q, [type |-> "merkleblock", block |-> b]), v)
<1> DEFINE o == s.out
           f == s.filter
           g == rem.filter
           txs == Mined[n]
           N == Len(q)
           T == Taken(s.lastBlock, s.current, s.orphans)
           H == T \cup Sending(q, N)
           m == [type |-> "merkleblock", block |-> b]
           p == Append(q, m)
<1>1. /\ q \in Seq(InMsg) /\ s \in Node /\ m \in InMsg /\ m.type = "merkleblock" /\ m.block = b
      /\ o \in Seq(OutMsg) /\ txs \in Seq(Tx)
  BY NodeFields, NumNat DEF Flow, InMsg
<1>2. /\ Len(p) = N + 1 /\ N \in Nat /\ p[N + 1] = m
      /\ \A i \in 1..N : i \in 1..(N + 1) /\ p[i] = q[i]
      /\ \A i \in 1..(N + 1) : i \in 1..N \/ i = N + 1
  BY <1>1, AppendAt
<1> HIDE DEF m, p
<1> SUFFICES ASSUME f # NULL PROVE SpendsSent(f, Filters(o, v.filter), T, s.current, p)
  BY DEF Spends, SpendsSent, p, m
<1>3. (\A j \in 1..Len(o) : ~IsLoad(o[j])) /\ g.addrs = f.addrs
  <2>1. /\ \A j \in 1..Len(o) : IsLoad(o[j]) => \A i \in 1..j : ~HasBlocks(o[i])
        /\ (\A j \in 1..Len(o) : ~IsLoad(o[j])) => g.addrs = f.addrs
    BY DEF Flow, Sent
  <2>2. \A j \in 1..Len(o) : 1 \in 1..j
    <3>1. Len(o) \in Nat
      BY <1>1
    <3> QED
      BY <3>1
  <2> QED
    BY <2>1, <2>2
<1>4. \A x : Filters(o, x) = {x}
  BY <1>3 DEF Filters, LoadsIn
<1>5. /\ \A k \in H : Watches(g, k)
      /\ \A i \in 1..Len(q) : q[i].type = "merkleblock" =>
            SpentIn(q[i].block, f, T \cup Sending(q, i - 1))
      /\ s.current # NoBlock => SpentIn(s.current, f, T)
  BY <1>4 DEF Spends, SpendsSent
<1>6. /\ r.filter.addrs = g.addrs /\ g.outs \subseteq r.filter.outs
      /\ \A j \in 1..Len(txs) : PaidTo(txs[j], g.addrs) \subseteq r.filter.outs
      /\ \A j \in 1..Len(txs) : \A u \in Inputs[txs[j]] :
            u \in g.outs \/ (\E i \in 1..(j - 1) : u \in PaidTo(txs[i], g.addrs)) =>
               txs[j] \in Range(r.matched)
  BY DEF Finds
<1>7. \A k \in Nat : k <= N => Sending(p, k) = Sending(q, k)
  <2> SUFFICES ASSUME NEW k \in Nat, k <= N PROVE Sending(p, k) = Sending(q, k)
    OBVIOUS
  <2>1. \A j \in 1..k : p[j] = q[j]
    BY <1>2
  <2> QED
    BY <2>1 DEF Sending
<1>8. Sending(p, Len(p)) \subseteq Sending(q, N) \cup {n}
  BY <1>1, <1>2 DEF Sending
<1>9. Watches(r.filter, n)
  <2> SUFFICES ASSUME NEW u \in PaidOuts(n), AddrOf(u) \in g.addrs PROVE u \in r.filter.outs
    BY <1>6 DEF Watches
  <2>1. u \in Output /\ u[1] \in Range(txs)
    BY DEF PaidOuts
  <2>2. PICK j \in 1..Len(txs) : u[1] = txs[j]
    BY <1>1, <2>1 DEF Range
  <2>3. u \in PaidTo(u[1], g.addrs)
    BY <2>1, PaidHere
  <2> HIDE DEF g, txs
  <2> QED
    BY <1>6, <2>2, <2>3
<1>10. SpentIn(b, f, H)
  <2> SUFFICES ASSUME NEW t \in Range(txs), NEW u \in Inputs[t], NEW k \in H \cup {n},
                      u \in PaidOuts(k), AddrOf(u) \in g.addrs
               PROVE  t \in Range(r.matched)
    BY <1>3 DEF SpentIn
  <2>1. PICK j \in 1..Len(txs) : t = txs[j]
    BY <1>1 DEF Range
  <2>2. CASE k \in H
    <3>1. u \in g.outs
      BY <1>5, <2>2 DEF Watches
    <3> HIDE DEF g, txs
    <3> QED
      BY <1>6, <2>1, <3>1
  <2>3. CASE k = n
    <3>1. u \in Output /\ u[1] \in Range(txs)
      BY <2>3 DEF PaidOuts
    <3>2. u[1] \in Parents(t)
      BY <3>1 DEF Parents, Output
    <3>3. DOMAIN Mined = Num /\ n \in Nat /\ j \in DOMAIN Mined[n]
      BY <1>1, SyncAssumption, NumNat DEF Num
    <3>4. \/ \E i \in 1..(n - 1) : u[1] \in Range(Mined[i])
          \/ \E i \in 1..(j - 1) : Mined[n][i] = u[1]
      BY <2>1, <3>2, <3>3, ChainAssumption
    <3>5. ~\E i \in 1..(n - 1) : u[1] \in Range(Mined[i])
      <4> SUFFICES ASSUME NEW i \in 1..(n - 1), u[1] \in Range(Mined[i]) PROVE FALSE
        OBVIOUS
      <4>1. i \in DOMAIN Mined /\ n \in DOMAIN Mined /\ i # n
        BY <3>3, NumNat DEF Num
      <4>2. Range(Mined[i]) \cap Range(Mined[n]) # {}
        BY <3>1
      <4> QED
        BY <4>1, <4>2, ChainAssumption
    <3>6. PICK i \in 1..(j - 1) : txs[i] = u[1]
      BY <3>4, <3>5
    <3>7. u \in PaidTo(txs[i], g.addrs)
      BY <3>1, <3>6, PaidHere
    <3> HIDE DEF g, txs
    <3> QED
      BY <1>6, <2>1, <3>7
  <2> QED
    BY <2>2, <2>3
<1>11. ASSUME NEW i \in 1..Len(p), p[i].type = "merkleblock"
       PROVE  SpentIn(p[i].block, f, T \cup Sending(p, i - 1))
  <2>1. CASE i \in 1..N
    <3>1. p[i] = q[i] /\ i - 1 \in Nat /\ i - 1 <= N
      BY <1>2, <2>1
    <3>2. Sending(p, i - 1) = Sending(q, i - 1)
      BY <1>7, <3>1
    <3> HIDE DEF f, T
    <3> QED
      BY <1>5, <1>11, <2>1, <3>1, <3>2
  <2>2. CASE i = N + 1
    <3>1. i - 1 = N /\ Sending(p, N) = Sending(q, N) /\ p[i].block = b
      BY <1>1, <1>2, <1>7, <2>2
    <3> QED
      BY <1>10, <3>1
  <2> QED
    BY <1>2, <2>1, <2>2
<1>12. \A k \in T \cup Sending(p, Len(p)) : Watches(v.filter, k)
  <2>1. \A k \in H : Watches(r.filter, k)
    BY <1>5, <1>6 DEF Watches
  <2> QED
    BY <1>8, <1>9, <2>1
<1> HIDE DEF T, H, f, g, o
<1>13. \A h \in Filters(o, v.filter) : \A k \in T \cup Sending(p, Len(p)) : Watches(h, k)
  BY <1>4, <1>12
<1>14. \A i \in 1..Len(p) : p[i].type = "merkleblock" =>
          SpentIn(p[i].block, f, T \cup Sending(p, i - 1))
  BY <1>11
<1>15. s.current # NoBlock => SpentIn(s.current, f, T)
  BY <1>5
<1> QED
  BY <1>13, <1>14, <1>15, Zenon DEF SpendsSent

(* What is answered is taken off what the node sent. *)
LEMMA SpendsServes ==
    ASSUME NEW s \in Node, NEW q, NEW rem, Spends(s, q, rem), s.out # << >>,
           NEW v, Same(v, s, {"out"}), v.out = Tail(s.out), NEW r,
           r.filter = IF IsLoad(s.out[1]) THEN s.out[1].filter ELSE rem.filter
    PROVE  Spends(v, q, r)
<1>1. /\ v.lastBlock = s.lastBlock /\ v.current = s.current /\ v.orphans = s.orphans
      /\ v.filter = s.filter
  BY DEF Same, Fields
<1>2. Filters(v.out, r.filter) \subseteq Filters(s.out, rem.filter)
  <2>1. s.out \in Seq(OutMsg)
    BY NodeFields
  <2> QED
    BY <2>1, FiltersTail
<1> DEFINE T == Taken(s.lastBlock, s.current, s.orphans)
<1>3. SpendsSent(s.filter, Filters(s.out, rem.filter), T, s.current, q)
  BY DEF Spends
<1> HIDE DEF T
<1>4. SpendsSent(v.filter, Filters(v.out, r.filter), T, v.current, q)
  BY <1>1, <1>2, <1>3, SpendsLess
<1> QED
  BY <1>1, <1>4 DEF Spends, T

-----------------------------------------------------------------------------
(* The peer's answers: a block, ... *)

(* The peer's filter may have more outputs added. *)
LEMMA FlowWatches ==
    ASSUME NEW s, NEW q, NEW rem, Flow(s, q, rem), NEW r \in Remote, r.height = rem.height,
           r.filter.addrs = rem.filter.addrs,
           WatchesOwn(r.filter.outs, AllAddrs(s.wallet),
              Listed(s.wallet) \cup s.knownTx \cup Carried(q) \cup Named(q))
    PROVE  Flow(s, q, r)
<1>1. Traffic(AllAddrs(s.wallet), Listed(s.wallet), s.known, s.knownTx, q, s.out,
              r.filter.outs, r.height)
  BY TrafficWatches DEF Flow
<1>2. Sent(s.filter, q, s.out, r.filter) /\ Reach(s.wallet, s.filter, s.out, r.filter)
  BY DEF Flow, Sent, Reach
<1> QED
  BY <1>1, <1>2 DEF Flow

(* The peer's filter is the node's where a block is asked for. *)
LEMMA ScansComplete ==
    ASSUME NEW s, NEW q, NEW rem, Flow(s, q, rem), Len(s.out) > 0, HasBlocks(s.out[1]),
           NEW n \in Num, NEW r, NEW A, NEW P, Scans(r, Range(Mined[n]), rem.filter, A, P)
    PROVE  Complete([height |-> n, matched |-> r.matched], s.filter)
<1>1. ASSUME s.filter # NULL PROVE rem.filter.addrs = s.filter.addrs
  <2>1. /\ \A j \in 1..Len(s.out) : IsLoad(s.out[j]) => \A i \in 1..j : ~HasBlocks(s.out[i])
        /\ (\A j \in 1..Len(s.out) : ~IsLoad(s.out[j])) => rem.filter.addrs = s.filter.addrs
    BY <1>1 DEF Flow, Sent
  <2>2. \A j \in 1..Len(s.out) : 1 \in 1..j
    <3>1. s.out \in Seq(OutMsg)
      BY NodeFields DEF Flow
    <3>2. Len(s.out) \in Nat
      BY <3>1
    <3> QED
      BY <3>2
  <2> QED
    BY <2>1, <2>2
<1> QED
  BY <1>1 DEF Scans, Complete

(* One element moves from the right to the left. *)
LEMMA AppendConcat ==
    ASSUME NEW S, NEW a \in Seq(S), NEW m \in S, NEW b \in Seq(S)
    PROVE  a \o (<<m>> \o b) = Append(a, m) \o b
  OBVIOUS

(* A block and its transactions. *)
LEMMA FollowBlock ==
    ASSUME NEW q \in Seq(InMsg), Follow(q), NEW b \in Block
    PROVE  Follow(Append(q, [type |-> "merkleblock", block |-> b]) \o TxMessages(b.matched))
<1> DEFINE mb == [type |-> "merkleblock", block |-> b]
           p == Append(q, mb)
           txs == b.matched
           ms == TxMessages(txs)
           r == p \o ms
           N == Len(q)
           K == Len(txs)
<1>1. mb \in InMsg /\ mb.type = "merkleblock" /\ mb.block = b /\ txs \in Seq(Tx)
  BY DEF InMsg, Block
<1> HIDE DEF mb, txs
<1>2. K \in Nat
  BY <1>1
<1>3. ms \in Seq(InMsg) /\ Len(ms) = K
  BY <1>1, <1>2 DEF TxMessages, InMsg
<1>4. \A k \in 1..K : ms[k].type = "tx" /\ ms[k].tx = txs[k]
  BY <1>1, <1>2 DEF TxMessages
<1> HIDE DEF ms
<1>5. /\ p \in Seq(InMsg) /\ Len(p) = N + 1 /\ N \in Nat
      /\ \A i \in 1..N : i \in 1..(N + 1) /\ p[i] = q[i]
      /\ p[N + 1] = mb
      /\ \A i \in 1..(N + 1) : i \in 1..N \/ i = N + 1
  BY <1>1, AppendAt
<1> HIDE DEF p
<1>6. /\ Len(r) = (N + 1) + K
      /\ \A i \in 1..(N + 1) : i \in 1..((N + 1) + K) /\ r[i] = p[i]
      /\ \A i \in 1..K : (N + 1) + i \in 1..((N + 1) + K) /\ r[(N + 1) + i] = ms[i]
      /\ \A i \in 1..((N + 1) + K) :
            i \in 1..(N + 1) \/ (i - (N + 1) \in 1..K /\ r[i] = ms[i - (N + 1)])
  <2>0. p \in Seq(InMsg) /\ ms \in Seq(InMsg)
    BY <1>3, <1>5
  <2>1. /\ r \in Seq(InMsg) /\ Len(r) = Len(p) + Len(ms) /\ Len(p) \in Nat /\ Len(ms) \in Nat
        /\ \A i \in 1..Len(p) : i \in 1..(Len(p) + Len(ms)) /\ r[i] = p[i]
        /\ \A i \in 1..Len(ms) : /\ Len(p) + i \in 1..(Len(p) + Len(ms))
                                 /\ r[Len(p) + i] = ms[i]
        /\ \A i \in 1..(Len(p) + Len(ms)) :
              i \in 1..Len(p) \/ (i - Len(p) \in 1..Len(ms) /\ r[i] = ms[i - Len(p)])
    BY <2>0, ConcatAt
  <2> HIDE DEF r, N, K
  <2> QED
    BY <1>3, <1>5, <2>1
<1> HIDE DEF r, N, K
<1>7. ASSUME NEW i \in 1..((N + 1) + K), r[i].type = "merkleblock",
             NEW k \in 1..Len(r[i].block.matched)
      PROVE  i + k \in 1..((N + 1) + K) /\ Carries(r[i + k], r[i].block.matched[k])
  <2>1. CASE i \in 1..N
    <3>1. r[i] = q[i]
      BY <1>5, <1>6, <2>1
    <3>2. i + k \in 1..N /\ Carries(q[i + k], q[i].block.matched[k])
      BY <1>7, <2>1, <3>1 DEF Follow, N
    <3>3. i + k \in 1..((N + 1) + K) /\ r[i + k] = q[i + k]
      BY <1>5, <1>6, <3>2
    <3> QED
      BY <3>1, <3>2, <3>3
  <2>2. CASE i = N + 1
    <3>1. r[i] = mb
      BY <1>5, <1>6, <2>2
    <3>2. k \in 1..K
      BY <1>1, <3>1 DEF K, txs
    <3>3. (N + 1) + k \in 1..((N + 1) + K) /\ Carries(r[(N + 1) + k], txs[k])
      BY <1>4, <1>6, <3>2 DEF Carries
    <3> QED
      BY <1>1, <2>2, <3>1, <3>3 DEF txs
  <2>3. CASE i \notin 1..(N + 1)
    <3>1. i - (N + 1) \in 1..K /\ r[i] = ms[i - (N + 1)]
      BY <1>6, <2>3
    <3>2. r[i].type = "tx"
      BY <1>4, <3>1
    <3> QED
      BY <1>7, <3>2
  <2> QED
    BY <1>5, <2>1, <2>2, <2>3
<1>8. Follow(r)
  BY <1>6, <1>7 DEF Follow
<1> QED
  BY <1>8 DEF r, p, ms, mb, txs

(* ServeGetdata, one block: it is complete for the filter of the node. *)
LEMMA BlockInv ==
    ASSUME NEW s, NEW q, NEW rem, Inv(s, q, rem), Len(s.out) > 0, s.out[1].type = "getdata",
           NEW n \in Range(s.out[1].blocks)
    PROVE  LET r == Scan(rem.filter, Mined[n])
           IN  /\ Inv(s, q \o BlockMessages(n, r.matched), [rem EXCEPT !.filter = r.filter])
               /\ BlockMessages(n, r.matched) \in Seq(InMsg)
               /\ Spends(s, q, rem) =>
                     Spends(s, q \o BlockMessages(n, r.matched), [rem EXCEPT !.filter = r.filter])
<1> DEFINE r == Scan(rem.filter, Mined[n])
           A == AllAddrs(s.wallet)
           L == Listed(s.wallet)
           P == L \cup s.knownTx \cup Carried(q) \cup Named(q)
           o == s.out
           b == [height |-> n, matched |-> r.matched]
           mb == [type |-> "merkleblock", block |-> b]
           p == Append(q, mb)
           ms == TxMessages(r.matched)
           v == [rem EXCEPT !.filter = r.filter]
<1>1. /\ s \in Node /\ q \in Seq(InMsg) /\ rem \in Remote /\ Flow(s, q, rem)
      /\ PongsDue(s.pongs, q \o o) /\ Follow(q)
  BY InvParts DEF Flow
<1>2. /\ o \in Seq(OutMsg) /\ s.pongs \in Seq(Callback) /\ Len(o) \in Nat
      /\ A \in SUBSET (Chains \X Nat) /\ rem.filter \in Bloom
  BY <1>1, NodeFields, AllAddrsType DEF Remote
<1>3. 1 \in 1..Len(o) /\ o[1] \in OutMsg
  BY <1>2
<1>4. /\ n \in Num /\ Mined[n] \in Seq(Tx) /\ HasBlocks(o[1]) /\ n <= rem.height
  <2>1. o[1].blocks \in Seq(Num)
    BY <1>3 DEF OutMsg
  <2>2. n \in Num /\ o[1].blocks # << >>
    BY <2>1 DEF Range
  <2>3. InChain(o[1], rem.height)
    BY <1>1, <1>3 DEF Flow, Traffic, HeightsOK
  <2> QED
    BY <2>2, <2>3, NumNat DEF HasBlocks, InChain
<1>5. Scans(r, Range(Mined[n]), rem.filter, A, P)
  <2>1. rem.filter.addrs \subseteq A
    BY <1>1 DEF Flow, Reach
  <2>2. WatchesOwn(rem.filter.outs, A, P)
    BY <1>1 DEF Flow, Traffic, OutsOK
  <2> HIDE DEF A, P, r
  <2> QED
    BY <1>2, <1>4, <2>1, <2>2, ScanOK DEF r
<1>16. Finds(r, Mined[n], Len(Mined[n]), rem.filter)
  BY <1>2, <1>4, ScanFinds
<1> HIDE DEF r
<1>6. /\ r.filter \in Bloom /\ r.filter.addrs = rem.filter.addrs /\ r.matched \in Seq(Tx)
      /\ Range(r.matched) \subseteq Range(Mined[n])
      /\ WatchesOwn(r.filter.outs, A, P \cup Range(r.matched)) /\ BackedTxs(r.matched, A, P)
  BY <1>5 DEF Scans
<1>7. b \in Block /\ b.matched = r.matched /\ Complete(b, s.filter)
  BY <1>1, <1>4, <1>5, <1>6, ScansComplete DEF Block
<1>8. mb \in InMsg /\ mb.type = "merkleblock" /\ mb.block = b /\ b.height = n
  BY <1>7 DEF InMsg
<1> HIDE DEF b, mb
<1>9. Flow(s, p, rem) /\ PongsDue(s.pongs, p \o o) /\ Carried(p) = Carried(q) /\ Named(p) = Named(q)
  <2>1. /\ InChain(mb, rem.height) /\ ~IsPing(mb) /\ mb.type # "inv"
        /\ \A t : ~NamesTx(mb, t) /\ ~Carries(mb, t)
    BY <1>4, <1>8 DEF InChain, IsPing, NamesTx, Carries
  <2>2. AsksNext(mb, o)
    BY <1>8 DEF AsksNext
  <2>3. Flow(s, p, rem)
    BY <1>1, <1>7, <1>8, <2>1, <2>2, FlowSends
  <2>4. PongsDue(s.pongs, p \o o)
    BY <1>1, <1>2, <1>4, <1>8, <2>1, PongsSent DEF Late
  <2>5. Carried(p) = Carried(q) /\ Named(p) = Named(q)
    BY <1>1, <1>8, <2>1, CarriedAppend
  <2> QED
    BY <2>3, <2>4, <2>5
<1>10. BackedTxs(r.matched, A, L \cup Carried(p))
  <2> SUFFICES ASSUME NEW k \in 1..Len(r.matched), r.matched[k] \in Wanted
               PROVE  Backed(r.matched[k], A, (L \cup Carried(q)) \cup Before(r.matched, k))
    BY <1>9 DEF BackedTxs
  <2> DEFINE t == r.matched[k]
             B == Before(r.matched, k)
  <2>1. Backed(t, A, P \cup B) /\ t \in Range(Mined[n])
    <3>1. t \in Range(r.matched)
      BY <1>6 DEF Range
    <3>2. Backed(t, A, P \cup B)
      <4> HIDE DEF A, P
      <4> QED
        BY <1>6 DEF BackedTxs
    <3> QED
      BY <1>6, <3>1, <3>2
  <2> HIDE DEF t, B
  <2>2. CASE Pays(t, A)
    BY <2>2 DEF Backed, t
  <2>3. CASE \E u \in Inputs[t] : PaysTo(u, A) /\ u[1] \in P \cup B
    <3>1. PICK u \in Inputs[t] : PaysTo(u, A) /\ u[1] \in P \cup B
      BY <2>3
    <3>2. u[1] \in Wanted /\ MinedBy(u[1], n)
      BY <1>2, <1>4, <2>1, <3>1, SpendsPayment DEF t
    <3>3. u[1] \in P => u[1] \in L \cup Carried(q)
      <4> HIDE DEF A
      <4> QED
        BY <1>1, <3>2, SentBefore
    <3> QED
      BY <3>1, <3>3 DEF Backed, t, B
  <2> QED
    BY <2>1, <2>2, <2>3 DEF Backed, t, B
<1>11. /\ Flow(s, p \o ms, rem) /\ PongsDue(s.pongs, (p \o ms) \o o)
       /\ Carried(p \o ms) = Carried(p) \cup Range(r.matched) /\ Named(p \o ms) = Named(p)
  <2> HIDE DEF p
  <2> QED
    BY <1>6, <1>9, <1>10, FlowSendsTxs
<1>12. Flow(s, p \o ms, v)
  <2>1. v \in Remote /\ v.height = rem.height /\ v.filter = r.filter
    BY <1>1, <1>6 DEF Remote
  <2> DEFINE Q == L \cup s.knownTx \cup Carried(p \o ms) \cup Named(p \o ms)
             X == P \cup Range(r.matched)
  <2>2. X \subseteq Q
    BY <1>9, <1>11
  <2>3. WatchesOwn(v.filter.outs, A, Q)
    <3>1. WatchesOwn(v.filter.outs, A, X)
      BY <1>6, <2>1
    <3> HIDE DEF Q, X, A, v
    <3> QED
      BY <2>2, <3>1, BackedByMore
  <2> HIDE DEF p, ms, v
  <2> QED
    BY <1>6, <1>11, <2>1, <2>3, FlowWatches
<1>13. Follow(p \o ms)
  BY <1>1, <1>7, FollowBlock DEF mb
<1>14. q \o BlockMessages(n, r.matched) = p \o ms /\ BlockMessages(n, r.matched) \in Seq(InMsg)
  <2>1. ms \in Seq(InMsg)
    BY <1>6 DEF TxMessages, InMsg
  <2>2. BlockMessages(n, r.matched) = <<mb>> \o ms
    BY DEF BlockMessages, mb, b
  <2> HIDE DEF ms
  <2> QED
    BY <1>1, <1>8, <2>1, <2>2, AppendConcat
<1>15. Inv(s, p \o ms, v)
  BY <1>11, <1>12, <1>13, InvParts
<1>17. ASSUME Spends(s, q, rem) PROVE Spends(s, p \o ms, v)
  <2>1. v.filter = r.filter
    BY <1>1 DEF Remote
  <2> HIDE DEF v
  <2>2. Spends(s, p, v)
    BY <1>1, <1>3, <1>4, <1>7, <1>8, <1>16, <1>17, <2>1, SpendsBlock DEF mb
  <2>3. p \in Seq(InMsg)
    BY <1>9 DEF Flow
  <2>4. ms \in Seq(InMsg) /\ \A i \in 1..Len(ms) : ms[i].type # "merkleblock"
    <3>1. r.matched \in Seq(Tx)
      BY <1>6
    <3> QED
      BY <3>1, PlainTxs
  <2> HIDE DEF p, ms
  <2> QED
    BY <2>2, <2>3, <2>4, SpendsPlain
<1> QED
  BY <1>14, <1>15, <1>17 DEF r

(* ... several blocks, ... *)
BlocksStep(r, n) ==
    LET x == Scan(r.filter, Mined[n])
    IN  [filter |-> x.filter, sent |-> r.sent \o BlockMessages(n, x.matched)]

(* The equations of ScanBlocks, ... *)
LEMMA BlocksEquations ==
    ASSUME NEW filter, NEW blocks \in Seq(Num)
    PROVE  \E f : /\ ScanBlocks(filter, blocks) = f[Len(blocks)]
                  /\ f[0] = [filter |-> filter, sent |-> << >>]
                  /\ \A k \in 0..(Len(blocks) - 1) : f[k + 1] = BlocksStep(f[k], blocks[k + 1])
<1> DEFINE N == Len(blocks)
           init == [filter |-> filter, sent |-> << >>]
           step(x, n) == BlocksStep(x, blocks[n])
           is(h, k) == h = [n \in 0..k |-> IF n = 0 THEN init ELSE step(h[n - 1], n)]
           K == {k \in 0..N : \E h : is(h, k)}
           f == CHOOSE h : is(h, N)
<1>1. ScanBlocks(filter, blocks) = f[N]
  BY Zenon DEF ScanBlocks, BlocksStep
<1>2. N \in Nat
  OBVIOUS
<1> HIDE DEF init, N
<1>3. \A k \in 0..N : k \in K
  <2> HIDE DEF step
  <2>1. 0 \in K
    <3>1. is([n \in 0..0 |-> init], 0)
      OBVIOUS
    <3>2. 0 \in 0..N
      BY <1>2
    <3> HIDE DEF is
    <3> QED
      BY <3>1, <3>2
  <2>2. ASSUME NEW k \in 0..(N - 1), k \in K PROVE k + 1 \in K
    <3>1. PICK h : is(h, k)
      BY <2>2
    <3> DEFINE g == [n \in 0..(k + 1) |-> IF n <= k THEN h[n] ELSE step(h[k], k + 1)]
    <3>2. is(g, k + 1)
      BY <1>2, <3>1
    <3>3. k + 1 \in 0..N
      BY <1>2
    <3> HIDE DEF is
    <3> QED
      BY <3>2, <3>3
  <2> HIDE DEF K
  <2> QED
    BY <1>2, <2>1, <2>2, UpTo
<1>4. is(f, N)
  <2>1. N \in 0..N
    BY <1>2
  <2>2. \E h : is(h, N)
    BY <1>3, <2>1
  <2> QED
    BY <2>2, Zenon
<1> HIDE DEF f
<1>5. f[0] = init /\ \A n \in 0..(N - 1) : f[n + 1] = step(f[n], n + 1)
  <2> HIDE DEF step
  <2> QED
    BY <1>2, <1>4
<1> QED
  BY <1>1, <1>5 DEF init, N

(* ... and ServeGetdata, all blocks, by induction. *)
LEMMA BlocksInv ==
    ASSUME NEW s, NEW q, NEW rem, Inv(s, q, rem), Len(s.out) > 0, s.out[1].type = "getdata"
    PROVE  LET served == ScanBlocks(rem.filter, s.out[1].blocks)
           IN  /\ Inv(s, q \o served.sent, [rem EXCEPT !.filter = served.filter])
               /\ served.sent \in Seq(InMsg)
               /\ Spends(s, q, rem) =>
                     Spends(s, q \o served.sent, [rem EXCEPT !.filter = served.filter])
<1> DEFINE blocks == s.out[1].blocks
           N == Len(blocks)
           watch(filter) == [rem EXCEPT !.filter = filter]
<1>1. q \in Seq(InMsg) /\ rem \in Remote /\ s.out \in Seq(OutMsg)
  BY NodeFields DEF Inv
<1>2. blocks \in Seq(Num)
  <2>1. s.out[1] \in OutMsg
    BY <1>1
  <2> QED
    BY <2>1 DEF OutMsg
<1>3. N \in Nat /\ \A k \in 1..N : blocks[k] \in Range(blocks)
  BY <1>2 DEF Range
<1>4. PICK f : /\ ScanBlocks(rem.filter, blocks) = f[N]
               /\ f[0] = [filter |-> rem.filter, sent |-> << >>]
               /\ \A k \in 0..(N - 1) : f[k + 1] = BlocksStep(f[k], blocks[k + 1])
  <2> HIDE DEF blocks
  <2> QED
    BY <1>2, BlocksEquations
<1> DEFINE OK(k) == /\ f[k].sent \in Seq(InMsg)
                    /\ Inv(s, q \o f[k].sent, watch(f[k].filter))
                    /\ Spends(s, q, rem) => Spends(s, q \o f[k].sent, watch(f[k].filter))
           K == {k \in 0..N : OK(k)}
<1>5. OK(0)
  <2>1. f[0].sent = << >> /\ f[0].filter = rem.filter /\ << >> \in Seq(InMsg)
    BY <1>4
  <2>2. q \o << >> = q
    BY <1>1
  <2>3. watch(rem.filter) = rem
    BY <1>1 DEF Remote
  <2> QED
    BY <2>1, <2>2, <2>3
<1>6. ASSUME NEW k \in 0..(N - 1), OK(k) PROVE OK(k + 1)
  <2> DEFINE n == blocks[k + 1]
             p == q \o f[k].sent
             r == watch(f[k].filter)
             x == Scan(f[k].filter, Mined[n])
             bm == BlockMessages(n, x.matched)
  <2>1. n \in Range(blocks)
    <3>1. k + 1 \in 1..N
      BY <1>3
    <3> QED
      BY <1>3, <3>1
  <2>2. r.filter = f[k].filter /\ \A y : [r EXCEPT !.filter = y] = watch(y)
    BY <1>1 DEF Remote
  <2>3. Inv(s, p, r) /\ (Spends(s, q, rem) => Spends(s, p, r))
    BY <1>6
  <2>4. /\ Inv(s, p \o bm, watch(x.filter)) /\ bm \in Seq(InMsg)
        /\ Spends(s, p, r) => Spends(s, p \o bm, watch(x.filter))
    <3> HIDE DEF p, r, watch
    <3>1. /\ Inv(s, p \o BlockMessages(n, Scan(r.filter, Mined[n]).matched),
                 [r EXCEPT !.filter = Scan(r.filter, Mined[n]).filter])
          /\ BlockMessages(n, Scan(r.filter, Mined[n]).matched) \in Seq(InMsg)
          /\ Spends(s, p, r) =>
                Spends(s, p \o BlockMessages(n, Scan(r.filter, Mined[n]).matched),
                       [r EXCEPT !.filter = Scan(r.filter, Mined[n]).filter])
      BY <2>1, <2>3, BlockInv
    <3> QED
      BY <2>2, <3>1
  <2>5. f[k + 1].filter = x.filter /\ f[k + 1].sent = f[k].sent \o bm
    <3>1. f[k + 1] = BlocksStep(f[k], n)
      BY <1>4
    <3>2. BlocksStep(f[k], n) = [filter |-> x.filter, sent |-> f[k].sent \o bm]
      BY Zenon DEF BlocksStep
    <3> HIDE DEF x, bm, n
    <3> QED
      BY <3>1, <3>2
  <2>6. f[k].sent \in Seq(InMsg)
    BY <1>6
  <2> HIDE DEF bm, x, r, n, watch
  <2>7. p \o bm = q \o (f[k].sent \o bm) /\ f[k].sent \o bm \in Seq(InMsg)
    <3> DEFINE y == f[k].sent
    <3>1. y \in Seq(InMsg) /\ q \in Seq(InMsg) /\ bm \in Seq(InMsg)
      BY <1>1, <2>4, <2>6
    <3>2. (q \o y) \o bm = q \o (y \o bm) /\ y \o bm \in Seq(InMsg)
      <4> HIDE DEF y
      <4>1. y \o bm \in Seq(InMsg)
        BY <3>1
      <4>2. (q \o y) \o bm = q \o (y \o bm)
        BY <3>1
      <4> QED
        BY <4>1, <4>2
    <3> QED
      BY <3>2
  <2> HIDE DEF p
  <2> QED
    BY <2>3, <2>4, <2>5, <2>7
<1>7. \A k \in 0..N : k \in K
  <2> HIDE DEF OK
  <2>1. 0 \in K
    BY <1>3, <1>5
  <2>2. \A k \in 0..(N - 1) : k \in K => k + 1 \in K
    <3>1. \A k \in 0..(N - 1) : k + 1 \in 0..N
      BY <1>3
    <3> QED
      BY <1>6, <3>1
  <2> HIDE DEF K, N
  <2> QED
    BY <1>3, <2>1, <2>2, UpTo
<1>8. OK(N)
  <2>1. N \in 0..N
    BY <1>3
  <2> HIDE DEF OK, N
  <2> QED
    BY <1>7, <2>1
<1> QED
  BY <1>4, <1>8

(* ... transactions, ... *)
LEMMA FollowPlain ==
    ASSUME NEW q \in Seq(InMsg), Follow(q), NEW ms \in Seq(InMsg),
           \A i \in 1..Len(ms) : ms[i].type # "merkleblock"
    PROVE  Follow(q \o ms)
<1> DEFINE r == q \o ms
           N == Len(q)
           K == Len(ms)
<1>1. /\ r \in Seq(InMsg) /\ Len(r) = N + K /\ N \in Nat /\ K \in Nat
      /\ \A i \in 1..N : i \in 1..(N + K) /\ r[i] = q[i]
      /\ \A i \in 1..K : N + i \in 1..(N + K) /\ r[N + i] = ms[i]
      /\ \A i \in 1..(N + K) : i \in 1..N \/ (i - N \in 1..K /\ r[i] = ms[i - N])
  BY ConcatAt
<1> HIDE DEF r, N, K
<1>2. ASSUME NEW i \in 1..(N + K), r[i].type = "merkleblock", NEW k \in 1..Len(r[i].block.matched)
      PROVE  i + k \in 1..(N + K) /\ Carries(r[i + k], r[i].block.matched[k])
  <2>1. i \in 1..N
    BY <1>1, <1>2 DEF K
  <2>2. r[i] = q[i]
    BY <1>1, <2>1
  <2>3. i + k \in 1..N /\ Carries(q[i + k], q[i].block.matched[k])
    BY <1>2, <2>1, <2>2 DEF Follow, N
  <2>4. i + k \in 1..(N + K) /\ r[i + k] = q[i + k]
    BY <1>1, <2>3
  <2> QED
    BY <2>2, <2>3, <2>4
<1>3. Follow(r)
  BY <1>1, <1>2 DEF Follow
<1> QED
  BY <1>3 DEF r

(* ServeGetdata, its transactions. *)
LEMMA TxsInv ==
    ASSUME NEW s, NEW q, NEW rem, Inv(s, q, rem), NEW txs \in Seq(Tx),
           BackedTxs(txs, AllAddrs(s.wallet), Listed(s.wallet) \cup Carried(q))
    PROVE  /\ Inv(s, q \o TxMessages(txs), rem)
           /\ Carried(q \o TxMessages(txs)) = Carried(q) \cup Range(txs)
           /\ Spends(s, q, rem) => Spends(s, q \o TxMessages(txs), rem)
<1> DEFINE ms == TxMessages(txs)
<1>1. ms \in Seq(InMsg) /\ \A i \in 1..Len(ms) : ms[i].type # "merkleblock"
  BY DEF TxMessages, InMsg
<1>2. q \in Seq(InMsg) /\ Flow(s, q, rem) /\ PongsDue(s.pongs, q \o s.out) /\ Follow(q)
  BY InvParts DEF Inv
<1>3. /\ Flow(s, q \o ms, rem) /\ PongsDue(s.pongs, (q \o ms) \o s.out)
      /\ Carried(q \o ms) = Carried(q) \cup Range(txs)
  BY <1>2, FlowSendsTxs
<1> HIDE DEF ms
<1>4. Follow(q \o ms)
  BY <1>1, <1>2, FollowPlain
<1>5. Inv(s, q \o ms, rem)
  BY <1>3, <1>4, InvParts
<1>6. Spends(s, q, rem) => Spends(s, q \o ms, rem)
  BY <1>1, <1>2, SpendsPlain
<1> QED
  BY <1>3, <1>5, <1>6 DEF ms

(* ... or what a getdata asks for. *)
LEMMA GetdataInv ==
    ASSUME NEW s, NEW q, NEW rem, Inv(s, q, rem), Len(s.out) > 0, s.out[1].type = "getdata"
    PROVE  LET m == s.out[1]
               served == ScanBlocks(rem.filter, m.blocks)
               r == q \o TxMessages(m.txs) \o served.sent
           IN  /\ Inv(s, r, [rem EXCEPT !.filter = served.filter])
               /\ Range(m.txs) \subseteq Carried(r)
               /\ Spends(s, q, rem) => Spends(s, r, [rem EXCEPT !.filter = served.filter])
<1> DEFINE o == s.out
           m == s.out[1]
           served == ScanBlocks(rem.filter, m.blocks)
           A == AllAddrs(s.wallet)
           L == Listed(s.wallet)
<1>1. /\ q \in Seq(InMsg) /\ rem \in Remote /\ o \in Seq(OutMsg) /\ Len(o) \in Nat
      /\ Flow(s, q, rem)
  BY NodeFields, InvParts DEF Inv
<1>2. m \in OutMsg /\ 1 \in 1..Len(o)
  BY <1>1
<1>3. m.txs \in Seq(Tx) /\ m.blocks \in Seq(Num) /\ (m.txs = << >> \/ m.blocks = << >>)
  <2>1. InChain(o[1], rem.height)
    BY <1>1, <1>2 DEF Flow, Traffic, HeightsOK
  <2> QED
    BY <1>2, <2>1 DEF InChain, OutMsg
<1>4. CASE m.txs = << >>
  <2>1. TxMessages(m.txs) = << >> /\ q \o << >> = q /\ Range(m.txs) = {}
    BY <1>1, <1>4 DEF TxMessages, Range
  <2>2. /\ Inv(s, q \o served.sent, [rem EXCEPT !.filter = served.filter])
        /\ Spends(s, q, rem) =>
              Spends(s, q \o served.sent, [rem EXCEPT !.filter = served.filter])
    BY BlocksInv
  <2> QED
    BY <2>1, <2>2
<1>5. CASE m.blocks = << >>
  <2> DEFINE p == q \o TxMessages(m.txs)
  <2>1. served.filter = rem.filter /\ served.sent = << >>
    <3>1. PICK f : /\ ScanBlocks(rem.filter, m.blocks) = f[Len(m.blocks)]
                   /\ f[0] = [filter |-> rem.filter, sent |-> << >>]
      BY <1>3, BlocksEquations
    <3>2. Len(m.blocks) = 0
      BY <1>5
    <3> QED
      BY <3>1, <3>2
  <2>2. BackedTxs(m.txs, A, L \cup Carried(q))
    <3>1. AskedBacked(A, L, q, o)
      BY <1>1 DEF Flow, Traffic
    <3>2. BackedTxs(m.txs, A, L \cup Carried(q) \cup AskedIn(o, 1 - 1))
      BY <1>2, <3>1 DEF AskedBacked
    <3>3. AskedIn(o, 1 - 1) = {}
      BY DEF AskedIn
    <3>4. L \cup Carried(q) \cup AskedIn(o, 1 - 1) = L \cup Carried(q)
      BY <3>3
    <3> QED
      BY <3>2, <3>4
  <2>3. /\ Inv(s, p, rem) /\ Carried(p) = Carried(q) \cup Range(m.txs)
        /\ Spends(s, q, rem) => Spends(s, p, rem)
    <3> DEFINE txs == m.txs
    <3>1. txs \in Seq(Tx) /\ BackedTxs(txs, A, L \cup Carried(q))
      BY <1>3, <2>2
    <3> HIDE DEF txs
    <3>2. /\ Inv(s, q \o TxMessages(txs), rem)
          /\ Carried(q \o TxMessages(txs)) = Carried(q) \cup Range(txs)
          /\ Spends(s, q, rem) => Spends(s, q \o TxMessages(txs), rem)
      BY <3>1, TxsInv
    <3> QED
      BY <3>2 DEF txs
  <2>4. p \in Seq(InMsg)
    BY <2>3 DEF Inv
  <2> HIDE DEF p
  <2>5. p \o << >> = p /\ [rem EXCEPT !.filter = rem.filter] = rem
    BY <1>1, <2>4 DEF Remote
  <2> HIDE DEF served
  <2> QED
    BY <2>1, <2>3, <2>5 DEF p, served
<1> QED
  BY <1>3, <1>4, <1>5

(* What is answered is taken off what the node sent. *)
LEMMA FlowServes ==
    ASSUME NEW s, NEW q, NEW rem, Flow(s, q, rem), s.out # << >>,
           NEW v \in Node, Same(v, s, {"out"}), v.out = Tail(s.out),
           NEW r \in Remote, r.height = rem.height,
           r.filter = IF IsLoad(s.out[1]) THEN s.out[1].filter ELSE rem.filter,
           \A t \in Tx : AsksTx(s.out[1], t) => t \in Carried(q)
    PROVE  Flow(v, q, r)
<1> DEFINE o == s.out
           p == Tail(o)
           N == Len(o) - 1
           A == AllAddrs(s.wallet)
           L == Listed(s.wallet)
<1>1. s \in Node /\ q \in Seq(InMsg) /\ rem \in Remote
  BY DEF Flow
<1>2. o \in Seq(OutMsg)
  BY <1>1, NodeFields
<1>3. /\ p \in Seq(OutMsg) /\ Len(p) = N /\ Len(o) = N + 1 /\ N \in Nat /\ 1 \in 1..(N + 1)
      /\ \A i \in 1..N : i + 1 \in 1..(N + 1) /\ p[i] = o[i + 1]
      /\ \A i \in 1..(N + 1) : i = 1 \/ (i - 1 \in 1..N /\ p[i - 1] = o[i])
  BY <1>2, TailAt
<1>4. /\ v.wallet = s.wallet /\ v.known = s.known /\ v.pongs = s.pongs /\ v.current = s.current
      /\ v.knownTx = s.knownTx /\ v.missing = s.missing /\ v.filter = s.filter
      /\ v.updating = s.updating /\ v.orphans = s.orphans /\ v.lastBlock = s.lastBlock
  BY DEF Same, Fields
<1>5. Traffic(A, L, s.known, s.knownTx, q, p, rem.filter.outs, rem.height)
  <2>1. Traffic(A, L, s.known, s.knownTx, q, o, rem.filter.outs, rem.height)
    BY DEF Flow
  <2> HIDE DEF A, L, o
  <2> QED
    BY <1>1, <1>2, <2>1, TrafficServed DEF o
<1>6. Traffic(A, L, s.known, s.knownTx, q, p, r.filter.outs, r.height)
  <2> DEFINE P == L \cup s.knownTx \cup Carried(q) \cup Named(q)
  <2>1. CASE IsLoad(o[1])
    <3>1. WatchesOwn(o[1].filter.outs, A, L)
      BY <1>3, <2>1 DEF Flow, Traffic, OutsOK, IsLoad
    <3>2. L \subseteq P
      OBVIOUS
    <3> HIDE DEF P, A, L, o, p
    <3>3. WatchesOwn(r.filter.outs, A, P)
      BY <2>1, <3>1, <3>2, BackedByMore DEF o
    <3> QED
      BY <1>5, <3>3, TrafficWatches DEF P
  <2>2. CASE ~IsLoad(o[1])
    BY <1>5, <2>2
  <2> QED
    BY <2>1, <2>2
<1> HIDE DEF p, o, N
<1>7. Sent(s.filter, q, p, r.filter)
  <2> SUFFICES ASSUME s.filter # NULL
               PROVE  /\ \A j \in 1..N : IsLoad(p[j]) =>
                            /\ p[j].filter.addrs = s.filter.addrs
                            /\ \A i \in 1..j : ~HasBlocks(p[i])
                            /\ \A i \in 1..Len(q) : ~HasBlocks(q[i])
                      /\ (\A j \in 1..N : ~IsLoad(p[j])) => r.filter.addrs = s.filter.addrs
    BY <1>3 DEF Sent
  <2>1. /\ \A j \in 1..(N + 1) : IsLoad(o[j]) =>
              /\ o[j].filter.addrs = s.filter.addrs
              /\ \A i \in 1..j : ~HasBlocks(o[i])
              /\ \A i \in 1..Len(q) : ~HasBlocks(q[i])
        /\ (\A j \in 1..(N + 1) : ~IsLoad(o[j])) => rem.filter.addrs = s.filter.addrs
    BY <1>3 DEF Flow, Sent, o
  <2>2. ASSUME NEW j \in 1..N, IsLoad(p[j])
        PROVE  /\ p[j].filter.addrs = s.filter.addrs
               /\ \A i \in 1..j : ~HasBlocks(p[i])
               /\ \A i \in 1..Len(q) : ~HasBlocks(q[i])
    <3>1. j + 1 \in 1..(N + 1) /\ p[j] = o[j + 1]
      BY <1>3
    <3>2. \A i \in 1..j : i \in 1..N /\ i + 1 \in 1..(j + 1)
      BY <1>3
    <3>3. \A i \in 1..j : p[i] = o[i + 1]
      BY <1>3, <3>2
    <3> QED
      BY <2>1, <2>2, <3>1, <3>2, <3>3
  <2>3. ASSUME \A j \in 1..N : ~IsLoad(p[j]) PROVE r.filter.addrs = s.filter.addrs
    <3>1. CASE IsLoad(o[1])
      BY <1>3, <2>1, <3>1 DEF o
    <3>2. CASE ~IsLoad(o[1])
      <4>1. \A j \in 1..(N + 1) : ~IsLoad(o[j])
        BY <1>3, <2>3, <3>2
      <4> QED
        BY <2>1, <3>2, <4>1 DEF o
    <3> QED
      BY <3>1, <3>2
  <2> QED
    BY <2>2, <2>3
<1>8. Reach(s.wallet, s.filter, p, r.filter)
  <2>1. /\ s.filter.addrs \subseteq A /\ rem.filter.addrs \subseteq A
        /\ \A j \in 1..(N + 1) : IsLoad(o[j]) => o[j].filter.addrs \subseteq A
    BY <1>3 DEF Flow, Reach, o
  <2>2. \A j \in 1..N : IsLoad(p[j]) => p[j].filter.addrs \subseteq A
    BY <1>3, <2>1
  <2>3. r.filter.addrs \subseteq A
    BY <1>3, <2>1 DEF o
  <2> QED
    BY <1>3, <2>1, <2>2, <2>3 DEF Flow, Reach
<1> QED
  BY <1>1, <1>4, <1>6, <1>7, <1>8 DEF Flow, p, o

(* ... or an inv. *)
LEMMA InvsInv ==
    ASSUME NEW s, NEW q, NEW rem, Inv(s, q, rem), NEW txs \in Seq(Tx), NEW blocks \in Seq(Num),
           txs = << >> \/ blocks = << >>, \A n \in Range(blocks) : n <= rem.height,
           \A t \in Range(txs) \cap Wanted : ~MinedBy(t, rem.height),
           BackedTxs(txs, AllAddrs(s.wallet),
              Listed(s.wallet) \cup s.knownTx \cup Carried(q) \cup Named(q))
    PROVE  LET r == q \o InvMessages(txs, blocks)
           IN  /\ Inv(s, r, rem) /\ Carried(q) \subseteq Carried(r)
               /\ Named(q) \cup Range(txs) \subseteq Named(r)
               /\ Spends(s, q, rem) => Spends(s, r, rem)
<1> DEFINE m == [type |-> "inv", txs |-> txs, blocks |-> blocks]
           r == Append(q, m)
           x == InvMessages(txs, blocks)
<1>1. /\ s \in Node /\ q \in Seq(InMsg) /\ rem \in Remote /\ Flow(s, q, rem)
      /\ PongsDue(s.pongs, q \o s.out) /\ Follow(q)
  BY InvParts DEF Inv
<1>4. Spends(s, q, rem) => Spends(s, q \o x, rem)
  <2>1. x \in Seq(InMsg) /\ \A i \in 1..Len(x) : x[i].type # "merkleblock"
    BY PlainInv
  <2> HIDE DEF x
  <2> QED
    BY <1>1, <2>1, SpendsPlain
<1>2. CASE txs = << >> /\ blocks = << >>
  <2>1. x = << >> /\ Range(txs) = {}
    BY <1>2 DEF InvMessages, Range
  <2>2. q \o << >> = q
    BY <1>1
  <2> QED
    BY <1>4, <2>1, <2>2
<1>3. CASE ~(txs = << >> /\ blocks = << >>)
  <2>1. m \in InMsg /\ m.type = "inv" /\ m.txs = txs /\ m.blocks = blocks
    BY DEF InMsg
  <2>2. x = <<m>>
    BY <1>3 DEF InvMessages
  <2> HIDE DEF m
  <2>3. q \o x = r
    BY <1>1, <2>1, <2>2
  <2>4. /\ InChain(m, rem.height) /\ ~IsPing(m) /\ ~Late(m) /\ ~HasBlocks(m)
        /\ \A t : ~Carries(m, t) /\ (NamesTx(m, t) <=> t \in Range(txs))
    BY <2>1 DEF InChain, IsPing, Late, HasBlocks, Carries, NamesTx
  <2>5. Flow(s, r, rem)
    BY <1>1, <2>1, <2>4, FlowSends
  <2>6. PongsDue(s.pongs, r \o s.out)
    <3>1. s.pongs \in Seq(Callback) /\ s.out \in Seq(OutMsg)
      BY <1>1, NodeFields
    <3> QED
      BY <1>1, <2>1, <2>4, <3>1, PongsSent
  <2>7. Follow(r)
    <3>1. <<m>> \in Seq(InMsg) /\ \A i \in 1..Len(<<m>>) : <<m>>[i].type # "merkleblock"
      BY <2>1
    <3>2. Follow(q \o <<m>>)
      BY <1>1, <3>1, FollowPlain
    <3> QED
      BY <2>2, <2>3, <3>2
  <2>8. Carried(q) \subseteq Carried(r) /\ Named(q) \subseteq Named(r)
    BY <1>1, <2>1, CarriedAppend
  <2>9. Range(txs) \subseteq Named(r)
    <3>1. /\ Len(r) = Len(q) + 1 /\ r[Len(q) + 1] = m /\ Len(q) \in Nat
      BY <1>1, <2>1, AppendAt
    <3>2. Len(q) + 1 \in 1..Len(r)
      BY <3>1
    <3>3. Range(txs) \subseteq Tx
      BY DEF Range
    <3> HIDE DEF r
    <3> QED
      BY <2>4, <3>1, <3>2, <3>3 DEF Named, NamedIn
  <2>10. Inv(s, r, rem)
    BY <2>5, <2>6, <2>7, InvParts
  <2> HIDE DEF r, x
  <2> QED
    BY <1>4, <2>3, <2>8, <2>9, <2>10 DEF x
<1> QED
  BY <1>2, <1>3

(* The transactions a scan has matched are announced. *)
LEMMA MatchesInv ==
    ASSUME NEW s, NEW q, NEW rem, Inv(s, q, rem), NEW T \in SUBSET Tx,
           \A t \in T : ~MinedBy(t, rem.height), NEW r,
           Scans(r, T, rem.filter, AllAddrs(s.wallet),
                 Listed(s.wallet) \cup s.knownTx \cup Carried(q) \cup Named(q)),
           rem.filter.outs \subseteq r.filter.outs,
           NEW v \in Remote, v.height = rem.height, v.filter = r.filter
    PROVE  /\ Inv(s, q \o InvMessages(r.matched, << >>), v)
           /\ Spends(s, q, rem) => Spends(s, q \o InvMessages(r.matched, << >>), v)
<1> DEFINE A == AllAddrs(s.wallet)
           P == Listed(s.wallet) \cup s.knownTx \cup Carried(q) \cup Named(q)
           txs == r.matched
           p == q \o InvMessages(txs, << >>)
           Q == Listed(s.wallet) \cup s.knownTx \cup Carried(p) \cup Named(p)
           X == P \cup Range(txs)
<1>1. /\ txs \in Seq(Tx) /\ Range(txs) \subseteq T /\ BackedTxs(txs, A, P)
      /\ WatchesOwn(r.filter.outs, A, X) /\ r.filter.addrs = rem.filter.addrs
  BY DEF Scans
<1>2. << >> \in Seq(Num) /\ Range(<< >>) = {}
  BY DEF Range
<1>3. /\ Inv(s, p, rem) /\ Carried(q) \subseteq Carried(p)
      /\ Named(q) \cup Range(txs) \subseteq Named(p)
      /\ Spends(s, q, rem) => Spends(s, p, rem)
  <2> HIDE DEF txs
  <2>1. /\ \A n \in Range(<< >>) : n <= rem.height
        /\ \A t \in Range(txs) \cap Wanted : ~MinedBy(t, rem.height)
    BY <1>1, <1>2
  <2> QED
    BY <1>1, <1>2, <2>1, InvsInv
<1> HIDE DEF p
<1>4. X \subseteq Q
  BY <1>3
<1>5. WatchesOwn(v.filter.outs, A, Q)
  <2>1. WatchesOwn(v.filter.outs, A, X)
    BY <1>1
  <2> HIDE DEF X, A, Q
  <2> QED
    BY <1>4, <2>1, BackedByMore
<1>6. Flow(s, p, v)
  <2>1. Flow(s, p, rem) /\ v.filter.addrs = rem.filter.addrs
    BY <1>1, <1>3, InvParts
  <2> QED
    BY <1>5, <2>1, FlowWatches
<1>7. Inv(s, p, v)
  BY <1>3, <1>6, InvParts
<1>8. Spends(s, q, rem) => Spends(s, p, v)
  <2>1. v.filter.addrs = rem.filter.addrs /\ rem.filter.outs \subseteq v.filter.outs
    BY <1>1
  <2> QED
    BY <1>3, <2>1, SpendsWatches
<1> QED
  BY <1>7, <1>8 DEF p

(* A scan of nothing. *)
LEMMA ScansNothing ==
    ASSUME NEW filter \in Bloom, NEW A, NEW P, WatchesOwn(filter.outs, A, P)
    PROVE  Scans([filter |-> filter, matched |-> << >>], {}, filter, A, P)
<1> DEFINE r == [filter |-> filter, matched |-> << >>]
<1>1. r.filter = filter /\ r.matched = << >> /\ << >> \in Seq(Tx) /\ Len(<< >>) = 0 /\ Range(<< >>) = {}
  BY DEF Range
<1>2. BackedTxs(<< >>, A, P) /\ P \cup Range(<< >>) = P
  BY <1>1 DEF BackedTxs
<1> HIDE DEF r
<1>3. Scans(r, {}, filter, A, P)
  BY <1>1, <1>2 DEF Scans
<1> QED
  BY <1>3 DEF r

-----------------------------------------------------------------------------
(* The actions. *)

(* The inductive invariant. *)
SyncInv == Inv(node, toNode, remote) /\ drops \in 0..MaxDrops
SpendsInv == Safe(node, toNode, remote)

(* Drop and Timeout: a new connection. *)
LEMMA ConnectOK ==
    ASSUME SyncInv, Connect
    PROVE  Inv(node, toNode, remote)' /\ (LedgerCurrent /\ SpendsInv => SpendsInv')
<1>1. /\ node \in Node /\ Got(node.wallet, node.lastBlock) /\ remote \in Remote
  BY DEF SyncInv, Inv
<1>2. remote.height \in 0..Len(Mined)
  <2>1. remote.height \in Height0..Len(Mined) /\ Height0 \in Nat /\ Len(Mined) \in Nat
    BY <1>1, NumNat DEF Remote
  <2> QED
    BY <2>1
<1>3. /\ node' = PeerConnected(node, remote.height) /\ toNode' = << >>
      /\ remote' = [remote EXCEPT !.filter = NULL]
  BY DEF Connect
<1>4. /\ Inv(PeerConnected(node, remote.height), << >>, [remote EXCEPT !.filter = NULL])
      /\ /\ LedgerCurrent
         /\ Held(node.wallet, node.lastBlock, node.early)
         => Safe(PeerConnected(node, remote.height), << >>, [remote EXCEPT !.filter = NULL])
  BY <1>1, <1>2, ConnectInv DEF LedgerCurrent
<1>5. Inv(node', toNode', remote')
  BY <1>3, <1>4
<1>6. ASSUME LedgerCurrent, SpendsInv PROVE SpendsInv'
  <2>1. Held(node.wallet, node.lastBlock, node.early)
    BY <1>6 DEF SpendsInv, Safe
  <2>2. Safe(node', toNode', remote')
    BY <1>3, <1>4, <1>6, <2>1
  <2> QED
    BY <2>2 DEF SpendsInv
<1> QED
  BY <1>5, <1>6

(* The first connection, with an empty wallet. *)
LEMMA InitOK == Init => SyncInv /\ SpendsInv
<1> SUFFICES ASSUME Init PROVE SyncInv /\ SpendsInv
  OBVIOUS
<1> DEFINE w == WalletNew(<< >>, << >>, << >>)
           s == [wallet |-> w, lastBlock |-> 0, estimated |-> 0,
          orphans |-> {}, lastOrphan |-> 0, early |-> {}, filter |-> NULL, updating |-> FALSE,
          syncing |-> TRUE, timer |-> FALSE, known |-> << >>, knownTx |-> {},
          current |-> NoBlock, missing |-> {}, pongs |-> << >>, lastInv |-> 0,
          sentMempool |-> FALSE, mempool |-> FALSE, reported |-> 0, out |-> << >>]
<1>1. node = PeerConnected(s, Height0) /\ toNode = << >> /\ drops = 0
  BY DEF Init
<1>2. Purse(w) /\ Listed(w) = {} /\ w.allTx = {} /\ w \in Wallet
  BY PurseNew, PurseCounted
<1> HIDE DEF w
<1>3. /\ Height0 \in 0..Len(Mined) /\ Height0 \in Height0..Len(Mined) /\ Len(Mined) \in Nat
      /\ 0 \in 0..Len(Mined)
  <2>1. Height0 \in Nat /\ Len(Mined) \in Nat /\ Height0 <= Len(Mined)
    BY NumNat
  <2> QED
    BY <2>1
<1>4. s \in Node
  <2> DEFINE none == << >>
             H == 0..Len(Mined)
  <2>1. none \in Seq(Num) /\ none \in Seq(Callback) /\ none \in Seq(OutMsg) /\ 0 \in H
    BY <1>3
  <2> HIDE DEF none, H
  <2>2. s \in [wallet : Wallet, lastBlock : H, estimated : H,
     orphans : SUBSET Block, lastOrphan : Nat, early : SUBSET Nat, filter : Bloom,
     updating : BOOLEAN, syncing : BOOLEAN, timer : BOOLEAN, known : Seq(Num),
     knownTx : SUBSET Tx, current : Block \cup {NoBlock}, missing : SUBSET Tx,
     pongs : Seq(Callback), lastInv : Nat, sentMempool : BOOLEAN, mempool : BOOLEAN,
     reported : H, out : Seq(OutMsg)]
    BY <1>2, <2>1, NullBloom DEF none
  <2> QED
    BY <2>2 DEF Node, H
<1>5. s.wallet = w /\ s.lastBlock = 0
  OBVIOUS
<1> HIDE DEF s
<1>6. Got(w, 0)
  <2>1. \A n \in Num : ~(n <= 0)
    BY DEF Num
  <2> QED
    BY <1>2, <2>1 DEF Got
<1>7. /\ remote \in Remote /\ [remote EXCEPT !.filter = NULL] = remote
  <2>1. remote = [height |-> Height0, filter |-> NULL, pool |-> {}]
    BY DEF Init
  <2>2. remote \in Remote
    BY <1>3, <2>1, NullBloom DEF Remote
  <2> QED
    BY <2>1, <2>2
<1>8. /\ Inv(PeerConnected(s, Height0), << >>, remote)
      /\ Safe(PeerConnected(s, Height0), << >>, remote)
  <2>1. /\ Inv(PeerConnected(s, Height0), << >>, [remote EXCEPT !.filter = NULL])
        /\ /\ LedgerHas(s.wallet, s.lastBlock)
           /\ Held(s.wallet, s.lastBlock, s.early)
           => Safe(PeerConnected(s, Height0), << >>, [remote EXCEPT !.filter = NULL])
    BY <1>3, <1>4, <1>5, <1>6, <1>7, ConnectInv
  <2>2. LedgerHas(s.wallet, s.lastBlock)
    <3>1. \A n \in 1..0 : FALSE
      OBVIOUS
    <3> QED
      BY <1>5, <3>1 DEF LedgerHas
  <2>3. Held(s.wallet, s.lastBlock, s.early)
    <3>1. \A n \in Num : ~(n <= 0)
      BY DEF Num
    <3> QED
      BY <1>5, <3>1 DEF Held
  <2> QED
    BY <1>7, <2>1, <2>2, <2>3
<1>9. 0 \in 0..MaxDrops
  BY SyncAssumption
<1> QED
  BY <1>1, <1>8, <1>9 DEF SyncInv, SpendsInv

(* A transaction enters the memory pool. *)
LEMMA AnnounceOK ==
    ASSUME SyncInv, NEW t \in Relayed, Announce(t)
    PROVE  Inv(node, toNode, remote)' /\ (SpendsInv => SpendsInv')
<1> DEFINE s == node
           q == toNode
           rem == remote
           A == AllAddrs(s.wallet)
           P == Listed(s.wallet) \cup s.knownTx \cup Carried(q) \cup Named(q)
<1>1. Inv(s, q, rem) /\ s \in Node /\ q \in Seq(InMsg) /\ rem \in Remote /\ node' = node
  BY DEF SyncInv, Inv, Announce
<1>2. t \in Tx /\ rem.filter \in Bloom /\ rem.pool \cup {t} \in SUBSET Relayed
  BY <1>1, SyncAssumption DEF Remote
<1>3. rem.height \in Nat
  <2>1. rem.height \in Height0..Len(Mined) /\ Height0 \in Nat /\ Len(Mined) \in Nat
    BY <1>1, NumNat DEF Remote
  <2> QED
    BY <2>1
<1>4. ~MinedBy(t, rem.height)
  <2>1. Unmined(t)
    BY DEF Announce
  <2>2. \A m \in Num : m <= rem.height => m \in 1..rem.height
    BY <1>3, NumNat DEF Num
  <2> QED
    BY <2>1, <2>2 DEF Unmined, MinedBy
<1>5. CASE ~Matches(rem.filter, t)
  <2>1. toNode' = q /\ remote' = [rem EXCEPT !.pool = rem.pool \cup {t}]
    BY <1>5 DEF Announce
  <2> DEFINE pool == rem.pool \cup {t}
             v == [rem EXCEPT !.pool = pool]
  <2>2. v \in Remote /\ v.filter = rem.filter /\ v.height = rem.height
    BY <1>1, <1>2 DEF Remote
  <2> HIDE DEF v
  <2>3. Inv(s, q, v)
    BY <1>1, <2>2 DEF Inv
  <2>4. Inv(node', toNode', remote')
    BY <1>1, <2>1, <2>3 DEF v
  <2>5. Safe(s, q, rem) => Safe(s, q, v)
    BY <2>2, SpendsWatches DEF Safe
  <2>6. Safe(s, q, rem) => Safe(node', toNode', remote')
    BY <1>1, <2>1, <2>5 DEF v
  <2> QED
    BY <2>4, <2>6 DEF SpendsInv
<1>6. CASE Matches(rem.filter, t)
  <2> DEFINE none == [filter |-> rem.filter, matched |-> << >>]
             r == ScanStep(none, t)
             f == WithOutputs(rem.filter, t)
             pool == rem.pool \cup {t}
             v == [rem EXCEPT !.pool = pool, !.filter = f]
             p == q \o InvMessages(<<t>>, << >>)
  <2>1. rem.filter.addrs \subseteq A /\ WatchesOwn(rem.filter.outs, A, P) /\ A \in SUBSET (Chains \X Nat)
    <3>1. rem.filter.addrs \subseteq A /\ WatchesOwn(rem.filter.outs, A, P)
      BY <1>1 DEF Inv, Reach, Traffic, OutsOK
    <3> QED
      BY <1>1, <3>1, NodeFields, AllAddrsType
  <2>2. Scans(r, {t}, rem.filter, A, P)
    <3>1. Scans(none, {}, rem.filter, A, P)
      BY <1>2, <2>1, ScansNothing
    <3>2. {} \cup {t} = {t}
      OBVIOUS
    <3> HIDE DEF none, A, P
    <3> QED
      BY <1>2, <2>1, <3>1, <3>2, ScanStepOK
  <2>3. r.filter = f /\ r.matched = <<t>>
    BY <1>6 DEF ScanStep
  <2>8. rem.filter.outs \subseteq r.filter.outs
    <3> DEFINE more == rem.filter.outs \cup PaidTo(t, rem.filter.addrs)
    <3>1. f = [rem.filter EXCEPT !.outs = more]
      BY Zenon DEF WithOutputs, PaidTo
    <3>2. f.outs = more
      BY <1>2, <3>1 DEF Bloom
    <3> HIDE DEF r, f
    <3> QED
      BY <2>3, <3>2
  <2> HIDE DEF r, f
  <2>4. v \in Remote /\ v.filter = r.filter /\ v.height = rem.height
    <3>1. f \in Bloom
      BY <2>2, <2>3 DEF Scans
    <3> QED
      BY <1>1, <1>2, <2>3, <3>1 DEF Remote
  <2> HIDE DEF v
  <2>5. /\ Inv(s, q \o InvMessages(r.matched, << >>), v)
        /\ Spends(s, q, rem) => Spends(s, q \o InvMessages(r.matched, << >>), v)
    <3>1. {t} \in SUBSET Tx /\ \A u \in {t} : ~MinedBy(u, rem.height)
      BY <1>2, <1>4
    <3> QED
      BY <1>1, <2>2, <2>4, <2>8, <3>1, MatchesInv
  <2>6. toNode' = p /\ remote' = v
    <3>1. toNode' = p
      BY <1>6 DEF Announce
    <3>2. remote' = [remote EXCEPT !.pool = @ \cup {t}, !.filter = WithOutputs(@, t)]
      BY <1>6 DEF Announce
    <3>3. [remote EXCEPT !.pool = @ \cup {t}, !.filter = WithOutputs(@, t)] = v
      BY <1>1 DEF v, f, Remote
    <3> QED
      BY <3>1, <3>2, <3>3
  <2>7. Inv(node', toNode', remote')
    BY <1>1, <2>3, <2>5, <2>6
  <2>9. Safe(s, q, rem) => Safe(node', toNode', remote')
    BY <1>1, <2>3, <2>5, <2>6 DEF Safe
  <2> QED
    BY <2>7, <2>9 DEF SpendsInv
<1> QED
  BY <1>5, <1>6

(* The chain grows by a block. *)
LEMMA MineOK ==
    ASSUME SyncInv, Mine
    PROVE  Inv(node, toNode, remote)' /\ (SpendsInv => SpendsInv')
<1> DEFINE s == node
           q == toNode
           rem == remote
           h == rem.height + 1
           v == [rem EXCEPT !.height = h]
<1>1. Inv(s, q, rem) /\ s \in Node /\ q \in Seq(InMsg) /\ rem \in Remote
  BY DEF SyncInv, Inv
<1>2. /\ node' = node /\ toNode' = q \o InvMessages(<< >>, <<h>>)
      /\ rem.height < Len(Mined)
  BY DEF Mine
<1>3. remote' = v
  BY Zenon DEF Mine
<1>4. rem.height \in Nat /\ h \in Num /\ h \in Height0..Len(Mined)
  <2>1. rem.height \in Height0..Len(Mined) /\ Height0 \in Nat /\ Len(Mined) \in Nat
    BY <1>1, NumNat DEF Remote
  <2> QED
    BY <1>2, <2>1 DEF Num
<1>5. v \in Remote /\ v.height = rem.height + 1 /\ v.filter = rem.filter
  BY <1>1, <1>4 DEF Remote
<1> HIDE DEF v
<1>6. Inv(s, q, v)
  <2>1. Traffic(AllAddrs(s.wallet), Listed(s.wallet), s.known, s.knownTx, q, s.out,
                rem.filter.outs, rem.height + 1)
    <3>1. s.known \in Seq(Num) /\ s.out \in Seq(OutMsg)
      BY <1>1, NodeFields
    <3>2. Traffic(AllAddrs(s.wallet), Listed(s.wallet), s.known, s.knownTx, q, s.out,
                  rem.filter.outs, rem.height)
      BY <1>1 DEF Inv
    <3> QED
      BY <1>1, <1>4, <3>1, <3>2, TrafficMined
  <2> QED
    BY <1>1, <1>5, <2>1 DEF Inv
<1>7. /\ Inv(s, q \o InvMessages(<< >>, <<h>>), v)
      /\ Spends(s, q, v) => Spends(s, q \o InvMessages(<< >>, <<h>>), v)
  <2>1. << >> \in Seq(Tx) /\ Range(<< >>) = {} /\ Len(<< >>) = 0
    BY DEF Range
  <2>2. <<h>> \in Seq(Num) /\ Range(<<h>>) = {h} /\ h <= v.height
    BY <1>4, <1>5 DEF Range
  <2>3. \A A, P : BackedTxs(<< >>, A, P)
    BY <2>1 DEF BackedTxs
  <2> HIDE DEF h
  <2> QED
    BY <1>6, <2>1, <2>2, <2>3, InvsInv
<1>8. Inv(node', toNode', remote')
  BY <1>2, <1>3, <1>7
<1>9. Spends(s, q, rem) => Spends(s, q, v)
  BY <1>5, SpendsWatches
<1>10. Safe(s, q, rem) => Safe(node', toNode', remote')
  BY <1>2, <1>3, <1>7, <1>9 DEF Safe
<1> QED
  BY <1>8, <1>10 DEF SpendsInv

(* The message the peer has answered is gone, with its filter in use. *)
LEMMA ServesInv ==
    ASSUME NEW s, NEW q, NEW rem, Inv(s, q, rem), s.out # << >>, ~IsPing(s.out[1]),
           NEW v \in Node, Same(v, s, {"out"}), v.out = Tail(s.out),
           NEW r \in Remote, r.height = rem.height,
           r.filter = IF IsLoad(s.out[1]) THEN s.out[1].filter ELSE rem.filter,
           \A t \in Tx : AsksTx(s.out[1], t) => t \in Carried(q)
    PROVE  Inv(v, q, r) /\ (Safe(s, q, rem) => Safe(v, q, r))
<1>1. /\ s \in Node /\ q \in Seq(InMsg) /\ Flow(s, q, rem) /\ PongsDue(s.pongs, q \o s.out)
      /\ Follow(q)
  BY InvParts DEF Inv
<1>2. Flow(v, q, r)
  BY <1>1, FlowServes
<1>3. PongsDue(s.pongs, q \o Tail(s.out))
  BY <1>1, NodeFields, PongsServed
<1>4. v.pongs = s.pongs
  BY DEF Same, Fields
<1>5. PongsDue(v.pongs, q \o v.out)
  BY <1>3, <1>4
<1>6. ASSUME Safe(s, q, rem) PROVE Safe(v, q, r)
  <2>1. v.wallet = s.wallet /\ v.lastBlock = s.lastBlock /\ v.early = s.early
    BY DEF Same, Fields
  <2>2. Spends(v, q, r)
    BY <1>1, <1>6, SpendsServes DEF Safe
  <2> QED
    BY <1>6, <2>1, <2>2 DEF Safe
<1> QED
  BY <1>1, <1>2, <1>5, <1>6, InvParts

(* A ping is answered. *)
LEMMA PingServed ==
    ASSUME NEW s, NEW q, NEW rem, Inv(s, q, rem), s.out # << >>, s.out[1].type = "ping",
           NEW v \in Node, Same(v, s, {"out"}), v.out = Tail(s.out)
    PROVE  LET r == Append(q, [type |-> "pong"])
           IN  Inv(v, r, rem) /\ (Safe(s, q, rem) => Safe(v, r, rem))
<1> DEFINE m == [type |-> "pong"]
           r == Append(q, m)
<1>1. /\ s \in Node /\ q \in Seq(InMsg) /\ rem \in Remote /\ Flow(s, q, rem)
      /\ PongsDue(s.pongs, q \o s.out) /\ Follow(q)
  BY InvParts DEF Inv
<1>2. m \in InMsg /\ m.type = "pong"
  BY DEF InMsg
<1>3. PongsDue(s.pongs, r \o Tail(s.out))
  BY <1>1, NodeFields, PongsAnswered
<1>4. <<m>> \in Seq(InMsg) /\ \A i \in 1..Len(<<m>>) : <<m>>[i].type # "merkleblock"
  BY <1>2
<1> HIDE DEF m
<1>5. Flow(s, r, rem)
  <2>1. /\ InChain(m, rem.height) /\ ~HasBlocks(m) /\ m.type # "inv"
        /\ \A t : ~NamesTx(m, t) /\ ~Carries(m, t)
    BY <1>2 DEF InChain, HasBlocks, NamesTx, Carries
  <2> QED
    BY <1>1, <1>2, <2>1, FlowSends
<1>6. Follow(r) /\ (Spends(s, q, rem) => Spends(s, r, rem))
  <2>1. Follow(q \o <<m>>)
    BY <1>1, <1>4, FollowPlain
  <2>2. Spends(s, q, rem) => Spends(s, q \o <<m>>, rem)
    BY <1>1, <1>4, SpendsPlain
  <2>3. q \o <<m>> = r
    BY <1>1, <1>2
  <2> QED
    BY <2>1, <2>2, <2>3
<1> HIDE DEF r
<1>7. Flow(v, r, rem)
  <2>1. (\A t : ~AsksTx(s.out[1], t)) /\ ~IsLoad(s.out[1])
    BY DEF AsksTx, IsLoad
  <2> QED
    BY <1>1, <1>5, <2>1, FlowServes
<1>8. v.pongs = s.pongs
  BY DEF Same, Fields
<1>9. PongsDue(v.pongs, r \o v.out)
  BY <1>3, <1>8
<1>10. Inv(v, r, rem)
  BY <1>6, <1>7, <1>9, InvParts
<1>11. ASSUME Safe(s, q, rem) PROVE Safe(v, r, rem)
  <2>1. v.wallet = s.wallet /\ v.lastBlock = s.lastBlock /\ v.early = s.early
    BY DEF Same, Fields
  <2>2. Spends(s, r, rem) /\ ~IsLoad(s.out[1])
    BY <1>6, <1>11 DEF Safe, IsLoad
  <2>3. Spends(v, r, rem)
    BY <1>1, <2>2, SpendsServes
  <2> QED
    BY <1>11, <2>1, <2>3 DEF Safe
<1> QED
  BY <1>10, <1>11 DEF r, m

(* The hashes of blocks that answer a getblocks. *)
LEMMA HashesInv ==
    ASSUME NEW s, NEW q, NEW rem, Inv(s, q, rem), NEW from \in 0..Len(Mined)
    PROVE  LET last == Min({rem.height, from + MaxInv})
               r == q \o InvMessages(<< >>, [i \in 1..(last - from) |-> from + i])
           IN  Inv(s, r, rem) /\ (Spends(s, q, rem) => Spends(s, r, rem))
<1> DEFINE last == Min({rem.height, from + MaxInv})
           h == rem.height
           K == last - from
           blocks == [i \in 1..K |-> from + i]
<1>1. h \in Nat /\ h <= Len(Mined) /\ from \in Nat /\ MaxInv \in Nat /\ Len(Mined) \in Nat
  <2>1. h \in Height0..Len(Mined) /\ Height0 \in Nat /\ Len(Mined) \in Nat
    BY NumNat DEF Inv, Remote
  <2>2. MaxInv \in Nat
    BY SyncAssumption
  <2> QED
    BY <2>1, <2>2
<1>2. last \in Nat /\ last <= h
  <2> DEFINE S == {h, from + MaxInv}
  <2>1. S \in SUBSET Nat /\ h \in S
    BY <1>1
  <2> HIDE DEF S
  <2>2. Min(S) \in S /\ \A y \in S : Min(S) <= y
    BY <2>1, MinIsLeast
  <2>3. Min(S) \in Nat /\ Min(S) <= h
    BY <2>1, <2>2
  <2> QED
    BY <2>3 DEF S
<1> HIDE DEF last, h
<1>3. \A i \in 1..K : from + i \in Num /\ from + i <= h
  BY <1>1, <1>2 DEF Num
<1>4. blocks \in Seq(Num)
  <2> DEFINE n == IF K \in Nat THEN K ELSE 0
  <2>1. n \in Nat /\ 1..K = 1..n
    BY <1>1, <1>2
  <2> HIDE DEF n, K
  <2>2. blocks = [i \in 1..n |-> from + i]
    BY <2>1
  <2>3. \A i \in 1..n : from + i \in Num
    BY <1>3, <2>1
  <2>4. [i \in 1..n |-> from + i] \in Seq(Num)
    BY <2>1, <2>3
  <2> HIDE DEF blocks
  <2> QED
    BY <2>2, <2>4
<1>5. \A n \in Range(blocks) : n <= h
  BY <1>3 DEF Range
<1> HIDE DEF blocks
<1>6. /\ Inv(s, q \o InvMessages(<< >>, blocks), rem)
      /\ Spends(s, q, rem) => Spends(s, q \o InvMessages(<< >>, blocks), rem)
  <2>1. << >> \in Seq(Tx) /\ Range(<< >>) = {} /\ Len(<< >>) = 0
    BY DEF Range
  <2>2. \A A, P : BackedTxs(<< >>, A, P)
    BY <2>1 DEF BackedTxs
  <2>3. \A n \in Range(blocks) : n <= rem.height
    BY <1>5 DEF h
  <2> QED
    BY <1>4, <2>1, <2>2, <2>3, InvsInv
<1> QED
  BY <1>6 DEF blocks, last, h

(* The memory pool, scanned in some order. *)
LEMMA PoolInv ==
    ASSUME NEW s, NEW q, NEW rem, Inv(s, q, rem), NEW T \in SUBSET rem.pool,
           \A t \in T : ~MinedBy(t, rem.height), NEW txs \in SetToSeqs(T)
    PROVE  LET r == Scan(rem.filter, txs)
               v == [rem EXCEPT !.filter = r.filter]
           IN  /\ Inv(s, q \o InvMessages(r.matched, << >>), v) /\ v \in Remote
               /\ Spends(s, q, rem) => Spends(s, q \o InvMessages(r.matched, << >>), v)
<1> DEFINE r == Scan(rem.filter, txs)
           v == [rem EXCEPT !.filter = r.filter]
           A == AllAddrs(s.wallet)
           P == Listed(s.wallet) \cup s.knownTx \cup Carried(q) \cup Named(q)
<1>1. /\ s \in Node /\ rem \in Remote /\ rem.filter \in Bloom /\ rem.filter.addrs \subseteq A
      /\ WatchesOwn(rem.filter.outs, A, P) /\ T \subseteq Relayed
  BY DEF Inv, Remote, Reach, Traffic, OutsOK
<1>2. A \in SUBSET (Chains \X Nat)
  BY <1>1, NodeFields, AllAddrsType
<1>3. T \in SUBSET Tx /\ IsFiniteSet(T)
  <2>1. Relayed \subseteq Tx /\ IsFiniteSet(Relayed)
    BY SyncAssumption
  <2>2. T \in SUBSET Relayed
    BY <1>1
  <2> QED
    BY <2>1, <2>2, FS_Subset
<1>4. txs \in Seq(T)
  <2>1. Cardinality(T) \in Nat
    BY <1>3, FS_CardinalityType
  <2>2. txs \in [1..Cardinality(T) -> T]
    BY DEF SetToSeqs
  <2> QED
    BY <2>1, <2>2
<1>5. txs \in Seq(Tx) /\ Range(txs) \subseteq T
  BY <1>3, <1>4 DEF Range
<1> HIDE DEF A, P, r
<1>6. Scans(r, Range(txs), rem.filter, A, P)
  BY <1>1, <1>2, <1>5, ScanOK DEF r
<1>9. rem.filter.outs \subseteq r.filter.outs
  BY <1>1, <1>5, ScanFinds DEF Finds, r
<1>7. v \in Remote /\ v.filter = r.filter /\ v.height = rem.height
  BY <1>1, <1>6 DEF Remote, Scans
<1> HIDE DEF v
<1>8. /\ Inv(s, q \o InvMessages(r.matched, << >>), v)
      /\ Spends(s, q, rem) => Spends(s, q \o InvMessages(r.matched, << >>), v)
  <2>1. Range(txs) \in SUBSET Tx /\ \A t \in Range(txs) : ~MinedBy(t, rem.height)
    BY <1>3, <1>5
  <2> QED
    BY <1>6, <1>7, <1>9, <2>1, MatchesInv DEF A, P
<1> QED
  BY <1>7, <1>8 DEF v, r

(* Serve: the peer answers, by the type of the message. *)
LEMMA ServeOK ==
    ASSUME SyncInv, Serve
    PROVE  Inv(node, toNode, remote)' /\ (SpendsInv => SpendsInv')
<1> DEFINE s == node
           q == toNode
           rem == remote
           o == node.out
           p == Tail(o)
           v == [node EXCEPT !.out = p]
           m == Head(o)
<1>1. Inv(s, q, rem) /\ s \in Node /\ q \in Seq(InMsg) /\ rem \in Remote /\ o \in Seq(OutMsg)
  BY NodeFields DEF SyncInv, Inv
<1>2. node' = v /\ o # << >>
  BY Zenon DEF Serve
<1>3. /\ p \in Seq(OutMsg) /\ m = o[1] /\ m \in OutMsg /\ Len(o) \in Nat /\ Len(o) > 0
  BY <1>1, <1>2, TailAt
<1> HIDE DEF p
<1>4. v \in Node /\ Same(v, s, {"out"}) /\ v.out = p
  BY <1>1, <1>3 DEF Node, Same, Fields
<1> HIDE DEF v
<1>5. CASE m.type = "filterload" /\ remote' = [remote EXCEPT !.filter = m.filter] /\ UNCHANGED toNode
  <2> DEFINE r == [remote EXCEPT !.filter = m.filter]
  <2>1. m.filter \in Bloom
    BY <1>3, <1>5 DEF OutMsg
  <2>2. r \in Remote /\ r.height = rem.height /\ r.filter = m.filter
    BY <1>1, <2>1 DEF Remote
  <2> HIDE DEF r
  <2>3. /\ IsLoad(o[1]) /\ ~IsPing(o[1]) /\ \A t : ~AsksTx(o[1], t)
    BY <1>3, <1>5 DEF IsLoad, IsPing, AsksTx
  <2>4. Inv(v, q, r) /\ (Safe(s, q, rem) => Safe(v, q, r))
    BY <1>1, <1>2, <1>3, <1>4, <2>2, <2>3, ServesInv DEF p
  <2>5. Inv(node', toNode', remote') /\ (Safe(s, q, rem) => Safe(node', toNode', remote'))
    BY <1>2, <1>5, <2>4 DEF r
  <2> QED
    BY <2>5 DEF SpendsInv
<1>6. CASE m.type = "getdata" /\ ServeGetdata(m)
  <2> DEFINE served == ScanBlocks(remote.filter, m.blocks)
             r == [remote EXCEPT !.filter = served.filter]
             x == toNode \o TxMessages(m.txs) \o served.sent
  <2>1. remote' = r /\ toNode' = x
    BY <1>6 DEF ServeGetdata
  <2>2. /\ Inv(s, x, r) /\ Range(m.txs) \subseteq Carried(x)
        /\ Spends(s, q, rem) => Spends(s, x, r)
    <3>1. Len(s.out) > 0 /\ s.out[1].type = "getdata" /\ s.out[1] = m
      BY <1>3, <1>6
    <3> HIDE DEF m
    <3> QED
      BY <1>1, <3>1, GetdataInv
  <2>3. r \in Remote
    BY <2>2 DEF Inv
  <2> HIDE DEF r, x
  <2>4. /\ ~IsLoad(o[1]) /\ ~IsPing(o[1]) /\ \A t : AsksTx(o[1], t) => t \in Range(m.txs)
    BY <1>3, <1>6 DEF IsLoad, IsPing, AsksTx
  <2>5. Inv(v, x, r) /\ (Safe(s, x, r) => Safe(v, x, r))
    BY <1>1, <1>2, <1>3, <1>4, <2>2, <2>3, <2>4, ServesInv DEF p
  <2>6. Inv(node', toNode', remote') /\ (Safe(s, q, rem) => Safe(node', toNode', remote'))
    BY <1>2, <2>1, <2>2, <2>5 DEF Safe
  <2> QED
    BY <2>6 DEF SpendsInv
<1>7. CASE m.type = "ping" /\ toNode' = Append(toNode, [type |-> "pong"]) /\ UNCHANGED remote
  <2>1. /\ Inv(v, Append(q, [type |-> "pong"]), rem)
        /\ Safe(s, q, rem) => Safe(v, Append(q, [type |-> "pong"]), rem)
    BY <1>1, <1>2, <1>3, <1>4, <1>7, PingServed DEF p
  <2>2. Inv(node', toNode', remote') /\ (Safe(s, q, rem) => Safe(node', toNode', remote'))
    BY <1>2, <1>7, <2>1
  <2> QED
    BY <2>2 DEF SpendsInv
<1>8. ASSUME m.type = "getblocks" \/ m.type = "mempool"
      PROVE  /\ ~IsLoad(o[1]) /\ ~IsPing(o[1]) /\ \A t : ~AsksTx(o[1], t)
  BY <1>3, <1>8 DEF IsLoad, IsPing, AsksTx
<1>9. CASE /\ m.type = "getblocks"
           /\ LET last == Min({remote.height, m.from + MaxInv})
              IN  toNode' = toNode \o
                    InvMessages(<< >>, [i \in 1..(last - m.from) |-> m.from + i])
           /\ UNCHANGED remote
  <2> DEFINE from == m.from
             last == Min({remote.height, from + MaxInv})
             x == toNode \o InvMessages(<< >>, [i \in 1..(last - from) |-> from + i])
  <2>1. toNode' = x /\ remote' = remote
    BY <1>9
  <2>2. from \in 0..Len(Mined)
    BY <1>3, <1>9 DEF OutMsg
  <2> HIDE DEF from
  <2>3. Inv(s, x, rem) /\ (Spends(s, q, rem) => Spends(s, x, rem))
    BY <1>1, <2>2, HashesInv
  <2> HIDE DEF x
  <2>4. Inv(v, x, rem) /\ (Safe(s, x, rem) => Safe(v, x, rem))
    BY <1>1, <1>2, <1>3, <1>4, <1>8, <1>9, <2>3, ServesInv DEF p
  <2>5. Inv(node', toNode', remote') /\ (Safe(s, q, rem) => Safe(node', toNode', remote'))
    BY <1>2, <2>1, <2>3, <2>4 DEF Safe
  <2> QED
    BY <2>5 DEF SpendsInv
<1>10. CASE m.type = "mempool" /\ ServeMempool
  <2> DEFINE T == {t \in remote.pool : Unmined(t)}
  <2>1. PICK txs \in SetToSeqs(T) :
           LET c == Scan(remote.filter, txs)
           IN  /\ toNode' = toNode \o InvMessages(c.matched, << >>)
               /\ remote' = [remote EXCEPT !.filter = c.filter]
    BY <1>10 DEF ServeMempool
  <2> DEFINE c == Scan(remote.filter, txs)
             x == toNode \o InvMessages(c.matched, << >>)
             r == [remote EXCEPT !.filter = c.filter]
  <2>2. T \in SUBSET rem.pool /\ \A t \in T : ~MinedBy(t, rem.height)
    <3>1. rem.height \in Nat
      <4>1. rem.height \in Height0..Len(Mined) /\ Height0 \in Nat /\ Len(Mined) \in Nat
        BY <1>1, NumNat DEF Remote
      <4> QED
        BY <4>1
    <3>2. \A n \in Num : n <= rem.height => n \in 1..rem.height
      BY <3>1, NumNat DEF Num
    <3> QED
      BY <3>2 DEF Unmined, MinedBy
  <2> HIDE DEF T
  <2>3. Inv(s, x, r) /\ r \in Remote /\ (Spends(s, q, rem) => Spends(s, x, r))
    BY <1>1, <2>2, PoolInv
  <2>4. toNode' = x /\ remote' = r
    BY <2>1
  <2>5. r.height = rem.height /\ r.filter = r.filter
    BY <1>1 DEF Remote
  <2> HIDE DEF x, r
  <2>6. Inv(v, x, r) /\ (Safe(s, x, r) => Safe(v, x, r))
    BY <1>1, <1>2, <1>3, <1>4, <1>8, <1>10, <2>3, ServesInv DEF p
  <2>7. Inv(node', toNode', remote') /\ (Safe(s, q, rem) => Safe(node', toNode', remote'))
    BY <1>2, <2>3, <2>4, <2>6 DEF Safe
  <2> QED
    BY <2>7 DEF SpendsInv
<1> QED
  BY <1>5, <1>6, <1>7, <1>9, <1>10, Zenon DEF Serve

(* Every step keeps the invariant, when what it registers is counted. *)
LEMMA NextOK ==
    SyncInv /\ AllCounted /\ [Next]_vars =>
        SyncInv' /\ (LedgerCurrent /\ SpendsInv => SpendsInv')
<1> SUFFICES ASSUME SyncInv, AllCounted, [Next]_vars
             PROVE  SyncInv' /\ (LedgerCurrent /\ SpendsInv => SpendsInv')
  OBVIOUS
<1>1. Inv(node, toNode, remote) /\ drops \in 0..MaxDrops /\ MaxDrops \in Nat
  BY SyncAssumption DEF SyncInv
<1>2. CASE Receive
  <2>1. /\ Inv(AcceptMessage(node, Head(toNode)), Tail(toNode), remote)
        /\ SpendsInv /\ LedgerCurrent =>
              Safe(AcceptMessage(node, Head(toNode)), Tail(toNode), remote)
    BY <1>1, <1>2, ReceiveInv DEF Receive, SpendsInv, LedgerCurrent, AllCounted
  <2>2. /\ Inv(node', toNode', remote') /\ drops' = drops
        /\ SpendsInv /\ LedgerCurrent => Safe(node', toNode', remote')
    BY <1>2, <2>1 DEF Receive
  <2> QED
    BY <1>1, <2>2 DEF SyncInv, SpendsInv
<1>3. CASE MempoolTimeout
  <2> DEFINE v == SendPing([node EXCEPT !.mempool = FALSE], "mempoolDone")
  <2>1. /\ Inv(v, toNode, remote)
        /\ Safe(node, toNode, remote) => Safe(v, toNode, remote)
    BY <1>1, MempoolTimeoutInv
  <2>2. /\ Inv(node', toNode', remote') /\ drops' = drops
        /\ Safe(node, toNode, remote) => Safe(node', toNode', remote')
    BY <1>3, <2>1 DEF MempoolTimeout
  <2> QED
    BY <1>1, <2>2 DEF SyncInv, SpendsInv
<1>4. CASE Drop
  <2>1. Connect /\ drops' = drops + 1 /\ drops < MaxDrops
    BY <1>4 DEF Drop
  <2>2. drops' \in 0..MaxDrops
    BY <1>1, <2>1
  <2>3. Inv(node', toNode', remote') /\ (LedgerCurrent /\ SpendsInv => SpendsInv')
    BY <2>1, ConnectOK
  <2> QED
    BY <2>2, <2>3 DEF SyncInv
<1>5. CASE Timeout
  <2>1. Connect /\ drops' = drops
    BY <1>5 DEF Timeout
  <2>2. Inv(node', toNode', remote') /\ (LedgerCurrent /\ SpendsInv => SpendsInv')
    BY <2>1, ConnectOK
  <2> QED
    BY <1>1, <2>1, <2>2 DEF SyncInv
<1>6. CASE Serve
  <2>1. Inv(node', toNode', remote') /\ (SpendsInv => SpendsInv')
    BY <1>6, ServeOK
  <2>2. drops' = drops
    BY <1>6 DEF Serve
  <2> QED
    BY <1>1, <2>1, <2>2 DEF SyncInv
<1>7. CASE Mine
  <2>1. Inv(node', toNode', remote') /\ (SpendsInv => SpendsInv')
    BY <1>7, MineOK
  <2>2. drops' = drops
    BY <1>7 DEF Mine
  <2> QED
    BY <1>1, <2>1, <2>2 DEF SyncInv
<1>8. ASSUME NEW t \in Relayed, Announce(t)
      PROVE  SyncInv' /\ (LedgerCurrent /\ SpendsInv => SpendsInv')
  <2>1. Inv(node', toNode', remote') /\ (SpendsInv => SpendsInv')
    BY <1>8, AnnounceOK
  <2>2. drops' = drops
    BY <1>8 DEF Announce
  <2> QED
    BY <1>1, <2>1, <2>2 DEF SyncInv
<1>9. CASE UNCHANGED vars
  <2>1. node' = node /\ toNode' = toNode /\ remote' = remote /\ drops' = drops
    BY <1>9 DEF vars
  <2>2. Inv(node', toNode', remote') /\ (Safe(node, toNode, remote) => Safe(node', toNode', remote'))
    BY <1>1, <2>1
  <2> QED
    BY <1>1, <2>1, <2>2 DEF SyncInv, SpendsInv
<1> QED
  BY <1>2, <1>3, <1>4, <1>5, <1>6, <1>7, <1>8, <1>9 DEF Next

-----------------------------------------------------------------------------
(* Whatever comes in whatever order while filters are replaced, connections   *)
(* break and the sync timeout passes, the manager, the wallet and the         *)
(* messages under way stay as SyncInv says, for as long as                    *)
(* _BRWalletUpdateBalance counts every transaction that _peerRelayedTx        *)
(* registers: what the peer can still send is complete for the filter the     *)
(* node has, or will be ignored by _peerRelayedBlock.                         *)
THEOREM SyncCorrect == Spec /\ []AllCounted => []SyncInv
<1>1. Init => SyncInv
  BY InitOK
<1>2. SyncInv /\ AllCounted /\ [Next]_vars => SyncInv'
  BY NextOK
<1> QED
  BY <1>1, <1>2, PTL DEF Spec

(* No payment to the wallet in a block up to the last one is missing unless a  *)
(* transaction that _peerRelayedTx registered was pending or invalid for       *)
(* _BRWalletUpdateBalance, which leaves its addresses unused: a block matched  *)
(* before the wallet knew an address it pays is never taken, because           *)
(* _peerRelayedTx gives the filter up, _peerRelayedBlock ignores blocks        *)
(* without one, and _updateFilterPingDone loads a new one only when            *)
(* everything the old one matched has come.                                    *)
THEOREM NoPaymentMissed == Spec /\ []AllCounted => []NoMissedPayment
<1>1. SyncInv => NoMissedPayment
  <2> SUFFICES ASSUME SyncInv, NEW n \in 1..node.lastBlock, NEW t \in Range(Mined[n]), OursPaid(t)
               PROVE  Found(t, n)
    BY DEF NoMissedPayment
  <2>1. node.lastBlock \in 0..Len(Mined) /\ Got(node.wallet, node.lastBlock)
    BY DEF SyncInv, Inv, Node
  <2>2. n \in Num /\ n <= node.lastBlock
    BY <2>1, NumNat DEF Num
  <2>3. t \in Listed(node.wallet) /\ node.wallet.height[t] = n
    BY <2>1, <2>2 DEF Got
  <2> QED
    BY <2>3 DEF Found, Listed
<1> QED
  BY <1>1, SyncCorrect, PTL

(* Transactions that are neither replaceable nor locked nor in conflict are    *)
(* counted whenever BRWalletRegisterTransaction gets them.                     *)
THEOREM PlainCounted == AllPlain => (Spec => [](SyncInv /\ AllCounted))
<1> SUFFICES ASSUME AllPlain PROVE Spec => [](SyncInv /\ AllCounted)
  OBVIOUS
<1>1. Init => SyncInv
  BY InitOK
<1>2. SyncInv => AllCounted
  <2> SUFFICES ASSUME SyncInv, toNode # << >>, Head(toNode).type = "tx"
               PROVE  CountsAll(RegisterTransaction(node.wallet, Head(toNode).tx))
    BY DEF AllCounted
  <2>1. toNode \in Seq(InMsg) /\ Purse(node.wallet)
    BY DEF SyncInv, Inv, Got
  <2>2. Head(toNode) = toNode[1] /\ Head(toNode) \in InMsg
    BY <2>1, TailAt
  <2>3. Head(toNode).tx \in Tx
    BY <2>2 DEF InMsg
  <2> QED
    BY <2>1, <2>3, PlainRegisters
<1>3. SyncInv /\ [Next]_vars => SyncInv'
  BY <1>2, NextOK
<1> QED
  BY <1>1, <1>2, <1>3, PTL DEF Spec

(* The state is well formed; a block waits exactly while some of its           *)
(* transactions are missing, and every callback of BRPeerSendPing has its      *)
(* ping or pong under way.                                                     *)
THEOREM SyncTypes == AllPlain => (Spec => []TypeOK)
<1> SUFFICES ASSUME AllPlain PROVE Spec => []TypeOK
  OBVIOUS
<1>1. SyncInv => TypeOK
  <2> SUFFICES ASSUME SyncInv PROVE TypeOK
    OBVIOUS
  <2>1. /\ node \in Node /\ toNode \in Seq(InMsg) /\ remote \in Remote /\ drops \in 0..MaxDrops
        /\ Purse(node.wallet) /\ PongsDue(node.pongs, toNode \o node.out)
        /\ Waits(Listed(node.wallet), node.current, node.missing, toNode)
    BY DEF SyncInv, Inv, Got
  <2>2. /\ node.lastBlock \in 0..Len(Mined) /\ node.estimated \in 0..Len(Mined)
        /\ node.orphans \in SUBSET Block /\ node.pongs \in Seq(Callback)
        /\ node.out \in Seq(OutMsg)
    BY <2>1, NodeFields
  <2>3. {x.height : x \in node.orphans} \subseteq DOMAIN Mined
    <3>1. DOMAIN Mined = Num
      BY SyncAssumption DEF Num
    <3> QED
      BY <2>2, <3>1 DEF Block
  <2>4. Range(node.wallet.transactions) \subseteq Tx
    <3>1. node.wallet \in Wallet
      BY <2>1, PurseCounted
    <3>2. node.wallet.transactions \in Seq(Tx)
      BY <3>1, WalletFields
    <3> QED
      BY <3>2 DEF Range
  <2>5. Len(node.pongs) = Cardinality({i \in DOMAIN node.out : node.out[i].type = "ping"})
                          + Cardinality({i \in DOMAIN toNode : toNode[i].type = "pong"})
    BY <2>1, <2>2, PongsCounted
  <2>6. /\ node.missing = {} <=> node.current = NoBlock
        /\ node.missing \subseteq Range(node.current.matched)
    BY <2>1 DEF Waits
  <2>7. remote.height \in Height0..Len(Mined) /\ remote.pool \subseteq Relayed
    BY <2>1 DEF Remote
  <2> QED
    BY <2>1, <2>2, <2>3, <2>4, <2>5, <2>6, <2>7 DEF TypeOK
<1> QED
  BY <1>1, PlainCounted, PTL

(* What NoMissedSpend says, taken from the invariants. *)
LEMMA SpendsHeld == SyncInv /\ SpendsInv => NoMissedSpend
<1> SUFFICES ASSUME SyncInv, SpendsInv, NEW n \in (1..node.lastBlock) \ node.early,
                    NEW t \in Range(Mined[n]), OursSpent(t)
             PROVE  Found(t, n)
  BY DEF NoMissedSpend
<1>1. node.lastBlock \in 0..Len(Mined) /\ Held(node.wallet, node.lastBlock, node.early)
  BY DEF SyncInv, SpendsInv, Safe, Inv, Node
<1>2. n \in Num /\ n <= node.lastBlock /\ n \notin node.early
  BY <1>1, NumNat DEF Num
<1>3. t \in Listed(node.wallet) /\ node.wallet.height[t] = n
  BY <1>1, <1>2 DEF Held, HasSpends
<1> QED
  BY <1>3 DEF Found, Listed

(* No transaction that spends from the wallet is missing from a block up to    *)
(* the last one, but for the blocks taken from the orphans, as long as         *)
(* _BRWalletUpdateBalance counts all and knew every address the chain pays     *)
(* when it computed the ledger: SpentOutputs looks for what to watch in the    *)
(* ledger.  The peer adds what its matches pay to the filter, so a block is    *)
(* scanned with what the blocks before it pay; after _peerRelayedTx gave the   *)
(* filter up, the new one watches all of it.                                   *)
THEOREM SpendsFollowLedger == Spec /\ []AllCounted /\ []LedgerCurrent => []NoMissedSpend
<1>1. Init => SpendsInv
  BY InitOK
<1>2. SyncInv /\ AllCounted /\ LedgerCurrent /\ SpendsInv /\ [Next]_vars => SpendsInv'
  BY NextOK
<1>3. SyncInv /\ SpendsInv => NoMissedSpend
  BY SpendsHeld
<1> QED
  BY <1>1, <1>2, <1>3, SyncCorrect, PTL DEF Spec
=============================================================================
