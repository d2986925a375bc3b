------------------------------ MODULE BTCWallet ------------------------------
(* The wallet of BRWallet.c: the transactions it holds, the addresses it     *)
(* watches, and the ledger (unspent outputs, balance, invalid and pending    *)
(* transactions) it recomputes from them.  A wallet is a record; every       *)
(* function of BRWallet.c that changes it under wallet->lock is an operator  *)
(* from a wallet to a wallet, so that the callers, which change it several   *)
(* times in one handler, can be written as they are.                         *)
(*                                                                           *)
(* Left out: totalSent, totalReceived and balanceHist (sums of the same      *)
(* walk), fees and transaction building, scripts and signatures (every       *)
(* transaction here is signed), and locks by time.                           *)
EXTENDS Integers, FiniteSets, SequencesExt

CONSTANTS
    Tx,           \* the transactions that may come up, named by their hash
    Inputs,       \* Inputs[t]: the outputs t spends, as pairs <<hash, n>>
    Outputs,      \* Outputs[t]: a sequence of [address, amount]
    Replaceable,  \* those pending for their own sake while unconfirmed: too
                  \* large, with a dust output, or marked replace-by-fee
    LockTime,     \* LockTime[t]: the height t is locked until, 0 for none
    GapLimit      \* GapLimit["external"], GapLimit["internal"]

Chains == {"external", "internal"}

ASSUME TxAssumption ==
    /\ \A t \in Tx : \A i \in Inputs[t] : i[2] \in Nat
    /\ \A t \in Tx : Outputs[t] \in Seq([address : STRING \X Nat, amount : Nat])
    /\ Replaceable \subseteq Tx
    /\ LockTime \in [Tx -> Nat]
    /\ GapLimit \in [Chains -> Nat \ {0}]

(* The height of a transaction in no block: INT32_MAX. *)
TX_UNCONFIRMED == 2147483647

Unconfirmed(w, t) == w.height[t] = TX_UNCONFIRMED
Parents(t) == {i[1] : i \in Inputs[t]} \cap Tx

(* An address of the wallet is <<chain, index>>; the wallet has generated    *)
(* the first w.chain[c] addresses of each chain.                             *)
AllAddrs(w) == UNION {{c} \X (0..(w.chain[c] - 1)) : c \in Chains}
Pays(t, addrs) == \E i \in DOMAIN Outputs[t] : Outputs[t][i].address \in addrs

(* What of a sequence is in a set, and what is not, in its order. *)
Within(s, T) ==
    LET kept[n \in 0..Len(s)] ==
          IF n = 0 THEN << >>
          ELSE IF s[n] \in T THEN Append(kept[n - 1], s[n]) ELSE kept[n - 1]
    IN  kept[Len(s)]
Without(s, T) == Within(s, Range(s) \ T)

(* The outputs of t that pay one of a set of addresses, and those of the     *)
(* wallet in output order.                                                   *)
Utxo(t, i) == <<t, i - 1>>
PaidTo(t, addrs) ==
    {Utxo(t, i) : i \in {j \in DOMAIN Outputs[t] : Outputs[t][j].address \in addrs}}
Received(w, t) ==
    Within([i \in DOMAIN Outputs[t] |-> Utxo(t, i)], PaidTo(t, AllAddrs(w)))

AmountOf(u) == Outputs[u[1]][u[2] + 1].amount
AmountsOf(us) ==
    LET sum[n \in 0..Len(us)] == IF n = 0 THEN 0 ELSE sum[n - 1] + AmountOf(us[n])
    IN  sum[Len(us)]

(* A transaction touches the wallet when it pays one of its addresses or     *)
(* spends an output, of a transaction it knows, that does.                   *)
ContainsTx(w, t) ==
    \/ Pays(t, AllAddrs(w))
    \/ \E i \in Inputs[t] :
         /\ i[1] \in w.allTx
         /\ i[2] + 1 \in DOMAIN Outputs[i[1]]
         /\ Outputs[i[1]][i[2] + 1].address \in AllAddrs(w)

-----------------------------------------------------------------------------
(* The order of w.transactions: by height, a transaction after those it      *)
(* spends from, and, for what is left, by the last address of a chain that   *)
(* it pays.                                                                  *)

TxIsAscending(w, t1, t2) ==
    LET later(t) == w.height[t] > w.height[t2]
        spends[t \in Tx] ==
          \/ t2 \in Parents(t)
          \/ /\ t \notin Parents(t2)
             /\ \E p \in Parents(t) \cap w.allTx :
                  later(p) \/ (w.height[p] = w.height[t2] /\ spends[p])
    IN  later(t1) \/ (w.height[t1] = w.height[t2] /\ spends[t1])

(* The last position of chain c that t pays, -1 when there is none. *)
TxChainIndex(w, t, c) ==
    Max({-1} \cup {k \in 0..(w.chain[c] - 1) : Pays(t, {<<c, k>>})})

TxIsAfter(w, t1, t2) ==
    LET internal == TxChainIndex(w, t1, "internal")
        i == IF internal # -1 THEN internal ELSE TxChainIndex(w, t1, "external")
        j == TxChainIndex(w, t2, IF internal = -1 THEN "external" ELSE "internal")
    IN  \/ TxIsAscending(w, t1, t2)
        \/ ~TxIsAscending(w, t2, t1) /\ j # -1 /\ i > j

(* The insertion sort stops at the first one, from the end, not after t. *)
InsertTx(w, t) ==
    LET txs == w.transactions
        k == Max({0} \cup {i \in DOMAIN txs : ~TxIsAfter(w, txs[i], t)})
    IN  [w EXCEPT !.transactions = InsertAt(txs, k + 1, t)]

-----------------------------------------------------------------------------
(* The ledger. *)

(* An unconfirmed transaction is invalid when it spends what an earlier one  *)
(* spends, or an output of an invalid one.                                   *)
SpendsInvalid(w, t) ==
    /\ Unconfirmed(w, t)
    /\ \E i \in Inputs[t] : i \in w.spentOutputs \/ i[1] \in w.invalidTx

(* The code compares lockTime with blockHeight + 1, in 32 unsigned bits. *)
IsPostdated(w, t) ==
    /\ Unconfirmed(w, t)
    /\ \/ t \in Replaceable
       \/ Inputs[t] # {} /\ LockTime[t] - 1 > w.blockHeight
       \/ \E i \in Inputs[t] : i[1] \in w.pendingTx

(* Mutants of AccountTx: only what the transaction itself spends is dropped   *)
(* from the unspent outputs; what is dropped stays in the balance.           *)
AccountOwnInputs(w, t) ==
    LET grown == w.utxos \o Received(w, t)
        dropped == Within(grown, Inputs[t])
    IN  IF SpendsInvalid(w, t)
        THEN [w EXCEPT !.invalidTx = @ \cup {t}]
        ELSE IF IsPostdated(w, t)
        THEN [w EXCEPT !.spentOutputs = @ \cup Inputs[t], !.pendingTx = @ \cup {t}]
        ELSE [w EXCEPT
                !.spentOutputs = @ \cup Inputs[t],
                !.usedAddrs = @ \cup {Outputs[t][i].address : i \in DOMAIN Outputs[t]},
                !.utxos = Without(grown, Inputs[t]),
                !.balance = @ + AmountsOf(Received(w, t)) - AmountsOf(dropped)]
AccountKeepingSpent(w, t) ==
    LET spent == w.spentOutputs \cup Inputs[t]
    IN  IF SpendsInvalid(w, t)
        THEN [w EXCEPT !.invalidTx = @ \cup {t}]
        ELSE IF IsPostdated(w, t)
        THEN [w EXCEPT !.spentOutputs = spent, !.pendingTx = @ \cup {t}]
        ELSE [w EXCEPT
                !.spentOutputs = spent,
                !.usedAddrs = @ \cup {Outputs[t][i].address : i \in DOMAIN Outputs[t]},
                !.utxos = Without(@ \o Received(w, t), spent),
                !.balance = @ + AmountsOf(Received(w, t))]

(* One round of the walk.  Each output added or dropped moves the balance. *)
AccountTx(w, t) ==
    LET spent == w.spentOutputs \cup Inputs[t]
        grown == w.utxos \o Received(w, t)
        dropped == Within(grown, spent)
    IN  IF SpendsInvalid(w, t)
        THEN [w EXCEPT !.invalidTx = @ \cup {t}]
        ELSE IF IsPostdated(w, t)
        THEN [w EXCEPT !.spentOutputs = spent, !.pendingTx = @ \cup {t}]
        ELSE [w EXCEPT
                !.spentOutputs = spent,
                !.usedAddrs = @ \cup {Outputs[t][i].address : i \in DOMAIN Outputs[t]},
                !.utxos = Without(grown, spent),
                !.balance = @ + AmountsOf(Received(w, t)) - AmountsOf(dropped)]

ClearedLedger(w) ==
    [w EXCEPT !.utxos = << >>, !.balance = 0, !.spentOutputs = {}, !.invalidTx = {},
              !.pendingTx = {}, !.usedAddrs = {}, !.ledgerAddrs = AllAddrs(w)]

UpdateBalance(w) ==
    LET walk[n \in 0..Len(w.transactions)] ==
          IF n = 0 THEN ClearedLedger(w) ELSE AccountTx(walk[n - 1], w.transactions[n])
    IN  walk[Len(w.transactions)]

(* The position after the last used address of chain c before position n. *)
FirstUnused(w, c, n) ==
    Max({0} \cup {a[2] + 1 : a \in {u \in w.usedAddrs : u[1] = c /\ u[2] < n}})

(* Generate addresses of chain c until its last gap ones are unused. *)
UnusedAddrs(w, c, gap) ==
    LET used == {a[2] : a \in {u \in w.usedAddrs : u[1] = c}}
        enough == Max({w.chain[c]} \cup {k + 1 : k \in used}) + gap
    IN  [w EXCEPT !.chain[c] =
           Min({n \in w.chain[c]..enough : FirstUnused(w, c, n) + gap <= n})]

GrowChains(w, more) ==
    UnusedAddrs(UnusedAddrs(w, "external", GapLimit["external"] + more),
                "internal", GapLimit["internal"] + more)

-----------------------------------------------------------------------------
(* The operations. *)

EmptyWallet ==
    [transactions |-> << >>, allTx |-> {}, blockHeight |-> 0,
     height |-> [t \in Tx |-> TX_UNCONFIRMED], timestamp |-> [t \in Tx |-> 0],
     utxos |-> << >>, balance |-> 0, spentOutputs |-> {}, invalidTx |-> {},
     pendingTx |-> {}, usedAddrs |-> {}, ledgerAddrs |-> {},
     chain |-> [c \in Chains |-> 0]]

(* A new wallet, from the stored transactions in the order they are read. *)
LoadTx(w, t, height, timestamp) ==
    InsertTx([w EXCEPT !.allTx = @ \cup {t}, !.height[t] = height[t],
                       !.timestamp[t] = timestamp[t],
                       !.usedAddrs = @ \cup {Outputs[t][i].address : i \in DOMAIN Outputs[t]}],
             t)

Loaded(txs, height, timestamp) ==
    LET load[n \in 0..Len(txs)] ==
          IF n = 0 THEN EmptyWallet ELSE LoadTx(load[n - 1], txs[n], height, timestamp)
    IN  load[Len(txs)]

WalletNew(txs, height, timestamp) ==
    UpdateBalance(GrowChains(Loaded(txs, height, timestamp), 0))

(* Loading is refused when the first transaction read is not the wallet's. *)
Accepts(w, txs) == txs # << >> => ContainsTx(w, txs[1])

(* Mutant of RegisterTransaction: a known transaction is inserted again. *)
RegisterAgain(w, t) ==
    IF ContainsTx(w, t)
    THEN GrowChains(UpdateBalance(InsertTx([w EXCEPT !.allTx = @ \cup {t}], t)), 0)
    ELSE [w EXCEPT !.allTx = @ \cup {t}]

(* Register: an unconfirmed one that is not the wallet's is only remembered. *)
RegisterTransaction(w, t) ==
    IF t \in w.allTx THEN w
    ELSE IF ContainsTx(w, t)
    THEN GrowChains(UpdateBalance(InsertTx([w EXCEPT !.allTx = @ \cup {t}], t)), 0)
    ELSE IF Unconfirmed(w, t) THEN [w EXCEPT !.allTx = @ \cup {t}]
    ELSE w

(* Mutant of Reinsert: the list stays as it is. *)
ReinsertNever(w, t) == w

(* UpdateTransactions for one hash: the transaction is taken out and put     *)
(* back in order; a confirmed one that is not the wallet's is forgotten.     *)
Reinsert(w, t) ==
    IF t \in Range(w.transactions)
    THEN InsertTx([w EXCEPT !.transactions = Without(@, {t})], t)
    ELSE w

SetHeight(w, t, height, timestamp) ==
    LET v == [w EXCEPT !.height[t] = height, !.timestamp[t] = timestamp]
    IN  IF t \notin w.allTx \/ (w.height[t] = height /\ w.timestamp[t] = timestamp)
        THEN w
        ELSE IF ContainsTx(v, t) THEN Reinsert(v, t)
        ELSE IF height # TX_UNCONFIRMED
        THEN [w EXCEPT !.allTx = @ \ {t}, !.height[t] = TX_UNCONFIRMED,
                       !.timestamp[t] = 0]
        ELSE v

(* The ledger is recomputed only when one of the transactions was pending    *)
(* or invalid in it.                                                         *)
SetHeights(w, hashes, height, timestamp) ==
    LET set[n \in 0..Len(hashes)] ==
          IF n = 0 THEN w ELSE SetHeight(set[n - 1], hashes[n], height, timestamp)
    IN  set[Len(hashes)]

UpdateTransactions(w, hashes, height, timestamp) ==
    LET raised == [w EXCEPT !.blockHeight = Max({@, height})]
        updated == SetHeights(raised, hashes, height, timestamp)
        needsUpdate == \E t \in Range(hashes) \cap w.allTx :
                          /\ w.height[t] # height \/ w.timestamp[t] # timestamp
                          /\ ContainsTx(w, t) /\ t \in w.pendingTx \cup w.invalidTx
    IN  IF needsUpdate THEN UpdateBalance(updated) ELSE updated

(* How the peer manager confirms the transactions of a block: it does not    *)
(* call the wallet for a block without any.                                  *)
ConfirmTransactions(w, hashes, height) ==
    IF hashes = << >> THEN w ELSE UpdateTransactions(w, hashes, height, 1)

(* From the end of the list back to the first one not after the height. *)
SetTxUnconfirmedAfter(w, height) ==
    LET txs == w.transactions
        k == Max({0} \cup {i \in DOMAIN txs : w.height[txs[i]] <= height})
        after == {txs[i] : i \in (k + 1)..Len(txs)}
        v == [w EXCEPT !.blockHeight = height,
                       !.height = [t \in Tx |-> IF t \in after THEN TX_UNCONFIRMED
                                                ELSE @[t]]]
    IN  IF after = {} THEN v ELSE UpdateBalance(v)

(* Mutant of Dependents: the scan stops at the height of t as well. *)
DependentsAbove(w, t) ==
    LET txs == w.transactions
        from == Max({0} \cup {i \in DOMAIN txs : w.height[txs[i]] <= w.height[t]})
    IN  Within(Reverse(SubSeq(txs, from + 1, Len(txs))),
               {u \in Tx : u # t /\ t \in Parents(u)})

(* Those the scan for dependents of t finds, newest first: it stops at the   *)
(* first transaction older than t.                                           *)
Dependents(w, t) ==
    LET txs == w.transactions
        from == Max({0} \cup {i \in DOMAIN txs : w.height[txs[i]] < w.height[t]})
    IN  Within(Reverse(SubSeq(txs, from + 1, Len(txs))),
               {u \in Tx : u # t /\ t \in Parents(u)})

(* Taking out a transaction without dependents.  It stays in allTx. *)
RemoveLeaf(w, t) ==
    UpdateBalance([w EXCEPT !.transactions = Without(@, {t})])

=============================================================================
