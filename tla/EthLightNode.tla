---------------------------- MODULE EthLightNode ----------------------------
(***************************************************************************)
(* The Ethereum light node (ethereum/BREthereumLightNode.c and             *)
(* BREthereumLightNodeAnnounce.c) with its wallets (BREthereumWallet.c),   *)
(* its transactions (BREthereumTransaction.c) and the nonce of its address *)
(* (BREthereumAccount.c).                                                  *)
(*                                                                         *)
(* The node polls an RPC service; every answer comes back as an Announce   *)
(* call, on another thread, at any later time, in any order, any number of *)
(* times (the next poll asks again) or never.  So an answer is any value   *)
(* that was true at some time in the past.  Every Announce call and        *)
(* CreateTransaction runs under the node's recursive lock and is a step;   *)
(* but signing and lightNodeAnnounceNonce take no lock: there every load   *)
(* and every store of shared state is a step of its own.                   *)
(*                                                                         *)
(* Block chain and transaction pool are external.  At most one reply per   *)
(* submission: the app submits a transaction once, after signing it.       *)
(***************************************************************************)
EXTENDS Integers, SequencesExt

CONSTANTS
    Token,          \* the ERC20 tokens that tokenLookup knows
    Ether,          \* the holding of a wallet without a token
    NotAssigned,    \* TRANSACTION_NONCE_IS_NOT_ASSIGNED, UINT64_MAX
    MaxTx,          \* bound: transactions the node holds
    MaxMined,       \* bound: transactions of interest in the chain
    MaxBlock        \* bound: height of the chain

ASSUME ConstantsAssumption ==
    /\ Ether \notin Token
    /\ NotAssigned \in Nat
    /\ MaxTx \in Nat /\ MaxMined \in Nat /\ MaxBlock \in Nat

VARIABLES
    wallets,        \* node->wallets: holding, and transaction ids in order
    transactions,   \* node->transactions, by transaction id
    blocks,         \* node->blocks: the blocks heard of, a set
    nonce,          \* nonce of the primary address
    signing,        \* what the app is signing, with the nonce it has loaded
    compared,       \* counts that were above the nonce, to be stored
    stale,          \* history: such a count was stored when it no longer was
    blockHeight,    \* node->blockHeight
    submitted,      \* ids that the app has submitted
    replies,        \* ids whose submission was accepted, reply under way
    mempool,        \* external: ids that the network may mine
    mined,          \* external: transactions of interest, in chain order
    head            \* external: number of the newest sealed block

nonceVars == <<nonce, signing, compared, stale>>
nodeVars == <<wallets, transactions, blocks, nonceVars, blockHeight>>
netVars == <<mempool, mined, head>>
vars == <<nodeVars, submitted, replies, netVars>>

Holding == Token \cup {Ether}
Status == {"CREATED", "SIGNED", "SUBMITTED", "BLOCKED"}

(* Hashes.  A transaction signed here has its id as its hash; one that     *)
(* comes from elsewhere is named by its place in the chain.                *)
NoHash == 0
RemoteHash == MaxTx + Len(mined) + 1

EtherWallet == 1                              \* node->walletHoldingEther

Init ==
    /\ wallets = <<[token |-> Ether, txs |-> <<>>]>>
    /\ transactions = <<>>
    /\ blocks = {}
    /\ nonce = 0 /\ signing = {} /\ compared = {} /\ stale = FALSE
    /\ blockHeight = 0
    /\ submitted = {}
    /\ replies = {}
    /\ mempool = {}
    /\ mined = <<>>
    /\ head = 0
-----------------------------------------------------------------------------
(* Transactions and their order in a wallet.                               *)

(* transactionCreate; `local` tells the ones made by this app. *)
NewTransaction(own, local, n) ==
    [own |-> own, local |-> local, nonce |-> n, hash |-> NoHash,
     status |-> "CREATED", number |-> 0, index |-> 0]

Blocked(x) == x.status = "BLOCKED"

(* transactionCompare(x, y) is ETHEREUM_COMPARISON_LT *)
Before(x, y) ==
    \/ Blocked(x) /\ ~Blocked(y)
    \/ /\ Blocked(x) /\ Blocked(y)
       /\ \/ x.number < y.number
          \/ x.number = y.number /\ x.index < y.index
    \/ ~Blocked(x) /\ ~Blocked(y) /\ x.nonce < y.nonce

(* walletInsertTransactionSorted: scan from the end while t is before the  *)
(* transaction there.                                                      *)
InsertSorted(txs, list, t) ==
    LET stops == {i \in 1..Len(list) : ~Before(txs[t], txs[list[i]])}
    IN  InsertAt(list, Max(stops \cup {0}) + 1, t)

(* Mutants of UpdateSorted: inserted again but not removed; not moved. *)
UpdateWithoutRemove(txs, list, t) == InsertSorted(txs, list, t)
UpdateInPlace(txs, list, t) == list

(* walletUpdateTransactionSorted: look its place up, remove, then insert. *)
UpdateSorted(txs, list, t) ==
    InsertSorted(txs, RemoveAt(list, SelectInSeq(list, LAMBDA u : u = t)), t)

(* walletGetTransactionByHash and walletGetTransactionByNonce: the first   *)
(* match in the wallet's order, 0 for none.                                *)
FirstWhere(list, Test(_)) ==
    LET i == SelectInSeq(list, Test) IN IF i = 0 THEN 0 ELSE list[i]

ByHash(list, h) ==
    FirstWhere(list, LAMBDA t : h # NoHash /\ transactions[t].hash = h)
ByNonce(list, n) ==
    FirstWhere(list, LAMBDA t : transactions[t].own /\ transactions[t].nonce = n)

(* lightNodeAnnounceBlock: look the block up by hash or insert it. *)
WithBlock(h, number) ==
    IF \E b \in blocks : b.hash = h THEN blocks
    ELSE blocks \cup {[hash |-> h, number |-> number]}

(* walletTransactionBlocked on the transactions and a wallet's list. *)
AsBlocked(txs, t, m) ==
    [txs EXCEPT ![t].status = "BLOCKED", ![t].number = m.number,
                ![t].index = m.index]

(* Mutant of MarkBlocked: a transaction that has its hash is left alone. *)
MarkUnlessHashed(txs, ws, w, t, m) ==
    IF txs[t].hash # NoHash
    THEN transactions' = txs /\ wallets' = ws
    ELSE LET blockedTxs == AsBlocked(txs, t, m)
         IN  /\ transactions' = blockedTxs
             /\ wallets' = [ws EXCEPT ![w].txs = UpdateSorted(blockedTxs, @, t)]

(* What AnnounceTransaction and AnnounceLog have in common: transaction t  *)
(* of wallet w, in the node txs and wallets ws, is in the chain as m.      *)
MarkBlocked(txs, ws, w, t, m) ==
    IF Blocked(txs[t])
    THEN transactions' = txs /\ wallets' = ws
    ELSE LET blockedTxs == AsBlocked(txs, t, m)
         IN  /\ transactions' = blockedTxs
             /\ wallets' = [ws EXCEPT ![w].txs = UpdateSorted(blockedTxs, @, t)]

(* Steps a) to d) of both: a transaction first heard of from the chain.    *)
(* It is inserted in the wallet unblocked, and then gets its hash.         *)
HeardOf(ws, w, m, n) ==
    LET t   == Len(transactions) + 1
        new == Append(transactions, NewTransaction(m.own, FALSE, n))
        sub == [new EXCEPT ![t].status = "SUBMITTED", ![t].hash = m.hash]
    IN  /\ Len(transactions) < MaxTx
        /\ MarkBlocked(sub, [ws EXCEPT ![w].txs = InsertSorted(new, @, t)], w, t, m)
-----------------------------------------------------------------------------
(* The app.                                                                *)

(* Mutant of CreateTransaction: in the wallet, but not in the node. *)
CreateInWalletOnly(w) ==
    /\ w \in 1..Len(wallets)
    /\ Len(transactions) < MaxTx
    /\ LET t   == Len(transactions) + 1
           new == Append(transactions, NewTransaction(TRUE, TRUE, NotAssigned))
       IN  wallets' = [wallets EXCEPT ![w].txs = InsertSorted(new, @, t)]
    /\ UNCHANGED <<transactions, blocks, nonceVars, blockHeight, submitted, replies,
                   netVars>>

(* lightNodeWalletCreateTransaction *)
CreateTransaction(w) ==
    /\ w \in 1..Len(wallets)
    /\ Len(transactions) < MaxTx
    /\ LET t   == Len(transactions) + 1
           new == Append(transactions, NewTransaction(TRUE, TRUE, NotAssigned))
       IN  /\ transactions' = new
           /\ wallets' = [wallets EXCEPT ![w].txs = InsertSorted(new, @, t)]
    /\ UNCHANGED <<blocks, nonceVars, blockHeight, submitted, replies, netVars>>

(* walletSignTransaction, with or without paper key.  The app signs each   *)
(* transaction once, from one thread, and then submits it                  *)
(* (WalletEthManager.java, 241-242).  A nonce is needed: its load, ...     *)
LoadNonce(t) ==
    /\ signing = {}
    /\ t \in 1..Len(transactions)
    /\ transactions[t].local
    /\ transactions[t].nonce = NotAssigned
    /\ nonce < NotAssigned
    /\ signing' = {[id |-> t, nonce |-> nonce]}
    /\ UNCHANGED <<wallets, transactions, blocks, nonce, compared, stale, blockHeight,
                   submitted, replies, netVars>>

(* Mutant of AssignNonce: the nonce of the address is not incremented. *)
AssignWithoutIncrement ==
    \E s \in signing :
        /\ transactions[s.id].nonce = NotAssigned
        /\ transactions' = [transactions EXCEPT ![s.id].nonce = s.nonce]
        /\ nonce' = s.nonce
        /\ UNCHANGED <<wallets, blocks, signing, compared, stale, blockHeight,
                       submitted, replies, netVars>>

(* ... the store of the next one, and that of the transaction's own: one   *)
(* step, as no other depends on both.  The wallet is not sorted again.     *)
AssignNonce ==
    \E s \in signing :
        /\ transactions[s.id].nonce = NotAssigned
        /\ transactions' = [transactions EXCEPT ![s.id].nonce = s.nonce]
        /\ nonce' = s.nonce + 1
        /\ UNCHANGED <<wallets, blocks, signing, compared, stale, blockHeight,
                       submitted, replies, netVars>>

(* Mutant of SignTransaction: the nonce is taken from the address again. *)
SignWithNewNonce ==
    \E s \in signing :
        /\ transactions[s.id].nonce # NotAssigned
        /\ transactions' = [transactions EXCEPT ![s.id].nonce = nonce,
                                                ![s.id].status = "SIGNED"]
        /\ signing' = {}
        /\ UNCHANGED <<wallets, blocks, nonce, compared, stale, blockHeight,
                       submitted, replies, netVars>>

(* transactionSign, after encoding: whatever the status was, even if the   *)
(* chain was found to hold a transaction with this nonce.                  *)
SignTransaction ==
    \E s \in signing :
        /\ transactions[s.id].nonce # NotAssigned
        /\ transactions' = [transactions EXCEPT ![s.id].status = "SIGNED"]
        /\ signing' = {}
        /\ UNCHANGED <<wallets, blocks, nonce, compared, stale, blockHeight,
                       submitted, replies, netVars>>

(* Transactions of the account in the first blocks of the chain. *)
AccountNonce(number) ==
    Cardinality({i \in 1..Len(mined) : mined[i].own /\ mined[i].number <= number})

(* lightNodeWalletSubmitTransaction.  The network takes the transaction    *)
(* into its pool unless its nonce is used up, or the request is lost (the  *)
(* app in the background, an RPC error, no network).                       *)
SubmitTransaction(t) ==
    /\ t \in 1..Len(transactions)
    /\ transactions[t].local
    /\ transactions[t].nonce # NotAssigned /\ \A s \in signing : s.id # t
    /\ t \notin submitted
    /\ submitted' = submitted \cup {t}
    /\ \/ /\ transactions[t].nonce >= AccountNonce(head)
          /\ mempool' = mempool \cup {t}
          /\ replies' = replies \cup {t}
       \/ UNCHANGED <<mempool, replies>>
    /\ UNCHANGED <<nodeVars, mined, head>>

(* lightNodeGetWalletHoldingToken: look the wallet up or create it. *)
WalletFor(token) == SelectInSeq(wallets, LAMBDA w : w.token = token)

(* Mutant of WithWallet: a wallet is made without looking for one. *)
AlwaysNewWallet(token) == Append(wallets, [token |-> token, txs |-> <<>>])

WithWallet(token) ==
    IF WalletFor(token) # 0 THEN wallets
    ELSE Append(wallets, [token |-> token, txs |-> <<>>])

GetWalletHoldingToken(token) ==
    /\ WalletFor(token) = 0
    /\ wallets' = WithWallet(token)
    /\ UNCHANGED <<transactions, blocks, nonceVars, blockHeight, submitted, replies,
                   netVars>>
-----------------------------------------------------------------------------
(* Answers of the RPC service.                                             *)

(* lightNodeAnnounceBlockNumber *)
AnnounceBlockNumber(number) ==
    /\ number > blockHeight
    /\ blockHeight' = number
    /\ UNCHANGED <<wallets, transactions, blocks, nonceVars, submitted, replies,
                   netVars>>

(* lightNodeAnnounceNonce: the transaction count of the account at some    *)
(* block.  addressSetNonce without force compares it with the nonce ...    *)
CompareNonce(number) ==
    /\ AccountNonce(number) > nonce
    /\ compared' = compared \cup {AccountNonce(number)}
    /\ UNCHANGED <<wallets, transactions, blocks, nonce, signing, stale, blockHeight,
                   submitted, replies, netVars>>

(* ... and stores it. *)
StoreNonce(n) ==
    /\ n \in compared
    /\ nonce' = n
    /\ compared' = compared \ {n}
    /\ stale' = (stale \/ n < nonce)
    /\ UNCHANGED <<wallets, transactions, blocks, signing, blockHeight, submitted,
                   replies, netVars>>

(* lightNodeAnnounceSubmitTransaction: whatever the status was. *)
AnnounceSubmitTransaction(t) ==
    /\ t \in replies
    /\ transactions' = [transactions EXCEPT ![t].status = "SUBMITTED",
                                            ![t].hash = t]
    /\ replies' = replies \ {t}
    /\ UNCHANGED <<wallets, blocks, nonceVars, blockHeight, submitted, netVars>>

LoseReply(t) ==
    /\ t \in replies
    /\ replies' = replies \ {t}
    /\ UNCHANGED <<nodeVars, submitted, netVars>>

(* Mutant of FindTransaction: the nonce is not tried. *)
FindByHashOnly(m) == ByHash(wallets[EtherWallet].txs, m.hash)

(* The Ether wallet's transaction for m: by hash, else, if the account is  *)
(* the source, by nonce; 0 for none.                                       *)
FindTransaction(m) ==
    LET list == wallets[EtherWallet].txs
    IN  IF ByHash(list, m.hash) # 0 \/ ~m.own
        THEN ByHash(list, m.hash)
        ELSE ByNonce(list, m.nonce)

(* lightNodeAnnounceTransaction, for a transaction that the account sent   *)
(* or that sends Ether to it: always the Ether wallet.                     *)
AnnounceTransaction(m) ==
    /\ m.own \/ m.token = Ether
    /\ LET found == FindTransaction(m)
       IN  IF found = 0
           THEN HeardOf(wallets, EtherWallet, m, m.nonce)
           ELSE MarkBlocked(transactions, wallets, EtherWallet, found, m)
    /\ blocks' = WithBlock(<<"block", m.number>>, m.number)
    /\ UNCHANGED <<nonceVars, blockHeight, submitted, replies, netVars>>

(* lightNodeAnnounceLog, for an ERC20 transfer of a known token to or from *)
(* the account: the token's wallet, created on demand; found by hash only, *)
(* else created with nonce 0.  The block's hash is taken to be the         *)
(* transaction's.                                                          *)
AnnounceLog(m) ==
    /\ m.token # Ether
    /\ LET ws == WithWallet(m.token)
           w  == SelectInSeq(ws, LAMBDA x : x.token = m.token)
           found == ByHash(ws[w].txs, m.hash)
       IN  IF found = 0
           THEN HeardOf(ws, w, m, 0)
           ELSE MarkBlocked(transactions, ws, w, found, m)
    /\ blocks' = WithBlock(<<"log", m.hash>>, m.number)
    /\ UNCHANGED <<nonceVars, blockHeight, submitted, replies, netVars>>
-----------------------------------------------------------------------------
(* The network: which transactions of interest the next block holds.       *)

MineInNextBlock(hash, own, n, token) ==
    /\ Len(mined) < MaxMined
    /\ head < MaxBlock
    /\ mined' = Append(mined,
          [hash |-> hash, own |-> own, nonce |-> n, token |-> token,
           number |-> head + 1,
           index |-> Cardinality({i \in 1..Len(mined) :
                                      mined[i].number = head + 1})])
    /\ UNCHANGED <<nodeVars, submitted, replies, head>>

(* A transaction of this app, in the order of the account's nonces. *)
MineLocal(t) ==
    /\ t \in mempool
    /\ transactions[t].nonce = AccountNonce(head + 1)
    /\ mempool' = mempool \ {t}
    /\ \E w \in 1..Len(wallets) :
          /\ Contains(wallets[w].txs, t)
          /\ MineInNextBlock(t, TRUE, transactions[t].nonce, wallets[w].token)

(* A transaction that another device of the user has signed with the same  *)
(* account, or one that somebody else sends to the account.                *)
MineRemote(own, token) ==
    /\ MineInNextBlock(RemoteHash, own,
                       IF own THEN AccountNonce(head + 1) ELSE 0, token)
    /\ UNCHANGED mempool

SealBlock ==
    /\ head < MaxBlock
    /\ head' = head + 1
    /\ UNCHANGED <<nodeVars, submitted, replies, mempool, mined>>

Visible == {i \in 1..Len(mined) : mined[i].number <= head}
-----------------------------------------------------------------------------
Next ==
    \/ \E w \in 1..Len(wallets) : CreateTransaction(w)
    \/ \E t \in 1..Len(transactions) : LoadNonce(t) \/ SubmitTransaction(t)
    \/ AssignNonce \/ SignTransaction
    \/ \E token \in Token : GetWalletHoldingToken(token)
    \/ \E number \in 0..head : AnnounceBlockNumber(number) \/ CompareNonce(number)
    \/ \E n \in compared : StoreNonce(n)
    \/ \E t \in replies : AnnounceSubmitTransaction(t) \/ LoseReply(t)
    \/ \E i \in Visible : AnnounceTransaction(mined[i]) \/ AnnounceLog(mined[i])
    \/ \E t \in mempool : MineLocal(t)
    \/ \E own \in BOOLEAN, token \in Holding : MineRemote(own, token)
    \/ SealBlock

Spec == Init /\ [][Next]_vars

(* The node polls for ever: what the chain holds is announced again and    *)
(* again.  Nothing else has to happen.                                     *)
Fairness ==
    \A i \in 1..MaxMined :
        WF_vars(i \in Visible /\ AnnounceTransaction(mined[i]))

FairSpec == Spec /\ Fairness
-----------------------------------------------------------------------------
TransactionType ==
    [own : BOOLEAN, local : BOOLEAN, nonce : Nat, hash : Nat, status : Status,
     number : Nat, index : Nat]
MinedType ==
    [hash : Nat \ {0}, own : BOOLEAN, nonce : Nat, token : Holding,
     number : Nat, index : Nat]

(* Type invariant. *)
TypeOK ==
    /\ transactions \in Seq(TransactionType)
    /\ wallets \in Seq([token : Holding, txs : Seq(1..Len(transactions))])
    /\ blocks \subseteq [hash : ({"block", "log"} \X Nat), number : Nat]
    /\ nonce \in Nat /\ compared \subseteq Nat /\ stale \in BOOLEAN
    /\ signing \subseteq [id : 1..Len(transactions), nonce : Nat]
    /\ blockHeight \in Nat
    /\ submitted \subseteq 1..Len(transactions)
    /\ replies \subseteq submitted
    /\ mempool \subseteq submitted
    /\ mined \in Seq(MinedType)
    /\ head \in Nat

(* LightNodePrivate.h: one wallet holds Ether, and there is one wallet per *)
(* token, although a wallet is made on demand by the app and by logs.      *)
OneWalletPerHolding ==
    /\ Len(wallets) >= 1 /\ wallets[EtherWallet].token = Ether
    /\ \A v, w \in 1..Len(wallets) : wallets[v].token = wallets[w].token => v = w

(* Every transaction of the node is in exactly one wallet, once: removing  *)
(* and inserting it, when it gets its block, loses and doubles nothing.    *)
InOneWallet ==
    /\ \A t \in 1..Len(transactions) : \E w \in 1..Len(wallets) :
          Contains(wallets[w].txs, t)
    /\ \A v, w \in 1..Len(wallets) :
          \A i \in 1..Len(wallets[v].txs), j \in 1..Len(wallets[w].txs) :
              wallets[v].txs[i] = wallets[w].txs[j] => v = w /\ i = j

(* In every wallet the transactions with a block are in the order of the   *)
(* chain, although nonces and statuses change without a sort: signing, and *)
(* a late reply that takes a transaction back to SUBMITTED.                *)
ChainOrder(x, y) ==
    x.number < y.number \/ (x.number = y.number /\ x.index <= y.index)
BlockedInOrder ==
    \A w \in 1..Len(wallets) : \A i, j \in 1..Len(wallets[w].txs) :
        LET x == transactions[wallets[w].txs[i]]
            y == transactions[wallets[w].txs[j]]
        IN  i < j /\ Blocked(x) /\ Blocked(y) => ChainOrder(x, y)

(* The Ether wallet never shows one transaction of the chain twice: an     *)
(* announcement that overtakes the reply to the submission finds the       *)
(* transaction by its nonce.                                               *)
EtherHashesUnique ==
    LET list == wallets[EtherWallet].txs
    IN  \A i, j \in 1..Len(list) :
            transactions[list[i]].hash = transactions[list[j]].hash
            /\ transactions[list[i]].hash # NoHash => i = j

(* Nonces are handed out again only after a count was stored when it was   *)
(* no longer above the nonce: no other order of the loads and stores, and  *)
(* no count, however old, gives two transactions of this app the same one. *)
HandedOut(t) == transactions[t].local /\ transactions[t].nonce # NotAssigned
HandedOutOnce ==
    \A t, u \in 1..Len(transactions) :
        HandedOut(t) /\ HandedOut(u) /\ transactions[t].nonce = transactions[u].nonce
        => t = u
OnceUnlessStale == ~stale => HandedOutOnce

(* What identifies a transaction is written once: a nonce that has been    *)
(* assigned, a hash that has been set, and the wallet it is in.            *)
IdentityKept ==
    [][\A t \in 1..Len(transactions) :
          /\ transactions[t].nonce # NotAssigned
             => transactions'[t].nonce = transactions[t].nonce
          /\ transactions[t].hash # NoHash
             => transactions'[t].hash = transactions[t].hash
          /\ \A w \in 1..Len(wallets) :
                Contains(wallets[w].txs, t) => Contains(wallets'[w].txs, t)]_vars

(* A transaction of this app's Ether wallet that the chain holds is in the *)
(* end shown with its block, for good, whether the reply to its submission *)
(* comes before, after or never, unless its nonce was handed out twice.    *)
InChain(t) == /\ t \in 1..Len(transactions) /\ transactions[t].local
              /\ Contains(wallets[EtherWallet].txs, t)
              /\ \E i \in Visible : mined[i].hash = t
SharesNonce(t) ==
    \E u \in 1..Len(transactions) :
        u # t /\ HandedOut(u) /\ transactions[u].nonce = transactions[t].nonce
Shown(t) == t \in 1..Len(transactions) /\ (Blocked(transactions[t]) \/ SharesNonce(t))
MinedIsBlocked == \A t \in 1..MaxTx : InChain(t) ~> []Shown(t)
-----------------------------------------------------------------------------
(* What comments say and the code does not keep: HandedOutOnce, as the     *)
(* lock of LightNodePrivate.h is to give single thread access to the state *)
(* of the node, and the next.                                              *)

(* LightNodeAnnounce.c: the match by nonce is for a transaction "that      *)
(* doesn't have a hash yet"; so one that has a hash gets a block only if   *)
(* the chain holds that hash.                                              *)
BlockedHashIsMined ==
    \A t \in 1..Len(transactions) :
        Blocked(transactions[t]) /\ transactions[t].hash # NoHash
        => \E i \in Visible : mined[i].hash = transactions[t].hash
=============================================================================
