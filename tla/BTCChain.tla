------------------------------ MODULE BTCChain -------------------------------
(* The block chain of BRPeerManager.c, and the wallet it drives: blocks      *)
(* relayed by several peers in any order, orphans, forks and chain           *)
(* reorganisations, the pruning of old blocks at a difficulty transition,    *)
(* rescans, and restarts from the blocks and transactions that were saved.   *)
(*                                                                           *)
(* Blocks form a tree, the constant Prev; what a filtered block matched is   *)
(* Matched.  The filter and the messages of one peer are in module BTCSync.  *)
EXTENDS BTCWallet

CONSTANTS
    Block,        \* the blocks of the network, named by their hash
    Prev,         \* Prev[b]: the hash of the block before b
    Height,       \* Height[b]
    Matched,      \* Matched[b]: the transactions of b the filter matches
    Checkpoints,  \* the hard-coded blocks
    BadTarget,    \* the blocks whose difficulty is not what it should be
    Start,        \* the checkpoint a new node starts from
    Interval,     \* BLOCK_DIFFICULTY_INTERVAL, 2016 in the code
    PeerHeights,  \* the heights peers report when they connect
    BestHeights,  \* those of them of the peers the chain is downloaded from
    Spread,       \* the transactions whose spread among the peers is followed
    MaxEvents     \* a bound on restarts, rescans and removals together

ASSUME BlockAssumption ==
    /\ Checkpoints \subseteq Block /\ Start \in Checkpoints
    /\ \A b \in Block : Prev[b] \in Block => Height[b] = Height[Prev[b]] + 1
    /\ \A b \in Checkpoints : Height[b] % Interval = 0
    /\ \A b, c \in Checkpoints : Height[b] = Height[c] => b = c
    /\ Height \in [Block -> 0..(TX_UNCONFIRMED - 1)] /\ Matched \in [Block -> Seq(Tx)]
    /\ Interval \in Nat \ {0} /\ MaxEvents \in Nat
    /\ BestHeights \subseteq PeerHeights /\ PeerHeights \subseteq Nat

VARIABLES
    wallet,           \* manager->wallet
    removing,         \* the calls of BRWalletRemoveTransaction in progress,
                      \* the innermost last
    blocks,           \* manager->blocks
    orphans,          \* manager->orphans, at most one for each prevBlock
    relaying,         \* orphans taken out to be relayed next by their thread
    lastBlock,        \* manager->lastBlock
    estimatedHeight,  \* manager->estimatedHeight, 0 before a peer connects
    savedBlocks,      \* the blocks in the persistent store
    setAside,         \* history: orphans that wait although their parent is known
    pruners,          \* history: the transition blocks that had others freed
    rebuiltFrom,      \* history: the height from which a restart rebuilt the chain
    unchecked,        \* history: transactions of the blocks that a rescan or
                      \* a restart passed over, until their block comes again
    events            \* history: how many restarts, rescans and removals

chainVars ==
    <<blocks, orphans, relaying, lastBlock, estimatedHeight, savedBlocks, setAside,
      pruners, rebuiltFrom>>
vars == <<wallet, removing, chainVars, unchecked, events>>

-----------------------------------------------------------------------------
Ancestors[b \in Block] ==
    {b} \cup IF Prev[b] \in Block THEN Ancestors[Prev[b]] ELSE {}

(* A transaction that may be the wallet's, now or when it has more addresses. *)
Ours(t) ==
    \/ \E i \in DOMAIN Outputs[t] : Outputs[t][i].address[1] \in Chains
    \/ \E i \in Inputs[t] :
         /\ i[1] \in Tx /\ i[2] + 1 \in DOMAIN Outputs[i[1]]
         /\ Outputs[i[1]][i[2] + 1].address[1] \in Chains

(* What the network guarantees of a chain: a transaction is in one block, no *)
(* earlier than those it spends from.                                        *)
ASSUME ChainAssumption ==
    /\ \A b \in Block : \A a \in Ancestors[b] \ {b} :
          Range(Matched[a]) \cap Range(Matched[b]) = {}
    /\ \A b \in Block : \A t \in Range(Matched[b]) : \A p \in Parents(t) :
          Ours(p) => \E a \in Ancestors[b] : p \in Range(Matched[a])

(* What walking back from b through a set of known blocks reaches. *)
ChainIn(known, b) ==
    {a \in Ancestors[b] : \A d \in Ancestors[b] :
        Height[a] <= Height[d] /\ d # b => d \in known}

MainChain == ChainIn(blocks, lastBlock)
Tip == Height[lastBlock]
IsTransition(b) == Height[b] % Interval = 0
LastCheckpointHeight == Max({Height[c] : c \in Checkpoints})

(* The transactions of the blocks that only one of two chains has, that of   *)
(* the tip and that of b: those the wallet would hear of, one way or the     *)
(* other, were the change from one to the other a reorganisation.            *)
PassedOver(b) ==
    LET onlyOne == (Ancestors[lastBlock] \ Ancestors[b]) \cup (Ancestors[b] \ Ancestors[lastBlock])
    IN  UNION {Range(Matched[a]) : a \in onlyOne}

(* A transition block needs the whole interval before it; once it has it,    *)
(* what lies before that interval is freed, transition blocks excepted.      *)
WindowStart(b) == {a \in ChainIn(blocks, b) : Height[a] = Height[b] - Interval}
(* Mutant of Pruned: the start of the window is freed too, and no            *)
(* transition block is excepted.                                             *)
PrunedFromStart(b) ==
    IF ~IsTransition(b) THEN {}
    ELSE UNION {ChainIn(blocks, a) : a \in WindowStart(b)}

Pruned(b) ==
    IF ~IsTransition(b) THEN {}
    ELSE UNION {{p \in ChainIn(blocks, a) \ {a} : ~IsTransition(p)} : a \in WindowStart(b)}
Kept(b) == blocks \ Pruned(b)
NotePruning(b) ==
    /\ pruners' = IF Pruned(b) = {} THEN pruners ELSE pruners \cup {b}
    /\ UNCHANGED rebuiltFrom

Verifies(b) ==
    /\ IsTransition(b) => WindowStart(b) # {}
    /\ b \notin BadTarget
    /\ \A c \in Checkpoints : Height[c] = Height[b] => c = b

(* The blocks a save of count blocks back from b writes, cut so that they    *)
(* start at a transition; more than one of them replace what is stored.      *)
SaveList(known, b, n) ==
    LET reached == {a \in ChainIn(known, b) : Height[a] > Height[b] - n}
        low == Min({Height[a] : a \in reached})
        first == IF low % Interval = 0 THEN low ELSE low + Interval - (low % Interval)
    IN  {a \in reached : Height[a] >= first}
Save(list) == IF Cardinality(list) > 1 THEN list ELSE savedBlocks \cup list
FullSave(b) == (Height[b] % Interval) + Interval + 1

-----------------------------------------------------------------------------
(* _peerRelayedBlock, one action for each of its branches.  The block's      *)
(* transactions were relayed before it; an unknown one is not the wallet's.  *)
(* After a rescan, a transition block from a peer that is ahead can have the *)
(* block lastBlock points to freed; and after a restart the wallet may list  *)
(* a transaction that it no longer takes for its own, which it frees, but    *)
(* does not unlist, when its block comes.  What the code does then is        *)
(* undefined, and is not followed here.                                      *)

Recognised(hashes) ==
    \A t \in Range(hashes) \cap Range(wallet.transactions) : ContainsTx(wallet, t)

Relayed(b) ==
    /\ removing = << >> /\ lastBlock \notin Pruned(b)
    /\ Recognised(Matched[b])
    /\ estimatedHeight > 0
    /\ b \in relaying \/ \A t \in Range(Matched[b]) : t \in wallet.allTx \/ b \in MainChain

(* Mutant of TakeNext: the orphan stays where it is. *)
TakeNone(b, kept, aside) ==
    /\ orphans' = kept /\ setAside' = aside
    /\ relaying' = relaying \ {b}
    /\ estimatedHeight' = Max({estimatedHeight, Height[b]})

(* The end of every branch that keeps a block of known height: the next      *)
(* block, if it is an orphan, is taken out and relayed after the unlock.     *)
TakeNext(b, kept, aside) ==
    LET next == {o \in kept : Prev[o] = b}
    IN  /\ orphans' = kept \ next /\ setAside' = aside \ next
        /\ relaying' = (relaying \ {b}) \cup next
        /\ estimatedHeight' = Max({estimatedHeight, Height[b]})

(* Orphans older than a week are ignored, as every checkpoint is. *)
AddOrphan(b) ==
    IF b \in Checkpoints THEN orphans
    ELSE {o \in orphans : Prev[o] # Prev[b]} \cup {b}

RelayOrphan(b) ==
    /\ Relayed(b) /\ Prev[b] \notin blocks
    /\ orphans' = AddOrphan(b)
    /\ setAside' = (setAside \cap AddOrphan(b)) \ {b}
    /\ relaying' = relaying \ {b}
    /\ UNCHANGED <<wallet, removing, blocks, lastBlock, estimatedHeight, savedBlocks,
                   pruners, rebuiltFrom, unchecked, events>>

Ahead(b, peerLast) == Tip < peerLast /\ Height[b] > Tip + 1
OldFork(b) ==
    /\ Prev[b] # lastBlock /\ b \notin blocks /\ Height[b] <= LastCheckpointHeight
    /\ \E peerLast \in PeerHeights : ~Ahead(b, peerLast)

(* An invalid block is freed, and its peer dropped; one on a fork older than *)
(* the last checkpoint is freed.  The window was pruned all the same.        *)
RelayRefused(b) ==
    /\ Relayed(b) /\ Prev[b] \in blocks /\ (Verifies(b) => OldFork(b))
    /\ blocks' = Kept(b) /\ NotePruning(b)
    /\ relaying' = relaying \ {b}
    /\ UNCHANGED <<wallet, removing, orphans, setAside, lastBlock, estimatedHeight,
                   savedBlocks, unchecked, events>>

Verified(b) == Relayed(b) /\ Prev[b] \in blocks /\ Verifies(b)

ExtendChain(b) ==
    LET known == Kept(b) \cup {b}
        n == IF Height[b] = estimatedHeight THEN FullSave(b)
             ELSE IF IsTransition(b) THEN 1 ELSE 0
    IN  /\ Verified(b) /\ Prev[b] = lastBlock
        /\ blocks' = known /\ NotePruning(b)
        /\ lastBlock' = b
        /\ wallet' = ConfirmTransactions(wallet, Matched[b], Height[b])
        /\ savedBlocks' = IF n = 0 THEN savedBlocks ELSE Save(SaveList(known, b, n))
        /\ TakeNext(b, orphans, setAside)
        /\ unchecked' = unchecked \ Range(Matched[b])
        /\ UNCHANGED <<removing, events>>

(* A block that is there already: its transactions are confirmed again if it *)
(* is on the main chain.  (The copy that was there is freed, for a checkpoint *)
(* also if verification still points to it; it is taken to read the same.)   *)
RelayExisting(b) ==
    /\ Verified(b) /\ Prev[b] # lastBlock /\ b \in blocks
    /\ wallet' = IF b \in MainChain
                 THEN ConfirmTransactions(wallet, Matched[b], Height[b])
                 ELSE wallet
    /\ blocks' = Kept(b) /\ NotePruning(b)
    /\ TakeNext(b, orphans, setAside)
    /\ unchecked' = unchecked \ IF b \in MainChain THEN Range(Matched[b]) ELSE {}
    /\ UNCHANGED <<removing, lastBlock, savedBlocks, events>>

NewFork(b) == Verified(b) /\ Prev[b] # lastBlock /\ b \notin blocks

(* A new block seen during a rescan waits until the chain has caught up. *)
RelayAhead(b) ==
    /\ NewFork(b) /\ \E peerLast \in PeerHeights : Ahead(b, peerLast)
    /\ blocks' = Kept(b) /\ NotePruning(b)
    /\ TakeNext(b, AddOrphan(b), (setAside \cap AddOrphan(b)) \cup {b})
    /\ UNCHANGED <<wallet, removing, lastBlock, savedBlocks, unchecked, events>>

OnFork(b) ==
    /\ NewFork(b) /\ \E peerLast \in PeerHeights : ~Ahead(b, peerLast)
    /\ Height[b] > LastCheckpointHeight

RelayFork(b) ==
    /\ OnFork(b) /\ Height[b] <= Tip
    /\ blocks' = Kept(b) \cup {b} /\ NotePruning(b)
    /\ TakeNext(b, orphans, setAside)
    /\ UNCHANGED <<wallet, removing, lastBlock, savedBlocks, unchecked, events>>

(* Mutant of Branch: the new tip only. *)
BranchTip(b) == <<b>>

(* The branch of b, newest first, down to where it joins the main chain.     *)
(* When what is known of the main chain ends first, the walk ends there, and *)
(* no block of the branch is confirmed.  When the branch ends first, the     *)
(* code reads the height of a block that is not there: not followed.         *)
Side(b) == ChainIn(Kept(b), b)
Main(b) == ChainIn(Kept(b), lastBlock)
Joined(b) == Side(b) \cap Main(b)
Floor(bs) == Min({Height[a] : a \in bs})
CutOff(b) == Joined(b) = {} /\ Floor(Side(b)) < Floor(Main(b))
JoinHeight(b) ==
    IF CutOff(b) THEN Floor(Main(b)) - 1 ELSE Max({Height[a] : a \in Joined(b)})
Branch(b) ==
    LET n == IF CutOff(b) THEN 0 ELSE Height[b] - JoinHeight(b)
    IN  [i \in 1..n |-> CHOOSE a \in Ancestors[b] : Height[a] = Height[b] + 1 - i]

ConfirmBranch(w, branch) ==
    LET confirm[n \in 0..Len(branch)] ==
          IF n = 0 THEN w
          ELSE ConfirmTransactions(confirm[n - 1], Matched[branch[n]], Height[branch[n]])
    IN  confirm[Len(branch)]

Reorganise(b) ==
    LET known == Kept(b) \cup {b}
    IN  /\ OnFork(b) /\ Height[b] > Tip /\ (CutOff(b) \/ Joined(b) # {})
        /\ \A a \in Range(Branch(b)) : Recognised(Matched[a])
        /\ blocks' = known /\ NotePruning(b)
        /\ wallet' = ConfirmBranch(SetTxUnconfirmedAfter(wallet, JoinHeight(b)), Branch(b))
        /\ lastBlock' = b
        /\ savedBlocks' = IF Height[b] = estimatedHeight
                          THEN Save(SaveList(known, b, FullSave(b))) ELSE savedBlocks
        /\ TakeNext(b, orphans, setAside)
        /\ unchecked' = IF CutOff(b) THEN unchecked \cup PassedOver(b)
                        ELSE unchecked \ UNION {Range(Matched[a]) : a \in Range(Branch(b))}
        /\ UNCHANGED <<removing, events>>

RelayBlock(b) ==
    \/ RelayOrphan(b) \/ RelayRefused(b) \/ ExtendChain(b) \/ RelayExisting(b)
    \/ RelayAhead(b) \/ RelayFork(b) \/ Reorganise(b)

-----------------------------------------------------------------------------
(* Transactions. *)

(* A peer relays a transaction that is in no block of the main chain: while  *)
(* syncing only the wallet's own are kept.  When enough peers have it, its   *)
(* time is set, which marks it as verified.                                  *)
RelayTx(t, syncing, verified) ==
    LET w == IF syncing /\ ~ContainsTx(wallet, t) THEN wallet
             ELSE RegisterTransaction(wallet, t)
    IN  /\ removing = << >> /\ estimatedHeight > 0
        /\ \A b \in Ancestors[lastBlock] : t \notin Range(Matched[b])
        /\ verified => t \in Spread
        /\ wallet' = IF verified /\ t \in w.allTx /\ Unconfirmed(w, t) /\ w.timestamp[t] = 0
                     THEN UpdateTransactions(w, <<t>>, TX_UNCONFIRMED, 1)
                     ELSE w
        /\ UNCHANGED <<removing, chainVars, unchecked, events>>

(* The application registers what it sent, without the manager's lock: also  *)
(* while a transaction is being removed.                                     *)
RegisterFromApp(t) ==
    /\ removing # << >>
    /\ \A b \in Ancestors[lastBlock] : t \notin Range(Matched[b])
    /\ wallet' = RegisterTransaction(wallet, t)
    /\ UNCHANGED <<removing, chainVars, unchecked, events>>

(* No connected peer has t in its memory pool: it is removed ... *)
DropUnrelayed(t) ==
    /\ removing = << >> /\ events < MaxEvents
    /\ t \in Range(wallet.transactions) /\ Unconfirmed(wallet, t)
    /\ removing' = <<t>>
    /\ events' = events + 1
    /\ UNCHANGED <<wallet, chainVars, unchecked>>

(* ... or too few have it: it is marked as unverified. *)
MarkUnverified(t) ==
    /\ removing = << >> /\ t \in Spread
    /\ t \in Range(wallet.transactions) /\ Unconfirmed(wallet, t)
    /\ wallet' = UpdateTransactions(wallet, <<t>>, TX_UNCONFIRMED, 0)
    /\ UNCHANGED <<removing, chainVars, unchecked, events>>

(* BRWalletRemoveTransaction: it calls itself for every dependent, oldest    *)
(* first, and then for the transaction again; the lock is free in between.   *)
RemoveStep ==
    /\ removing # << >>
    /\ LET t == Last(removing)
           dependents == Dependents(wallet, t)
       IN  IF dependents = << >>
           THEN /\ wallet' = RemoveLeaf(wallet, t)
                /\ removing' = Front(removing)
           ELSE /\ removing' = removing \o dependents
                /\ UNCHANGED wallet
    /\ UNCHANGED <<chainVars, unchecked, events>>

-----------------------------------------------------------------------------
(* The node. *)

(* The chain is downloaded from a new peer. *)
PeerConnected(h) ==
    /\ removing = << >>
    /\ h + 10 >= Tip
    /\ estimatedHeight' = h
    /\ UNCHANGED <<wallet, removing, blocks, orphans, setAside, relaying, lastBlock,
                   savedBlocks, pruners, rebuiltFrom, unchecked, events>>

(* BRPeerManagerRescan and RescanFromBlockNumber: back to a known block. *)
Rescan(b) ==
    /\ removing = << >> /\ estimatedHeight > 0 /\ events < MaxEvents
    /\ b \in MainChain \cup Checkpoints /\ b # lastBlock
    /\ lastBlock' = b
    /\ unchecked' = unchecked \cup PassedOver(b)
    /\ events' = events + 1
    /\ UNCHANGED <<wallet, removing, blocks, orphans, setAside, relaying, estimatedHeight,
                   savedBlocks, pruners, rebuiltFrom>>

(* Restart: the stored transactions are inserted in the order the database   *)
(* gives them; the chain is rebuilt from the last transition block stored,   *)
(* following the others, which are kept as orphans, by their prevBlock.  A    *)
(* wallet whose first transaction is not its own does not load.              *)
Stored == Range(wallet.transactions)
Chained(top) == {b \in savedBlocks : top \in Ancestors[b]
                                      /\ Ancestors[b] \ Ancestors[top] \subseteq savedBlocks}
Restart(txs) ==
    LET tops == {b \in savedBlocks : IsTransition(b) /\ \A c \in savedBlocks :
                                        IsTransition(c) => Height[c] <= Height[b]}
    IN  /\ events < MaxEvents
        /\ wallet' = WalletNew(txs, wallet.height, wallet.timestamp) /\ Accepts(wallet', txs)
        /\ removing' = << >> /\ relaying' = {} /\ setAside' = {} /\ estimatedHeight' = 0
        /\ pruners' = {}
        /\ \/ /\ tops = {}
              /\ blocks' = Checkpoints /\ orphans' = savedBlocks /\ lastBlock' = Start
              /\ rebuiltFrom' = 0
           \/ \E top \in tops :
              \E end \in {e \in Chained(top) : \A b \in savedBlocks : Prev[b] # e} :
                LET rebuilt == Ancestors[end] \cap Chained(top)
                IN  /\ blocks' = Checkpoints \cup rebuilt
                    /\ lastBlock' = end /\ rebuiltFrom' = Height[top]
                    /\ orphans' = {o \in savedBlocks \ rebuilt :
                                     \A b \in rebuilt : Prev[b] # Prev[o]}
        /\ unchecked' = unchecked \cup PassedOver(lastBlock')
        /\ events' = events + 1
        /\ UNCHANGED savedBlocks

Init ==
    /\ wallet = WalletNew(<< >>, << >>, << >>)
    /\ removing = << >>
    /\ blocks = Checkpoints
    /\ orphans = {} /\ relaying = {} /\ setAside = {}
    /\ pruners = {} /\ rebuiltFrom = 0
    /\ lastBlock = Start
    /\ estimatedHeight = 0
    /\ savedBlocks = {}
    /\ unchecked = {}
    /\ events = 0

Next ==
    \/ \E b \in Block : RelayBlock(b) \/ Rescan(b)
    \/ \E t \in Tx :
         \/ \E syncing, verified \in BOOLEAN : RelayTx(t, syncing, verified)
         \/ RegisterFromApp(t) \/ DropUnrelayed(t) \/ MarkUnverified(t)
    \/ RemoveStep
    \/ \E h \in BestHeights : PeerConnected(h)
    \/ \E txs \in SetToSeqs(Stored) : Restart(txs)

Spec == Init /\ [][Next]_vars

-----------------------------------------------------------------------------
(* Properties. *)

(* Type correctness of the state. *)
TypeOK ==
    /\ Range(wallet.transactions) \subseteq wallet.allTx /\ wallet.allTx \subseteq Tx
    /\ IsInjective(wallet.transactions)
    /\ wallet.height \in [Tx -> Nat] /\ wallet.timestamp \in [Tx -> {0, 1}]
    /\ wallet.balance \in Nat /\ wallet.chain \in [Chains -> Nat]
    /\ Range(removing) \subseteq wallet.allTx
    /\ blocks \subseteq Block /\ orphans \subseteq Block /\ relaying \subseteq Block
    /\ lastBlock \in blocks /\ savedBlocks \subseteq Block
    /\ pruners \subseteq Block /\ rebuiltFrom \in Nat
    /\ estimatedHeight \in Nat /\ unchecked \subseteq Tx /\ events \in 0..MaxEvents

(* w.transactions stays sorted by height through confirmations, chain        *)
(* reorganisations and removals: the scans of BRWalletSetTxUnconfirmedAfter  *)
(* and BRWalletRemoveTransaction, and BRWalletTxUnconfirmedBefore, stop at   *)
(* the first height out of range and miss what is not in order.              *)
HeightSorted ==
    \A i, j \in DOMAIN wallet.transactions :
        i < j => wallet.height[wallet.transactions[i]] <= wallet.height[wallet.transactions[j]]

(* A transaction the wallet calls confirmed is in the block of that height   *)
(* on the chain of the tip: no reorganisation leaves one behind on the       *)
(* branch it abandons.  The exception are those in the blocks that a rescan  *)
(* or a restart passed over, until their block comes again: the chain may    *)
(* then take another branch without the reorganisation the wallet would hear *)
(* of.                                                                       *)
ConfirmedOnChain ==
    \A t \in Range(wallet.transactions) \ unchecked :
        Unconfirmed(wallet, t) \/ \E b \in Ancestors[lastBlock] :
            Height[b] = wallet.height[t] /\ t \in Range(Matched[b])

(* And the other way round: a transaction of the wallet in a block of the    *)
(* chain of the tip has the height of that block.                            *)
ChainIsConfirmed ==
    \A b \in Ancestors[lastBlock] :
        \A t \in (Range(Matched[b]) \cap Range(wallet.transactions)) \ unchecked :
            wallet.height[t] = Height[b]

(* Confirmation in the wallet and the main chain of the node agree, through  *)
(* forks, orphans, reorganisations, rescans and restarts.                    *)
WalletMatchesChain == ConfirmedOnChain /\ ChainIsConfirmed

(* A transaction counted in the balance: neither invalid nor pending. *)
Counted(t) ==
    t \in Range(wallet.transactions) /\ t \notin wallet.invalidTx \cup wallet.pendingTx

(* No double spend, whatever the order transactions came in and were         *)
(* confirmed in: an output that a transaction that counts spends is never    *)
(* spendable, and of two transactions that spend the same output an          *)
(* unconfirmed one does not count once the other is confirmed.               *)
NoDoubleSpend ==
    /\ \A t \in Tx : Counted(t) => Inputs[t] \cap Range(wallet.utxos) = {}
    /\ \A t, u \in Range(wallet.transactions) :
          /\ t # u /\ ~Unconfirmed(wallet, t) /\ Unconfirmed(wallet, u)
          /\ Inputs[t] \cap Inputs[u] # {}
          => ~Counted(u)

(* No money is lost: an output of a transaction that counts, to an address   *)
(* the wallet knew when it last computed the ledger, that nothing the wallet *)
(* holds spends, is spendable, and the balance is the sum of what is         *)
(* spendable.  (One to an address generated since is not counted yet.)       *)
NothingLost ==
    /\ wallet.balance = AmountsOf(wallet.utxos)
    /\ \A t \in Tx : Counted(t) =>
          \A u \in PaidTo(t, wallet.ledgerAddrs) :
             u \in Range(wallet.utxos) \/ \E v \in Range(wallet.transactions) : u \in Inputs[v]

(* Removing a transaction leaves none behind that spends its outputs,        *)
(* although the lock is free between the dependents and another thread may   *)
(* register a new one: the scan stops at the first transaction below it, and *)
(* none that spends from it can be there, but when one of the two is in a    *)
(* block that a rescan or a restart passed over.                             *)
RemovedWithDependents ==
    [][\A t \in (Range(wallet.transactions) \ Range(wallet'.transactions)) \ unchecked :
         \A u \in Range(wallet'.transactions) \ unchecked : t \notin Parents(u)]_vars

(* Where the chains of b and of the tip part, and the forks the manager      *)
(* keeps the blocks for: they part where a restart rebuilt the chain or      *)
(* above, and no block that had others freed, b included, is more than an    *)
(* interval above that.                                                      *)
Common(b) == Ancestors[b] \cap Ancestors[lastBlock]
PartingHeight(b) == Max({Height[a] : a \in Common(b)})
ShallowFork(b) ==
    /\ Common(b) # {}
    /\ PartingHeight(b) >= rebuiltFrom
    /\ \A a \in pruners \cup {b} :
          (\E p \in Ancestors[a] \cap Common(b) : Height[p] = PartingHeight(b))
          => Height[a] <= PartingHeight(b) + Interval

(* A reorganisation finds where the new branch joins the main chain: what    *)
(* was pruned, not saved, or cut off by a rescan is not on the way, as long  *)
(* as forks are no longer than a difficulty interval and the tip is not      *)
(* below the last checkpoint, as it may be in a rescan.  The code reads the  *)
(* height of the join without looking whether there is one.                  *)
JoinFound ==
    \A b \in Block :
        OnFork(b) /\ Height[b] > Tip /\ Tip >= LastCheckpointHeight /\ ShallowFork(b)
        => Joined(b) # {}

(* No block waits as an orphan once its parent is known, but for those set   *)
(* aside during a rescan, whose parent was known already, and those whose    *)
(* parent is a checkpoint: a block that becomes known, by whatever way, takes *)
(* along what waited for it.                                                 *)
NoStuckOrphan == \A o \in orphans \ setAside : Prev[o] \notin blocks \ Checkpoints
=============================================================================
