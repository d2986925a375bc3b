------------------------------- MODULE BTCSync -------------------------------
(* The chain download through a bloom filter, between BRPeerManager.c with   *)
(* its BRPeer.c and the download peer.  The peer only sends what the filter  *)
(* it was sent last matches; when a transaction uses up the addresses the    *)
(* filter was made for, blocks already asked for may be incomplete, so they  *)
(* are ignored until a ping has gone round the connection twice: once so     *)
(* that all the old filter matches has arrived, and once so that the new     *)
(* one is in use.                                                            *)
(*                                                                           *)
(* One chain without forks, whose blocks are their heights (forks are in     *)
(* module BTCChain), one honest peer at a time, and connections that break.  *)
(* Left out: headers-first download, false positives of unconfirmed          *)
(* transactions, published transactions, and requests for what other peers   *)
(* have not relayed.                                                         *)
EXTENDS BTCWallet

CONSTANTS
    Mined,       \* Mined[n]: the transactions of block n, in order
    Height0,     \* the height of the chain at the start
    MaxInv,      \* the blocks an inv can name, 500 in the code
    Recent,      \* the first block that is not older than a week
    Spare,       \* the addresses a filter has to spare, 100 in the code
    Relayed,     \* the transactions announced before they are mined
    MaxDrops     \* a bound on connections that break in the middle

ASSUME SyncAssumption ==
    /\ Mined \in Seq(Seq(Tx)) /\ Len(Mined) < TX_UNCONFIRMED
    /\ Height0 \in 0..Len(Mined) /\ MaxInv \in Nat \ {0} /\ Spare \in Nat
    /\ Recent \in Nat
    /\ Relayed \subseteq Tx /\ IsFiniteSet(Relayed) /\ MaxDrops \in Nat

(* What a chain is: a transaction is in one block, after those it spends     *)
(* from, and spends outputs they have.                                       *)
ASSUME ChainAssumption ==
    /\ \A n, m \in DOMAIN Mined : Range(Mined[n]) \cap Range(Mined[m]) # {} => n = m
    /\ \A n \in DOMAIN Mined : \A k \in DOMAIN Mined[n] : \A p \in Parents(Mined[n][k]) :
          \/ \E m \in 1..(n - 1) : p \in Range(Mined[m])
          \/ \E j \in 1..(k - 1) : Mined[n][j] = p
    /\ \A n \in DOMAIN Mined : \A t \in Range(Mined[n]) : \A u \in Inputs[t] :
          u[1] \in Tx => \E i \in DOMAIN Outputs[u[1]] : u = Utxo(u[1], i)

PaidIn(n) ==
    UNION {{Outputs[t][i].address : i \in DOMAIN Outputs[t]} : t \in Range(Mined[n])}

(* Nobody pays an address further ahead of the last used one than the gap    *)
(* limit, which is as far as the wallet looks, in whatever device.           *)
ASSUME GapAssumption ==
    \A n \in DOMAIN Mined : \A a \in PaidIn(n) :
      a[1] \in Chains /\ a[2] >= GapLimit[a[1]] =>
        \E m \in 1..n : \E b \in PaidIn(m) :
          b[1] = a[1] /\ b[2] < a[2] /\ a[2] <= b[2] + GapLimit[a[1]]

(* No transaction is replaceable, locked or in conflict with another.  The   *)
(* wallet does not count the addresses of one that is as used, so the filter *)
(* is not replaced for it: what is paid further along may be missed then.    *)
AllPlain ==
    /\ Replaceable = {} /\ \A t \in Tx : LockTime[t] <= 1
    /\ \A t, u \in Tx : Inputs[t] \cap Inputs[u] # {} => t = u

VARIABLES
    node,    \* the manager, its wallet, and its side of the connection
    remote,  \* the peer: its height, its filter and its memory pool
    toNode,  \* messages from the peer on their way
    drops    \* history: how many connections broke in the middle
vars == <<node, remote, toNode, drops>>

NULL == [addrs |-> {}, outs |-> {}, none |-> TRUE]
Filter(w, outs) == [addrs |-> AllAddrs(w), outs |-> outs, none |-> FALSE]
NoBlock == [height |-> 0, matched |-> << >>]

-----------------------------------------------------------------------------
(* BRPeer.c: the messages sent.  Every operator below takes the state of the *)
(* node before a call of the code and returns the one after it.              *)

Send(s, message) == [s EXCEPT !.out = Append(@, message)]
SendPing(s, callback) ==
    [Send(s, [type |-> "ping"]) EXCEPT !.pongs = Append(@, callback)]
SendGetblocks(s) == Send(s, [type |-> "getblocks", from |-> s.lastBlock])
SendGetdata(s, txs, blocks) ==
    IF txs = << >> /\ blocks = << >> THEN s
    ELSE Send(s, [type |-> "getdata", txs |-> txs, blocks |-> blocks])

(* A second request before a filter was loaded again is not sent. *)
SendMempool(s, wantsCallback) ==
    IF s.sentMempool \/ s.mempool THEN [s EXCEPT !.sentMempool = TRUE]
    ELSE Send([s EXCEPT !.sentMempool = TRUE, !.mempool = wantsCallback],
              [type |-> "mempool"])

(* Blocks from the last one of the chain on, if the peer announced it. *)
RerequestBlocks(s) ==
    LET at == {i \in DOMAIN s.known : s.known[i] = s.lastBlock}
        kept == SubSeq(s.known, Max(at), Len(s.known))
    IN  IF at = {} THEN s ELSE SendGetdata([s EXCEPT !.known = kept], << >>, kept)

-----------------------------------------------------------------------------
(* BRPeerManager.c: the filter. *)

(* Mutant of SpentOutputs: the filter is made of unspent outputs only. *)
SpentOutputsLeft(w) == {}

(* The outputs of the wallet that known transactions spend; the code takes   *)
(* those of the last 100 blocks, longer than the chains checked here.        *)
SpentOutputs(w) ==
    {i \in UNION {Inputs[t] : t \in Range(w.transactions)} :
        i[1] \in w.allTx /\ i \in Range(Received(w, i[1]))}

LoadBloomFilter(s) ==
    LET w == GrowChains(s.wallet, Spare)
        filter == Filter(w, Range(w.utxos) \cup SpentOutputs(w))
    IN  Send([s EXCEPT !.wallet = w, !.filter = filter, !.orphans = {},
                       !.lastOrphan = 0, !.sentMempool = FALSE],
             [type |-> "filterload", filter |-> filter])

UpdateFilterPingDone(s) == SendPing(LoadBloomFilter(s), "loadDone")

UpdateFilterLoadDone(s) ==
    LET updated == [s EXCEPT !.updating = FALSE]
    IN  IF s.lastBlock < s.estimated
        THEN SendPing(RerequestBlocks(updated), "rerequestDone")
        ELSE SendMempool(updated, FALSE)

UpdateFilterRerequestDone(s) == IF s.updating THEN s ELSE SendGetblocks(s)

(* Mutant of UpdateFilter: the new filter is sent without waiting for what   *)
(* the old one still matches.                                                *)
UpdateFilterAtOnce(s) ==
    IF s.updating THEN s ELSE UpdateFilterPingDone([s EXCEPT !.updating = TRUE])

UpdateFilter(s) ==
    IF s.updating THEN s ELSE SendPing([s EXCEPT !.updating = TRUE], "pingDone")

(* The manager has synced: a peer has answered a mempool request. *)
MempoolDone(s) == [s EXCEPT !.syncing = FALSE, !.timer = @ /\ ~s.syncing]

PongDone(s, callback) ==
    CASE callback = "pingDone" -> UpdateFilterPingDone(s)
      [] callback = "loadDone" -> UpdateFilterLoadDone(s)
      [] callback = "rerequestDone" -> UpdateFilterRerequestDone(s)
      [] callback = "mempoolDone" -> MempoolDone(s)

-----------------------------------------------------------------------------
(* BRPeerManager.c: transactions and blocks. *)

(* While syncing the timer is set again by every transaction of the wallet;  *)
(* after that it is cancelled.                                               *)
KeepTimer(s, isWalletTx) ==
    [s EXCEPT !.timer = IF s.syncing THEN @ \/ isWalletTx ELSE FALSE]

(* The next unused addresses of the wallet. *)
NextUnused(w) ==
    UNION {{c} \X {FirstUnused(w, c, w.chain[c]) + k : k \in 0..(GapLimit[c] - 1)} : c \in Chains}

(* Mutant of RelayedTx: the timer is cancelled while syncing, too. *)
RelayedTxCancelling(s, t) ==
    LET grown == GrowChains(RegisterTransaction(s.wallet, t), 0)
        watched == s.filter = NULL \/ NextUnused(grown) \subseteq s.filter.addrs
        registered == [s EXCEPT !.wallet = grown, !.timer = FALSE]
    IN  IF s.syncing /\ ~ContainsTx(s.wallet, t) THEN s
        ELSE IF watched THEN registered
        ELSE UpdateFilter([registered EXCEPT !.filter = NULL])

RelayedTx(s, t) ==
    LET w == RegisterTransaction(s.wallet, t)
        isWalletTx == t \in s.wallet.allTx \/ ContainsTx(s.wallet, t)
        grown == GrowChains(w, 0)
        registered == [s EXCEPT !.wallet = grown]
    IN  IF (s.syncing /\ ~ContainsTx(s.wallet, t)) \/ ~isWalletTx
        THEN KeepTimer([s EXCEPT !.wallet = IF s.syncing THEN @ ELSE w], FALSE)
        ELSE IF s.filter = NULL THEN KeepTimer([s EXCEPT !.wallet = w], TRUE)
        ELSE IF NextUnused(grown) \subseteq s.filter.addrs THEN KeepTimer(registered, TRUE)
        ELSE UpdateFilter([KeepTimer(registered, TRUE) EXCEPT !.filter = NULL])

(* Transactions the peer announced and the node has; none changes nothing. *)
HasTxs(s, txs) ==
    IF txs = << >> THEN s
    ELSE KeepTimer(s, Range(txs) \cap Range(s.wallet.transactions) # {})

(* _peerRelayedBlock, by its branches; module BTCChain has those for forks   *)
(* and invalid blocks.  A block is the next one of the chain, or one of it.  *)
AcceptBlock(s, b) ==
    LET n == b.height
        confirmed == ConfirmTransactions(s.wallet, b.matched, n)
        extended ==
          [s EXCEPT !.lastBlock = n, !.wallet = confirmed, !.timer = @ \/ n < s.estimated,
                    !.estimated = Max({@, n})]
    IN  IF n # s.lastBlock + 1 THEN [s EXCEPT !.wallet = confirmed]
        ELSE IF n = s.estimated THEN SendMempool(extended, TRUE) ELSE extended

AcceptOrphan(s, o) ==
    [AcceptBlock([s EXCEPT !.orphans = @ \ {o}], o) EXCEPT !.early = @ \cup {o.height}]

(* The block, and then the orphans that follow it, one upon the other. *)
AcceptBlocks(s, b) ==
    LET orphan(h) == CHOOSE o \in s.orphans : o.height = h
        walk[k \in 0..Len(Mined)] ==
          IF k = 0 THEN [AcceptBlock(s, b) EXCEPT !.early = @ \ {b.height}]
          ELSE AcceptOrphan(walk[k - 1], orphan(b.height + k))
        following == {k \in 0..Len(Mined) :
                        \A j \in 1..k : \E o \in s.orphans : o.height = b.height + j}
    IN  walk[Max(following)]

AddOrphan(s, b) ==
    LET asked ==
          IF s.lastBlock >= s.reported /\ s.lastOrphan # b.height - 1
          THEN SendGetblocks(s) ELSE s
    IN  [asked EXCEPT !.orphans = {o \in @ : o.height # b.height} \cup {b},
                      !.lastOrphan = b.height]

RelayedBlock(s, b) ==
    IF s.filter = NULL THEN [s EXCEPT !.timer = @ \/ s.lastBlock < s.estimated]
    ELSE IF b.height > s.lastBlock + 1
    THEN IF b.height < Recent THEN s ELSE AddOrphan(s, b)
    ELSE AcceptBlocks(s, b)

-----------------------------------------------------------------------------
(* BRPeer.c: the messages received. *)

(* Hashes of blocks are kept, to ask for them again with another filter;     *)
(* while a filter is updated they are only kept.                             *)
AcceptInv(s, txs, blocks) ==
    LET repeated == Len(blocks) = 1 /\ blocks[1] = s.lastInv
        fresh == IF repeated THEN << >> ELSE blocks
        wanted == IF s.updating THEN << >> ELSE fresh
        unknown == Without(txs, s.knownTx)
        seen == Within(txs, s.knownTx)
        noted == [HasTxs(s, seen) EXCEPT
                    !.known = @ \o fresh,
                    !.lastInv = IF Len(fresh) = 1 THEN fresh[1] ELSE @,
                    !.knownTx = @ \cup Range(unknown)]
        asked == SendGetdata(noted, unknown, wanted)
        more == IF Len(wanted) < MaxInv THEN asked
                ELSE Send(asked, [type |-> "getblocks", from |-> Last(wanted)])
    IN  IF txs # << >> /\ s.mempool
        THEN SendPing([more EXCEPT !.mempool = FALSE], "mempoolDone")
        ELSE more

(* A block waits for those of its transactions that were never announced. *)
AcceptMerkleblock(s, b) ==
    LET missing == Range(b.matched) \ s.knownTx
    IN  IF missing = {} THEN RelayedBlock(s, b)
        ELSE [s EXCEPT !.current = b, !.missing = missing]

(* Mutant of AcceptTx: a block stays in place when it is complete. *)
AcceptTxKeeping(s, t) ==
    LET relayed == [RelayedTx(s, t) EXCEPT !.missing = @ \ {t}]
    IN  IF s.missing # {t} THEN relayed ELSE RelayedBlock(relayed, s.current)

AcceptTx(s, t) ==
    LET relayed == [RelayedTx(s, t) EXCEPT !.missing = @ \ {t}]
    IN  IF s.missing # {t} THEN relayed
        ELSE RelayedBlock([relayed EXCEPT !.current = NoBlock], s.current)

AcceptPong(s) == PongDone([s EXCEPT !.pongs = Tail(@)], Head(s.pongs))

AcceptMessage(s, m) ==
    CASE m.type = "inv" -> AcceptInv(s, m.txs, m.blocks)
      [] m.type = "merkleblock" -> AcceptMerkleblock(s, m.block)
      [] m.type = "tx" -> AcceptTx(s, m.tx)
      [] m.type = "pong" -> AcceptPong(s)

Receive ==
    /\ toNode # << >>
    /\ node' = AcceptMessage(node, Head(toNode))
    /\ toNode' = Tail(toNode)
    /\ UNCHANGED <<remote, drops>>

(* Nothing came in the ten seconds after a mempool request. *)
MempoolTimeout ==
    /\ node.mempool
    /\ node' = SendPing([node EXCEPT !.mempool = FALSE], "mempoolDone")
    /\ UNCHANGED <<remote, toNode, drops>>

-----------------------------------------------------------------------------
(* Connecting. *)

(* What a new connection, to a peer of the given height, leaves of the node, *)
(* and the messages it starts with.                                          *)
PeerConnected(s, height) ==
    LET fresh == [s EXCEPT
            !.known = << >>, !.knownTx = {}, !.current = NoBlock, !.missing = {},
            !.pongs = << >>, !.lastInv = 0, !.sentMempool = FALSE, !.mempool = FALSE,
            !.out = << >>, !.updating = FALSE, !.syncing = TRUE,
            !.reported = height, !.estimated = height, !.timer = s.lastBlock < height]
        loaded == LoadBloomFilter(fresh)
    IN  IF s.lastBlock < height THEN SendGetblocks(loaded) ELSE SendMempool(loaded, TRUE)

Connect ==
    /\ node' = PeerConnected(node, remote.height)
    /\ remote' = [remote EXCEPT !.filter = NULL]
    /\ toNode' = << >>

(* The connection breaks, and the manager connects again. *)
Drop == drops < MaxDrops /\ Connect /\ drops' = drops + 1

(* The peer has nothing more to say and the sync timeout passes. *)
Timeout ==
    /\ node.timer /\ node.out = << >> /\ toNode = << >>
    /\ Connect
    /\ UNCHANGED drops

-----------------------------------------------------------------------------
(* The peer. *)

(* A transaction the filter matches has its matched outputs added to it. *)
Matches(filter, t) ==
    Inputs[t] \cap filter.outs # {} \/ Pays(t, filter.addrs)
WithOutputs(filter, t) ==
    [filter EXCEPT !.outs = @ \cup
        {Utxo(t, i) : i \in {j \in DOMAIN Outputs[t] : Outputs[t][j].address \in filter.addrs}}]

(* The transactions of a list that the filter matches, one after the other. *)
Scan(filter, txs) ==
    LET scan[k \in 0..Len(txs)] ==
          IF k = 0 THEN [filter |-> filter, matched |-> << >>]
          ELSE LET r == scan[k - 1]
               IN  IF Matches(r.filter, txs[k])
                   THEN [filter |-> WithOutputs(r.filter, txs[k]),
                         matched |-> Append(r.matched, txs[k])]
                   ELSE r
    IN  scan[Len(txs)]

TxMessages(txs) == [i \in DOMAIN txs |-> [type |-> "tx", tx |-> txs[i]]]
BlockMessages(n, matched) ==
    <<[type |-> "merkleblock", block |-> [height |-> n, matched |-> matched]]>>
    \o TxMessages(matched)
InvMessages(txs, blocks) ==
    IF txs = << >> /\ blocks = << >> THEN << >>
    ELSE <<[type |-> "inv", txs |-> txs, blocks |-> blocks]>>

Unmined(t) == \A n \in 1..remote.height : t \notin Range(Mined[n])

(* The blocks of a list, each with its transactions that the filter matches. *)
ScanBlocks(filter, blocks) ==
    LET scan[k \in 0..Len(blocks)] ==
          IF k = 0 THEN [filter |-> filter, sent |-> << >>]
          ELSE LET r == scan[k - 1]
                   s == Scan(r.filter, Mined[blocks[k]])
               IN  [filter |-> s.filter, sent |-> r.sent \o BlockMessages(blocks[k], s.matched)]
    IN  scan[Len(blocks)]

ServeGetdata(m) ==
    LET served == ScanBlocks(remote.filter, m.blocks)
    IN  /\ remote' = [remote EXCEPT !.filter = served.filter]
        /\ toNode' = toNode \o TxMessages(m.txs) \o served.sent

(* The transactions of the memory pool that the filter matches, scanned in   *)
(* any order.                                                                *)
ServeMempool ==
    \E txs \in SetToSeqs({t \in remote.pool : Unmined(t)}) :
      LET s == Scan(remote.filter, txs)
      IN  /\ toNode' = toNode \o InvMessages(s.matched, << >>)
          /\ remote' = [remote EXCEPT !.filter = s.filter]

Serve ==
    /\ node.out # << >>
    /\ node' = [node EXCEPT !.out = Tail(@)]
    /\ LET m == Head(node.out)
       IN  \/ m.type = "filterload" /\ remote' = [remote EXCEPT !.filter = m.filter]
                                    /\ UNCHANGED toNode
           \/ m.type = "getdata" /\ ServeGetdata(m)
           \/ /\ m.type = "ping"
              /\ toNode' = Append(toNode, [type |-> "pong"])
              /\ UNCHANGED remote
           \/ /\ m.type = "getblocks"
              /\ LET last == Min({remote.height, m.from + MaxInv})
                 IN  toNode' = toNode \o
                       InvMessages(<< >>, [i \in 1..(last - m.from) |-> m.from + i])
              /\ UNCHANGED remote
           \/ m.type = "mempool" /\ ServeMempool
    /\ UNCHANGED drops

(* A transaction enters the peer's memory pool, after those it spends. *)
Announce(t) ==
    /\ t \in Relayed \ remote.pool /\ Unmined(t)
    /\ \A p \in Parents(t) : p \in remote.pool \/ ~Unmined(p)
    /\ IF Matches(remote.filter, t)
       THEN /\ toNode' = toNode \o InvMessages(<<t>>, << >>)
            /\ remote' = [remote EXCEPT !.pool = @ \cup {t},
                                        !.filter = WithOutputs(@, t)]
       ELSE /\ remote' = [remote EXCEPT !.pool = @ \cup {t}]
            /\ UNCHANGED toNode
    /\ UNCHANGED <<node, drops>>

Mine ==
    /\ remote.height < Len(Mined)
    /\ remote' = [remote EXCEPT !.height = @ + 1]
    /\ toNode' = toNode \o InvMessages(<< >>, <<remote.height + 1>>)
    /\ UNCHANGED <<node, drops>>

-----------------------------------------------------------------------------
Init ==
    /\ remote = [height |-> Height0, filter |-> NULL, pool |-> {}]
    /\ node = PeerConnected(
         [wallet |-> WalletNew(<< >>, << >>, << >>), lastBlock |-> 0, estimated |-> 0,
          orphans |-> {}, lastOrphan |-> 0, early |-> {}, filter |-> NULL, updating |-> FALSE,
          syncing |-> TRUE, timer |-> FALSE, known |-> << >>, knownTx |-> {},
          current |-> NoBlock, missing |-> {}, pongs |-> << >>, lastInv |-> 0,
          sentMempool |-> FALSE, mempool |-> FALSE, reported |-> 0, out |-> << >>],
         Height0)
    /\ toNode = << >>
    /\ drops = 0

Next ==
    \/ Receive \/ MempoolTimeout \/ Drop \/ Timeout \/ Serve \/ Mine
    \/ \E t \in Relayed : Announce(t)

(* The peer answers and the connection delivers; timers run out.  The        *)
(* fairness of Receive, Serve and Timeout is stated by what they alone do to *)
(* one of the variables.                                                     *)
Delivers == toNode # << >> /\ toNode' = Tail(toNode)
Answers == node.out # << >> /\ node' = [node EXCEPT !.out = Tail(@)]
Expires ==
    /\ node.timer /\ node.out = << >> /\ toNode = << >>
    /\ remote' = [remote EXCEPT !.filter = NULL]
Fairness ==
    WF_toNode(Delivers) /\ WF_node(Answers) /\ WF_remote(Expires) /\ WF_vars(MempoolTimeout)

Spec == Init /\ [][Next]_vars /\ Fairness

-----------------------------------------------------------------------------
(* Properties. *)

(* Type correctness of the state: a block is waited for exactly when some of *)
(* its transactions are missing, and a pong is due for every callback.       *)
TypeOK ==
    /\ node.lastBlock \in 0..Len(Mined) /\ node.estimated \in 0..Len(Mined)
    /\ {o.height : o \in node.orphans} \subseteq DOMAIN Mined
    /\ Range(node.wallet.transactions) \subseteq Tx
    /\ node.missing = {} <=> node.current = NoBlock
    /\ node.missing \subseteq Range(node.current.matched)
    /\ Len(node.pongs) = Cardinality({i \in DOMAIN node.out : node.out[i].type = "ping"})
                         + Cardinality({i \in DOMAIN toNode : toNode[i].type = "pong"})
    /\ remote.height \in Height0..Len(Mined) /\ remote.pool \subseteq Relayed
    /\ drops \in 0..MaxDrops

(* The transactions of the chain that pay an address of the wallet, whether  *)
(* it has been generated yet or not, or spend an output that does.           *)
Ours(addr) == addr[1] \in Chains
OursPaid(t) == \E i \in DOMAIN Outputs[t] : Ours(Outputs[t][i].address)
OursSpent(t) ==
    \E i \in Inputs[t] : i[1] \in Tx /\ Ours(Outputs[i[1]][i[2] + 1].address)

(* The wallet has a transaction, confirmed at its height. *)
Found(t, n) == t \in Range(node.wallet.transactions) /\ node.wallet.height[t] = n

(* Whatever arrives while the filter changes: every transaction in a block   *)
(* of the chain, up to the node's last block, that pays the wallet is in the *)
(* wallet and confirmed at that height.  A block matched by a filter that    *)
(* was made before the wallet knew the address is never taken.               *)
NoMissedPayment ==
    \A n \in 1..node.lastBlock : \A t \in Range(Mined[n]) : OursPaid(t) => Found(t, n)

(* The same of those that spend an output of the wallet, unless the block    *)
(* was taken from the orphans, matched before the one with the output.       *)
NoMissedSpend ==
    \A n \in (1..node.lastBlock) \ node.early : \A t \in Range(Mined[n]) :
        OursSpent(t) => Found(t, n)

(* The download always comes to the height the peer reported, by the sync    *)
(* timeout where the protocol gets stuck.                                    *)
SyncCompletes == []<>(node.lastBlock >= node.estimated)
=============================================================================
