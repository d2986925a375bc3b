------------------------------ MODULE BTCPublish ------------------------------
(* BRPeerManagerPublishTx of BRPeerManager.c: a transaction is told to peers *)
(* and its callback called once, with the first sign that a peer has it or   *)
(* with an error.  The sign may never come: the only other way to an answer  *)
(* is the timer of a peer, one per peer, which the download of blocks shares,*)
(* while peers connect, are replaced, disconnect, and new ones are found or  *)
(* not.                                                                      *)
(*                                                                           *)
(* A transaction that is listed already is not listed again: the callback it *)
(* is published with is dropped.  That happens to what a peer has relayed,   *)
(* what another transaction spends from, and what is published again after a *)
(* timeout.                                                                  *)
(*                                                                           *)
(* What a block, the filter or a transaction is is left out: BTCSync.tla and *)
(* BTCChain.tla have that; an update of the filter asks for memory pools     *)
(* with no callback.  A callback runs after the lock is freed; it was taken  *)
(* out of the list before, so when it runs makes no difference.  The network *)
(* is reachable when a peer is connected, and no peer is trusted.            *)
EXTENDS Naturals, FiniteSets

CONSTANTS
    Peer,         \* room for connected peers
    Tx,           \* transactions of the wallet, published or relayed
    None,         \* no peer, no transaction
    Height,       \* the height of the chain; peers report up to that
    MaxConnect,   \* maxConnectCount
    MaxFailures,  \* MAX_CONNECT_FAILURES
    MaxPublish,   \* a bound on how often the app publishes each
    MaxFaults     \* a bound on what else goes wrong

ASSUME PublishAssumption ==
    /\ None \notin Peer /\ None \notin Tx /\ IsFiniteSet(Peer)
    /\ Height \in Nat /\ MaxConnect \in Nat \ {0} /\ MaxFailures \in Nat \ {0}
    /\ MaxPublish \in Nat /\ MaxFaults \in Nat

VARIABLES
    manager,     \* the peer manager
    peer,        \* its connectedPeers, by the place they take
    publishing,  \* the transaction whose publisher has freed the lock to look
                 \* at the network
    published,   \* history: how often the app has published each, ...
    answers,     \* ... how often a callback of it was called, ...
    dropped,     \* ... and how often one was dropped
    faults       \* history: how many faults there were
calls == <<published, answers, dropped>>
vars == <<manager, peer, publishing, published, answers, dropped, faults>>

(* A place with no peer.  A closed peer keeps its status until the loop of   *)
(* its thread has ended, and its place until the peer is freed.  Its timer   *)
(* is disconnectTime; told is what was sent to it in an inv, last the height *)
(* it reported, ping whether pongs are due after which its memory pool is    *)
(* asked for, mempool whether callbacks of such a request are.               *)
NewPeer == [status |-> "none", closed |-> FALSE, timer |-> FALSE, told |-> {},
            last |-> 0, ping |-> FALSE, mempool |-> FALSE, error |-> "none"]

Used == {p \in Peer : peer[p].status # "none"}

Connected(peers) == {p \in Peer : peers[p].status = "connected"}

Behind == manager.tip < manager.estimated

-----------------------------------------------------------------------------
(* Steps of handlers: what they do to all peers and to the manager. *)

(* Mutant of StopTimer: the timer is cancelled whatever waits for it. *)
StopTimerAlways(peers, pending) ==
    IF manager.download = None THEN peers
    ELSE [peers EXCEPT ![manager.download].timer = FALSE]

(* SyncStopped leaves the timer to a publish that is pending. *)
StopTimer(peers, pending) ==
    IF manager.download = None \/ pending # {} THEN peers
    ELSE [peers EXCEPT ![manager.download].timer = FALSE]

(* PublishPendingTx: an inv of the whole list, and the publish timeout. *)
PublishPending(peers, some, listed, pending) ==
    [p \in Peer |->
        IF p \notin some THEN peers[p]
        ELSE [peers[p] EXCEPT !.timer = @ \/ pending # {}, !.told = @ \cup listed]]

(* A new filter, the list, and a ping before the memory pool is asked for.   *)
Refilter(peers, some) ==
    LET told == PublishPending(peers, some, manager.listed, manager.pending)
    IN  [p \in Peer |->
            IF p \in some THEN [told[p] EXCEPT !.ping = TRUE]
            ELSE peers[p]]

(* BRPeerSendMempool.  It asks once for each filter; sentMempool, that says  *)
(* so, is left out: no callback that is due need come.                       *)
AskMempool(x) == [x EXCEPT !.mempool = TRUE]

(* The download peer is asked at once, unless its filter has become worse    *)
(* than it was set up to be: then it gets another, as all others do.         *)
LoadMempools(peers, download, worse) ==
    LET some == Connected(peers) \ (IF worse THEN {} ELSE {download})
        filtered == Refilter(peers, some)
    IN  [p \in Peer |->
            IF p \in Connected(peers) \ some THEN AskMempool(filtered[p]) ELSE filtered[p]]

Answer(some) == answers' = [t \in Tx |-> IF t \in some THEN answers[t] + 1 ELSE answers[t]]

Fault == faults < MaxFaults /\ faults' = faults + 1
NoFault == UNCHANGED faults

-----------------------------------------------------------------------------
(* BRPeerManagerConnect, of the app or after a disconnection.  Peers are     *)
(* found, some or none, until there are enough.                              *)
ConnectTo(new) ==
    LET retry == [manager EXCEPT
            !.failures = IF @ >= MaxFailures THEN 0 ELSE @,
            !.syncing = @ \/ manager.download = None \/ Behind]
    IN  /\ Cardinality(Used \cup new) <= MaxConnect
        /\ peer' = [p \in Peer |->
              IF p \in new THEN [NewPeer EXCEPT !.status = "connecting", !.timer = TRUE]
              ELSE peer[p]]
        /\ manager' = IF Used \cup new = {} THEN [retry EXCEPT !.syncing = FALSE] ELSE retry
        /\ UNCHANGED <<publishing, calls, faults>>

Connect == \E new \in SUBSET (Peer \ Used) : ConnectTo(new)

(* _peerConnected.  The handshake ends with a peer that will not do, ... *)
Unsuitable(p) ==
    /\ peer[p].status = "connecting" /\ Fault
    /\ peer' = [peer EXCEPT ![p].status = "connected", ![p].closed = TRUE,
                            ![p].timer = FALSE]
    /\ UNCHANGED <<manager, publishing, calls>>

Handshaken(p, last) == [peer EXCEPT ![p].status = "connected", ![p].timer = FALSE,
                                    ![p].last = last]

(* ... one more beside the download peer, which is told what is pending if   *)
(* the download is done, ...                                                 *)
AddPeer(p, last) ==
    /\ peer[p].status = "connecting"
    /\ manager.download # None
    /\ last <= peer[manager.download].last \/ last <= manager.tip
    /\ LET peers == Handshaken(p, last)
       IN  IF last <= manager.tip
           THEN /\ manager' = [manager EXCEPT !.failures = 0]
                /\ peer' = Refilter(peers, {p})
           ELSE peer' = peers /\ UNCHANGED manager
    /\ UNCHANGED <<publishing, calls>> /\ NoFault

(* ... or a new download peer, the new one or a better one that is there. *)
NewDownload(p, last, d) ==
    /\ peer[p].status = "connecting"
    /\ manager.download # None => last > peer[manager.download].last /\ last > manager.tip
    /\ d \in Connected(Handshaken(p, last)) /\ Handshaken(p, last)[d].last >= last
    /\ LET peers == [q \in Peer |->
               IF q = manager.download THEN [Handshaken(p, last)[q] EXCEPT !.closed = TRUE]
               ELSE Handshaken(p, last)[q]]
           told == PublishPending(peers, {d}, manager.listed, manager.pending)
           reached == manager.tip >= peers[d].last
       IN  /\ manager' = [manager EXCEPT !.download = d, !.estimated = peers[d].last,
                                         !.failures = IF reached THEN 0 ELSE @]
           /\ peer' = IF reached THEN LoadMempools(told, d, FALSE)
                      ELSE [told EXCEPT ![d].timer = TRUE]
    /\ UNCHANGED <<publishing, calls>> /\ NoFault

PeerConnected(p) ==
    \/ Unsuitable(p)
    \/ \E last \in 0..Height : AddPeer(p, last) \/ \E d \in Peer : NewDownload(p, last, d)

(* A block of the download peer, the next one or, while the filter is being  *)
(* updated, one that is ignored.                                             *)
RelayedBlock(p) ==
    /\ p = manager.download /\ peer[p].status = "connected" /\ Behind
    /\ manager.tip < peer[p].last
    /\ \E tip \in {manager.tip, manager.tip + 1} :
         IF tip < manager.estimated
         THEN /\ manager' = [manager EXCEPT !.tip = tip, !.failures = 0]
              /\ peer' = [peer EXCEPT ![p].timer = TRUE]
         ELSE /\ manager' = [manager EXCEPT !.tip = tip]
              /\ \E worse \in BOOLEAN : peer' = LoadMempools(peer, p, worse)
    /\ UNCHANGED <<publishing, calls, faults>>

(* loadBloomFilterDone, with a pong. *)
Pong(p) ==
    /\ peer[p].status = "connected" /\ peer[p].ping
    /\ \E more \in BOOLEAN : peer' = [peer EXCEPT ![p] = [AskMempool(@) EXCEPT !.ping = more]]
    /\ UNCHANGED <<manager, publishing, calls, faults>>

MempoolDone(p) ==
    /\ peer[p].status = "connected" /\ peer[p].mempool
    /\ \E more \in BOOLEAN :
         LET peers == [peer EXCEPT ![p].mempool = more]
         IN  peer' = IF manager.syncing THEN StopTimer(peers, manager.pending) ELSE peers
    /\ manager' = [manager EXCEPT !.syncing = FALSE]
    /\ UNCHANGED <<publishing, calls, faults>>

-----------------------------------------------------------------------------
(* Signs that a peer has a transaction.  The timer of the peer goes when     *)
(* nothing is pending, unless the download uses it.                          *)
Cancel(p, pending) ==
    IF pending = {} /\ (~manager.syncing \/ p # manager.download)
    THEN [peer EXCEPT ![p].timer = FALSE] ELSE peer

(* AddTxToPublishList: nothing is added for a transaction that is listed or  *)
(* confirmed, else it and what it spends from that is in the wallet and not  *)
(* confirmed.  Which those are is left open.                                 *)
Additions(t) ==
    IF t \in manager.listed THEN {{}} ELSE {added \in SUBSET Tx : added = {} \/ t \in added}

(* Mutant of TakeOut: the callback stays in the list. *)
TakeOutNothing(t, added) ==
    /\ Answer(manager.pending \cap {t})
    /\ manager' = [manager EXCEPT !.listed = @ \cup added]

(* The callback is taken out of the list and called. *)
TakeOut(t, added) ==
    /\ Answer(manager.pending \cap {t})
    /\ manager' = [manager EXCEPT !.pending = @ \ {t}, !.listed = @ \cup added]

(* The peer asks for the transaction: valid or not, that answers. *)
RequestedTx(p, t) ==
    /\ peer[p].status = "connected" /\ t \in peer[p].told
    /\ TakeOut(t, {})
    /\ peer' = Cancel(p, manager.pending \ {t})
    /\ UNCHANGED <<publishing, published, dropped, faults>>

(* relayedTx and hasTx: the peer sends a transaction or names it; another    *)
(* device may have published it, and None is any that this one does not.  If *)
(* it is registered with the wallet then, while syncing, the timer of the    *)
(* download peer is set again, and a valid one by which the wallet sends is  *)
(* listed, with no callback.                                                 *)
RelayedTx(p, t) ==
    /\ peer[p].status = "connected"
    /\ \E registered \in BOOLEAN :
         /\ peer' = IF manager.syncing /\ p = manager.download /\ registered
                    THEN [peer EXCEPT ![p].timer = TRUE]
                    ELSE Cancel(p, manager.pending \ {t})
         /\ \E added \in IF registered /\ t # None THEN Additions(t) ELSE {{}} : TakeOut(t, added)
    /\ UNCHANGED <<publishing, published, dropped, faults>>

-----------------------------------------------------------------------------
(* Mutant of TimedOut: a timeout of the download peer is never a publish's.  *)
TimedOutOther(p, error) == error = "timeout" /\ p # manager.download

(* A timeout that may be that of a publish, and is taken for one. *)
TimedOut(p, error) ==
    error = "timeout" /\ (p # manager.download \/ ~manager.syncing \/ Used = {p})

(* Mutant of Gone: the disconnected peer stays the download peer. *)
GoneKept(p) == manager.download

Gone(p) == IF p = manager.download THEN None ELSE manager.download

(* The loop of the thread of the peer ends with an error, ... *)
End(p, error) ==
    /\ peer' = [peer EXCEPT ![p] = [peer[p] EXCEPT !.status = "ended", !.closed = TRUE,
                !.timer = FALSE, !.told = {}, !.mempool = FALSE, !.error = error,
                !.last = IF p = manager.download THEN peer[p].last ELSE 0]]
    /\ UNCHANGED <<manager, publishing, calls>>

(* ... the timer having run out; ... *)
Expire(p) ==
    /\ p \in Used /\ ~peer[p].closed /\ peer[p].timer
    /\ End(p, "timeout") /\ NoFault

(* ... the connection having broken, or the peer the protocol; ... *)
Break(p) ==
    /\ p \in Used /\ ~peer[p].closed /\ Fault
    /\ \E error \in {"none", "other"} : End(p, error)

(* ... or by a disconnection of our own. *)
Closed(p) ==
    /\ p \in Used /\ peer[p].closed /\ peer[p].status # "ended" /\ NoFault
    /\ \E error \in {"none", "other"} : End(p, error)

(* Then the pongs that are due fail, loadBloomFilterDone ending the sync of  *)
(* the download peer; ...                                                    *)
PongsFail(p) ==
    /\ peer[p].status = "ended" /\ peer[p].ping
    /\ peer' = [peer EXCEPT ![p].ping = FALSE]
    /\ manager' = [manager EXCEPT !.syncing = @ /\ p # manager.download]
    /\ UNCHANGED <<publishing, calls, faults>>

(* ... and _peerDisconnected has the error, a protocol error being like none. *)
Disconnected(p) ==
    LET failed == peer[p].error \in {"timeout", "other"}
        counted == manager.failures + (IF failed THEN 1 ELSE 0)
        failures == IF p = manager.download /\ counted > MaxFailures THEN MaxFailures ELSE counted
        gaveUp == Gone(p) = None /\ failures = MaxFailures
        cancelled == TimedOut(p, peer[p].error) \/ gaveUp
    IN  /\ peer[p].status = "ended" /\ ~peer[p].ping
        /\ manager' = [manager EXCEPT
              !.download = Gone(p),
              !.failures = IF failures > MaxFailures THEN MaxFailures + 1 ELSE failures,
              !.syncing = @ /\ ~gaveUp,
              !.pending = IF cancelled THEN {} ELSE @]
        /\ Answer(IF cancelled THEN manager.pending ELSE {})
        /\ peer' = [peer EXCEPT ![p] = NewPeer]
        /\ UNCHANGED <<publishing, published, dropped, faults>>

(* BRPeerManagerDisconnect: no reconnection, every socket closed. *)
Disconnect ==
    /\ Used # {} /\ Fault
    /\ manager' = [manager EXCEPT !.failures = MaxFailures]
    /\ peer' = [p \in Peer |-> [peer[p] EXCEPT !.closed = p \in Used]]
    /\ UNCHANGED <<publishing, calls>>

(* BRPeerManagerRescan: the sync is over, and another download peer chosen.  *)
Rescan ==
    /\ manager.download # None /\ Fault
    /\ manager' = [manager EXCEPT !.tip = 0, !.syncing = FALSE]
    /\ peer' = [peer EXCEPT ![manager.download].closed = TRUE]
    /\ UNCHANGED <<publishing, calls>>

-----------------------------------------------------------------------------
(* BRPeerManagerPublishTx.  The download peer is left out unless it is the   *)
(* only one.                                                                 *)
Told == IF Cardinality(Connected(peer)) = 1 THEN Connected(peer)
        ELSE Connected(peer) \ {manager.download}

(* The callback is dropped if the transaction is not added. *)
AddToList(t) ==
    /\ \E added \in Additions(t) :
         /\ manager' = [manager EXCEPT !.listed = @ \cup added,
                                       !.pending = @ \cup (added \cap {t})]
         /\ dropped' = [dropped EXCEPT ![t] = IF t \in added THEN @ ELSE @ + 1]
    /\ peer' = PublishPending(peer, Told, manager'.listed, manager'.pending)
    /\ UNCHANGED answers

Publish(t) ==
    /\ published[t] < MaxPublish /\ publishing = None
    /\ published' = [published EXCEPT ![t] = @ + 1]
    /\ \/ manager.download # None /\ AddToList(t) /\ UNCHANGED publishing
       \/ /\ manager.download = None /\ manager.failures < MaxFailures
          /\ publishing' = t /\ UNCHANGED <<manager, peer, answers, dropped>>
       \/ /\ manager.download = None
          /\ Answer({t}) /\ UNCHANGED <<manager, peer, publishing, dropped>>
    /\ NoFault

(* The lock is taken again, and nothing looked at again. *)
PublishOn ==
    /\ publishing # None /\ AddToList(publishing) /\ publishing' = None
    /\ UNCHANGED <<published, faults>>

-----------------------------------------------------------------------------
Init ==
    /\ manager = [download |-> None, syncing |-> FALSE, tip |-> 0, estimated |-> 0,
                  failures |-> 0, listed |-> {}, pending |-> {}]
    /\ peer = [p \in Peer |-> NewPeer] /\ publishing = None
    /\ published = [t \in Tx |-> 0] /\ answers = published /\ dropped = published
    /\ faults = 0

Handle(p) ==
    \/ PeerConnected(p) \/ RelayedBlock(p) \/ Pong(p) \/ MempoolDone(p)
    \/ \E t \in Tx : RequestedTx(p, t)
    \/ \E t \in Tx \cup {None} : RelayedTx(p, t)
    \/ Expire(p) \/ Break(p) \/ Closed(p) \/ PongsFail(p) \/ Disconnected(p)

Next ==
    \/ Connect \/ Disconnect \/ Rescan \/ PublishOn
    \/ \E t \in Tx : Publish(t)
    \/ \E p \in Peer : Handle(p)

Spec == Init /\ [][Next]_vars

(* Timers run out, threads end, blocks come; the app connects again and      *)
(* again, and peers are found.                                               *)
Fairness ==
    /\ WF_vars(PublishOn)
    /\ \A p \in Peer :
         WF_vars(Expire(p)) /\ WF_vars(Closed(p)) /\ WF_vars(PongsFail(p))
            /\ WF_vars(Disconnected(p)) /\ WF_vars(RelayedBlock(p)) /\ WF_vars(ConnectTo({p}))

(* A download that times out with other peers connected cancels no publish,  *)
(* and nothing bounds how often that happens: it is assumed to end.          *)
SyncTimeout(p) ==
    /\ Disconnected(p) /\ peer[p].error = "timeout"
    /\ p = manager.download /\ manager.syncing /\ Used # {p}

FairSpec == Spec /\ Fairness /\ <>[][\A p \in Peer : ~SyncTimeout(p)]_vars
-----------------------------------------------------------------------------
PeerType == [status : {"none", "connecting", "connected", "ended"}, closed : BOOLEAN,
             timer : BOOLEAN, told : SUBSET Tx, last : 0..Height, ping : BOOLEAN,
             mempool : BOOLEAN,
             error : {"none", "timeout", "other"}]

Active == {p \in Peer : peer[p].status \in {"connected", "ended"}}

(* Type correctness.  A callback is pending for listed transactions only;    *)
(* the download peer is one of the peers, until it is freed.                 *)
TypeOK ==
    /\ manager.download \in Active \cup {None}
    /\ manager.syncing \in BOOLEAN
    /\ manager.tip \in 0..Height /\ manager.estimated \in 0..Height
    /\ manager.failures \in 0..MaxFailures + 1
    /\ manager.pending \subseteq manager.listed /\ manager.listed \subseteq Tx
    /\ peer \in [Peer -> PeerType] /\ Cardinality(Used) <= MaxConnect
    /\ publishing \in Tx \cup {None} /\ published \in [Tx -> 0..MaxPublish]
    /\ answers \in [Tx -> Nat] /\ dropped \in [Tx -> Nat] /\ faults \in 0..MaxFaults

Held(t) == (IF t \in manager.pending THEN 1 ELSE 0) + (IF t = publishing THEN 1 ELSE 0)

(* A callback, which frees the listener, is called at most once, not while   *)
(* the list or a publisher holds it, and never if it was dropped: for each   *)
(* transaction the callbacks called, dropped and held are those given.       *)
AnsweredOnce == \A t \in Tx : answers[t] + dropped[t] + Held(t) = published[t]

(* A peer that was told of a transaction that is pending is disconnected if  *)
(* it does not react: whatever cancels a timer looks at all that is pending. *)
ToldIsTimed ==
    \A p \in Peer :
        p \in Used /\ ~peer[p].closed /\ peer[p].told \cap manager.pending # {}
            => peer[p].timer

(* A callback that is listed is called, if the app goes on to connect and    *)
(* peers are found.  Nothing is said of one that is dropped, and nothing     *)
(* without the app: the manager does not always connect again by itself.     *)
Answered == \A t \in Tx : t \in manager.pending ~> t \notin manager.pending
=============================================================================
