--------------------------- MODULE BTCPublishProofs ---------------------------
(* Proofs about publishing, for any peers, transactions, heights and limits: *)
(* no callback is called twice or forgotten, but for those that are dropped  *)
(* when they are given, and a peer that was told of a transaction whose      *)
(* callback is pending has its timer set.                                    *)
EXTENDS BTCPublish, FiniteSetTheorems, TLAPS

ManagerType ==
    [download : Peer \cup {None}, syncing : BOOLEAN, tip : 0..Height,
     estimated : 0..Height, failures : 0..MaxFailures + 1, listed : SUBSET Tx, pending : SUBSET Tx]

(* A place x of connectedPeers, beside the lists of the manager: only what   *)
(* is listed is told, nothing before the handshake, and what is told and     *)
(* pending has the timer set.                                                *)
Good(x, listed, pending) ==
    /\ x \in PeerType
    /\ x.told \subseteq listed
    /\ x.status = "connecting" => x.told = {}
    /\ x.status # "none" /\ ~x.closed /\ x.told \cap pending # {} => x.timer

Lists ==
    /\ manager \in ManagerType
    /\ manager.pending \subseteq manager.listed
    /\ publishing \in Tx \cup {None}
    /\ faults \in 0..MaxFaults

Places ==
    /\ peer \in [Peer -> PeerType]
    /\ \A p \in Peer : Good(peer[p], manager.listed, manager.pending)
    /\ manager.download \in Active \cup {None}
    /\ Cardinality(Used) <= MaxConnect

Callbacks ==
    /\ published \in [Tx -> 0..MaxPublish] /\ answers \in [Tx -> Nat]
    /\ dropped \in [Tx -> Nat] /\ AnsweredOnce

IInv == Lists /\ Places /\ Callbacks

-----------------------------------------------------------------------------
LEMMA UsedIsFinite == IsFiniteSet(Used) /\ Cardinality(Used) \in Nat
<1>1. Used \subseteq Peer /\ IsFiniteSet(Peer)
  BY PublishAssumption DEF Used
<1> QED
  BY <1>1, FS_Subset, FS_CardinalityType

(* No more peers than before. *)
LEMMA NotMoreUsed ==
    ASSUME Cardinality(Used) <= MaxConnect, Used' \subseteq Used
    PROVE  Cardinality(Used') <= MaxConnect
<1>1. Cardinality(Used') \in Nat /\ Cardinality(Used) \in Nat
      /\ Cardinality(Used') <= Cardinality(Used)
  BY UsedIsFinite, FS_Subset, FS_CardinalityType
<1> QED
  BY <1>1, PublishAssumption

LEMMA HeldType == \A t : Held(t) \in Nat
BY DEF Held

(* The callbacks of the pending transactions in S are called. *)
LEMMA AnswerPending ==
    ASSUME Lists, Callbacks, NEW S \in SUBSET Tx, S \subseteq manager.pending, Answer(S),
           manager'.pending = manager.pending \ S, UNCHANGED <<published, dropped, publishing>>
    PROVE  Callbacks'
<1>1. /\ answers' = [t \in Tx |-> IF t \in S THEN answers[t] + 1 ELSE answers[t]]
      /\ answers \in [Tx -> Nat] /\ dropped \in [Tx -> Nat] /\ published \in [Tx -> Nat]
  BY PublishAssumption DEF Answer, Callbacks
<1>2. answers' \in [Tx -> Nat]
  BY <1>1
<1>3. ASSUME NEW t \in Tx
      PROVE  answers'[t] + dropped'[t] + Held(t)' = published'[t]
  <2>1. answers[t] + dropped[t] + Held(t) = published[t]
    BY DEF Callbacks, AnsweredOnce
  <2>2. answers[t] \in Nat /\ dropped[t] \in Nat /\ published[t] \in Nat
    BY <1>1
  <2>3. CASE t \in S
    <3>1. answers'[t] = answers[t] + 1
      BY <1>1, <2>3
    <3>2. Held(t)' = Held(t) - 1
      BY <2>3 DEF Held
    <3> QED
      BY <2>1, <2>2, <3>1, <3>2, HeldType
  <2>4. CASE t \notin S
    <3>1. answers'[t] = answers[t] /\ Held(t)' = Held(t)
      BY <1>1, <2>4 DEF Held
    <3> QED
      BY <2>1, <3>1
  <2> QED
    BY <2>3, <2>4
<1> QED
  BY <1>2, <1>3 DEF Callbacks, AnsweredOnce

(* A step that answers nothing. *)
LEMMA NoAnswer ==
    ASSUME Callbacks, manager'.pending = manager.pending, UNCHANGED <<calls, publishing>>
    PROVE  Callbacks'
BY DEF Callbacks, AnsweredOnce, Held, calls

(* A step that changes the place of p only. *)
LEMMA OnePlace ==
    ASSUME Lists', Places, NEW p \in Peer, NEW y, peer' = [peer EXCEPT ![p] = y],
           manager.listed \subseteq manager'.listed,
           manager'.pending \subseteq manager.pending,
           Good(y, manager'.listed, manager'.pending),
           y.status # "none" => peer[p].status # "none",
           manager'.download \in Active' \cup {None}
    PROVE  Places'
<1>1. /\ peer \in [Peer -> PeerType] /\ y \in PeerType
      /\ peer' \in [Peer -> PeerType] /\ peer'[p] = y
      /\ \A q \in Peer : q # p => peer'[q] = peer[q]
  BY DEF Places, Good
<1>2. ASSUME NEW q \in Peer PROVE Good(peer'[q], manager'.listed, manager'.pending)
  <2>1. CASE q = p
    BY <1>1, <2>1
  <2>2. CASE q # p
    <3>1. Good(peer[q], manager.listed, manager.pending) /\ peer'[q] = peer[q]
      BY <1>1, <2>2 DEF Places
    <3> QED
      BY <3>1 DEF Good
  <2> QED
    BY <2>1, <2>2
<1>3. Used' \subseteq Used
  BY <1>1 DEF Used
<1> QED
  BY <1>1, <1>2, <1>3, NotMoreUsed DEF Places
-----------------------------------------------------------------------------
(* What the steps of the handlers do to places that are all good.          *)

Fine(peers) ==
    /\ peers \in [Peer -> PeerType]
    /\ \A q \in Peer : Good(peers[q], manager.listed, manager.pending)

SameStatus(peers, peers2) == \A q \in Peer : peers2[q].status = peers[q].status

LEMMA FineAt ==
    ASSUME NEW peers, Fine(peers), NEW p \in Peer, NEW y,
           Good(y, manager.listed, manager.pending)
    PROVE  /\ Fine([peers EXCEPT ![p] = y])
           /\ y.status = peers[p].status => SameStatus(peers, [peers EXCEPT ![p] = y])
           /\ [peers EXCEPT ![p] = y][p] = y
           /\ \A q \in Peer : q # p => [peers EXCEPT ![p] = y][q] = peers[q]
BY DEF Fine, SameStatus, Good

LEMMA GoodTimed ==
    ASSUME NEW x, NEW listed, NEW pending, Good(x, listed, pending)
    PROVE  /\ Good([x EXCEPT !.timer = TRUE], listed, pending)
           /\ [x EXCEPT !.timer = TRUE].status = x.status
BY DEF Good, PeerType

LEMMA GoodUntimed ==
    ASSUME NEW x, NEW listed, NEW pending, Good(x, listed, pending), pending = {}
    PROVE  /\ Good([x EXCEPT !.timer = FALSE], listed, pending)
           /\ [x EXCEPT !.timer = FALSE].status = x.status
BY DEF Good, PeerType

LEMMA GoodPinged ==
    ASSUME NEW x, NEW listed, NEW pending, Good(x, listed, pending)
    PROVE  /\ Good([x EXCEPT !.ping = TRUE], listed, pending)
           /\ [x EXCEPT !.ping = TRUE].status = x.status
BY DEF Good, PeerType

LEMMA GoodMempool ==
    ASSUME NEW x, NEW listed, NEW pending, Good(x, listed, pending), NEW m \in BOOLEAN
    PROVE  /\ Good([x EXCEPT !.mempool = m], listed, pending)
           /\ [x EXCEPT !.mempool = m].status = x.status
BY DEF Good, PeerType

LEMMA GoodClosed ==
    ASSUME NEW x, NEW listed, NEW pending, Good(x, listed, pending)
    PROVE  /\ Good([x EXCEPT !.closed = TRUE], listed, pending)
           /\ [x EXCEPT !.closed = TRUE].status = x.status
BY DEF Good, PeerType

LEMMA GoodTold ==
    ASSUME NEW x, NEW listed \in SUBSET Tx, NEW pending \in SUBSET listed,
           Good(x, listed, pending), x.status # "connecting"
    PROVE  /\ Good([x EXCEPT !.timer = @ \/ pending # {}, !.told = @ \cup listed],
                   listed, pending)
           /\ [x EXCEPT !.timer = @ \/ pending # {}, !.told = @ \cup listed].status
                 = x.status
<1> DEFINE s == x.timer \/ pending # {}
           y == [x EXCEPT !.timer = s, !.told = x.told \cup listed]
<1>1. s \in BOOLEAN /\ x \in PeerType
  BY DEF Good, PeerType
<1>2. pending # {} => s
  OBVIOUS
<1> HIDE DEF s
<1>3. y \in PeerType /\ y.told = listed /\ y.timer = s /\ y.status = x.status
  BY <1>1 DEF Good, PeerType
<1>4. y = [x EXCEPT !.timer = @ \/ pending # {}, !.told = @ \cup listed]
  BY DEF s
<1> HIDE DEF y
<1>5. Good(y, listed, pending) /\ y.status = x.status
  BY <1>2, <1>3 DEF Good
<1> QED
  BY <1>4, <1>5

LEMMA FineTold ==
    ASSUME Lists, NEW peers, Fine(peers), NEW some \in SUBSET Connected(peers)
    PROVE  /\ Fine(PublishPending(peers, some, manager.listed, manager.pending))
           /\ SameStatus(peers, PublishPending(peers, some, manager.listed, manager.pending))
<1> DEFINE new == PublishPending(peers, some, manager.listed, manager.pending)
           told(x) == [x EXCEPT !.timer = @ \/ manager.pending # {},
                                !.told = @ \cup manager.listed]
<1>1. new = [p \in Peer |-> IF p \notin some THEN peers[p] ELSE told(peers[p])]
  BY DEF PublishPending
<1>2. ASSUME NEW p \in Peer, p \in some
      PROVE  /\ Good(told(peers[p]), manager.listed, manager.pending)
             /\ told(peers[p]).status = peers[p].status
  <2>1. /\ Good(peers[p], manager.listed, manager.pending)
        /\ peers[p].status # "connecting"
    BY <1>2 DEF Fine, Connected
  <2>2. manager.listed \in SUBSET Tx /\ manager.pending \in SUBSET manager.listed
    BY DEF Lists, ManagerType
  <2> QED
    BY <2>1, <2>2, GoodTold
<1> HIDE DEF told, new
<1>3. \A p \in Peer : /\ Good(new[p], manager.listed, manager.pending)
                      /\ new[p].status = peers[p].status
  BY <1>1, <1>2 DEF Fine
<1>4. new \in [Peer -> PeerType]
  BY <1>1, <1>3 DEF Good
<1> QED
  BY <1>3, <1>4 DEF Fine, SameStatus, new

LEMMA FineFilters ==
    ASSUME Lists, NEW peers, Fine(peers), NEW some \in SUBSET Connected(peers)
    PROVE  Fine(Refilter(peers, some)) /\ SameStatus(peers, Refilter(peers, some))
<1> DEFINE told == PublishPending(peers, some, manager.listed, manager.pending)
           new == Refilter(peers, some)
<1>1. Fine(told) /\ SameStatus(peers, told)
  BY FineTold
<1>2. new = [p \in Peer |-> IF p \in some THEN [told[p] EXCEPT !.ping = TRUE] ELSE peers[p]]
  BY DEF Refilter
<1> HIDE DEF told, new
<1>3. \A p \in Peer : /\ Good(new[p], manager.listed, manager.pending)
                      /\ new[p].status = peers[p].status
  BY <1>1, <1>2, GoodPinged DEF Fine, SameStatus
<1>4. new \in [Peer -> PeerType]
  <2>1. new = [p \in Peer |-> new[p]]
    BY <1>2
  <2> QED
    BY <1>3, <2>1 DEF Good
<1> QED
  BY <1>3, <1>4 DEF Fine, SameStatus, new

LEMMA FineMempools ==
    ASSUME Lists, NEW peers, Fine(peers), NEW d, NEW worse
    PROVE  Fine(LoadMempools(peers, d, worse)) /\ SameStatus(peers, LoadMempools(peers, d, worse))
<1> DEFINE some == Connected(peers) \ (IF worse THEN {} ELSE {d})
           filtered == Refilter(peers, some)
           new == LoadMempools(peers, d, worse)
<1>1. Fine(filtered) /\ SameStatus(peers, filtered)
  <2>1. some \in SUBSET Connected(peers)
    OBVIOUS
  <2> QED
    BY <2>1, FineFilters
<1>2. new = [p \in Peer |-> IF p \in Connected(peers) \ some
                           THEN [filtered[p] EXCEPT !.mempool = TRUE] ELSE filtered[p]]
  BY DEF LoadMempools, AskMempool
<1> HIDE DEF filtered, new, some
<1>3. \A p \in Peer : /\ Good(new[p], manager.listed, manager.pending)
                      /\ new[p].status = peers[p].status
  BY <1>1, <1>2, GoodMempool DEF Fine, SameStatus
<1>4. new \in [Peer -> PeerType]
  <2>1. new = [p \in Peer |-> new[p]]
    BY <1>2
  <2> QED
    BY <1>3, <2>1 DEF Good
<1> QED
  BY <1>3, <1>4 DEF Fine, SameStatus, new

LEMMA FinePlaces ==
    ASSUME Lists', Places, Fine(peer'), manager'.listed = manager.listed,
           manager'.pending = manager.pending,
           \A q \in Peer : peer'[q].status # "none" => peer[q].status # "none",
           manager'.download \in Active' \cup {None}
    PROVE  Places'
<1>1. Used' \subseteq Used
  BY DEF Used
<1> QED
  BY <1>1, NotMoreUsed DEF Places, Fine

-----------------------------------------------------------------------------
(* The actions. *)

LEMMA InvInit == Init => IInv
<1> SUFFICES ASSUME Init PROVE IInv
  OBVIOUS
<1>1. /\ manager \in ManagerType /\ manager.listed = {} /\ manager.pending = {}
      /\ manager.download = None
  BY PublishAssumption DEF Init, ManagerType
<1>2. Lists
  BY <1>1, PublishAssumption DEF Init, Lists
<1>3. /\ peer \in [Peer -> PeerType]
      /\ \A p \in Peer : peer[p] = NewPeer /\ Good(NewPeer, {}, {})
  BY PublishAssumption DEF Init, NewPeer, PeerType, Good
<1>4. Cardinality(Used) <= MaxConnect
  <2>1. Used = {}
    BY <1>3 DEF Used, NewPeer
  <2> QED
    BY <2>1, FS_EmptySet, PublishAssumption
<1>5. Callbacks
  <2>1. /\ published \in [Tx -> 0..MaxPublish] /\ answers \in [Tx -> Nat]
        /\ dropped \in [Tx -> Nat] /\ publishing = None
        /\ \A t \in Tx : answers[t] = 0 /\ dropped[t] = 0 /\ published[t] = 0
    BY PublishAssumption DEF Init
  <2>2. \A t \in Tx : Held(t) = 0
    BY <1>1, <2>1, PublishAssumption DEF Held
  <2> QED
    BY <2>1, <2>2 DEF Callbacks, AnsweredOnce
<1> QED
  BY <1>1, <1>2, <1>3, <1>4, <1>5 DEF IInv, Places

(* The app connects: new peers in free places. *)
LEMMA ConnectInv == IInv /\ Connect => IInv'
<1> SUFFICES ASSUME IInv, NEW new \in SUBSET (Peer \ Used), ConnectTo(new) PROVE IInv'
  BY DEF Connect
<1> USE PublishAssumption
<1>1. /\ manager' \in ManagerType /\ manager'.download = manager.download
      /\ manager'.listed = manager.listed /\ manager'.pending = manager.pending
  <2>1. manager \in ManagerType
    BY DEF IInv, Lists
  <2> DEFINE f == IF manager.failures >= MaxFailures THEN 0 ELSE manager.failures
             s == manager.syncing \/ manager.download = None \/ Behind
             retry == [manager EXCEPT !.failures = f, !.syncing = s]
  <2>0. f \in 0..MaxFailures + 1 /\ s \in BOOLEAN
    BY <2>1 DEF ManagerType
  <2>3. manager' = retry \/ manager' = [retry EXCEPT !.syncing = FALSE]
    BY DEF ConnectTo
  <2> HIDE DEF f, s
  <2>2. /\ retry.download = manager.download /\ retry.listed = manager.listed
        /\ retry.pending = manager.pending /\ retry \in ManagerType
    BY <2>0, <2>1 DEF ManagerType
  <2> HIDE DEF retry
  <2> QED
    BY <2>2, <2>3 DEF ManagerType
<1>2. UNCHANGED <<publishing, calls, faults>>
  BY DEF ConnectTo
<1>3. Lists' /\ Callbacks'
  BY <1>1, <1>2, NoAnswer DEF IInv, Lists
<1> DEFINE y == [NewPeer EXCEPT !.status = "connecting", !.timer = TRUE]
<1>4. /\ y \in PeerType /\ y.status = "connecting" /\ y.told = {}
  <2>1. NewPeer \in PeerType /\ NewPeer.told = {}
    BY DEF NewPeer, PeerType
  <2> QED
    BY <2>1 DEF PeerType
<1>5. peer' = [p \in Peer |-> IF p \in new THEN y ELSE peer[p]]
  BY DEF ConnectTo
<1> HIDE DEF y
<1>6. peer' \in [Peer -> PeerType] /\ Used' = Used \cup new
  BY <1>4, <1>5 DEF IInv, Places, Used
<1>7. \A p \in Peer : Good(peer'[p], manager'.listed, manager'.pending)
  BY <1>1, <1>4, <1>5 DEF IInv, Places, Good
<1>8. Cardinality(Used') <= MaxConnect
  BY <1>6 DEF ConnectTo
<1>9. Active \subseteq Active'
  BY <1>5 DEF Active, Used
<1> QED
  BY <1>1, <1>3, <1>6, <1>7, <1>8, <1>9 DEF IInv, Places

LEMMA HandlersInv ==
    ASSUME IInv, NEW p \in Peer, PeerConnected(p) \/ RelayedBlock(p) \/ Pong(p) \/ MempoolDone(p)
    PROVE  IInv'
<1> USE PublishAssumption
<1>1. /\ manager \in ManagerType /\ peer \in [Peer -> PeerType]
      /\ \A q \in Peer : Good(peer[q], manager.listed, manager.pending)
      /\ manager.pending \subseteq manager.listed /\ manager.listed \subseteq Tx
  BY DEF IInv, Lists, Places, ManagerType
<1>2. CASE Unsuitable(p)
  <2> DEFINE y == [peer[p] EXCEPT !.status = "connected", !.closed = TRUE, !.timer = FALSE]
  <2>1. peer' = [peer EXCEPT ![p] = y]
    BY <1>2 DEF Unsuitable
  <2>2. Good(y, manager.listed, manager.pending) /\ y.status = "connected"
    BY <1>1 DEF Good, PeerType
  <2>3. /\ peer[p].status = "connecting" /\ UNCHANGED <<manager, publishing, calls>>
        /\ faults' \in 0..MaxFaults
    BY <1>2 DEF Unsuitable, Fault, IInv, Lists
  <2> HIDE DEF y
  <2>4. Lists' /\ Callbacks'
    BY <2>3, NoAnswer DEF IInv, Lists
  <2>5. manager'.download \in Active' \cup {None}
    BY <1>1, <2>1, <2>2, <2>3 DEF IInv, Places, Active
  <2> QED
    BY <1>1, <2>1, <2>2, <2>3, <2>4, <2>5, OnePlace DEF IInv
<1>3. CASE Pong(p)
  <2>0. PICK more \in BOOLEAN :
          peer' = [peer EXCEPT ![p] = [AskMempool(@) EXCEPT !.ping = more]]
    BY <1>3 DEF Pong
  <2> DEFINE y == [peer[p] EXCEPT !.mempool = TRUE, !.ping = more]
  <2>1. peer' = [peer EXCEPT ![p] = y]
    BY <2>0 DEF AskMempool
  <2>2. Good(y, manager.listed, manager.pending) /\ y.status = peer[p].status
    BY <1>1 DEF Good, PeerType
  <2>3. UNCHANGED <<manager, publishing, calls, faults>>
    BY <1>3 DEF Pong
  <2> HIDE DEF y
  <2>4. Lists' /\ Callbacks'
    BY <2>3, NoAnswer DEF IInv, Lists
  <2>5. manager'.download \in Active' \cup {None}
    BY <1>1, <2>1, <2>2, <2>3 DEF IInv, Places, Active
  <2> QED
    BY <1>1, <2>1, <2>2, <2>3, <2>4, <2>5, OnePlace DEF IInv
<1>4. Lists /\ Places /\ Callbacks /\ Fine(peer)
  BY DEF IInv, Places, Fine
<1>5. CASE MempoolDone(p)
  <2>0. PICK more \in BOOLEAN :
          LET peers == [peer EXCEPT ![p].mempool = more]
          IN  peer' = IF manager.syncing THEN StopTimer(peers, manager.pending) ELSE peers
    BY <1>5 DEF MempoolDone
  <2> DEFINE y == [peer[p] EXCEPT !.mempool = more]
             peers == [peer EXCEPT ![p] = y]
  <2>1. Good(y, manager.listed, manager.pending) /\ y.status = peer[p].status
    BY <1>1, GoodMempool
  <2>2. peer' = IF manager.syncing THEN StopTimer(peers, manager.pending) ELSE peers
    BY <2>0
  <2>3. /\ manager' = [manager EXCEPT !.syncing = FALSE]
        /\ UNCHANGED <<publishing, calls, faults>>
    BY <1>5 DEF MempoolDone
  <2> HIDE DEF y
  <2>4. Fine(peers) /\ SameStatus(peer, peers)
    BY <1>4, <2>1, FineAt
  <2> HIDE DEF peers
  <2>5. Fine(peer') /\ SameStatus(peer, peer')
    <3>1. CASE peer' = peers
      BY <2>4, <3>1
    <3>2. CASE /\ manager.pending = {} /\ manager.download \in Peer
               /\ peer' = [peers EXCEPT ![manager.download].timer = FALSE]
      <4> DEFINE d == manager.download
                 x == [peers[d] EXCEPT !.timer = FALSE]
      <4>1. Good(x, manager.listed, manager.pending) /\ x.status = peers[d].status
        BY <2>4, <3>2, GoodUntimed DEF Fine
      <4>2. peer' = [peers EXCEPT ![d] = x]
        BY <3>2
      <4> HIDE DEF x, d
      <4>3. d \in Peer
        BY <3>2 DEF d
      <4>4. Fine(peer') /\ SameStatus(peers, peer')
        BY <2>4, <4>1, <4>2, <4>3, FineAt
      <4> QED
        BY <2>4, <4>4 DEF SameStatus
    <3> QED
      BY <1>1, <2>2, <3>1, <3>2 DEF StopTimer, ManagerType
  <2>6. /\ manager' \in ManagerType /\ manager'.download = manager.download
        /\ manager'.listed = manager.listed /\ manager'.pending = manager.pending
    BY <1>1, <2>3 DEF ManagerType
  <2>7. Lists' /\ Callbacks'
    BY <1>4, <2>3, <2>6, NoAnswer DEF Lists
  <2>8. Places'
    BY <1>4, <2>5, <2>6, <2>7, FinePlaces DEF SameStatus, Places, Active
  <2> QED
    BY <2>7, <2>8 DEF IInv
<1>6. CASE RelayedBlock(p)
  <2>2. PICK tip \in {manager.tip, manager.tip + 1} :
           \/ /\ manager' = [manager EXCEPT !.tip = tip, !.failures = 0]
              /\ peer' = [peer EXCEPT ![p].timer = TRUE]
           \/ /\ manager' = [manager EXCEPT !.tip = tip]
              /\ \E worse \in BOOLEAN : peer' = LoadMempools(peer, p, worse)
    BY <1>6 DEF RelayedBlock
  <2>1. tip \in 0..Height /\ UNCHANGED <<publishing, calls, faults>>
    BY <1>1, <1>6 DEF RelayedBlock, ManagerType, Good, PeerType
  <2>3. Fine(peer') /\ SameStatus(peer, peer')
    <3>1. CASE \E worse \in BOOLEAN : peer' = LoadMempools(peer, p, worse)
      BY <1>4, <3>1, FineMempools
    <3>2. CASE peer' = [peer EXCEPT ![p].timer = TRUE]
      <4> DEFINE y == [peer[p] EXCEPT !.timer = TRUE]
      <4>1. Good(y, manager.listed, manager.pending) /\ y.status = peer[p].status
        BY <1>1, GoodTimed
      <4>2. peer' = [peer EXCEPT ![p] = y]
        BY <3>2
      <4> HIDE DEF y
      <4> QED
        BY <1>4, <4>1, <4>2, FineAt
    <3> QED
      BY <2>2, <3>1, <3>2
  <2>4. /\ manager' \in ManagerType /\ manager'.download = manager.download
        /\ manager'.listed = manager.listed /\ manager'.pending = manager.pending
    <3>1. CASE manager' = [manager EXCEPT !.tip = tip]
      BY <1>1, <2>1, <3>1 DEF ManagerType
    <3>2. CASE manager' = [manager EXCEPT !.tip = tip, !.failures = 0]
      <4>1. 0 \in 0..MaxFailures + 1
        OBVIOUS
      <4> QED
        BY <1>1, <2>1, <3>2, <4>1 DEF ManagerType
    <3> QED
      BY <2>2, <3>1, <3>2
  <2>5. Lists' /\ Callbacks'
    BY <1>4, <2>1, <2>4, NoAnswer DEF Lists
  <2>6. Places'
    BY <1>4, <2>3, <2>4, <2>5, FinePlaces DEF SameStatus, Places, Active
  <2> QED
    BY <2>5, <2>6 DEF IInv
<1>7. ASSUME NEW last \in 0..Height, peer[p].status = "connecting"
      PROVE  /\ Fine(Handshaken(p, last)) /\ Handshaken(p, last)[p].status = "connected"
             /\ \A q \in Peer : q # p => Handshaken(p, last)[q].status = peer[q].status
  <2> DEFINE y == [peer[p] EXCEPT !.status = "connected", !.timer = FALSE, !.last = last]
  <2>1. Good(y, manager.listed, manager.pending) /\ y.status = "connected"
    BY <1>1, <1>7 DEF Good, PeerType
  <2>2. Handshaken(p, last) = [peer EXCEPT ![p] = y]
    BY DEF Handshaken
  <2> HIDE DEF y
  <2>3. Fine([peer EXCEPT ![p] = y]) /\ [peer EXCEPT ![p] = y][p] = y
    BY <1>4, <2>1, FineAt
  <2>4. \A q \in Peer : q # p => [peer EXCEPT ![p] = y][q] = peer[q]
    OBVIOUS
  <2> QED
    BY <2>1, <2>2, <2>3, <2>4
<1>8. ASSUME NEW last \in 0..Height, AddPeer(p, last) PROVE IInv'
  <2> DEFINE peers == Handshaken(p, last)
             told == Refilter(peers, {p})
  <2>1. /\ peer[p].status = "connecting" /\ manager.download # None
        /\ UNCHANGED <<publishing, calls, faults>>
        /\ \/ /\ manager' = [manager EXCEPT !.failures = 0]
              /\ peer' = told
           \/ manager' = manager /\ peer' = peers
    BY <1>8 DEF AddPeer, NoFault
  <2>2. /\ Fine(peers) /\ peers[p].status = "connected"
        /\ \A q \in Peer : q # p => peers[q].status = peer[q].status
    BY <1>7, <2>1
  <2> HIDE DEF peers
  <2>3. Fine(told) /\ SameStatus(peers, told)
    <3>1. {p} \in SUBSET Connected(peers)
      BY <2>2 DEF Connected
    <3> QED
      BY <1>4, <2>2, <3>1, FineFilters
  <2> HIDE DEF told
  <2>4. Fine(peer') /\ SameStatus(peers, peer')
    <3>1. CASE peer' = peers
      BY <2>2, <3>1 DEF SameStatus
    <3>2. CASE peer' = told
      BY <2>3, <3>2
    <3> QED
      BY <2>1, <3>1, <3>2
  <2>5. /\ manager' \in ManagerType /\ manager'.download = manager.download
        /\ manager'.listed = manager.listed /\ manager'.pending = manager.pending
    BY <1>1, <2>1 DEF ManagerType
  <2>6. Lists' /\ Callbacks'
    BY <1>4, <2>1, <2>5, NoAnswer DEF Lists
  <2>7. \A q \in Peer : /\ peer'[q].status # "none" => peer[q].status # "none"
                        /\ q \in Active => peer'[q].status \in {"connected", "ended"}
    BY <2>1, <2>2, <2>4 DEF SameStatus, Active
  <2>8. Places'
    BY <1>4, <2>4, <2>5, <2>6, <2>7, FinePlaces DEF Places, Active
  <2> QED
    BY <2>6, <2>8 DEF IInv
<1>9. ASSUME NEW last \in 0..Height, NEW d \in Peer, NewDownload(p, last, d) PROVE IInv'
  <2> DEFINE shaken == Handshaken(p, last)
             peers == [q \in Peer |-> IF q = manager.download
                                      THEN [shaken[q] EXCEPT !.closed = TRUE] ELSE shaken[q]]
             told == PublishPending(peers, {d}, manager.listed, manager.pending)
             reached == manager.tip >= peers[d].last
  <2>1. /\ peer[p].status = "connecting" /\ shaken[d].status = "connected"
        /\ UNCHANGED <<publishing, calls, faults>>
        /\ manager' = [manager EXCEPT !.download = d, !.estimated = peers[d].last,
                                      !.failures = IF reached THEN 0 ELSE @]
        /\ peer' = LoadMempools(told, d, FALSE) \/ peer' = [told EXCEPT ![d].timer = TRUE]
    BY <1>9 DEF NewDownload, NoFault, Connected
  <2>2. /\ Fine(shaken) /\ shaken[p].status = "connected"
        /\ \A q \in Peer : q # p => shaken[q].status = peer[q].status
    BY <1>7, <2>1
  <2> HIDE DEF shaken
  <2>3. Fine(peers) /\ SameStatus(shaken, peers)
    <3>1. \A q \in Peer : /\ Good(peers[q], manager.listed, manager.pending)
                          /\ peers[q].status = shaken[q].status
      BY <2>2, GoodClosed DEF Fine
    <3>2. peers \in [Peer -> PeerType]
      <4>1. peers = [q \in Peer |-> peers[q]]
        OBVIOUS
      <4> HIDE DEF peers
      <4> QED
        BY <3>1, <4>1 DEF Good
    <3> HIDE DEF peers
    <3> QED
      BY <3>1, <3>2 DEF Fine, SameStatus
  <2> HIDE DEF peers
  <2>4. Fine(told) /\ SameStatus(peers, told)
    <3>1. {d} \in SUBSET Connected(peers)
      BY <2>1, <2>3 DEF Connected, SameStatus
    <3> QED
      BY <1>4, <2>3, <3>1, FineTold
  <2> HIDE DEF told
  <2>5. Fine(peer') /\ SameStatus(told, peer')
    <3>1. CASE peer' = LoadMempools(told, d, FALSE)
      BY <1>4, <2>4, <3>1, FineMempools
    <3>2. CASE peer' = [told EXCEPT ![d].timer = TRUE]
      <4> DEFINE y == [told[d] EXCEPT !.timer = TRUE]
      <4>1. Good(y, manager.listed, manager.pending) /\ y.status = told[d].status
        BY <2>4, GoodTimed DEF Fine
      <4>2. peer' = [told EXCEPT ![d] = y]
        BY <3>2
      <4> HIDE DEF y
      <4> QED
        BY <2>4, <4>1, <4>2, FineAt
    <3> QED
      BY <2>1, <3>1, <3>2
  <2>6. /\ manager' \in ManagerType /\ manager'.download = d
        /\ manager'.listed = manager.listed /\ manager'.pending = manager.pending
    <3> DEFINE last2 == peers[d].last
               f == IF reached THEN 0 ELSE manager.failures
    <3>1. last2 \in 0..Height
      BY <2>3 DEF Fine, Good, PeerType
    <3>2. f \in 0..MaxFailures + 1
      BY <1>1 DEF ManagerType
    <3>3. manager' = [manager EXCEPT !.download = d, !.estimated = last2, !.failures = f]
      BY <2>1
    <3> HIDE DEF last2, f
    <3> QED
      BY <1>1, <3>1, <3>2, <3>3 DEF ManagerType
  <2>7. Lists' /\ Callbacks'
    BY <1>4, <2>1, <2>6, NoAnswer DEF Lists
  <2>8. \A q \in Peer : /\ peer'[q].status # "none" => peer[q].status # "none"
                        /\ peer'[q].status = shaken[q].status
    BY <2>1, <2>2, <2>3, <2>4, <2>5 DEF SameStatus
  <2>9. d \in Active'
    BY <2>1, <2>8 DEF Active
  <2> QED
    BY <1>4, <2>5, <2>6, <2>7, <2>8, <2>9, FinePlaces DEF IInv
<1> QED
  BY <1>2, <1>3, <1>5, <1>6, <1>8, <1>9 DEF PeerConnected

-----------------------------------------------------------------------------
(* Answers: the signs that a peer has a transaction, and disconnections. *)

LEMMA GoodFewer ==
    ASSUME NEW x, NEW listed, NEW pending, NEW fewer \in SUBSET pending,
           NEW more, listed \subseteq more, Good(x, listed, pending)
    PROVE  Good(x, more, fewer)
BY DEF Good

(* The timer of p is kept, set, or cancelled with nothing left to answer. *)
LEMMA SignPlaces ==
    ASSUME Lists', Places, NEW p \in Peer, manager'.download = manager.download,
           manager.listed \subseteq manager'.listed,
           manager'.pending \subseteq manager.pending,
           \/ peer' = peer
           \/ peer' = [peer EXCEPT ![p].timer = TRUE]
           \/ manager'.pending = {} /\ peer' = [peer EXCEPT ![p].timer = FALSE]
    PROVE  Places'
<1>1. PICK y : /\ peer' = [peer EXCEPT ![p] = y] /\ y.status = peer[p].status
               /\ Good(y, manager'.listed, manager'.pending)
  <2>1. Good(peer[p], manager'.listed, manager'.pending) /\ peer \in [Peer -> PeerType]
    BY GoodFewer DEF Places
  <2>2. CASE peer' = peer
    <3>1. peer' = [peer EXCEPT ![p] = peer[p]]
      BY <2>1, <2>2
    <3> QED
      BY <2>1, <3>1
  <2>3. CASE peer' = [peer EXCEPT ![p].timer = TRUE]
    BY <2>1, <2>3, GoodTimed
  <2>4. CASE manager'.pending = {} /\ peer' = [peer EXCEPT ![p].timer = FALSE]
    BY <2>1, <2>4, GoodUntimed
  <2> QED
    BY <2>2, <2>3, <2>4
<1>2. Active' = Active
  BY <1>1 DEF Active, Places
<1> QED
  BY <1>1, <1>2, OnePlace DEF Places

LEMMA AddedListed ==
    ASSUME NEW t \in Tx, NEW added \in Additions(t)
    PROVE  added \subseteq Tx /\ (t \in manager.listed => t \notin added)
BY DEF Additions

LEMMA TakeOutInv ==
    ASSUME Lists, Callbacks, NEW t \in Tx \cup {None}, NEW added \in SUBSET Tx,
           TakeOut(t, added), UNCHANGED <<publishing, published, dropped, faults>>
    PROVE  /\ Lists' /\ Callbacks' /\ manager'.download = manager.download
           /\ manager.listed \subseteq manager'.listed
           /\ manager'.pending = manager.pending \ {t}
<1> DEFINE S == manager.pending \cap {t}
<1>1. /\ manager' = [manager EXCEPT !.pending = @ \ {t}, !.listed = @ \cup added]
      /\ Answer(S) /\ manager \in ManagerType
  BY DEF TakeOut, Lists
<1>2. /\ manager' \in ManagerType /\ manager'.download = manager.download
      /\ manager'.listed = manager.listed \cup added
      /\ manager'.pending = manager.pending \ {t}
  BY <1>1 DEF ManagerType
<1>3. /\ S \in SUBSET Tx /\ S \subseteq manager.pending
      /\ manager'.pending = manager.pending \ S
  BY <1>1, <1>2 DEF ManagerType
<1>4. Lists'
  BY <1>2 DEF Lists
<1> HIDE DEF S
<1>5. Callbacks'
  BY <1>1, <1>3, AnswerPending
<1> QED
  BY <1>2, <1>4, <1>5

LEMMA SignInv ==
    ASSUME IInv, NEW p \in Peer,
           (\E t \in Tx : RequestedTx(p, t)) \/ (\E t \in Tx \cup {None} : RelayedTx(p, t))
    PROVE  IInv'
<1>1. PICK t \in Tx \cup {None} : \E added \in SUBSET Tx :
        /\ TakeOut(t, added) /\ UNCHANGED <<publishing, published, dropped, faults>>
        /\ \/ peer' = [peer EXCEPT ![p].timer = TRUE]
           \/ peer' = Cancel(p, manager.pending \ {t})
  <2>1. CASE \E t \in Tx : RequestedTx(p, t)
    <3>1. {} \in SUBSET Tx
      OBVIOUS
    <3> QED
      BY <2>1, <3>1 DEF RequestedTx
  <2>2. CASE \E t \in Tx \cup {None} : RelayedTx(p, t)
    <3>1. PICK t \in Tx \cup {None} : RelayedTx(p, t)
      BY <2>2
    <3>2. \A registered \in BOOLEAN : \A added \in IF registered /\ t # None THEN Additions(t)
                                                    ELSE {{}} : added \in SUBSET Tx
      BY AddedListed
    <3> QED
      BY <3>1, <3>2 DEF RelayedTx
  <2> QED
    BY <2>1, <2>2
<1>2. /\ Lists' /\ Callbacks' /\ manager'.download = manager.download
      /\ manager.listed \subseteq manager'.listed
      /\ manager'.pending = manager.pending \ {t}
  BY <1>1, TakeOutInv DEF IInv
<1>3. \/ peer' = peer
      \/ peer' = [peer EXCEPT ![p].timer = TRUE]
      \/ manager'.pending = {} /\ peer' = [peer EXCEPT ![p].timer = FALSE]
  BY <1>1, <1>2 DEF Cancel
<1>4. manager'.pending \subseteq manager.pending
  BY <1>2
<1> QED
  BY <1>2, <1>3, <1>4, SignPlaces DEF IInv

(* The end of the thread of a peer: nothing was told to what is gone. *)
LEMMA EndsInv ==
    ASSUME IInv, NEW p \in Peer, Expire(p) \/ Break(p) \/ Closed(p)
    PROVE  IInv'
<1> USE PublishAssumption
<1>1. PICK error \in {"none", "timeout", "other"} : End(p, error) /\ (Fault \/ NoFault)
  BY DEF Expire, Break, Closed
<1> DEFINE last == IF p = manager.download THEN peer[p].last ELSE 0
           y == [peer[p] EXCEPT !.status = "ended", !.closed = TRUE, !.timer = FALSE,
                    !.told = {}, !.mempool = FALSE, !.error = error, !.last = last]
<1>2. /\ peer' = [peer EXCEPT ![p] = y] /\ UNCHANGED <<manager, publishing, calls>>
      /\ faults' \in 0..MaxFaults
  <2>1. faults' \in 0..MaxFaults
    BY <1>1 DEF Fault, NoFault, IInv, Lists
  <2>2. peer' = [peer EXCEPT ![p] = y] /\ UNCHANGED <<manager, publishing, calls>>
    BY <1>1 DEF End
  <2> QED
    BY <2>1, <2>2
<1>3. peer[p].status # "none" /\ peer[p] \in PeerType /\ peer \in [Peer -> PeerType]
  BY DEF Expire, Break, Closed, Used, IInv, Places
<1>4. last \in 0..Height
  BY <1>3 DEF PeerType
<1> HIDE DEF last
<1>5. Good(y, manager.listed, manager.pending) /\ y.status = "ended"
  BY <1>3, <1>4 DEF Good, PeerType
<1> HIDE DEF y
<1>6. Lists' /\ Callbacks'
  BY <1>2, NoAnswer DEF IInv, Lists
<1>7. manager'.download \in Active' \cup {None}
  BY <1>2, <1>3, <1>5 DEF IInv, Places, Active
<1> QED
  BY <1>2, <1>3, <1>5, <1>6, <1>7, OnePlace DEF IInv

LEMMA PongsFailInv ==
    ASSUME IInv, NEW p \in Peer, PongsFail(p)
    PROVE  IInv'
<1> DEFINE y == [peer[p] EXCEPT !.ping = FALSE]
           s == manager.syncing /\ p # manager.download
<1>1. /\ peer' = [peer EXCEPT ![p] = y] /\ UNCHANGED <<publishing, calls, faults>>
      /\ manager' = [manager EXCEPT !.syncing = s] /\ manager \in ManagerType
  BY DEF PongsFail, IInv, Lists
<1>2. s \in BOOLEAN
  BY <1>1 DEF ManagerType
<1> HIDE DEF s
<1>3. /\ manager' \in ManagerType /\ manager'.download = manager.download
      /\ manager'.listed = manager.listed /\ manager'.pending = manager.pending
  BY <1>1, <1>2 DEF ManagerType
<1>4. Good(y, manager.listed, manager.pending) /\ y.status = peer[p].status
  BY DEF Good, PeerType, IInv, Places
<1> HIDE DEF y
<1>5. Lists' /\ Callbacks'
  BY <1>1, <1>3, NoAnswer DEF IInv, Lists
<1>6. manager'.download \in Active' \cup {None}
  BY <1>1, <1>3, <1>4 DEF IInv, Places, Active
<1> QED
  BY <1>1, <1>3, <1>4, <1>5, <1>6, OnePlace DEF IInv

(* With a timeout of a publish, and when the manager gives up, all that is   *)
(* pending is answered.                                                      *)
LEMMA DisconnectedInv ==
    ASSUME IInv, NEW p \in Peer, Disconnected(p)
    PROVE  IInv'
<1> USE PublishAssumption
<1> DEFINE failed == peer[p].error \in {"timeout", "other"}
           counted == manager.failures + (IF failed THEN 1 ELSE 0)
           failures == IF p = manager.download /\ counted > MaxFailures
                       THEN MaxFailures ELSE counted
           gone == Gone(p)
           gaveUp == gone = None /\ failures = MaxFailures
           cancelled == TimedOut(p, peer[p].error) \/ gaveUp
           f == IF failures > MaxFailures THEN MaxFailures + 1 ELSE failures
           s == manager.syncing /\ ~gaveUp
           S == IF cancelled THEN manager.pending ELSE {}
           left == IF cancelled THEN {} ELSE manager.pending
<1>1. /\ manager' = [manager EXCEPT !.download = gone, !.failures = f, !.syncing = s,
                                    !.pending = left]
      /\ Answer(S) /\ peer' = [peer EXCEPT ![p] = NewPeer]
      /\ UNCHANGED <<publishing, published, dropped, faults>>
  BY DEF Disconnected
<1>2. manager \in ManagerType /\ manager.pending \subseteq Tx
  BY DEF IInv, Lists, ManagerType
<1>3. gone \in Peer \cup {None} /\ (gone = None \/ (gone = manager.download /\ gone # p))
  BY <1>2 DEF Gone, ManagerType
<1>4. f \in 0..MaxFailures + 1
  BY <1>2 DEF ManagerType
<1>5. s \in BOOLEAN
  BY <1>2 DEF ManagerType
<1>6. /\ S \in SUBSET Tx /\ S \subseteq manager.pending
      /\ left = manager.pending \ S /\ left \subseteq manager.pending
  BY <1>2
<1> HIDE DEF failed, counted, failures, gone, gaveUp, cancelled, f, s, S, left
<1>7. /\ manager' \in ManagerType /\ manager'.download = gone
      /\ manager'.listed = manager.listed /\ manager'.pending = left
  BY <1>1, <1>2, <1>3, <1>4, <1>5, <1>6 DEF ManagerType
<1>8. Lists'
  BY <1>1, <1>6, <1>7 DEF IInv, Lists
<1>9. Callbacks'
  BY <1>1, <1>6, <1>7, AnswerPending DEF IInv
<1>10. /\ NewPeer.status = "none"
       /\ Good(NewPeer, manager.listed, manager'.pending)
  BY DEF NewPeer, Good, PeerType
<1>11. manager'.download \in Active' \cup {None}
  BY <1>1, <1>3, <1>7 DEF IInv, Places, Active
<1>12. manager'.pending \subseteq manager.pending
  BY <1>6, <1>7
<1> HIDE DEF S, left
<1>13. Places'
  BY <1>1, <1>7, <1>8, <1>10, <1>11, <1>12, OnePlace DEF IInv
<1> QED
  BY <1>8, <1>9, <1>13 DEF IInv

-----------------------------------------------------------------------------
(* The steps of the app. *)

LEMMA DisconnectInv ==
    ASSUME IInv, Disconnect
    PROVE  IInv'
<1> USE PublishAssumption
<1>1. /\ manager' = [manager EXCEPT !.failures = MaxFailures]
      /\ peer' = [q \in Peer |-> [peer[q] EXCEPT !.closed = q \in Used]]
      /\ UNCHANGED <<publishing, calls>> /\ faults' \in 0..MaxFaults
      /\ manager \in ManagerType
  BY DEF Disconnect, Fault, IInv, Lists
<1>2. /\ manager' \in ManagerType /\ manager'.download = manager.download
      /\ manager'.listed = manager.listed /\ manager'.pending = manager.pending
  <2>1. MaxFailures \in 0..MaxFailures + 1
    OBVIOUS
  <2> QED
    BY <1>1, <2>1 DEF ManagerType
<1>3. Lists' /\ Callbacks'
  BY <1>1, <1>2, NoAnswer DEF IInv, Lists
<1>4. ASSUME NEW q \in Peer
      PROVE  /\ Good(peer'[q], manager.listed, manager.pending)
             /\ peer'[q].status = peer[q].status
  <2> DEFINE c == q \in Used
  <2>1. peer'[q] = [peer[q] EXCEPT !.closed = c] /\ c \in BOOLEAN
    BY <1>1
  <2>2. c \/ peer[q].status = "none"
    BY DEF Used
  <2>3. Good(peer[q], manager.listed, manager.pending)
    BY DEF IInv, Places
  <2> HIDE DEF c
  <2>4. /\ peer'[q] \in PeerType /\ peer'[q].status = peer[q].status
        /\ peer'[q].told = peer[q].told /\ peer'[q].closed = c
    BY <2>1, <2>3 DEF Good, PeerType
  <2> QED
    BY <2>2, <2>3, <2>4 DEF Good
<1>5. Fine(peer')
  <2>1. peer' = [q \in Peer |-> peer'[q]]
    BY <1>1
  <2> QED
    BY <1>4, <2>1 DEF Fine, Good
<1>6. manager'.download \in Active' \cup {None}
  BY <1>2, <1>4 DEF IInv, Places, Active
<1> QED
  BY <1>2, <1>3, <1>4, <1>5, <1>6, FinePlaces DEF IInv

LEMMA RescanInv ==
    ASSUME IInv, Rescan
    PROVE  IInv'
<1> USE PublishAssumption
<1> DEFINE d == manager.download
           y == [peer[d] EXCEPT !.closed = TRUE]
<1>1. /\ manager' = [manager EXCEPT !.tip = 0, !.syncing = FALSE]
      /\ peer' = [peer EXCEPT ![d] = y]
      /\ UNCHANGED <<publishing, calls>> /\ faults' \in 0..MaxFaults
      /\ manager \in ManagerType
  BY DEF Rescan, Fault, IInv, Lists
<1>2. d \in Peer /\ d \in Active
  BY DEF Rescan, IInv, Places, Active
<1>3. /\ manager' \in ManagerType /\ manager'.download = manager.download
      /\ manager'.listed = manager.listed /\ manager'.pending = manager.pending
  <2>1. 0 \in 0..Height
    OBVIOUS
  <2> QED
    BY <1>1, <2>1 DEF ManagerType
<1>4. Good(y, manager.listed, manager.pending) /\ y.status = peer[d].status
  BY <1>2, GoodClosed DEF IInv, Places
<1>5. Lists' /\ Callbacks'
  BY <1>1, <1>3, NoAnswer DEF IInv, Lists
<1> HIDE DEF y
<1>6. d \in Active'
  BY <1>1, <1>2, <1>4 DEF IInv, Places, Active
<1>7. Places'
  BY <1>1, <1>2, <1>3, <1>4, <1>5, <1>6, OnePlace DEF IInv
<1> QED
  BY <1>5, <1>7 DEF IInv

(* No peer was told of a transaction that was not listed. *)
LEMMA AddToListInv ==
    ASSUME IInv, NEW t \in Tx, AddToList(t), UNCHANGED faults,
           publishing' \in Tx \cup {None}, published' \in [Tx -> 0..MaxPublish],
           \A u \in Tx :
              published'[u] + (IF u = publishing THEN 1 ELSE 0)
                = published[u] + (IF u = publishing' THEN 1 ELSE 0) + (IF u = t THEN 1 ELSE 0)
    PROVE  IInv'
<1> USE PublishAssumption
<1>0. PICK added \in Additions(t) :
        /\ manager' = [manager EXCEPT !.listed = @ \cup added,
                                      !.pending = @ \cup (added \cap {t})]
        /\ dropped' = [dropped EXCEPT ![t] = IF t \in added THEN @ ELSE @ + 1]
  BY DEF AddToList
<1>a. added \subseteq Tx /\ (t \in manager.listed => t \notin added)
  BY AddedListed
<1> DEFINE listed == manager.listed \cup added
           pending == manager.pending \cup (added \cap {t})
<1>1. manager' = [manager EXCEPT !.listed = listed, !.pending = pending]
      /\ manager \in ManagerType
  BY <1>0 DEF IInv, Lists
<1>2. /\ manager' \in ManagerType /\ manager'.download = manager.download
      /\ manager'.listed = listed /\ manager'.pending = pending
  BY <1>1, <1>a DEF ManagerType
<1>3. Lists'
  BY <1>2 DEF IInv, Lists
<1>4. Callbacks'
  <2>1. /\ answers' = answers /\ answers \in [Tx -> Nat] /\ dropped \in [Tx -> Nat]
        /\ published \in [Tx -> Nat] /\ published' \in [Tx -> Nat]
    <3>1. answers' = answers
      BY DEF AddToList
    <3> QED
      BY <3>1 DEF IInv, Callbacks
  <2>2. dropped' \in [Tx -> Nat]
    BY <1>0, <2>1
  <2>3. ASSUME NEW u \in Tx
        PROVE  answers'[u] + dropped'[u] + Held(u)' = published'[u]
    <3> DEFINE was == IF u = publishing THEN 1 ELSE 0
               is == IF u = publishing' THEN 1 ELSE 0
               listing == IF u \in manager.pending THEN 1 ELSE 0
               listing2 == IF u \in pending THEN 1 ELSE 0
               new == IF u = t THEN 1 ELSE 0
    <3>1. answers[u] + dropped[u] + (listing + was) = published[u]
      BY DEF IInv, Callbacks, AnsweredOnce, Held
    <3>2. Held(u)' = listing2 + is
      BY <1>2 DEF Held
    <3>3. published'[u] + was = published[u] + is + new
      OBVIOUS
    <3>4. dropped'[u] + listing2 = dropped[u] + listing + new
      <4>1. manager.pending \subseteq manager.listed
        BY DEF IInv, Lists
      <4>2. CASE u # t
        BY <1>0, <2>1, <4>2
      <4>3. CASE u = t /\ t \in added
        <5>1. listing = 0 /\ listing2 = 1 /\ new = 1
          BY <1>a, <4>1, <4>3
        <5>2. dropped'[u] = dropped[u] /\ dropped[u] \in Nat
          BY <1>0, <2>1, <4>3
        <5> HIDE DEF listing, listing2, new
        <5> QED
          BY <5>1, <5>2
      <4>4. CASE u = t /\ t \notin added
        <5>1. listing = listing2 /\ new = 1 /\ listing \in Nat
          BY <4>4
        <5>2. dropped'[u] = dropped[u] + 1 /\ dropped[u] \in Nat
          BY <1>0, <2>1, <4>4
        <5> HIDE DEF listing, listing2, new
        <5> QED
          BY <5>1, <5>2
      <4> QED
        BY <4>2, <4>3, <4>4
    <3>5. /\ answers[u] \in Nat /\ dropped[u] \in Nat /\ dropped'[u] \in Nat
          /\ published[u] \in Nat /\ published'[u] \in Nat /\ answers'[u] = answers[u]
          /\ was \in Nat /\ is \in Nat /\ listing \in Nat /\ listing2 \in Nat /\ new \in Nat
      BY <2>1, <2>2
    <3> HIDE DEF was, is, listing, listing2, new
    <3>6. answers[u] + dropped'[u] + (listing2 + is) = published'[u]
      <4> DEFINE answered == answers[u]
                 a == dropped[u]
                 b == dropped'[u]
                 given == published[u]
                 given2 == published'[u]
      <4>1. /\ answered + a + (listing + was) = given /\ given2 + was = given + is + new
            /\ b + listing2 = a + listing + new
        BY <3>1, <3>3, <3>4
      <4>2. answered \in Nat /\ a \in Nat /\ b \in Nat /\ given \in Nat /\ given2 \in Nat
        BY <3>5
      <4> HIDE DEF answered, a, b, given, given2
      <4>3. answered + b + (listing2 + is) = given2
        BY <3>5, <4>1, <4>2
      <4> QED
        BY <4>3 DEF answered, b, given2
    <3> QED
      BY <3>2, <3>5, <3>6
  <2> QED
    BY <2>1, <2>2, <2>3 DEF Callbacks, AnsweredOnce
<1>5. listed \in SUBSET Tx /\ pending \in SUBSET listed
  BY <1>a, <1>1 DEF IInv, Lists, ManagerType
<1>6. peer' = PublishPending(peer, Told, listed, pending)
  BY <1>2 DEF AddToList
<1> DEFINE told(x) == [x EXCEPT !.timer = @ \/ pending # {}, !.told = @ \cup listed]
<1>7. peer' = [q \in Peer |-> IF q \notin Told THEN peer[q] ELSE told(peer[q])]
  BY <1>6 DEF PublishPending
<1>8. ASSUME NEW q \in Peer
      PROVE  Good(peer'[q], listed, pending) /\ peer'[q].status = peer[q].status
  <2>1. Good(peer[q], manager.listed, manager.pending)
    BY DEF IInv, Places
  <2>2. peer[q].told \cap pending = peer[q].told \cap manager.pending
    BY <1>a, <2>1 DEF Good
  <2>3. Good(peer[q], listed, pending)
    BY <2>1, <2>2 DEF Good
  <2>4. CASE q \in Told
    <3>1. peer[q].status # "connecting"
      BY <2>4 DEF Told, Connected
    <3>2. peer'[q] = told(peer[q])
      BY <1>7, <2>4
    <3> DEFINE x == peer[q]
    <3> HIDE DEF listed, pending
    <3>3. x.status # "connecting" /\ Good(x, listed, pending)
      BY <2>3, <3>1
    <3> HIDE DEF x
    <3>4. Good(told(x), listed, pending) /\ told(x).status = x.status
      BY <1>5, <3>3, GoodTold
    <3> HIDE DEF told
    <3> QED
      BY <3>2, <3>4 DEF x
  <2>5. CASE q \notin Told
    BY <1>7, <2>3, <2>5
  <2> QED
    BY <2>4, <2>5
<1> HIDE DEF listed, pending, told
<1>9. peer' \in [Peer -> PeerType]
  <2>1. peer' = [q \in Peer |-> peer'[q]]
    BY <1>7
  <2> QED
    BY <1>8, <2>1 DEF Good
<1>10. Used' = Used /\ Active' = Active
  BY <1>8 DEF Used, Active
<1>11. Places'
  BY <1>2, <1>8, <1>9, <1>10 DEF IInv, Places
<1> QED
  BY <1>3, <1>4, <1>11 DEF IInv

LEMMA PublishInv ==
    ASSUME IInv, NEW t \in Tx, Publish(t)
    PROVE  IInv'
<1> USE PublishAssumption
<1>1. /\ published[t] < MaxPublish /\ publishing = None /\ UNCHANGED faults
      /\ published' = [published EXCEPT ![t] = @ + 1]
      /\ published \in [Tx -> 0..MaxPublish] /\ answers \in [Tx -> Nat]
      /\ dropped \in [Tx -> Nat]
  BY DEF Publish, NoFault, IInv, Callbacks
<1>2. /\ published' \in [Tx -> 0..MaxPublish]
      /\ \A u \in Tx : published'[u] = published[u] + (IF u = t THEN 1 ELSE 0)
  BY <1>1
<1>3. CASE AddToList(t) /\ UNCHANGED publishing
  <2>1. \A u \in Tx : u # publishing
    BY <1>1
  <2> QED
    BY <1>1, <1>2, <1>3, <2>1, AddToListInv
<1>4. CASE publishing' = t /\ UNCHANGED <<manager, peer, answers, dropped>>
  <2>1. Lists' /\ Places'
    BY <1>1, <1>4 DEF IInv, Lists, Places, Used, Active
  <2>2. \A u \in Tx : Held(u)' = Held(u) + (IF u = t THEN 1 ELSE 0)
    BY <1>1, <1>4 DEF Held
  <2>3. Callbacks'
    <3>1. ASSUME NEW u \in Tx PROVE answers'[u] + dropped'[u] + Held(u)' = published'[u]
      <4>1. answers[u] + dropped[u] + Held(u) = published[u]
        BY DEF IInv, Callbacks, AnsweredOnce
      <4> QED
        BY <1>1, <1>2, <1>4, <2>2, <4>1, HeldType
    <3> QED
      BY <1>1, <1>2, <1>4, <3>1 DEF Callbacks, AnsweredOnce
  <2> QED
    BY <2>1, <2>3 DEF IInv
<1>5. CASE Answer({t}) /\ UNCHANGED <<manager, peer, publishing, dropped>>
  <2>1. Lists' /\ Places'
    BY <1>1, <1>5 DEF IInv, Lists, Places, Used, Active
  <2>2. /\ answers' \in [Tx -> Nat]
        /\ \A u \in Tx : answers'[u] = answers[u] + (IF u = t THEN 1 ELSE 0)
    BY <1>1, <1>5 DEF Answer
  <2>3. Callbacks'
    <3>1. ASSUME NEW u \in Tx PROVE answers'[u] + dropped'[u] + Held(u)' = published'[u]
      <4>1. answers[u] + dropped[u] + Held(u) = published[u]
        BY DEF IInv, Callbacks, AnsweredOnce
      <4>2. Held(u)' = Held(u)
        BY <1>5 DEF Held
      <4> QED
        BY <1>1, <1>2, <1>5, <2>2, <4>1, <4>2, HeldType
    <3> QED
      BY <1>1, <1>2, <1>5, <2>2, <3>1 DEF Callbacks, AnsweredOnce
  <2> QED
    BY <2>1, <2>3 DEF IInv
<1> QED
  BY <1>3, <1>4, <1>5 DEF Publish

LEMMA PublishOnInv ==
    ASSUME IInv, PublishOn
    PROVE  IInv'
<1> DEFINE t == publishing
<1>1. /\ t \in Tx /\ AddToList(t) /\ publishing' = None
      /\ UNCHANGED <<published, faults>> /\ published \in [Tx -> 0..MaxPublish]
  BY DEF PublishOn, IInv, Lists, Callbacks
<1>2. \A u \in Tx : u # publishing'
  BY <1>1, PublishAssumption
<1>3. \A u \in Tx : published[u] \in Nat
  BY <1>1, PublishAssumption
<1>4. \A u \in Tx :
        published'[u] + (IF u = publishing THEN 1 ELSE 0)
          = published[u] + (IF u = publishing' THEN 1 ELSE 0) + (IF u = t THEN 1 ELSE 0)
  BY <1>1, <1>2, <1>3
<1> HIDE DEF t
<1> QED
  BY <1>1, <1>4, AddToListInv

LEMMA InvNext == IInv /\ [Next]_vars => IInv'
<1> SUFFICES ASSUME IInv, [Next]_vars PROVE IInv'
  OBVIOUS
<1>1. CASE Connect \/ Disconnect \/ Rescan \/ PublishOn
  BY <1>1, ConnectInv, DisconnectInv, RescanInv, PublishOnInv
<1>2. CASE \E t \in Tx : Publish(t)
  BY <1>2, PublishInv
<1>3. ASSUME NEW p \in Peer, Handle(p) PROVE IInv'
  <2>1. CASE PeerConnected(p) \/ RelayedBlock(p) \/ Pong(p) \/ MempoolDone(p)
    BY <2>1, HandlersInv
  <2>2. CASE (\E t \in Tx : RequestedTx(p, t)) \/ (\E t \in Tx \cup {None} : RelayedTx(p, t))
    BY <2>2, SignInv
  <2>3. CASE Expire(p) \/ Break(p) \/ Closed(p)
    BY <2>3, EndsInv
  <2>4. CASE PongsFail(p) \/ Disconnected(p)
    BY <2>4, PongsFailInv, DisconnectedInv
  <2> QED
    BY <1>3, <2>1, <2>2, <2>3, <2>4 DEF Handle
<1>4. CASE UNCHANGED vars
  BY <1>4 DEF vars, IInv, Lists, Places, Callbacks, AnsweredOnce, Held, Used, Active
<1> QED
  BY <1>1, <1>2, <1>3, <1>4 DEF Next

(* The invariant of every step, on which the theorems below rest. *)
THEOREM Invariance == Spec => []IInv
<1>1. Init => IInv
  BY InvInit
<1>2. IInv /\ [Next]_vars => IInv'
  BY InvNext
<1> QED
  BY <1>1, <1>2, PTL DEF Spec

(* Type correctness: the download peer is one of the connected peers, and    *)
(* no more places are taken than BRPeerManagerConnect allows.                *)
THEOREM TypeCorrect == Spec => []TypeOK
<1>1. IInv => TypeOK
  BY DEF IInv, Lists, Places, Callbacks, ManagerType, TypeOK
<1> QED
  BY <1>1, Invariance, PTL

(* A callback of BRPeerManagerPublishTx, which frees what it was given, is   *)
(* called once at most, not while a list or a publisher holds it still, and  *)
(* is lost only where it is dropped because the transaction is listed or     *)
(* confirmed: however often a transaction is published, the callbacks given  *)
(* are those called, dropped and held.                                       *)
THEOREM CalledOnce == Spec => []AnsweredOnce
<1>1. IInv => AnsweredOnce
  BY DEF IInv, Callbacks
<1> QED
  BY <1>1, Invariance, PTL

(* No handler of any peer cancels the timer of a peer that has been told of  *)
(* a transaction with a pending callback, be it for blocks or for another    *)
(* transaction: every path that cancels one looks at all that is pending.    *)
THEOREM ToldTimed == Spec => []ToldIsTimed
<1>1. IInv => ToldIsTimed
  BY DEF IInv, Places, Good, ToldIsTimed, Used
<1> QED
  BY <1>1, Invariance, PTL
=============================================================================
