------------------------ MODULE EthNodeThreadProofs ------------------------
(* Proofs about EthNodeThread, for every set of threads and of wallets. *)
EXTENDS EthNodeThread, TLAPS

(* What connects the state to the routine.  While lightNodeConnect is past *)
(* its switch no routine runs; while one runs the state is none of those   *)
(* that the switch accepts, and only the routine itself makes it one.      *)
StateKnowsRoutine ==
    /\ control # "idle" => \A t \in Thread : pc[t] \notin InRoutine
    /\ control = "creating"
       => client /\ state \in {"CONNECTING", "DISCONNECTING"}
    /\ \A t \in Thread : pc[t] = "start"
                         => state \in {"CONNECTING", "DISCONNECTING"}
    /\ \A t \in Thread : pc[t] \in InLoop
                         => state \in {"CONNECTED", "DISCONNECTING"}
    /\ \A t \in Thread : pc[t] = "leave" => state = "DISCONNECTING"

(* A request that is about to be made is one of the round, and it is late  *)
(* only if the state changed after the look at it: then it is the first.   *)
(* A Disconnect that stands is what the routine finds in state.            *)
RequestUnderWay ==
    /\ \A t \in Thread : pc[t] = "issue" => request <= Requests
    /\ asked = "stands" /\ late = 1
       => \A t \in Thread : pc[t] # "issue"
    /\ asked = "stands" => \A t \in Thread : pc[t] \in InLoop => state = "DISCONNECTING"

IInv == /\ TypeOK
        /\ OneRoutine
        /\ ClientWhilePolling
        /\ LockInRound
        /\ AtMostOneLateRequest
        /\ StateKnowsRoutine
        /\ RequestUnderWay
-----------------------------------------------------------------------------
LEMMA RequestsNat == Requests \in Nat
  BY ConstantsAssumption DEF Requests

LEMMA InitInv == Init => IInv
<1> SUFFICES ASSUME Init PROVE IInv
  OBVIOUS
<1> USE DEF Init, InRoutine, InLoop, InRound
<1>1. TypeOK
  <2>1. pc \in [Thread -> ThreadPC]
    BY DEF ThreadPC
  <2>2. request \in 1..(Requests + 1)
    BY RequestsNat
  <2>3. late \in 0..2 /\ lock \in Thread \cup {Free, Announcer}
    OBVIOUS
  <2> QED
    BY <2>1, <2>2, <2>3 DEF TypeOK, State
<1>2. \A t \in Thread : pc[t] = "none" /\ lock # t
  BY ConstantsAssumption
<1>3. OneRoutine /\ ClientWhilePolling /\ LockInRound
  BY <1>2 DEF OneRoutine, ClientWhilePolling, LockInRound
<1>4. AtMostOneLateRequest /\ StateKnowsRoutine /\ RequestUnderWay
  BY <1>2 DEF AtMostOneLateRequest, StateKnowsRoutine, RequestUnderWay
<1> QED
  BY <1>1, <1>3, <1>4 DEF IInv

(* The steps of lightNodeConnect: no routine runs before CreateThread. *)
LEMMA ConnectInv == IInv /\ Connect => IInv'
<1> SUFFICES ASSUME IInv, Connect PROVE IInv'
  OBVIOUS
<1> USE DEF IInv, TypeOK, State, ThreadPC, InRoutine, InLoop, InRound
<1> USE DEF OneRoutine, ClientWhilePolling, LockInRound, AtMostOneLateRequest,
            StateKnowsRoutine, RequestUnderWay, history, WrittenOver, AskToStop
<1>1. CASE ConnectCheck
  BY <1>1 DEF ConnectCheck, Connectable
<1>2. CASE ConnectAttrFails
  BY <1>2 DEF ConnectAttrFails
<1>3. CASE ConnectSet
  BY <1>3 DEF ConnectSet
<1>4. CASE CreateThread
  <2>1. PICK t \in Thread : pc[t] = "none" /\ pc' = [pc EXCEPT ![t] = "start"]
    BY <1>4 DEF CreateThread
  <2>2. \A u \in Thread : pc'[u] = IF u = t THEN "start" ELSE pc[u]
    BY <2>1
  <2>3. control = "creating" /\ control' = "idle"
        /\ UNCHANGED <<state, client, request, lock, history>>
    BY <1>4 DEF CreateThread
  <2>4. TypeOK'
    BY <2>1, <2>3
  <2>5. OneRoutine' /\ ClientWhilePolling' /\ LockInRound'
    BY <2>1, <2>2, <2>3
  <2>6. AtMostOneLateRequest' /\ StateKnowsRoutine' /\ RequestUnderWay'
    BY <2>1, <2>2, <2>3
  <2> QED
    BY <2>4, <2>5, <2>6
<1>5. CASE CreateThreadFails
  BY <1>5 DEF CreateThreadFails
<1> QED
  BY <1>1, <1>2, <1>3, <1>4, <1>5 DEF Connect

(* Disconnect and the Announce calls; a Disconnect starts to count anew. *)
LEMMA OthersInv == IInv /\ (Disconnect \/ AnnounceLock \/ AnnounceUnlock) => IInv'
<1> SUFFICES ASSUME IInv, Disconnect \/ AnnounceLock \/ AnnounceUnlock
             PROVE  IInv'
  OBVIOUS
<1> USE DEF IInv, TypeOK, State, ThreadPC, InRoutine, InLoop, InRound
<1> USE DEF OneRoutine, ClientWhilePolling, LockInRound, AtMostOneLateRequest,
            StateKnowsRoutine, RequestUnderWay, history, WrittenOver, AskToStop
<1>1. CASE Disconnect
  BY <1>1 DEF Disconnect
<1>2. CASE AnnounceLock \/ AnnounceUnlock
  BY <1>2, ConstantsAssumption DEF AnnounceLock, AnnounceUnlock
<1> QED
  BY <1>1, <1>2

(* The steps of the routine t, which is the only one that runs. *)
LEMMA RoutineInv ==
  ASSUME NEW t \in Thread, IInv, Routine(t)
  PROVE  IInv'
<1> USE DEF TypeOK, State, ThreadPC, InRoutine, InLoop, InRound
<1> USE DEF OneRoutine, ClientWhilePolling, LockInRound, AtMostOneLateRequest,
            StateKnowsRoutine, RequestUnderWay, history, WrittenOver, AskToStop
<1>1. pc[t] \in InRoutine /\ \A u \in Thread \ {t} : pc[u] \in {"none", "done"}
  BY DEF IInv, Routine, Start, Top, Lock, Check, Issue, Unlock, Bottom, Sleep, Leave
<1>2. \A p : Go(t, p) => \A u \in Thread : pc'[u] = IF u = t THEN p ELSE pc[u]
  BY DEF IInv, Go
<1>3. CASE Start(t)   BY <1>1, <1>2, <1>3 DEF IInv, Start, Go
<1>4. CASE Top(t)     BY <1>1, <1>2, <1>4 DEF IInv, Top, Go
<1>5. CASE Lock(t)
  BY <1>1, <1>2, <1>5, RequestsNat, ConstantsAssumption DEF IInv, Lock, Go
<1>6. CASE Check(t)
  BY <1>1, <1>2, <1>6, RequestsNat DEF IInv, Check, Go
<1>7. CASE Issue(t)
  BY <1>1, <1>2, <1>7, RequestsNat DEF IInv, Issue, Go
<1>8. CASE Unlock(t)
  BY <1>1, <1>2, <1>8, ConstantsAssumption DEF IInv, Unlock, Go
<1>9. CASE Bottom(t)  BY <1>1, <1>2, <1>9 DEF IInv, Bottom, Go
<1>10. CASE Sleep(t)  BY <1>1, <1>2, <1>10 DEF IInv, Sleep, Go
<1>11. CASE Leave(t)  BY <1>1, <1>2, <1>11 DEF IInv, Leave, Go
<1> QED
  BY <1>3, <1>4, <1>5, <1>6, <1>7, <1>8, <1>9, <1>10, <1>11 DEF Routine

LEMMA NextInv == IInv /\ [Next]_vars => IInv'
<1> SUFFICES ASSUME IInv, [Next]_vars PROVE IInv'
  OBVIOUS
<1>1. CASE UNCHANGED vars
  BY <1>1 DEF vars, IInv, TypeOK, OneRoutine, ClientWhilePolling, LockInRound,
              AtMostOneLateRequest, StateKnowsRoutine, RequestUnderWay, history
<1> QED
  BY <1>1, ConnectInv, OthersInv, RoutineInv DEF Next
-----------------------------------------------------------------------------
(* Every behaviour keeps the inductive invariant. *)
THEOREM Invariance == Spec => []IInv
  BY InitInv, NextInv, PTL DEF Spec

(* lightNodeConnect and the routine keep the types of the node's fields. *)
THEOREM TypeCorrect == Spec => []TypeOK
<1>1. IInv => TypeOK
  BY DEF IInv
<1> QED
  BY <1>1, Invariance, PTL

(* Two routines never run at once, however often and whenever the node is  *)
(* connected and disconnected.                                             *)
THEOREM SingleRoutine == Spec => []OneRoutine
<1>1. IInv => OneRoutine
  BY DEF IInv
<1> QED
  BY <1>1, Invariance, PTL

(* A routine that runs always has a client to call. *)
THEOREM ClientAvailable == Spec => []ClientWhilePolling
<1>1. IInv => ClientWhilePolling
  BY DEF IInv
<1> QED
  BY <1>1, Invariance, PTL

(* node->lock is owned by the routine exactly during its round. *)
THEOREM RoundUnderLock == Spec => []LockInRound
<1>1. IInv => LockInRound
  BY DEF IInv
<1> QED
  BY <1>1, Invariance, PTL

(* However many wallets a round asks about, one request at most is made    *)
(* after a Disconnect, if connecting has not written over it.              *)
THEOREM DisconnectStopsRequests == Spec => []AtMostOneLateRequest
<1>1. IInv => AtMostOneLateRequest
  BY DEF IInv
<1> QED
  BY <1>1, Invariance, PTL
=============================================================================
