--------------------------- MODULE EthNodeThread ---------------------------
(***************************************************************************)
(* Connecting and disconnecting the Ethereum light node, and the thread    *)
(* that polls the RPC service (ethereum/BREthereumLightNode.c,             *)
(* lightNodeConnect, lightNodeDisconnect, lightNodeThreadRoutine).         *)
(*                                                                         *)
(* node->state is read and written without node->lock by the routine, by   *)
(* the one thread that connects, and by whoever disconnects.  A round of   *)
(* requests is made under node->lock, which every Announce call takes too. *)
(* The routine never waits for its client's answers.                       *)
(***************************************************************************)
EXTENDS Naturals, FiniteSets

CONSTANTS
    Thread,       \* threads that pthread_create can still return
    Free,         \* node->lock is free
    Announcer,    \* node->lock is held by an Announce call
    Wallets       \* array_count(node->wallets)

ASSUME ConstantsAssumption ==
    /\ Free \notin Thread /\ Announcer \notin Thread /\ Free # Announcer
    /\ Wallets \in Nat \ {0}

VARIABLES
    state,        \* node->state
    client,       \* node->client is set, not the nullClient
    control,      \* where lightNodeConnect is
    pc,           \* where each thread routine is
    request,      \* the next request of the round under way
    lock,         \* owner of node->lock
    asked,        \* history: the last lightNodeDisconnect since a connect: there
                  \* is none, it stands, or state was written over, ...
    late          \* ... and the requests made after it, two being many
history == <<asked, late>>
vars == <<state, client, control, pc, request, lock, history>>

State == {"CREATED", "CONNECTING", "CONNECTED", "DISCONNECTING",
          "DISCONNECTED", "ERRORED"}
Connectable == {"CREATED", "DISCONNECTED", "ERRORED"}

InRound == {"check", "issue"}
InLoop == InRound \cup {"top", "lock", "bottom", "sleep"}
InRoutine == InLoop \cup {"start", "leave"}
ThreadPC == InRoutine \cup {"none", "done"}

(* Block number, nonce, transactions, logs, and a balance for each wallet. *)
Requests == 4 + Wallets

Init ==
    /\ state = "CREATED"
    /\ client = FALSE
    /\ control = "idle"
    /\ pc = [t \in Thread |-> "none"]
    /\ request = 1
    /\ lock = Free
    /\ asked = "none" /\ late = 0
-----------------------------------------------------------------------------
(* lightNodeConnect.                                                       *)

(* Mutant of ConnectCheck: a node that is being disconnected is accepted. *)
ConnectCheckTwoCases ==
    /\ control = "idle"
    /\ state \in Connectable \cup {"DISCONNECTING"}
    /\ control' = "checked"
    /\ asked' = "none" /\ late' = 0
    /\ UNCHANGED <<state, client, pc, request, lock>>

(* The switch on state; in every other state the call returns FALSE. *)
ConnectCheck ==
    /\ control = "idle"
    /\ state \in Connectable
    /\ control' = "checked"
    /\ asked' = "none" /\ late' = 0
    /\ UNCHANGED <<state, client, pc, request, lock>>

(* pthread_attr_init or one of the attribute setters fails. *)
ConnectAttrFails ==
    /\ control = "checked"
    /\ state' = "ERRORED"
    /\ control' = "idle"
    /\ UNCHANGED <<client, pc, request, lock, history>>

(* A disconnection asked for before state is written over is lost. *)
WrittenOver ==
    /\ asked' = IF asked = "stands" THEN "lost" ELSE asked
    /\ UNCHANGED late

(* The client, then the state, are set before the thread exists. *)
ConnectSet ==
    /\ control = "checked"
    /\ client' = TRUE
    /\ state' = "CONNECTING"
    /\ control' = "creating"
    /\ WrittenOver
    /\ UNCHANGED <<pc, request, lock>>

CreateThread ==
    /\ control = "creating"
    /\ \E t \in Thread : pc[t] = "none" /\ pc' = [pc EXCEPT ![t] = "start"]
    /\ control' = "idle"
    /\ UNCHANGED <<state, client, request, lock, history>>

CreateThreadFails ==
    /\ control = "creating"
    /\ client' = FALSE
    /\ state' = "ERRORED"
    /\ control' = "idle"
    /\ UNCHANGED <<pc, request, lock, history>>
-----------------------------------------------------------------------------
(* Asking again does not start the count again. *)
AskToStop ==
    /\ asked' = "stands"
    /\ late' = IF asked = "stands" THEN late ELSE 0

(* Mutant of Disconnect: the client is dropped as well. *)
DisconnectDropping ==
    /\ state' = "DISCONNECTING"
    /\ client' = FALSE
    /\ AskToStop
    /\ UNCHANGED <<control, pc, request, lock>>

(* lightNodeDisconnect: from every state, by any thread. *)
Disconnect ==
    /\ state' = "DISCONNECTING"
    /\ AskToStop
    /\ UNCHANGED <<client, control, pc, request, lock>>

(* Announce calls, on the client's threads. *)
AnnounceLock ==
    /\ lock = Free
    /\ lock' = Announcer
    /\ UNCHANGED <<state, client, control, pc, request, history>>

AnnounceUnlock ==
    /\ lock = Announcer
    /\ lock' = Free
    /\ UNCHANGED <<state, client, control, pc, request, history>>
-----------------------------------------------------------------------------
(* lightNodeThreadRoutine.                                                 *)

Go(t, p) == pc' = [pc EXCEPT ![t] = p]

(* state = CONNECTED, whatever it was: a Disconnect just before is lost. *)
Start(t) ==
    /\ pc[t] = "start"
    /\ state' = "CONNECTED"
    /\ Go(t, "top")
    /\ WrittenOver
    /\ UNCHANGED <<client, control, request, lock>>

Top(t) ==
    /\ pc[t] = "top"
    /\ Go(t, IF state = "DISCONNECTING" THEN "leave" ELSE "lock")
    /\ UNCHANGED <<state, client, control, request, lock, history>>

Lock(t) ==
    /\ pc[t] = "lock"
    /\ lock = Free
    /\ lock' = t
    /\ request' = 1
    /\ Go(t, "check")
    /\ UNCHANGED <<state, client, control, history>>

(* Mutants of Check: one request too many; the state is looked at for the  *)
(* first request only.                                                     *)
CheckOneMore(t) ==
    /\ pc[t] = "check"
    /\ request <= Requests + 1
    /\ IF state = "CONNECTED"
       THEN Go(t, "issue") /\ UNCHANGED request
       ELSE request' = request + 1 /\ UNCHANGED pc
    /\ UNCHANGED <<state, client, control, lock, history>>

CheckOncePerRound(t) ==
    /\ pc[t] = "check"
    /\ request <= Requests
    /\ IF state = "CONNECTED" \/ request > 1
       THEN Go(t, "issue") /\ UNCHANGED request
       ELSE request' = request + 1 /\ UNCHANGED pc
    /\ UNCHANGED <<state, client, control, lock, history>>

(* Each lightNodeUpdate function looks at the state first ... *)
Check(t) ==
    /\ pc[t] = "check"
    /\ request <= Requests
    /\ IF state = "CONNECTED"
       THEN Go(t, "issue") /\ UNCHANGED request
       ELSE request' = request + 1 /\ UNCHANGED pc
    /\ UNCHANGED <<state, client, control, lock, history>>

(* ... and then calls the client. *)
Issue(t) ==
    /\ pc[t] = "issue"
    /\ request' = request + 1
    /\ late' = IF asked # "none" /\ late < 2 THEN late + 1 ELSE late
    /\ Go(t, "check")
    /\ UNCHANGED <<state, client, control, lock, asked>>

(* Mutant of Unlock: the loop is left before the lock is released. *)
UnlockUnlessDisconnecting(t) ==
    /\ pc[t] = "check"
    /\ request > Requests
    /\ lock' = IF state = "DISCONNECTING" THEN lock ELSE Free
    /\ Go(t, "bottom")
    /\ UNCHANGED <<state, client, control, request, history>>

Unlock(t) ==
    /\ pc[t] = "check"
    /\ request > Requests
    /\ lock' = Free
    /\ Go(t, "bottom")
    /\ UNCHANGED <<state, client, control, request, history>>

Bottom(t) ==
    /\ pc[t] = "bottom"
    /\ Go(t, IF state = "DISCONNECTING" THEN "leave" ELSE "sleep")
    /\ UNCHANGED <<state, client, control, request, lock, history>>

Sleep(t) ==
    /\ pc[t] = "sleep"
    /\ Go(t, "top")
    /\ UNCHANGED <<state, client, control, request, lock, history>>

(* Mutant of Leave: the routine returns without a trace. *)
LeaveSilently(t) ==
    /\ pc[t] = "leave"
    /\ Go(t, "done")
    /\ UNCHANGED <<state, client, control, request, lock, history>>

(* state = DISCONNECTED, whatever it was, and the routine returns. *)
Leave(t) ==
    /\ pc[t] = "leave"
    /\ state' = "DISCONNECTED"
    /\ Go(t, "done")
    /\ UNCHANGED <<client, control, request, lock, history>>
-----------------------------------------------------------------------------
Connect ==
    \/ ConnectCheck
    \/ ConnectAttrFails
    \/ ConnectSet
    \/ CreateThread
    \/ CreateThreadFails

Routine(t) ==
    \/ Start(t)
    \/ Top(t)
    \/ Lock(t)
    \/ Check(t)
    \/ Issue(t)
    \/ Unlock(t)
    \/ Bottom(t)
    \/ Sleep(t)
    \/ Leave(t)

Next ==
    \/ Connect
    \/ Disconnect
    \/ AnnounceLock
    \/ AnnounceUnlock
    \/ \E t \in Thread : Routine(t)

Spec == Init /\ [][Next]_vars

(* The scheduler runs the routine; an Announce call ends; and the mutex,   *)
(* released again and again, is in the end given to the routine.           *)
Fairness ==
    /\ WF_vars(AnnounceUnlock)
    /\ \A t \in Thread : WF_vars(Routine(t)) /\ SF_vars(Lock(t))

FairSpec == Spec /\ Fairness
-----------------------------------------------------------------------------
(* Type invariant. *)
TypeOK ==
    /\ state \in State
    /\ client \in BOOLEAN
    /\ control \in {"idle", "checked", "creating"}
    /\ pc \in [Thread -> ThreadPC]
    /\ request \in 1..(Requests + 1)
    /\ lock \in Thread \cup {Free, Announcer}
    /\ asked \in {"none", "stands", "lost"} /\ late \in 0..2

(* At most one thread routine runs, although disconnecting only asks it to *)
(* leave, may be repeated or lost, and connecting again does not wait.     *)
OneRoutine ==
    \A t, u \in Thread : pc[t] \in InRoutine /\ pc[u] \in InRoutine => t = u

(* While a thread routine runs the node has a client to call: it is set    *)
(* before the thread exists and reset only when there is none (CORE-41).   *)
ClientWhilePolling == (\E t \in Thread : pc[t] \in InRoutine) => client

(* The routine owns node->lock exactly during its round of requests, so it *)
(* sleeps, leaves and returns without it.                                  *)
LockInRound == \A t \in Thread : pc[t] \in InRound <=> lock = t

(* After a Disconnect that stands at most one more request is made: the    *)
(* one whose look at the state came before.  A Disconnect that connecting  *)
(* writes over does not stand: requests go on after it without limit.      *)
AtMostOneLateRequest == asked = "stands" => late <= 1

(* A Disconnect that finds the routine in its loop ends in DISCONNECTED.   *)
DisconnectEnds ==
    \A t \in Thread :
        (pc[t] \in InLoop /\ state = "DISCONNECTING") ~> state = "DISCONNECTED"
=============================================================================
