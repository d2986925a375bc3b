------------------------------ MODULE BREvent ------------------------------
(***************************************************************************)
(* The event handler of the Ethereum core (ethereum/event/BREvent.c) with  *)
(* its queue (BREventQueue.c): callers enqueue an event and signal a       *)
(* condition variable; a handler thread dequeues and dispatches, or waits. *)
(*                                                                         *)
(* Two locks: eventQueueCreate copies the mutex it is given                *)
(* (`queue->lock = *lock`), so the queue's lock is not handler->lock.  The *)
(* critical sections under the queue's lock do nothing else and are single *)
(* steps here; handler->lock is modelled with its owner.                   *)
(***************************************************************************)
EXTENDS Naturals, Sequences

CONSTANTS
    Event,        \* what callers signal
    NoEvent,      \* the contents of an event node fresh from calloc
    Client,       \* threads that call the API (a dispatcher's calls included)
    Thread,       \* handler threads that pthread_create can still return
    NoThread,     \* handler->lock is free
    Calls,        \* Calls[c]: the API functions that client c uses
    MaxSignals    \* bound: events signalled in a behaviour

APICall == {"start", "stop", "signal", "timeout"}

ASSUME ConstantsAssumption ==
    /\ NoEvent \notin Event
    /\ NoThread \notin Thread
    /\ Calls \in [Client -> SUBSET APICall]
    /\ MaxSignals \in Nat

VARIABLES
    status,       \* handler->status
    lock,         \* owner of handler->lock
    timed,        \* handler->timeoutDispatcher is set
    pending,      \* queue->pending: nodes, oldest first
    available,    \* queue->available: nodes, most recently freed first
    cell,         \* the event each allocated node holds
    scratch,      \* handler->scratch: the event being dispatched
    pc,           \* where each handler thread is
    call,         \* what each client is in the middle of
    sent,         \* history: events enqueued
    handled       \* history: events dispatched

queueVars == <<pending, available, cell>>
vars == <<status, lock, timed, pending, available, cell, scratch, pc, call,
          sent, handled>>

Status == {"STARTING", "RUNNING", "STOPPING", "STOPPED"}

(* Program points of a handler thread that holds handler->lock; "exited"   *)
(* is one, because the thread routine returns without unlocking.           *)
Holding == {"test", "poll", "dispatch", "sleep", "timeout", "exit", "exited"}
Waiting == {"wait", "timedwait"}
ThreadPC == Holding \cup Waiting \cup {"none", "lock", "woken", "timedout"}
ClientPC == {"idle", "notify", "starting", "stopping"}

Init ==
    /\ status = "STOPPED"
    /\ lock = NoThread
    /\ timed = FALSE
    /\ pending = <<>>
    /\ available = <<1>>          \* EVENT_QUEUE_DEFAULT_INITIAL_CAPACITY
    /\ cell = <<NoEvent>>
    /\ scratch = NoEvent
    /\ pc = [t \in Thread |-> "none"]
    /\ call = [c \in Client |-> "idle"]
    /\ sent = <<>>
    /\ handled = <<>>
-----------------------------------------------------------------------------
(* The queue, each operation one critical section under queue->lock.       *)

(* Mutant of Enqueue: the list is empty but no node is allocated. *)
EnqueueUnallocated(e) ==
    IF available = <<>>
    THEN /\ pending' = Append(pending, Len(cell) + 1)
         /\ UNCHANGED <<cell, available>>
    ELSE /\ pending' = Append(pending, Head(available))
         /\ cell' = [cell EXCEPT ![Head(available)] = e]
         /\ available' = Tail(available)

(* Mutant of Enqueue: the event is put before the pending ones. *)
EnqueueFront(e) ==
    IF available = <<>>
    THEN /\ pending' = <<Len(cell) + 1>> \o pending
         /\ cell' = Append(cell, e)
         /\ UNCHANGED available
    ELSE /\ pending' = <<Head(available)>> \o pending
         /\ cell' = [cell EXCEPT ![Head(available)] = e]
         /\ available' = Tail(available)

(* eventQueueEnqueue: take a free node or allocate one, append it. *)
Enqueue(e) ==
    IF available = <<>>
    THEN /\ pending' = Append(pending, Len(cell) + 1)
         /\ cell' = Append(cell, e)
         /\ UNCHANGED available
    ELSE /\ pending' = Append(pending, Head(available))
         /\ cell' = [cell EXCEPT ![Head(available)] = e]
         /\ available' = Tail(available)

(* Mutant of Dequeue: the node is not returned to the available list. *)
DequeueLeaking ==
    /\ scratch' = cell[Head(pending)]
    /\ pending' = Tail(pending)
    /\ UNCHANGED <<available, cell>>

(* Mutant of Dequeue: the node stays in the pending list. *)
DequeueKeeping ==
    /\ scratch' = cell[Head(pending)]
    /\ UNCHANGED queueVars

(* eventQueueDequeue: copy the oldest event out, free its node. *)
Dequeue ==
    /\ scratch' = cell[Head(pending)]
    /\ pending' = Tail(pending)
    /\ available' = <<Head(pending)>> \o available
    /\ UNCHANGED cell
-----------------------------------------------------------------------------
(* Clients.  handler->status is read and written without a lock.           *)

Calling(c, f) == call[c] = "idle" /\ f \in Calls[c]
GoClient(c, p) == call' = [call EXCEPT ![c] = p]

(* eventHandlerSignalEvent, first half: the event is queued ... *)
SignalEvent(c, e) ==
    /\ Calling(c, "signal")
    /\ Len(sent) < MaxSignals
    /\ Enqueue(e)
    /\ sent' = Append(sent, e)
    /\ GoClient(c, "notify")
    /\ UNCHANGED <<status, lock, timed, scratch, pc, handled>>

(* ... second half: pthread_cond_signal, without handler->lock.  It wakes  *)
(* a thread that waits now, or nobody.                                     *)
CondSignal(c) ==
    /\ call[c] = "notify"
    /\ GoClient(c, "idle")
    /\ IF \E t \in Thread : pc[t] \in Waiting
       THEN \E t \in Thread : /\ pc[t] \in Waiting
                              /\ pc' = [pc EXCEPT ![t] = "woken"]
       ELSE UNCHANGED pc
    /\ UNCHANGED <<status, lock, timed, queueVars, scratch, sent, handled>>

(* eventHandlerSetTimeoutDispatcher: a critical section, then a signal. *)
SetTimeoutDispatcher(c) ==
    /\ Calling(c, "timeout")
    /\ lock = NoThread
    /\ timed' = TRUE
    /\ GoClient(c, "notify")
    /\ UNCHANGED <<status, lock, queueVars, scratch, pc, sent, handled>>

(* eventHandlerStart: the switch on status ... *)
StartCheck(c) ==
    /\ Calling(c, "start")
    /\ status \in {"STOPPED", "STOPPING"}
    /\ GoClient(c, "starting")
    /\ UNCHANGED <<status, lock, timed, queueVars, scratch, pc, sent, handled>>

(* ... then the assignment and pthread_create. *)
StartThread(c) ==
    /\ call[c] = "starting"
    /\ status' = "STARTING"
    /\ \E t \in Thread : pc[t] = "none" /\ pc' = [pc EXCEPT ![t] = "lock"]
    /\ GoClient(c, "idle")
    /\ UNCHANGED <<lock, timed, queueVars, scratch, sent, handled>>

(* eventHandlerStop: the switch on status, then the assignment. *)
StopCheck(c) ==
    /\ Calling(c, "stop")
    /\ status \in {"RUNNING", "STARTING"}
    /\ GoClient(c, "stopping")
    /\ UNCHANGED <<status, lock, timed, queueVars, scratch, pc, sent, handled>>

StopSet(c) ==
    /\ call[c] = "stopping"
    /\ status' = "STOPPING"
    /\ GoClient(c, "idle")
    /\ UNCHANGED <<lock, timed, queueVars, scratch, pc, sent, handled>>
-----------------------------------------------------------------------------
(* The handler thread, eventHandlerThread.                                 *)

Go(t, p) == pc' = [pc EXCEPT ![t] = p]

(* pthread_mutex_lock and status = RUNNING, whatever status was. *)
Lock(t) ==
    /\ pc[t] = "lock"
    /\ lock = NoThread
    /\ lock' = t
    /\ status' = "RUNNING"
    /\ Go(t, "test")
    /\ UNCHANGED <<timed, queueVars, scratch, call, sent, handled>>

(* The loop's condition. *)
Test(t) ==
    /\ pc[t] = "test"
    /\ Go(t, IF status = "RUNNING" THEN "poll" ELSE "exit")
    /\ UNCHANGED <<status, lock, timed, queueVars, scratch, call, sent, handled>>

(* eventQueueHasPending is true: dequeue into scratch.  Only the holder of *)
(* handler->lock dequeues, so the queue cannot empty in between.           *)
PollDequeue(t) ==
    /\ pc[t] = "poll"
    /\ pending # <<>>
    /\ Dequeue
    /\ Go(t, "dispatch")
    /\ UNCHANGED <<status, lock, timed, call, sent, handled>>

(* eventQueueHasPending is false: the thread has decided to wait, but does *)
(* not wait yet.                                                           *)
PollEmpty(t) ==
    /\ pc[t] = "poll"
    /\ pending = <<>>
    /\ Go(t, "sleep")
    /\ UNCHANGED <<status, lock, timed, queueVars, scratch, call, sent, handled>>

(* type->eventDispatcher(handler, handler->scratch) *)
Dispatch(t) ==
    /\ pc[t] = "dispatch"
    /\ handled' = Append(handled, scratch)
    /\ Go(t, "test")
    /\ UNCHANGED <<status, lock, timed, queueVars, scratch, call, sent>>

(* Mutant of CondWait: the lock is not released. *)
CondWaitHolding(t) ==
    /\ pc[t] = "sleep"
    /\ Go(t, IF timed THEN "timedwait" ELSE "wait")
    /\ UNCHANGED <<status, lock, timed, queueVars, scratch, call, sent, handled>>

(* Mutant of CondWait: the timeout is ignored. *)
CondWaitUntimed(t) ==
    /\ pc[t] = "sleep"
    /\ lock' = NoThread
    /\ Go(t, "wait")
    /\ UNCHANGED <<status, timed, queueVars, scratch, call, sent, handled>>

(* pthread_cond_wait or the timed wait: release handler->lock and wait. *)
CondWait(t) ==
    /\ pc[t] = "sleep"
    /\ lock' = NoThread
    /\ Go(t, IF timed THEN "timedwait" ELSE "wait")
    /\ UNCHANGED <<status, timed, queueVars, scratch, call, sent, handled>>

(* On Android the relative wait adds nanoseconds without a carry: a sum of *)
(* 10^9 or more makes pthread_cond_timedwait return EINVAL at once.        *)
TimedWaitInvalid(t) ==
    /\ pc[t] = "sleep"
    /\ timed
    /\ Go(t, "test")
    /\ UNCHANGED <<status, lock, timed, queueVars, scratch, call, sent, handled>>

(* The wait ends by the clock, or spuriously, as POSIX allows. *)
TimeOut(t) ==
    /\ pc[t] = "timedwait"
    /\ Go(t, "timedout")
    /\ UNCHANGED <<status, lock, timed, queueVars, scratch, call, sent, handled>>

SpuriousWakeup(t) ==
    /\ pc[t] \in Waiting
    /\ Go(t, "woken")
    /\ UNCHANGED <<status, lock, timed, queueVars, scratch, call, sent, handled>>

(* A wait returns with handler->lock held again. *)
Relock(t) ==
    /\ pc[t] \in {"woken", "timedout"}
    /\ lock = NoThread
    /\ lock' = t
    /\ Go(t, IF pc[t] = "timedout" THEN "timeout" ELSE "test")
    /\ UNCHANGED <<status, timed, queueVars, scratch, call, sent, handled>>

(* handler->timeoutDispatcher(handler, NULL) *)
DispatchTimeout(t) ==
    /\ pc[t] = "timeout"
    /\ Go(t, "test")
    /\ UNCHANGED <<status, lock, timed, queueVars, scratch, call, sent, handled>>

(* The routine returns; handler->lock stays locked. *)
Exit(t) ==
    /\ pc[t] = "exit"
    /\ status' = "STOPPED"
    /\ Go(t, "exited")
    /\ UNCHANGED <<lock, timed, queueVars, scratch, call, sent, handled>>
-----------------------------------------------------------------------------
ClientNext(c) ==
    \/ \E e \in Event : SignalEvent(c, e)
    \/ CondSignal(c)
    \/ SetTimeoutDispatcher(c)
    \/ StartCheck(c)
    \/ StartThread(c)
    \/ StopCheck(c)
    \/ StopSet(c)

ThreadNext(t) ==
    \/ Lock(t)
    \/ Test(t)
    \/ PollDequeue(t)
    \/ PollEmpty(t)
    \/ Dispatch(t)
    \/ CondWait(t)
    \/ TimedWaitInvalid(t)
    \/ TimeOut(t)
    \/ SpuriousWakeup(t)
    \/ Relock(t)
    \/ DispatchTimeout(t)
    \/ Exit(t)

Next ==
    \/ \E c \in Client : ClientNext(c)
    \/ \E t \in Thread : ThreadNext(t)

Spec == Init /\ [][Next]_vars

(* The scheduler runs every runnable thread, a client finishes the call it *)
(* is in, and a timed wait ends.  Nobody is obliged to make a call, and no *)
(* wait is obliged to end spuriously.                                      *)
Fairness ==
    /\ \A c \in Client : WF_vars(CondSignal(c) \/ StartThread(c) \/ StopSet(c))
    /\ \A t \in Thread :
          WF_vars(Lock(t) \/ Test(t) \/ PollDequeue(t) \/ PollEmpty(t)
                  \/ Dispatch(t) \/ CondWait(t) \/ TimeOut(t) \/ Relock(t)
                  \/ DispatchTimeout(t) \/ Exit(t))

FairSpec == Spec /\ Fairness
-----------------------------------------------------------------------------
(* Type invariant. *)
TypeOK ==
    /\ status \in Status
    /\ lock \in Thread \cup {NoThread}
    /\ timed \in BOOLEAN
    /\ cell \in Seq(Event \cup {NoEvent})
    /\ pending \in Seq(1..Len(cell))
    /\ available \in Seq(1..Len(cell))
    /\ scratch \in Event \cup {NoEvent}
    /\ pc \in [Thread -> ThreadPC]
    /\ call \in [Client -> ClientPC]
    /\ sent \in Seq(Event)
    /\ handled \in Seq(Event)

(* A thread is past pthread_mutex_lock, and not inside a wait, exactly     *)
(* when it owns handler->lock: two handler threads, which a stop followed  *)
(* by a start can leave alive, never dispatch at the same time.            *)
LockDiscipline == \A t \in Thread : pc[t] \in Holding <=> lock = t

(* Every allocated event node is in exactly one of the two lists of the    *)
(* queue, once: no event is overwritten while it is pending, and no node   *)
(* is lost (BREventQueue.c, pending and available).                        *)
NodesConserved ==
    /\ Len(pending) + Len(available) = Len(cell)
    /\ \A i, j \in 1..Len(pending) : pending[i] = pending[j] => i = j
    /\ \A i, j \in 1..Len(available) : available[i] = available[j] => i = j
    /\ \A i \in 1..Len(pending), j \in 1..Len(available) :
          pending[i] # available[j]

Dispatching == \E t \in Thread : pc[t] = "dispatch"
Taken == Len(handled) + IF Dispatching THEN 1 ELSE 0

(* The events handled, the one being dispatched and the ones pending are,  *)
(* in this order, the events signalled: none is lost, duplicated or        *)
(* overtaken, whatever handler threads share the scratch buffer.           *)
FIFO ==
    /\ Len(sent) = Taken + Len(pending)
    /\ \A i \in 1..Len(handled) : handled[i] = sent[i]
    /\ Dispatching => scratch = sent[Len(handled) + 1]
    /\ \A i \in 1..Len(pending) : cell[pending[i]] = sent[Taken + i]

(* The handler implements the first-in, first-out channel of BREvent.h. *)
Channel == INSTANCE EventChannel WITH sent <- sent, handled <- handled
ImplementsChannel == Channel!Spec

(* With a timeout dispatcher set and the handler running, every signalled  *)
(* event is handled unless the handler is stopped: the clock repairs a     *)
(* wakeup that was lost.                                                   *)
TimedHandling ==
    \A n \in 1..MaxSignals :
        (timed /\ status = "RUNNING" /\ Len(sent) >= n)
            ~> (Len(handled) >= n \/ status # "RUNNING")

(* What BREvent.h says of eventHandlerSignalEvent: a signalled event is    *)
(* handled within the handler's thread.                                    *)
SignalledIsHandled ==
    \A n \in 1..MaxSignals :
        (status = "RUNNING" /\ Len(sent) >= n) ~> Len(handled) >= n
=============================================================================
