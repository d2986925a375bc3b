--------------------------- MODULE BREventProofs ---------------------------
(***************************************************************************)
(* Proofs about the event handler, for any clients, any number of handler  *)
(* threads and any use of the API: the inductive invariant of BREvent, the *)
(* finality of a stop, and the refinement of EventChannel.                 *)
(***************************************************************************)
EXTENDS BREvent, TLAPS

(* The inductive invariant: FIFO alone is not inductive.  It needs the     *)
(* lock discipline (one dispatch at a time) and the conservation of nodes  *)
(* (an enqueue never overwrites a pending event).                          *)
IInv == TypeOK /\ LockDiscipline /\ NodesConserved /\ FIFO

(* What an enqueue does to the queue, whichever node it takes. *)
LEMMA EnqueueStep ==
    ASSUME TypeOK, NodesConserved, NEW e \in Event, Enqueue(e)
    PROVE  /\ cell' \in Seq(Event \cup {NoEvent})
           /\ pending' \in Seq(1..Len(cell'))
           /\ available' \in Seq(1..Len(cell'))
           /\ NodesConserved'
           /\ Len(pending') = Len(pending) + 1
           /\ \A i \in 1..Len(pending) : cell'[pending'[i]] = cell[pending[i]]
           /\ cell'[pending'[Len(pending) + 1]] = e
<1>1. CASE available = <<>>
  <2>1. /\ pending' = Append(pending, Len(cell) + 1)
        /\ cell' = Append(cell, e)
        /\ available' = <<>>
    BY <1>1 DEF Enqueue
  <2>2. /\ pending \in Seq(1..Len(cell))
        /\ cell \in Seq(Event \cup {NoEvent})
    BY DEF TypeOK
  <2>3. /\ cell' \in Seq(Event \cup {NoEvent})
        /\ Len(cell') = Len(cell) + 1
    BY <2>1, <2>2
  <2>4. /\ pending' \in Seq(1..Len(cell'))
        /\ Len(pending') = Len(pending) + 1
    BY <2>1, <2>2, <2>3
  <2>5. \A i \in 1..Len(pending) : /\ pending'[i] = pending[i]
                                   /\ pending[i] \in 1..Len(cell)
    BY <2>1, <2>2
  <2>6. pending'[Len(pending) + 1] = Len(cell) + 1
    BY <2>1, <2>2
  <2>7. /\ \A n \in 1..Len(cell) : cell'[n] = cell[n]
        /\ cell'[Len(cell) + 1] = e
    BY <2>1, <2>2
  <2>8. NodesConserved'
    BY <1>1, <2>1, <2>2, <2>3, <2>4, <2>5, <2>6 DEF NodesConserved
  <2>9. QED
    BY <2>1, <2>2, <2>3, <2>4, <2>5, <2>6, <2>7, <2>8
<1>2. CASE available # <<>>
  <2> DEFINE n == available[1]
  <2>1. /\ pending' = Append(pending, n)
        /\ cell' = [cell EXCEPT ![n] = e]
        /\ available' = Tail(available)
    BY <1>2 DEF Enqueue, TypeOK
  <2>2. /\ pending \in Seq(1..Len(cell))
        /\ available \in Seq(1..Len(cell))
        /\ cell \in Seq(Event \cup {NoEvent})
        /\ n \in 1..Len(cell)
    BY <1>2 DEF TypeOK
  <2>3. /\ Len(pending) \in Nat
        /\ Len(cell) \in Nat
        /\ Len(available) \in Nat \ {0}
    BY <1>2, <2>2
  <2>4. /\ cell' \in Seq(Event \cup {NoEvent})
        /\ Len(cell') = Len(cell)
        /\ \A m \in 1..Len(cell) : m # n => cell'[m] = cell[m]
        /\ cell'[n] = e
    BY <2>1, <2>2
  <2>5. /\ pending' \in Seq(1..Len(cell'))
        /\ Len(pending') = Len(pending) + 1
        /\ pending'[Len(pending) + 1] = n
        /\ \A i \in 1..Len(pending) : /\ pending'[i] = pending[i]
                                      /\ pending[i] \in 1..Len(cell)
    BY <2>1, <2>2, <2>4
  <2>6. /\ available' \in Seq(1..Len(cell'))
        /\ Len(available') = Len(available) - 1
        /\ \A j \in 1..Len(available') : available'[j] = available[j + 1]
    BY <1>2, <2>1, <2>2, <2>4
  <2>7. 1 \in 1..Len(available)
    BY <2>3
  <2>8. \A i \in 1..Len(pending) : pending[i] # n
    BY <2>7 DEF NodesConserved
  <2>9. \A j \in 1..Len(available') : /\ j + 1 \in 1..Len(available)
                                     /\ j + 1 # 1
    BY <2>3, <2>6
  <2>10. \A j \in 1..Len(available') : available'[j] # n
    BY <2>6, <2>7, <2>9 DEF NodesConserved
  <2>11. NodesConserved'
    <3>1. Len(pending') + Len(available') = Len(cell')
      <4>1. Len(pending) + Len(available) = Len(cell)
        BY DEF NodesConserved
      <4>2. /\ Len(pending') = Len(pending) + 1
            /\ Len(available') = Len(available) - 1
            /\ Len(cell') = Len(cell)
        BY <2>4, <2>5, <2>6
      <4>3. QED
        BY <2>3, <4>1, <4>2
    <3>2. ASSUME NEW i \in 1..Len(pending'), NEW j \in 1..Len(pending'),
                 pending'[i] = pending'[j]
          PROVE  i = j
      <4>1. /\ i \in 1..Len(pending) \/ i = Len(pending) + 1
            /\ j \in 1..Len(pending) \/ j = Len(pending) + 1
        BY <2>3, <2>5
      <4>2. QED
        BY <2>5, <2>8, <3>2, <4>1 DEF NodesConserved
    <3>3. ASSUME NEW i \in 1..Len(available'), NEW j \in 1..Len(available'),
                 available'[i] = available'[j]
          PROVE  i = j
      <4>1. available[i + 1] = available[j + 1]
        BY <2>6, <3>3
      <4>2. i + 1 \in 1..Len(available) /\ j + 1 \in 1..Len(available)
        BY <2>9
      <4>3. i + 1 = j + 1
        BY <4>1, <4>2 DEF NodesConserved
      <4>4. i \in Nat /\ j \in Nat
        BY <2>3, <2>6
      <4>5. QED
        BY <4>3, <4>4
    <3>4. ASSUME NEW i \in 1..Len(pending'), NEW j \in 1..Len(available')
          PROVE  pending'[i] # available'[j]
      <4>1. i \in 1..Len(pending) \/ i = Len(pending) + 1
        BY <2>3, <2>5
      <4>2. j + 1 \in 1..Len(available) /\ available'[j] = available[j + 1]
        BY <2>6, <2>9
      <4>3. CASE i \in 1..Len(pending)
        <5>1. pending'[i] = pending[i]
          BY <2>5, <4>3
        <5>2. pending[i] # available[j + 1]
          BY <4>2, <4>3 DEF NodesConserved
        <5> QED
          BY <4>2, <5>1, <5>2
      <4>4. CASE i = Len(pending) + 1
        BY <2>5, <2>10, <4>4
      <4>5. QED
        BY <4>1, <4>3, <4>4
    <3>5. QED
      BY <3>1, <3>2, <3>3, <3>4 DEF NodesConserved
  <2>12. \A i \in 1..Len(pending) : cell'[pending'[i]] = cell[pending[i]]
    BY <2>4, <2>5, <2>8
  <2>13. QED
    BY <2>4, <2>5, <2>6, <2>11, <2>12
<1>3. QED
  BY <1>1, <1>2

(* What a dequeue does to a queue that has a pending event. *)
LEMMA DequeueStep ==
    ASSUME TypeOK, NodesConserved, pending # <<>>, Dequeue
    PROVE  /\ cell' = cell
           /\ scratch' = cell[pending[1]]
           /\ scratch' \in Event \cup {NoEvent}
           /\ pending' \in Seq(1..Len(cell))
           /\ available' \in Seq(1..Len(cell))
           /\ NodesConserved'
           /\ Len(pending) > 0
           /\ Len(pending') = Len(pending) - 1
           /\ \A i \in 1..Len(pending') : pending'[i] = pending[i + 1]
<1> DEFINE n == pending[1]
<1>1. /\ pending \in Seq(1..Len(cell))
      /\ available \in Seq(1..Len(cell))
      /\ cell \in Seq(Event \cup {NoEvent})
      /\ n \in 1..Len(cell)
  BY DEF TypeOK
<1>2. /\ Len(pending) \in Nat \ {0}
      /\ Len(cell) \in Nat
      /\ Len(available) \in Nat
  BY <1>1
<1>3. /\ cell' = cell
      /\ scratch' = cell[n]
      /\ pending' = Tail(pending)
      /\ available' = <<n>> \o available
  BY <1>1 DEF Dequeue
<1>4. /\ pending' \in Seq(1..Len(cell))
      /\ Len(pending') = Len(pending) - 1
      /\ \A i \in 1..Len(pending') : pending'[i] = pending[i + 1]
  BY <1>1, <1>3
<1>5. /\ available' \in Seq(1..Len(cell))
      /\ Len(available') = Len(available) + 1
      /\ available'[1] = n
      /\ \A j \in 2..Len(available') : available'[j] = available[j - 1]
  BY <1>1, <1>3
<1>6. 1 \in 1..Len(pending)
  BY <1>2
<1>7. \A j \in 1..Len(available) : available[j] # n
  BY <1>6 DEF NodesConserved
<1>8. \A i \in 1..Len(pending') : i + 1 \in 1..Len(pending) /\ i + 1 # 1
  BY <1>2, <1>4
<1>9. \A i \in 1..Len(pending') : pending'[i] # n
  BY <1>4, <1>6, <1>8 DEF NodesConserved
<1>10. \A j \in 1..Len(available') :
          j # 1 => j \in 2..Len(available') /\ j - 1 \in 1..Len(available)
  BY <1>2, <1>5
<1>11. NodesConserved'
  <2>1. Len(pending') + Len(available') = Len(cell')
    <3>1. Len(pending) + Len(available) = Len(cell)
      BY DEF NodesConserved
    <3>2. QED
      BY <1>2, <1>3, <1>4, <1>5, <3>1
  <2>2. ASSUME NEW i \in 1..Len(pending'), NEW j \in 1..Len(pending'),
               pending'[i] = pending'[j]
        PROVE  i = j
    <3>1. i + 1 \in 1..Len(pending) /\ j + 1 \in 1..Len(pending)
      BY <1>8
    <3>2. pending[i + 1] = pending[j + 1]
      BY <1>4, <2>2
    <3>3. i + 1 = j + 1
      BY <3>1, <3>2 DEF NodesConserved
    <3>4. i \in Nat /\ j \in Nat
      BY <1>2, <1>4
    <3>5. QED
      BY <3>3, <3>4
  <2>3. ASSUME NEW i \in 1..Len(available'), NEW j \in 1..Len(available'),
               available'[i] = available'[j]
        PROVE  i = j
    <3>1. i \in Nat /\ j \in Nat
      BY <1>2, <1>5
    <3>2. CASE i # 1 /\ j # 1
      <4>1. available[i - 1] = available[j - 1]
        BY <1>5, <1>10, <2>3, <3>2
      <4>2. i - 1 = j - 1
        BY <1>10, <3>2, <4>1 DEF NodesConserved
      <4>3. QED
        BY <3>1, <4>2
    <3>3. CASE i = 1 \/ j = 1
      BY <1>5, <1>7, <1>10, <2>3, <3>3
    <3>4. QED
      BY <3>2, <3>3
  <2>4. ASSUME NEW i \in 1..Len(pending'), NEW j \in 1..Len(available')
        PROVE  pending'[i] # available'[j]
    <3>1. CASE j = 1
      BY <1>5, <1>9, <3>1
    <3>2. CASE j # 1
      <4>1. pending[i + 1] # available[j - 1]
        BY <1>8, <1>10, <3>2 DEF NodesConserved
      <4>2. QED
        BY <1>4, <1>5, <1>10, <3>2, <4>1
    <3>3. QED
      BY <3>1, <3>2
  <2>5. QED
    BY <2>1, <2>2, <2>3, <2>4 DEF NodesConserved
<1>12. scratch' \in Event \cup {NoEvent}
  BY <1>1, <1>3
<1>13. QED
  BY <1>2, <1>3, <1>4, <1>5, <1>11, <1>12

(* A handler thread moves to another program point. *)
LEMMA MoveStep ==
    ASSUME TypeOK, NEW t \in Thread, NEW p \in ThreadPC, Go(t, p)
    PROVE  /\ pc' \in [Thread -> ThreadPC]
           /\ pc'[t] = p
           /\ \A u \in Thread : u # t => pc'[u] = pc[u]
           /\ pc[t] # "dispatch" /\ p # "dispatch"
              => (Dispatching' <=> Dispatching)
BY DEF TypeOK, Go, Dispatching

(* A thread that neither takes nor gives up handler->lock keeps the lock   *)
(* discipline.                                                             *)
LEMMA SameLock ==
    ASSUME TypeOK, LockDiscipline, NEW t \in Thread, NEW p \in ThreadPC,
           Go(t, p), lock' = lock, pc[t] \in Holding <=> p \in Holding
    PROVE  LockDiscipline'
BY MoveStep DEF LockDiscipline

(* A step that leaves the queue, the scratch buffer and the histories      *)
(* alone, and starts or ends no dispatch.                                  *)
LEMMA QuietStep ==
    ASSUME NodesConserved, FIFO,
           UNCHANGED <<queueVars, scratch, sent, handled>>,
           Dispatching' <=> Dispatching
    PROVE  NodesConserved' /\ FIFO'
<1>1. /\ pending' = pending /\ available' = available /\ cell' = cell
      /\ scratch' = scratch /\ sent' = sent /\ handled' = handled
  BY DEF queueVars
<1>2. Taken' = Taken
  BY <1>1 DEF Taken
<1>3. QED
  BY <1>1, <1>2 DEF NodesConserved, FIFO

(* The invariant holds initially. *)
LEMMA InitInv == Init => IInv
<1> SUFFICES ASSUME Init PROVE IInv
  OBVIOUS
<1>1. TypeOK
  <2>1. cell \in Seq(Event \cup {NoEvent}) /\ Len(cell) = 1
    BY DEF Init
  <2>2. available \in Seq(1..Len(cell)) /\ pending \in Seq(1..Len(cell))
    BY <2>1 DEF Init
  <2>3. /\ pc \in [Thread -> ThreadPC]
        /\ call \in [Client -> ClientPC]
        /\ status \in Status
    BY DEF Init, ThreadPC, ClientPC, Status
  <2>4. sent \in Seq(Event) /\ handled \in Seq(Event)
    BY DEF Init
  <2>5. /\ lock \in Thread \cup {NoThread}
        /\ timed \in BOOLEAN
        /\ scratch \in Event \cup {NoEvent}
    BY DEF Init
  <2>6. QED
    BY <2>1, <2>2, <2>3, <2>4, <2>5 DEF TypeOK
<1>2. LockDiscipline
  BY ConstantsAssumption DEF Init, LockDiscipline, Holding
<1>3. NodesConserved
  BY DEF Init, NodesConserved
<1>4. FIFO
  <2>1. ~Dispatching
    BY DEF Init, Dispatching
  <2>2. Taken = 0
    BY <2>1 DEF Taken, Init
  <2>3. QED
    BY <2>1, <2>2 DEF Init, FIFO
<1>5. QED
  BY <1>1, <1>2, <1>3, <1>4 DEF IInv

(* A client's step keeps the invariant. *)
LEMMA ClientStep ==
    ASSUME IInv, NEW c \in Client, ClientNext(c)
    PROVE  IInv'
<1> USE DEF IInv
<1>1. ASSUME NEW e \in Event, SignalEvent(c, e)
      PROVE  IInv'
  <2>1. /\ Enqueue(e)
        /\ sent' = Append(sent, e)
        /\ GoClient(c, "notify")
        /\ UNCHANGED <<status, lock, timed, scratch, pc, handled>>
    BY <1>1 DEF SignalEvent
  <2>2. /\ cell' \in Seq(Event \cup {NoEvent})
        /\ pending' \in Seq(1..Len(cell'))
        /\ available' \in Seq(1..Len(cell'))
        /\ NodesConserved'
        /\ Len(pending') = Len(pending) + 1
        /\ \A i \in 1..Len(pending) : cell'[pending'[i]] = cell[pending[i]]
        /\ cell'[pending'[Len(pending) + 1]] = e
    BY <2>1, EnqueueStep
  <2>3. sent \in Seq(Event) /\ handled \in Seq(Event)
    BY DEF TypeOK
  <2>4. /\ sent' \in Seq(Event)
        /\ Len(sent') = Len(sent) + 1
        /\ sent'[Len(sent) + 1] = e
        /\ \A i \in 1..Len(sent) : sent'[i] = sent[i]
    BY <2>1, <2>3
  <2>5. TypeOK'
    BY <2>1, <2>2, <2>4 DEF TypeOK, GoClient, ClientPC
  <2>6. LockDiscipline'
    BY <2>1 DEF LockDiscipline
  <2>7. FIFO'
    <3>1. (Dispatching' <=> Dispatching) /\ Taken' = Taken
      BY <2>1 DEF Dispatching, Taken
    <3>2. /\ Len(handled) \in Nat /\ Len(pending) \in Nat
          /\ Len(sent) \in Nat /\ Taken \in Nat
          /\ Len(handled) <= Taken
          /\ Dispatching => Taken = Len(handled) + 1
      BY <2>3 DEF TypeOK, Taken
    <3>3. Len(sent) = Taken + Len(pending)
      BY DEF FIFO
    <3>4. Len(sent') = Taken' + Len(pending')
      BY <2>2, <2>4, <3>1, <3>2, <3>3
    <3>5. \A i \in 1..Len(handled') : handled'[i] = sent'[i]
      BY <2>1, <2>4, <3>2, <3>3 DEF FIFO
    <3>6. Dispatching' => scratch' = sent'[Len(handled') + 1]
      BY <2>1, <2>4, <3>1, <3>2, <3>3 DEF FIFO
    <3>7. ASSUME NEW i \in 1..Len(pending')
          PROVE  cell'[pending'[i]] = sent'[Taken' + i]
      <4>1. CASE i = Len(pending) + 1
        <5>1. Taken' + i = Len(sent) + 1
          BY <3>1, <3>2, <3>3, <4>1
        <5>2. QED
          BY <2>2, <2>4, <4>1, <5>1
      <4>2. CASE i \in 1..Len(pending)
        <5>1. Taken + i \in 1..Len(sent)
          BY <3>2, <3>3, <4>2
        <5>2. QED
          BY <2>2, <2>4, <3>1, <4>2, <5>1 DEF FIFO
      <4>3. QED
        BY <2>2, <3>2, <4>1, <4>2
    <3>8. QED
      BY <3>4, <3>5, <3>6, <3>7 DEF FIFO
  <2>8. QED
    BY <2>2, <2>5, <2>6, <2>7
<1>2. CASE CondSignal(c)
  <2>1. UNCHANGED <<status, lock, timed, queueVars, scratch, sent, handled>>
        /\ GoClient(c, "idle")
    BY <1>2 DEF CondSignal
  <2>2. CASE UNCHANGED pc
    <3>1. Dispatching' <=> Dispatching
      BY <2>2 DEF Dispatching
    <3>2. NodesConserved' /\ FIFO'
      BY <2>1, <3>1, QuietStep
    <3>3. TypeOK' /\ LockDiscipline'
      BY <2>1, <2>2 DEF TypeOK, LockDiscipline, GoClient, ClientPC, queueVars
    <3>4. QED
      BY <3>2, <3>3
  <2>3. ASSUME NEW t \in Thread, pc[t] \in Waiting, Go(t, "woken")
        PROVE  IInv'
    <3>1. "woken" \in ThreadPC
      BY DEF ThreadPC
    <3>2. LockDiscipline'
      BY <2>1, <2>3, <3>1, SameLock DEF Waiting, Holding
    <3>3. pc' \in [Thread -> ThreadPC] /\ (Dispatching' <=> Dispatching)
      BY <2>3, <3>1, MoveStep DEF Waiting
    <3>4. NodesConserved' /\ FIFO'
      BY <2>1, <3>3, QuietStep
    <3>5. TypeOK'
      BY <2>1, <3>3 DEF TypeOK, GoClient, ClientPC, queueVars
    <3>6. QED
      BY <3>2, <3>4, <3>5
  <2>4. QED
    BY <1>2, <2>2, <2>3 DEF CondSignal, Go
<1>3. ASSUME \/ SetTimeoutDispatcher(c) \/ StartCheck(c)
             \/ StopCheck(c) \/ StopSet(c)
      PROVE  IInv'
  <2>1. UNCHANGED <<lock, queueVars, scratch, pc, sent, handled>>
    BY <1>3 DEF SetTimeoutDispatcher, StartCheck, StopCheck, StopSet
  <2>2. Dispatching' <=> Dispatching
    BY <2>1 DEF Dispatching
  <2>3. NodesConserved' /\ FIFO'
    BY <2>1, <2>2, QuietStep
  <2>4. /\ call' \in [Client -> ClientPC]
        /\ status' \in Status /\ timed' \in BOOLEAN
    BY <1>3 DEF SetTimeoutDispatcher, StartCheck, StopCheck, StopSet, TypeOK,
                GoClient, ClientPC, Status
  <2>5. TypeOK' /\ LockDiscipline'
    BY <2>1, <2>4 DEF TypeOK, LockDiscipline, queueVars
  <2>6. QED
    BY <2>3, <2>5
<1>4. CASE StartThread(c)
  <2>1. PICK t \in Thread : pc[t] = "none" /\ Go(t, "lock")
    BY <1>4 DEF StartThread, Go
  <2>2. /\ UNCHANGED <<lock, timed, queueVars, scratch, sent, handled>>
        /\ GoClient(c, "idle") /\ status' = "STARTING"
    BY <1>4 DEF StartThread
  <2>3. "lock" \in ThreadPC
    BY DEF ThreadPC
  <2>4. LockDiscipline'
    BY <2>1, <2>2, <2>3, SameLock DEF Holding
  <2>5. pc' \in [Thread -> ThreadPC] /\ (Dispatching' <=> Dispatching)
    BY <2>1, <2>3, MoveStep
  <2>6. NodesConserved' /\ FIFO'
    BY <2>2, <2>5, QuietStep
  <2>7. TypeOK'
    BY <2>2, <2>5 DEF TypeOK, GoClient, ClientPC, Status, queueVars
  <2>8. QED
    BY <2>4, <2>6, <2>7
<1>5. QED
  BY <1>1, <1>2, <1>3, <1>4 DEF ClientNext

(* A handler thread's step keeps the invariant. *)
LEMMA ThreadStep ==
    ASSUME IInv, NEW t \in Thread, ThreadNext(t)
    PROVE  IInv'
<1> USE DEF IInv
<1>1. CASE Lock(t)
  <2>1. /\ pc[t] = "lock" /\ lock = NoThread /\ lock' = t
        /\ status' = "RUNNING" /\ Go(t, "test")
        /\ UNCHANGED <<timed, queueVars, scratch, call, sent, handled>>
    BY <1>1 DEF Lock
  <2>2. "test" \in ThreadPC
    BY DEF ThreadPC, Holding
  <2>3. /\ pc' \in [Thread -> ThreadPC] /\ pc'[t] = "test"
        /\ \A u \in Thread : u # t => pc'[u] = pc[u]
        /\ Dispatching' <=> Dispatching
    BY <2>1, <2>2, MoveStep
  <2>4. LockDiscipline'
    BY <2>1, <2>3, ConstantsAssumption DEF LockDiscipline, Holding
  <2>5. NodesConserved' /\ FIFO'
    BY <2>1, <2>3, QuietStep
  <2>6. TypeOK'
    BY <2>1, <2>3 DEF TypeOK, Status, queueVars
  <2>7. QED
    BY <2>4, <2>5, <2>6
<1>2. CASE Relock(t)
  <2>1. /\ pc[t] \in {"woken", "timedout"} /\ lock = NoThread /\ lock' = t
        /\ Go(t, "timeout") \/ Go(t, "test")
        /\ UNCHANGED <<status, timed, queueVars, scratch, call, sent, handled>>
    BY <1>2 DEF Relock
  <2>2. "test" \in ThreadPC /\ "timeout" \in ThreadPC
    BY DEF ThreadPC, Holding
  <2>3. /\ pc' \in [Thread -> ThreadPC] /\ pc'[t] \in {"test", "timeout"}
        /\ \A u \in Thread : u # t => pc'[u] = pc[u]
        /\ Dispatching' <=> Dispatching
    BY <2>1, <2>2, MoveStep
  <2>4. LockDiscipline'
    BY <2>1, <2>3, ConstantsAssumption DEF LockDiscipline, Holding
  <2>5. NodesConserved' /\ FIFO'
    BY <2>1, <2>3, QuietStep
  <2>6. TypeOK'
    BY <2>1, <2>3 DEF TypeOK, queueVars
  <2>7. QED
    BY <2>4, <2>5, <2>6
<1>3. CASE CondWait(t)
  <2>1. /\ pc[t] = "sleep" /\ lock' = NoThread
        /\ Go(t, "timedwait") \/ Go(t, "wait")
        /\ UNCHANGED <<status, timed, queueVars, scratch, call, sent, handled>>
    BY <1>3 DEF CondWait
  <2>2. "timedwait" \in ThreadPC /\ "wait" \in ThreadPC
    BY DEF ThreadPC, Waiting
  <2>3. /\ pc' \in [Thread -> ThreadPC] /\ pc'[t] \in {"timedwait", "wait"}
        /\ \A u \in Thread : u # t => pc'[u] = pc[u]
        /\ Dispatching' <=> Dispatching
    BY <2>1, <2>2, MoveStep
  <2>4. lock = t
    BY <2>1 DEF LockDiscipline, Holding
  <2>5. LockDiscipline'
    BY <2>1, <2>3, <2>4, ConstantsAssumption DEF LockDiscipline, Holding
  <2>6. NodesConserved' /\ FIFO'
    BY <2>1, <2>3, QuietStep
  <2>7. TypeOK'
    BY <2>1, <2>3 DEF TypeOK, queueVars
  <2>8. QED
    BY <2>5, <2>6, <2>7
<1>4. ASSUME \/ Test(t) \/ PollEmpty(t) \/ TimedWaitInvalid(t) \/ TimeOut(t)
             \/ SpuriousWakeup(t) \/ DispatchTimeout(t) \/ Exit(t)
      PROVE  IInv'
  <2>1. /\ UNCHANGED <<lock, timed, queueVars, scratch, call, sent, handled>>
        /\ status' \in {status, "STOPPED"}
    BY <1>4 DEF Test, PollEmpty, TimedWaitInvalid, TimeOut, SpuriousWakeup,
                DispatchTimeout, Exit
  <2>2. PICK p \in ThreadPC \ {"dispatch"} :
            Go(t, p) /\ (pc[t] \in Holding <=> p \in Holding)
    BY <1>4 DEF Test, PollEmpty, TimedWaitInvalid, TimeOut, SpuriousWakeup,
                DispatchTimeout, Exit, ThreadPC, Holding, Waiting
  <2>3. pc[t] # "dispatch"
    BY <1>4 DEF Test, PollEmpty, TimedWaitInvalid, TimeOut, SpuriousWakeup,
                DispatchTimeout, Exit, Waiting
  <2>4. LockDiscipline'
    BY <2>1, <2>2, SameLock
  <2>5. pc' \in [Thread -> ThreadPC] /\ (Dispatching' <=> Dispatching)
    BY <2>2, <2>3, MoveStep
  <2>6. NodesConserved' /\ FIFO'
    BY <2>1, <2>5, QuietStep
  <2>7. TypeOK'
    BY <2>1, <2>5 DEF TypeOK, Status, queueVars
  <2>8. QED
    BY <2>4, <2>6, <2>7
<1>5. CASE PollDequeue(t)
  <2>1. /\ pc[t] = "poll" /\ pending # <<>> /\ Dequeue /\ Go(t, "dispatch")
        /\ UNCHANGED <<status, lock, timed, call, sent, handled>>
    BY <1>5 DEF PollDequeue
  <2>2. "dispatch" \in ThreadPC
    BY DEF ThreadPC, Holding
  <2>3. LockDiscipline'
    BY <2>1, <2>2, SameLock DEF Holding
  <2>4. /\ pc' \in [Thread -> ThreadPC] /\ pc'[t] = "dispatch"
    BY <2>1, <2>2, MoveStep
  <2>5. /\ cell' = cell
        /\ scratch' = cell[pending[1]]
        /\ scratch' \in Event \cup {NoEvent}
        /\ pending' \in Seq(1..Len(cell))
        /\ available' \in Seq(1..Len(cell))
        /\ NodesConserved'
        /\ Len(pending) > 0
        /\ Len(pending') = Len(pending) - 1
        /\ \A i \in 1..Len(pending') : pending'[i] = pending[i + 1]
    BY <2>1, DequeueStep
  <2>6. ~Dispatching /\ Dispatching'
    BY <2>1, <2>4 DEF Dispatching, LockDiscipline, Holding
  <2>7. TypeOK'
    BY <2>1, <2>4, <2>5 DEF TypeOK
  <2>8. FIFO'
    <3>1. /\ Len(handled) \in Nat /\ Len(pending) \in Nat
          /\ Taken = Len(handled) /\ Taken' = Len(handled) + 1
      BY <2>1, <2>6 DEF TypeOK, Taken
    <3>2. /\ Len(sent) = Len(handled) + Len(pending)
          /\ \A i \in 1..Len(handled) : handled[i] = sent[i]
          /\ \A i \in 1..Len(pending) :
                cell[pending[i]] = sent[Len(handled) + i]
      BY <3>1 DEF FIFO
    <3>3. Len(sent') = Taken' + Len(pending')
      BY <2>1, <2>5, <3>1, <3>2
    <3>4. scratch' = sent'[Len(handled') + 1]
      <4>1. 1 \in 1..Len(pending)
        BY <2>5, <3>1
      <4>2. QED
        BY <2>1, <2>5, <3>2, <4>1
    <3>5. ASSUME NEW i \in 1..Len(pending')
          PROVE  cell'[pending'[i]] = sent'[Taken' + i]
      <4>1. i + 1 \in 1..Len(pending) /\ Len(handled) + (i + 1) = Taken' + i
        BY <2>5, <3>1
      <4>2. cell[pending[i + 1]] = sent[Len(handled) + (i + 1)]
        BY <3>2, <4>1
      <4>3. QED
        BY <2>1, <2>5, <4>1, <4>2
    <3>6. QED
      BY <2>1, <3>2, <3>3, <3>4, <3>5 DEF FIFO
  <2>9. QED
    BY <2>3, <2>5, <2>7, <2>8
<1>6. CASE Dispatch(t)
  <2>1. /\ pc[t] = "dispatch" /\ Go(t, "test")
        /\ handled' = Append(handled, scratch)
        /\ UNCHANGED <<status, lock, timed, queueVars, scratch, call, sent>>
    BY <1>6 DEF Dispatch
  <2>2. "test" \in ThreadPC
    BY DEF ThreadPC, Holding
  <2>3. LockDiscipline'
    BY <2>1, <2>2, SameLock DEF Holding
  <2>4. /\ pc' \in [Thread -> ThreadPC] /\ pc'[t] = "test"
        /\ \A u \in Thread : u # t => pc'[u] = pc[u]
    BY <2>1, <2>2, MoveStep
  <2>5. Dispatching /\ ~Dispatching'
    BY <2>1, <2>4 DEF Dispatching, LockDiscipline, Holding
  <2>6. /\ handled \in Seq(Event) /\ sent \in Seq(Event)
        /\ Len(handled) \in Nat /\ Len(sent) \in Nat /\ Len(pending) \in Nat
    BY DEF TypeOK
  <2>7. /\ Taken = Len(handled) + 1
        /\ Len(sent) = Len(handled) + 1 + Len(pending)
        /\ scratch = sent[Len(handled) + 1]
        /\ Len(handled) + 1 \in 1..Len(sent)
    BY <2>5, <2>6 DEF FIFO, Taken
  <2>8. scratch \in Event
    BY <2>6, <2>7
  <2>9. /\ handled' \in Seq(Event)
        /\ Len(handled') = Len(handled) + 1
        /\ handled'[Len(handled) + 1] = scratch
        /\ \A i \in 1..Len(handled) : handled'[i] = handled[i]
    BY <2>1, <2>6, <2>8
  <2>10. Taken' = Taken
    BY <2>5, <2>7, <2>9, <2>6 DEF Taken
  <2>11. FIFO'
    <3>1. \A i \in 1..Len(handled') : handled'[i] = sent'[i]
      <4>1. \A i \in 1..Len(handled') :
                i \in 1..Len(handled) \/ i = Len(handled) + 1
        BY <2>6, <2>9
      <4>2. QED
        BY <2>1, <2>7, <2>9, <4>1 DEF FIFO
    <3>2. QED
      BY <2>1, <2>5, <2>10, <3>1 DEF FIFO, queueVars
  <2>12. TypeOK' /\ NodesConserved'
    BY <2>1, <2>4, <2>9 DEF TypeOK, NodesConserved, queueVars
  <2>13. QED
    BY <2>3, <2>11, <2>12
<1>7. QED
  BY <1>1, <1>2, <1>3, <1>4, <1>5, <1>6 DEF ThreadNext

LEMMA NextInv == IInv /\ [Next]_vars => IInv'
<1>1. ASSUME IInv, Next PROVE IInv'
  BY <1>1, ClientStep, ThreadStep DEF Next
<1>2. ASSUME IInv, UNCHANGED vars PROVE IInv'
  BY <1>2 DEF vars, queueVars, IInv, TypeOK, LockDiscipline, NodesConserved,
              FIFO, Taken, Dispatching
<1>3. QED
  BY <1>1, <1>2

(* In every reachable state, for any clients, threads, events and calls,   *)
(* the conjunction above holds.                                            *)
THEOREM Invariance == Spec => []IInv
<1>1. QED
  BY InitInv, NextInv, PTL DEF Spec

(* Every variable keeps its type. *)
THEOREM TypeCorrect == Spec => []TypeOK
<1>1. IInv => TypeOK
  BY DEF IInv
<1>2. QED
  BY <1>1, Invariance, PTL

(* Two handler threads never dispatch at the same time, also after a stop  *)
(* and a start that leave both alive.                                      *)
THEOREM DispatchExclusive == Spec => []LockDiscipline
<1>1. IInv => LockDiscipline
  BY DEF IInv
<1>2. QED
  BY <1>1, Invariance, PTL

(* No event node is lost, and none is in the queue twice. *)
THEOREM QueueConservesNodes == Spec => []NodesConserved
<1>1. IInv => NodesConserved
  BY DEF IInv
<1>2. QED
  BY <1>1, Invariance, PTL

(* Events are handled in the order in which they were signalled, each at   *)
(* most once, and none is lost from the queue.                             *)
THEOREM HandledInOrder == Spec => []FIFO
<1>1. IInv => FIFO
  BY DEF IInv
<1>2. QED
  BY <1>1, Invariance, PTL

(* Only a dispatch changes what has been handled. *)
LEMMA OnlyDispatchHandles ==
    ASSUME [Next]_vars, handled' # handled
    PROVE  \E t \in Thread : Dispatch(t)
BY DEF Next, ClientNext, ThreadNext, vars, SignalEvent, CondSignal,
       SetTimeoutDispatcher, StartCheck, StartThread, StopCheck, StopSet, Lock,
       Test, PollDequeue, PollEmpty, CondWait, TimedWaitInvalid, TimeOut,
       SpuriousWakeup, Relock, DispatchTimeout, Exit

(* The handler implements the first-in, first-out channel that BREvent.h   *)
(* describes: a signal is a Signal of the channel, a dispatch a Handle, and *)
(* every other step stutters.                                              *)
THEOREM HandlerImplementsChannel == Spec => ImplementsChannel
<1>1. Init => Channel!Init
  BY DEF Init, Channel!Init
<1>2. ASSUME IInv, [Next]_vars
      PROVE  [Channel!Next]_(Channel!vars)
  <2>1. CASE \E t \in Thread : Dispatch(t)
    <3>1. PICK t \in Thread : Dispatch(t)
      BY <2>1
    <3>2. Dispatching
      BY <3>1 DEF Dispatch, Dispatching
    <3>3. /\ Len(handled) \in Nat /\ Len(pending) \in Nat
          /\ Len(sent) \in Nat
      BY <1>2 DEF IInv, TypeOK
    <3>4. Taken = Len(handled) + 1
      BY <3>2, <3>3 DEF Taken
    <3>5. Len(handled) < Len(sent) /\ scratch = sent[Len(handled) + 1]
      BY <1>2, <3>2, <3>3, <3>4 DEF IInv, FIFO
    <3>6. Channel!Handle
      BY <3>1, <3>5 DEF Dispatch, Channel!Handle
    <3>7. QED
      BY <3>6 DEF Channel!Next
  <2>2. CASE \E c \in Client, e \in Event : SignalEvent(c, e)
    BY <2>2 DEF SignalEvent, Channel!Next, Channel!Signal
  <2>3. CASE /\ ~ \E t \in Thread : Dispatch(t)
             /\ ~ \E c \in Client, e \in Event : SignalEvent(c, e)
    <3>1. handled' = handled
      BY <1>2, <2>3, OnlyDispatchHandles
    <3>2. sent' = sent
      BY <1>2, <2>3 DEF Next, ClientNext, ThreadNext, vars, CondSignal,
         SetTimeoutDispatcher, StartCheck, StartThread, StopCheck, StopSet,
         Lock, Test, PollDequeue, PollEmpty, CondWait, TimedWaitInvalid,
         TimeOut, SpuriousWakeup, Relock, DispatchTimeout, Exit
    <3>3. QED
      BY <3>1, <3>2 DEF Channel!vars
  <2>4. QED
    BY <2>1, <2>2, <2>3
<1>3. QED
  BY <1>1, <1>2, Invariance, PTL DEF Spec, ImplementsChannel, Channel!Spec
=============================================================================
