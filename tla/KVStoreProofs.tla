---------------------------- MODULE KVStoreProofs ----------------------------
(* Proofs that the types of KVStore.tla are right, and that a recorded       *)
(* remote version means the same contents, for every number of writes,       *)
(* every length of time and every number of failures.                        *)
(*                                                                           *)
(* The invariant that carries both says what each step of a synchronisation  *)
(* knows of the two stores: the version it read is the last local one as     *)
(* long as the version numbers agree, and what it is about to record is what *)
(* the server has, unless the server has moved on.                           *)
EXTENDS KVStore, TLAPS

Row == [version : Nat, remote : Nat, value : Nat, time : Nat, deleted : BOOLEAN]
Syncs == [pc : {"idle", "recorder", "read", "put", "del", "get", "store", "record"},
          item : [version : Nat, time : Nat], recorder : Nat, local : Row,
          got : Nat, value : Nat]

(* What a version in a store is: a version number is only 0 for no version,  *)
(* and a version has the time of a write.                                    *)
Written(kv) ==
    /\ kv.value <= writes /\ kv.time <= now
    /\ kv.version = 0 => kv = NoKey
    /\ kv.version > 0 => kv.time > 0

Types ==
    /\ row \in Row /\ server \in Row
    /\ now \in 1..MaxTime /\ writes \in 0..MaxWrites /\ failures \in 0..MaxFailures
    /\ Written(row) /\ Written(server)
    /\ row.remote <= server.version

SyncTypes == sync \in Syncs /\ sync.value <= writes

(* The version that the synchronisation read or stored is the last local     *)
(* one if the numbers agree.                                                 *)
LocalRead ==
    /\ sync.local.version <= row.version
    /\ sync.local.version = row.version => sync.local = row
    /\ sync.local.value <= writes

(* The server's version that the synchronisation works with. *)
ItemKnown ==
    sync.pc # "idle" =>
        /\ sync.item.version <= server.version
        /\ sync.item.version > 0 => sync.item.time > 0
        /\ sync.item.version > 0 \/ row.version > 0

(* What was decided from the version that was read. *)
Decided ==
    /\ sync.pc = "put" => sync.local.version > 0 /\ ~sync.local.deleted
    /\ sync.pc = "del" => sync.local.version > 0 /\ sync.local.deleted

(* What was fetched is on the server, unless the server has moved on. *)
Fetched ==
    sync.pc = "store" =>
        /\ sync.got \in 1..server.version
        /\ sync.got = server.version => Alive(server) /\ sync.value = server.value

(* A local version agrees with the server's, but for the deleted mark. *)
Agrees(kv) ==
    \/ Alive(kv) /\ Alive(server) /\ kv.value = server.value
    \/ ~Alive(kv) /\ ~Alive(server)
    \/ kv.deleted /\ Alive(server)

(* What is about to be recorded agrees, unless the server has moved on. *)
ToRecord ==
    sync.pc = "record" =>
        /\ sync.got \in 1..server.version /\ sync.local.version > 0
        /\ sync.got = server.version => Agrees(sync.local)

Recorded == row.remote > 0 /\ row.remote = server.version => Agrees(row)

SyncInv ==
    /\ Types /\ SyncTypes /\ LocalRead /\ ItemKnown /\ Decided /\ Fetched /\ ToRecord
    /\ Recorded

-----------------------------------------------------------------------------
(* The invariant says what the runs check. *)
LEMMA InvTypeOK == SyncInv => TypeOK
BY DEF SyncInv, Types, SyncTypes, LocalRead, ItemKnown, Decided, Fetched, ToRecord, TypeOK,
       Row, Syncs, Written

LEMMA InvRecorded == SyncInv => RecordedMeansSameUnlessDeleted
BY DEF SyncInv, Recorded, Agrees, RecordedMeansSameUnlessDeleted, Same, Alive

(* The initial state has neither store nor a synchronisation. *)
LEMMA InvInit == Init => SyncInv
BY KVAssumption
   DEF Init, SyncInv, Types, SyncTypes, LocalRead, ItemKnown, Decided, Fetched, ToRecord,
       Recorded, Row, Syncs, Written, NoKey, Idle, Alive, Agrees

-----------------------------------------------------------------------------
(* What holds of a synchronisation that has ended, whatever the stores are. *)
LEMMA FinishKeeps ==
    ASSUME Types', Finish
    PROVE  SyncTypes' /\ LocalRead' /\ ItemKnown' /\ Decided' /\ Fetched' /\ ToRecord'
<1>1. Idle \in Syncs
    BY DEF Idle, Syncs, Row, NoKey
<1>2. /\ sync'.pc = "idle" /\ sync'.value = 0
      /\ sync'.local = NoKey /\ NoKey.version = 0 /\ NoKey.value = 0
    BY DEF Finish, Idle, NoKey
<1>3. SyncTypes' /\ LocalRead'
    BY <1>1, <1>2 DEF SyncTypes, LocalRead, Types, Row, Written, Finish
<1> QED
    BY <1>2, <1>3 DEF ItemKnown, Decided, Fetched, ToRecord

(* Every step keeps it. *)
LEMMA InvNext == SyncInv /\ [Next]_vars => SyncInv'
<1> SUFFICES ASSUME SyncInv, [Next]_vars PROVE SyncInv'
    OBVIOUS
<1> USE KVAssumption DEF SyncInv
<1>1. CASE Set
  <2>1. Types'
    BY <1>1 DEF Set, Clock, Write, Types, Row, Written, NoKey
  <2>2. /\ SyncTypes' /\ LocalRead' /\ ItemKnown' /\ Decided' /\ Recorded'
    BY <1>1 DEF Set, Clock, Write, Types, Row, Syncs, Written, NoKey, SyncTypes, LocalRead,
       ItemKnown, Decided, Recorded, Agrees, Alive
  <2>3. Fetched' /\ ToRecord'
    BY <1>1 DEF Set, Clock, Write, Types, Row, Syncs, SyncTypes, Fetched, ToRecord, Agrees,
       Alive
  <2> QED
    BY <2>1, <2>2, <2>3
<1>2. CASE Delete
  <2>1. Types'
    BY <1>2 DEF Delete, Clock, Write, Types, Row, Written, NoKey
  <2>2. /\ SyncTypes' /\ LocalRead' /\ ItemKnown' /\ Decided' /\ Recorded'
    BY <1>2 DEF Delete, Clock, Write, Types, Row, Syncs, Written, NoKey, SyncTypes, LocalRead,
       ItemKnown, Decided, Recorded, Agrees, Alive
  <2>3. Fetched' /\ ToRecord'
    BY <1>2 DEF Delete, Clock, Write, Types, Row, Syncs, SyncTypes, Fetched, ToRecord, Agrees,
       Alive
  <2> QED
    BY <2>1, <2>2, <2>3
<1>3. CASE RemotePut
  <2>1. Types'
    BY <1>3 DEF RemotePut, Clock, Stored, Types, Row, Written, NoKey
  <2>2. /\ SyncTypes' /\ LocalRead' /\ ItemKnown' /\ Decided' /\ Recorded'
    BY <1>3 DEF RemotePut, Clock, Stored, Types, Row, Syncs, Written, NoKey, SyncTypes, LocalRead,
       ItemKnown, Decided, Recorded, Agrees, Alive
  <2>3. Fetched' /\ ToRecord'
    BY <1>3 DEF RemotePut, Clock, Stored, Types, Row, Syncs, SyncTypes, Fetched, ToRecord, Agrees,
       Alive
  <2> QED
    BY <2>1, <2>2, <2>3
<1>4. CASE RemoteDelete
  <2>1. Types'
    BY <1>4 DEF RemoteDelete, Clock, Stored, Types, Row, Written, NoKey
  <2>2. /\ SyncTypes' /\ LocalRead' /\ ItemKnown' /\ Decided' /\ Recorded'
    BY <1>4 DEF RemoteDelete, Clock, Stored, Types, Row, Syncs, Written, NoKey, SyncTypes, LocalRead,
       ItemKnown, Decided, Recorded, Agrees, Alive
  <2>3. Fetched' /\ ToRecord'
    BY <1>4 DEF RemoteDelete, Clock, Stored, Types, Row, Syncs, SyncTypes, Fetched, ToRecord, Agrees,
       Alive
  <2> QED
    BY <2>1, <2>2, <2>3
<1>5. CASE Keys
  <2>1. Types' /\ Recorded'
    BY <1>5 DEF Keys, Types, Written, Recorded, Agrees, Alive
  <2>2. /\ sync'.pc = "recorder" /\ sync'.value = 0 /\ sync'.local = NoKey
        /\ sync'.item = [version |-> server.version, time |-> server.time]
    BY <1>5 DEF Keys, Idle
  <2>3. SyncTypes'
    <3>1. Idle \in Syncs
      BY DEF Idle, Syncs, Row, NoKey
    <3>2. [version |-> server.version, time |-> server.time] \in [version : Nat, time : Nat]
      BY DEF Types, Row
    <3>3. sync' \in Syncs
      BY <1>5, <3>1, <3>2 DEF Keys, Syncs
    <3> QED
      BY <1>5, <2>2, <3>3 DEF Keys, SyncTypes, Types
  <2>4. LocalRead'
    <3>1. NoKey.version = 0 /\ NoKey.value = 0
      BY DEF NoKey
    <3> QED
      BY <1>5, <2>2, <3>1 DEF Keys, LocalRead, Types, Row, Written
  <2>5. ItemKnown' /\ Decided' /\ Fetched' /\ ToRecord'
    BY <1>5, <2>2 DEF Keys, ItemKnown, Decided, Fetched, ToRecord, Types, Row, Written
  <2> QED
    BY <2>1, <2>3, <2>4, <2>5
<1>6. CASE Recorder
  <2>1. Types' /\ Recorded'
    BY <1>6 DEF Recorder, Types, Written, Recorded, Agrees, Alive
  <2>2. CASE Finish
    BY <2>1, <2>2, FinishKeeps
  <2>3. CASE sync' = [sync EXCEPT !.pc = "read", !.recorder = row.remote]
    <3>1. /\ sync' \in Syncs /\ sync'.pc = "read" /\ sync'.value = sync.value
          /\ sync'.item = sync.item /\ sync'.local = sync.local
      BY <2>3 DEF SyncTypes, Syncs, Types, Row
    <3> QED
      BY <1>6, <2>1, <3>1 DEF Recorder, SyncTypes, LocalRead, ItemKnown, Decided,
         Fetched, ToRecord
  <2> QED
    BY <1>6, <2>2, <2>3 DEF Recorder
<1>7. CASE Read
  <2>1. Types' /\ Recorded'
    BY <1>7 DEF Read, Types, Written, Recorded, Agrees, Alive
  <2>2. /\ sync' \in Syncs /\ sync'.pc \in {"get", "del", "put"}
        /\ sync'.value = sync.value /\ sync'.item = sync.item /\ sync'.local = row
        /\ sync'.pc = "del" => row.deleted
        /\ sync'.pc = "put" => ~row.deleted /\ ~(row.time < sync.item.time)
    BY <1>7 DEF Read, SyncTypes, Syncs, Types, Row
  <2>3. SyncTypes' /\ LocalRead' /\ ItemKnown'
    BY <1>7, <2>2 DEF Read, SyncTypes, LocalRead, ItemKnown, Types, Row, Written
  <2>4. Decided' /\ Fetched' /\ ToRecord'
    BY <1>7, <2>2 DEF Read, Decided, Fetched, ToRecord, ItemKnown, Types, Row, Written,
       NoKey, SyncTypes, Syncs
  <2> QED
    BY <2>1, <2>3, <2>4
<1>8. CASE Put
  <2>1. CASE Finish /\ UNCHANGED <<server, now, failures>>
    <3>1. Types' /\ Recorded'
      BY <1>8, <2>1 DEF Put, Types, Written, Recorded, Agrees, Alive
    <3> QED
      BY <2>1, <3>1, FinishKeeps
  <2>2. CASE Clock /\ server' = Stored(sync.local.value, FALSE) /\ Answered
    <3>1. /\ server' \in Row /\ server'.version = server.version + 1
          /\ server'.value = sync.local.value /\ ~server'.deleted
          /\ server'.remote = 0 /\ server'.time = now'
      BY <2>2 DEF Clock, Stored, Types, Row, SyncTypes, Syncs
    <3>2. Types' /\ Recorded'
      <4>1. failures' \in 0..MaxFailures
        BY <1>8, <2>2 DEF Answered, Fail, Types
      <4>2. now' \in 1..MaxTime /\ now <= now' /\ row' = row /\ writes' = writes
        BY <1>8, <2>2 DEF Put, Clock, Types
      <4>3. Written(row)'
        BY <4>2 DEF Types, Row, Written
      <4>4. Written(server)'
        BY <3>1, <4>2 DEF Types, Row, Written, LocalRead
      <4>5. row'.remote < server'.version
        BY <3>1, <4>2 DEF Types, Row
      <4> QED
        BY <3>1, <4>1, <4>2, <4>3, <4>4, <4>5 DEF Types, Row, Recorded
    <3>3. CASE Fail
      BY <3>2, <3>3, FinishKeeps DEF Fail
    <3>4. CASE sync' = [sync EXCEPT !.pc = "record", !.got = server'.version]
      <4>1. /\ sync' \in Syncs /\ sync'.pc = "record" /\ sync'.got = server'.version
            /\ sync'.value = sync.value /\ sync'.item = sync.item
            /\ sync'.local = sync.local
        BY <3>1, <3>4 DEF SyncTypes, Syncs, Row
      <4>2. SyncTypes' /\ LocalRead' /\ ItemKnown'
        BY <1>8, <3>1, <4>1 DEF Put, SyncTypes, Syncs, LocalRead, ItemKnown, Types, Row
      <4>3. Decided' /\ Fetched' /\ ToRecord'
        BY <1>8, <3>1, <4>1 DEF Put, Decided, Fetched, ToRecord, Agrees, Alive, Types,
           Row, SyncTypes, Syncs
      <4> QED
        BY <3>2, <4>2, <4>3
    <3> QED
      BY <2>2, <3>3, <3>4 DEF Answered
  <2> QED
    BY <1>8, <2>1, <2>2 DEF Put
<1>9. CASE Del
  <2>1. CASE Finish /\ UNCHANGED <<server, failures>>
    <3>1. Types' /\ Recorded'
      BY <1>9, <2>1 DEF Del, Types, Written, Recorded, Agrees, Alive
    <3> QED
      BY <2>1, <3>1, FinishKeeps
  <2>2. CASE /\ server.version > 0 /\ Answered
             /\ server' = [server EXCEPT !.version = @ + 1, !.deleted = TRUE]
    <3>1. /\ server' \in Row /\ server'.version = server.version + 1
          /\ server'.value = server.value /\ server'.deleted
          /\ server'.time = server.time
      <4>1. server' = [server EXCEPT !.version = server.version + 1, !.deleted = TRUE]
        BY <2>2
      <4>2. server \in Row /\ server.version + 1 \in Nat
        BY DEF Types, Row
      <4> QED
        BY <4>1, <4>2 DEF Row
    <3>2. Types' /\ Recorded'
      BY <1>9, <2>2, <3>1 DEF Del, Answered, Fail, Types, Row, Written, Recorded
    <3>3. CASE Fail
      BY <3>2, <3>3, FinishKeeps DEF Fail
    <3>4. CASE sync' = [sync EXCEPT !.pc = "record", !.got = server'.version]
      <4>1. /\ sync' \in Syncs /\ sync'.pc = "record" /\ sync'.got = server'.version
            /\ sync'.value = sync.value /\ sync'.item = sync.item
            /\ sync'.local = sync.local
        BY <3>1, <3>4 DEF SyncTypes, Syncs, Row
      <4>2. SyncTypes' /\ LocalRead' /\ ItemKnown'
        BY <1>9, <3>1, <4>1 DEF Del, SyncTypes, Syncs, LocalRead, ItemKnown, Types, Row
      <4>3. Decided' /\ Fetched' /\ ToRecord'
        BY <1>9, <3>1, <4>1 DEF Del, Decided, Fetched, ToRecord, Agrees, Alive, Types,
           Row, SyncTypes, Syncs
      <4> QED
        BY <3>2, <4>2, <4>3
    <3> QED
      BY <2>2, <3>3, <3>4 DEF Answered
  <2> QED
    BY <1>9, <2>1, <2>2 DEF Del
<1>10. CASE Get
  <2>1. Types' /\ Recorded'
    BY <1>10 DEF Get, Types, Written, Recorded, Agrees, Alive
  <2>2. CASE Finish
    BY <2>1, <2>2, FinishKeeps
  <2>3. CASE /\ sync.item.version = server.version /\ Alive(server)
             /\ sync' = [sync EXCEPT !.pc = "store", !.got = server.version,
                                     !.value = server.value]
    <3>1. /\ sync' \in Syncs /\ sync'.pc = "store" /\ sync'.got = server.version
          /\ sync'.value = server.value /\ sync'.item = sync.item
          /\ sync'.local = sync.local
      BY <2>3 DEF SyncTypes, Syncs, Types, Row
    <3> QED
      BY <1>10, <2>1, <2>3, <3>1 DEF Get, SyncTypes, LocalRead, ItemKnown, Decided,
         Fetched, ToRecord, Alive, Types, Row, Written
  <2> QED
    BY <1>10, <2>2, <2>3 DEF Get
<1>11. CASE Store
  <2>1. CASE Finish /\ UNCHANGED <<row, now>>
    <3>1. Types' /\ Recorded'
      BY <1>11, <2>1 DEF Store, Types, Written, Recorded, Agrees, Alive
    <3> QED
      BY <2>1, <3>1, FinishKeeps
  <2>2. CASE /\ row.version = sync.local.version
             /\ Clock /\ row' = Write(sync.value, sync.local.deleted)
             /\ sync' = [sync EXCEPT !.pc = "record", !.local = row']
    <3>1. /\ row' \in Row /\ row'.version = row.version + 1 /\ row'.remote = 0
          /\ row'.value = sync.value /\ row'.deleted = sync.local.deleted
          /\ row'.time = now'
      BY <2>2 DEF Clock, Write, Types, Row, SyncTypes, Syncs
    <3>2. Types' /\ Recorded'
      BY <1>11, <2>2, <3>1 DEF Store, Clock, Types, Row, Written, SyncTypes, Recorded
    <3>3. /\ sync' \in Syncs /\ sync'.pc = "record" /\ sync'.got = sync.got
          /\ sync'.value = sync.value /\ sync'.item = sync.item /\ sync'.local = row'
      BY <2>2, <3>1 DEF SyncTypes, Syncs
    <3>4. SyncTypes' /\ LocalRead' /\ ItemKnown'
      BY <1>11, <3>1, <3>3 DEF Store, SyncTypes, Syncs, LocalRead, ItemKnown, Types, Row
    <3>5. Decided' /\ Fetched' /\ ToRecord'
      BY <1>11, <3>1, <3>3 DEF Store, Decided, Fetched, ToRecord, Agrees, Alive, Types,
         Row, SyncTypes, Syncs
    <3> QED
      BY <3>2, <3>4, <3>5
  <2> QED
    BY <1>11, <2>1, <2>2 DEF Store
<1>12. CASE Record
  <2>1. Finish
    BY <1>12 DEF Record
  <2>2. CASE UNCHANGED <<row, now>>
    <3>1. Types' /\ Recorded'
      BY <1>12, <2>2 DEF Record, Types, Written, Recorded, Agrees, Alive
    <3> QED
      BY <2>1, <3>1, FinishKeeps
  <2>3. CASE /\ row.version = sync.local.version /\ Clock
             /\ row' = [row EXCEPT !.version = @ + 1, !.remote = sync.got, !.time = now']
    <3>1. /\ row' \in Row /\ row'.version = row.version + 1 /\ row'.remote = sync.got
          /\ row'.value = row.value /\ row'.deleted = row.deleted /\ row'.time = now'
      <4>1. row' = [row EXCEPT !.version = row.version + 1, !.remote = sync.got,
                               !.time = now']
        BY <2>3
      <4>2. row \in Row /\ row.version + 1 \in Nat /\ sync.got \in Nat /\ now' \in Nat
        BY <2>3 DEF Clock, Types, Row, SyncTypes, Syncs
      <4> QED
        BY <4>1, <4>2 DEF Row
    <3>2. Types'
      BY <1>12, <2>3, <3>1 DEF Record, Clock, Types, Row, Written, ToRecord
    <3>3. sync.local = row
      BY <2>3 DEF LocalRead
    <3>4. Recorded'
      BY <1>12, <3>1, <3>3 DEF Record, Recorded, ToRecord, Agrees, Alive, Types, Row
    <3> QED
      BY <2>1, <3>2, <3>4, FinishKeeps
  <2> QED
    BY <1>12, <2>2, <2>3 DEF Record
<1>13. CASE Break
  <2>1. Types' /\ Recorded'
    BY <1>13 DEF Break, Fail, Types, Written, Recorded, Agrees, Alive
  <2> QED
    BY <1>13, <2>1, FinishKeeps DEF Break, Fail
<1>14. CASE UNCHANGED vars
    BY <1>14 DEF vars, Types, Written, SyncTypes, LocalRead, ItemKnown, Decided,
       Fetched, ToRecord, Recorded, Agrees, Alive
<1> QED
    BY <1>1, <1>2, <1>3, <1>4, <1>5, <1>6, <1>7, <1>8, <1>9, <1>10, <1>11, <1>12,
       <1>13, <1>14 DEF Next, SyncStep

(* In every behaviour the stores, the clock and the synchronisation are      *)
(* well formed.                                                              *)
THEOREM TypesCorrect == Spec => []TypeOK
<1> QED BY InvInit, InvNext, InvTypeOK, PTL DEF Spec

(* ReplicatedKVStore._syncKey may skip a key whose last local version has    *)
(* the server's version recorded: it holds the same, unless it was deleted.  *)
THEOREM RecordedIsSame == Spec => []RecordedMeansSameUnlessDeleted
<1> QED BY InvInit, InvNext, InvRecorded, PTL DEF Spec
=============================================================================
