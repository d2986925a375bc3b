------------------------------- MODULE KVStore -------------------------------
(* One key of the replicated store of ReplicatedKVStore.java, in the local   *)
(* database, on the server, and in a synchronisation that asks the server    *)
(* step by step while the app writes the key, other devices write it on the  *)
(* server, requests fail or lose their answers, and the app is killed.       *)
(*                                                                           *)
(* The table keeps every version of a key; only the last one is ever used,   *)
(* and the model has only that.  The server is modelled by the adapter of    *)
(* KVStoreTests.java, behind RemoteKVStore.java, for which every answer      *)
(* that is not a success is the same unknown error.  A value is the number   *)
(* of the write it comes from.  Encryption, other keys and deleteAllKVs are  *)
(* left out, as are clocks that differ.                                      *)
EXTENDS Naturals

CONSTANTS
    MaxWrites,    \* a bound on the writes of the app and of other devices
    MaxTime,      \* a bound on the clock
    MaxFailures   \* a bound on failed requests, lost answers and kills

ASSUME KVAssumption == MaxWrites \in Nat /\ MaxTime \in Nat \ {0} /\ MaxFailures \in Nat

VARIABLES
    row,       \* the last local version of the key
    server,    \* the server's version of it
    sync,      \* the synchronisation in progress: where it is, and its locals
    now,       \* the clock
    writes,    \* history: how many writes there were
    failures   \* history: how many failures there were
vars == <<row, server, sync, now, writes, failures>>

(* No version of the key: version 0 stands for none. *)
NoKey == [version |-> 0, remote |-> 0, value |-> 0, time |-> 0, deleted |-> FALSE]
Idle == [pc |-> "idle", item |-> [version |-> 0, time |-> 0], recorder |-> 0,
         local |-> NoKey, got |-> 0, value |-> 0]

Alive(kv) == kv.version > 0 /\ ~kv.deleted

(* The clock at a write: the same millisecond as the last one or a later. *)
Clock == now' \in {now, now + 1} /\ now' <= MaxTime

-----------------------------------------------------------------------------
(* Mutant of Write: the new version is not counted up. *)
WriteSameVersion(value, deleted) ==
    [version |-> row.version, remote |-> 0, value |-> value, time |-> now',
     deleted |-> deleted]

(* Local writes.  _set and _delete are synchronized, and only done if the    *)
(* caller's version is the last one; the new version has no remote version.  *)
Write(value, deleted) ==
    [version |-> row.version + 1, remote |-> 0, value |-> value, time |-> now',
     deleted |-> deleted]

Set ==
    /\ writes < MaxWrites /\ writes' = writes + 1
    /\ Clock /\ row' = Write(writes + 1, FALSE)
    /\ UNCHANGED <<server, sync, failures>>

Delete ==
    /\ row.version > 0
    /\ writes < MaxWrites /\ writes' = writes + 1
    /\ Clock /\ row' = Write(row.value, TRUE)
    /\ UNCHANGED <<server, sync, failures>>

(* Writes of other devices, as they reach the server. *)
Stored(value, deleted) ==
    [version |-> server.version + 1, remote |-> 0, value |-> value, time |-> now',
     deleted |-> deleted]

RemotePut ==
    /\ writes < MaxWrites /\ writes' = writes + 1
    /\ Clock /\ server' = Stored(writes + 1, FALSE)
    /\ UNCHANGED <<row, sync, failures>>

RemoteDelete ==
    /\ Alive(server)
    /\ writes < MaxWrites /\ writes' = writes + 1
    /\ Clock /\ server' = Stored(server.value, TRUE)
    /\ UNCHANGED <<row, sync, failures>>

-----------------------------------------------------------------------------
(* The synchronisation. *)

Finish == sync' = Idle
Fail == failures < MaxFailures /\ failures' = failures + 1 /\ Finish

(* syncAllKeys: the versions and times on the server, and what it has not. *)
Keys ==
    /\ sync.pc = "idle" /\ (server.version > 0 \/ row.version > 0)
    /\ sync' = [Idle EXCEPT !.pc = "recorder",
                            !.item = [version |-> server.version, time |-> server.time]]
    /\ UNCHANGED <<row, server, now, writes, failures>>

(* Nothing to do when the last local version is of the server's version. *)
Recorder ==
    /\ sync.pc = "recorder"
    /\ IF sync.item.version > 0 /\ row.remote = sync.item.version THEN Finish
       ELSE sync' = [sync EXCEPT !.pc = "read", !.recorder = row.remote]
    /\ UNCHANGED <<row, server, now, writes, failures>>

Read ==
    /\ sync.pc = "read"
    /\ sync' = [sync EXCEPT
         !.local = row,
         !.pc = IF row.time < sync.item.time THEN "get"
                ELSE IF row.deleted THEN "del" ELSE "put"]
    /\ UNCHANGED <<row, server, now, writes, failures>>

(* Mutant of UseRemoteVer: a key the server does not have is not created. *)
UseRemoteVerAsIs == sync.item.version

UseRemoteVer ==
    IF sync.item.version = 0 \/ sync.item.version < sync.recorder THEN 1
    ELSE sync.item.version

(* The server takes a put of the version it has, or of 1 when it has none.   *)
(* If not, the synchronisation of the key ends.  The answer may get lost.    *)
Answered ==
    \/ sync' = [sync EXCEPT !.pc = "record", !.got = server'.version] /\ UNCHANGED failures
    \/ Fail

Put ==
    /\ sync.pc = "put"
    /\ IF UseRemoteVer = (IF server.version = 0 THEN 1 ELSE server.version)
       THEN Clock /\ server' = Stored(sync.local.value, FALSE) /\ Answered
       ELSE Finish /\ UNCHANGED <<server, now, failures>>
    /\ UNCHANGED <<row, writes>>

Del ==
    /\ sync.pc = "del"
    /\ IF server.version > 0 /\ sync.item.version = server.version
       THEN server' = [server EXCEPT !.version = @ + 1, !.deleted = TRUE] /\ Answered
       ELSE Finish /\ UNCHANGED <<server, failures>>
    /\ UNCHANGED <<row, now, writes>>

(* A deleted key, or another version than asked for, is not sent. *)
Get ==
    /\ sync.pc = "get"
    /\ IF sync.item.version = server.version /\ Alive(server)
       THEN sync' = [sync EXCEPT !.pc = "store", !.got = server.version,
                                 !.value = server.value]
       ELSE Finish
    /\ UNCHANGED <<row, server, now, writes, failures>>

(* The fetched value replaces the local one that was read, if it is still    *)
(* the last; it keeps the deleted mark of that one.                          *)
Store ==
    /\ sync.pc = "store"
    /\ IF row.version = sync.local.version
       THEN /\ Clock /\ row' = Write(sync.value, sync.local.deleted)
            /\ sync' = [sync EXCEPT !.pc = "record", !.local = row']
       ELSE Finish /\ UNCHANGED <<row, now>>
    /\ UNCHANGED <<server, writes, failures>>

(* Mutant of Record: the version is recorded whatever was written since. *)
RecordUnchecked ==
    /\ sync.pc = "record"
    /\ Clock
    /\ row' = [row EXCEPT !.version = @ + 1, !.remote = sync.got, !.time = now']
    /\ Finish
    /\ UNCHANGED <<server, writes, failures>>

(* setRemoteVersion: the same value in a new version, with the server's. *)
Record ==
    /\ sync.pc = "record"
    /\ IF row.version = sync.local.version
       THEN /\ Clock
            /\ row' = [row EXCEPT !.version = @ + 1, !.remote = sync.got, !.time = now']
       ELSE UNCHANGED <<row, now>>
    /\ Finish
    /\ UNCHANGED <<server, writes, failures>>

(* A request that fails before it reaches the server, or the end of the app. *)
Break ==
    /\ sync.pc # "idle" /\ Fail
    /\ UNCHANGED <<row, server, now, writes>>

-----------------------------------------------------------------------------
Init ==
    /\ row = NoKey /\ server = NoKey /\ sync = Idle
    /\ now = 1 /\ writes = 0 /\ failures = 0

SyncStep ==
    Keys \/ Recorder \/ Read \/ Put \/ Del \/ Get \/ Store \/ Record
Next == Set \/ Delete \/ RemotePut \/ RemoteDelete \/ SyncStep \/ Break

Spec == Init /\ [][Next]_vars /\ WF_vars(SyncStep)

-----------------------------------------------------------------------------
(* Type correctness: the local version a step works on was read, and what    *)
(* is recorded is a version the server has had.                              *)
TypeOK ==
    /\ row.version \in Nat /\ row.value \in 0..writes /\ row.time \in 0..now
    /\ server.version \in Nat /\ server.value \in 0..writes /\ server.time \in 0..now
    /\ sync.pc \in {"idle", "recorder", "read", "put", "del", "get", "store", "record"}
    /\ sync.pc # "idle" => sync.item.version <= server.version
    /\ sync.pc = "record" => sync.got \in 1..server.version /\ sync.local.version > 0
    /\ sync.local.version <= row.version /\ row.remote <= server.version
    /\ now \in 1..MaxTime /\ writes \in 0..MaxWrites /\ failures \in 0..MaxFailures

(* The stores have the same, where a key that is deleted is not there. *)
Same ==
    IF Alive(row) /\ Alive(server) THEN row.value = server.value
    ELSE Alive(row) = Alive(server)

(* What _syncKey relies on, whatever is written while a key is synchronised: *)
(* when the last local version has the remote version the server has, there  *)
(* is nothing to do.  The only difference the match hides is a key that the  *)
(* app has deleted and another device has written again: it stays deleted.   *)
RecordedMeansSameUnlessDeleted ==
    row.remote > 0 /\ row.remote = server.version => Same \/ (row.deleted /\ Alive(server))

(* When the writes and the failures have stopped, the stores become the same *)
(* and stay so, deletions by the app included.  Two differences last: what   *)
(* the match hides, and a key deleted on the server later than the row was   *)
(* written, as the synchronisation does not learn of that.                   *)
HiddenByMatch == row.deleted /\ Alive(server) /\ row.remote = server.version
DeletedElsewhere == Alive(row) /\ server.deleted /\ row.time < server.time
Converges == <>[](Same \/ HiddenByMatch \/ DeletedElsewhere)

(* What testRemoteDeleteReplicates of KVStoreTests.java expects, and the     *)
(* code does not keep: when the writes have stopped, a key deleted on the    *)
(* server is, after synchronisations that do not fail, no longer here.       *)
RemoteDeleteReplicates == <>[](server.deleted => ~Alive(row))
=============================================================================
