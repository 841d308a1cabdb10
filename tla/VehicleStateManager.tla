------------------------- MODULE VehicleStateManager -------------------------
(***************************************************************************)
(* The shared vehicle state of task 2 (class VehicleStateManager), access  *)
(* by access: the lock, each field written by updateGps, updateImu and     *)
(* updateEncoder (one operator, the three bodies are the same), each field *)
(* copied by snapshot(), the unlock.  Any thread may run, and the clock    *)
(* may advance, between any two of these.                                  *)
(*                                                                         *)
(* `call`, `latest`, `horizon` and `snap` are the variables of the         *)
(* abstract specification: history that no access of the code reads.       *)
(***************************************************************************)
EXTENDS VehicleStateSpec

CONSTANT NoThread     \* nobody holds mutex_

ASSUME NoThreadAssumption == NoThread \notin Threads

VARIABLES
    mutex,                              \* the thread that holds mutex_
    pc,                                 \* the next access of each thread
    sample, last_update, source_ts_ms,  \* gps_, gps_last_update_, gps_source_ts_ms_ ...
    local,                              \* the snapshot each reader is building
    pending                             \* the sensors it has still to copy

fields == <<sample, last_update, source_ts_ms>>
readerVars == <<local, pending>>
history == <<latest, horizon, snap>>
vars == <<clock, call, mutex, pc, fields, readerVars, history>>

EmptySnapshot == SnapshotAt([k \in Sensors |-> NoUpdate], 0)

Init ==
    /\ SpecInit
    /\ mutex = NoThread
    /\ pc = [t \in Threads |-> "idle"]
    /\ sample = [k \in Sensors |-> NoSample]
    /\ last_update = [k \in Sensors |-> 0]
    /\ source_ts_ms = [k \in Sensors |-> -1]
    /\ local = [r \in Readers |-> EmptySnapshot]
    /\ pending = [r \in Readers |-> {}]

Tick ==
    /\ SpecTick
    /\ UNCHANGED <<mutex, pc, fields, readerVars>>

Goto(t, label) == pc' = [pc EXCEPT ![t] = label]

-----------------------------------------------------------------------------
(* lock_guard.                                                             *)

LockFreeIgnored == TRUE
LockFree == mutex = NoThread

Lock(t, label) ==
    /\ pc[t] = "lock"
    /\ LockFree
    /\ mutex' = t
    /\ Goto(t, label)

-----------------------------------------------------------------------------
(* updateGps, updateImu, updateEncoder.                                    *)

BeginUpdate(k, in) ==
    /\ CallUpdate(k, in)
    /\ Goto(k, "lock")
    /\ UNCHANGED <<mutex, fields, readerVars>>

LockUpdate(k) ==
    /\ Lock(k, "write_sample")
    /\ UNCHANGED <<clock, call, fields, readerVars, history>>

WriteSample(k) ==
    /\ pc[k] = "write_sample"
    /\ sample' = [sample EXCEPT ![k] = call[k].in.sample]
    /\ Goto(k, "write_time")
    /\ UNCHANGED <<clock, call, mutex, last_update, source_ts_ms, readerVars, history>>

WriteTime(k) ==
    /\ pc[k] = "write_time"
    /\ last_update' = [last_update EXCEPT ![k] = clock]
    /\ Goto(k, "write_ts")
    /\ UNCHANGED <<clock, call, mutex, sample, source_ts_ms, readerVars, history>>

WrittenTsReceiveTime(k) == clock
WrittenTs(k) == call[k].in.source_ts

WriteTs(k) ==
    /\ pc[k] = "write_ts"
    /\ source_ts_ms' = [source_ts_ms EXCEPT ![k] = WrittenTs(k)]
    /\ Goto(k, "unlock")
    /\ UNCHANGED <<clock, call, mutex, sample, last_update, readerVars, history>>

ReturnUpdate(k) ==
    /\ pc[k] = "unlock"
    /\ mutex' = NoThread
    /\ Goto(k, "idle")
    /\ call' = [call EXCEPT ![k] = Idle]
    /\ latest' = [latest EXCEPT ![k] = [sample |-> sample[k],
                                        source_ts |-> source_ts_ms[k],
                                        at |-> last_update[k]]]
    /\ horizon' = last_update[k]
    /\ UNCHANGED <<clock, fields, readerVars, snap>>

-----------------------------------------------------------------------------
(* snapshot.  Within a group of copies the order of the sensors is left    *)
(* open; the code has gps, imu, encoder.                                   *)

BeginSnapshot(r) ==
    /\ CallSnapshot(r)
    /\ Goto(r, "lock")
    /\ UNCHANGED <<mutex, fields, readerVars>>

LockSnapshot(r) ==
    /\ Lock(r, "read_now")
    /\ UNCHANGED <<clock, call, fields, readerVars, history>>

NowReadBeforeLock(r) == call[r].since
NowRead(r) == clock

ReadNow(r) ==
    /\ pc[r] = "read_now"
    /\ local' = [local EXCEPT ![r] = [EmptySnapshot EXCEPT !.now = NowRead(r)]]
    /\ pending' = [pending EXCEPT ![r] = Sensors]
    /\ Goto(r, "copy_samples")
    /\ UNCHANGED <<clock, call, mutex, fields, history>>

\* Sensor k is done; after the last one, start the next group of copies.
Copied(r, k, label) ==
    IF pending[r] = {k}
    THEN pending' = [pending EXCEPT ![r] = Sensors] /\ Goto(r, label)
    ELSE pending' = [pending EXCEPT ![r] = @ \ {k}] /\ UNCHANGED pc

CopySample(r, k) ==
    /\ pc[r] = "copy_samples"
    /\ k \in pending[r]
    /\ local' = [local EXCEPT ![r].sample[k] = sample[k]]
    /\ Copied(r, k, "copy_ts")
    /\ UNCHANGED <<clock, call, mutex, fields, history>>

CopyTs(r, k) ==
    /\ pc[r] = "copy_ts"
    /\ k \in pending[r]
    /\ local' = [local EXCEPT ![r].source_ts[k] = source_ts_ms[k]]
    /\ Copied(r, k, "flags")
    /\ UNCHANGED <<clock, call, mutex, fields, history>>

IsStaleIgnoringNoData(k, now) == now - last_update[k] > kStaleAfter[k]
IsStaleInclusive(k, now) ==
    sample[k] = NoSample \/ now - last_update[k] >= kStaleAfter[k]
IsStale(k, now) ==
    sample[k] = NoSample \/ now - last_update[k] > kStaleAfter[k]

SetFlag(r, k) ==
    /\ pc[r] = "flags"
    /\ k \in pending[r]
    /\ local' = [local EXCEPT ![r].stale[k] = IsStale(k, local[r].now)]
    /\ Copied(r, k, "unlock")
    /\ UNCHANGED <<clock, call, mutex, fields, history>>

ReturnSnapshot(r) ==
    /\ pc[r] = "unlock"
    /\ mutex' = NoThread
    /\ Goto(r, "idle")
    /\ call' = [call EXCEPT ![r] = Idle]
    /\ snap' = [snap EXCEPT ![r] = local[r]]
    /\ horizon' = local[r].now
    /\ UNCHANGED <<clock, fields, readerVars, latest>>

-----------------------------------------------------------------------------
UpdateStep(k) ==
    \/ \E in \in Inputs : BeginUpdate(k, in)
    \/ LockUpdate(k)
    \/ WriteSample(k)
    \/ WriteTime(k)
    \/ WriteTs(k)
    \/ ReturnUpdate(k)

SnapshotStep(r) ==
    \/ BeginSnapshot(r)
    \/ LockSnapshot(r)
    \/ ReadNow(r)
    \/ \E k \in Sensors : CopySample(r, k) \/ CopyTs(r, k) \/ SetFlag(r, k)
    \/ ReturnSnapshot(r)

Next ==
    \/ Tick
    \/ \E k \in Sensors : UpdateStep(k)
    \/ \E r \in Readers : SnapshotStep(r)

Spec == Init /\ [][Next]_vars

-----------------------------------------------------------------------------
(* Properties.                                                             *)

UpdateInside == {"write_sample", "write_time", "write_ts", "unlock"}
SnapshotInside == {"read_now", "copy_samples", "copy_ts", "flags", "unlock"}

\* Every thread is at an access of its own operation, and every field holds nothing
\* or a value some caller passed in: a source timestamp stays a source timestamp.
TypeOK ==
    /\ clock \in 0 .. MaxTime
    /\ mutex \in Threads \cup {NoThread}
    /\ \A k \in Sensors : pc[k] \in UpdateInside \cup {"idle", "lock"}
    /\ \A r \in Readers : pc[r] \in SnapshotInside \cup {"idle", "lock"}
    /\ sample \in [Sensors -> {in.sample : in \in Inputs} \cup {NoSample}]
    /\ source_ts_ms \in [Sensors -> {in.source_ts : in \in Inputs} \cup {-1}]
    /\ last_update \in [Sensors -> 0 .. MaxTime]
    /\ pending \in [Readers -> SUBSET Sensors]

\* Mutual exclusion of the critical sections: at most one thread is between its
\* lock and its unlock, and the mutex names it.
OneInside ==
    \A t \in Threads : pc[t] \notin {"idle", "lock"} <=> mutex = t

\* No reader can meet a half-written sensor: for as long as a snapshot is being
\* copied, the three fields of every sensor (value, receive time, source timestamp)
\* are those of its last completed update.
FieldsTogether ==
    \A r \in Readers, k \in Sensors :
        pc[r] \in SnapshotInside =>
            latest[k] = [sample |-> sample[k], source_ts |-> source_ts_ms[k],
                         at |-> last_update[k]]

\* "A point-in-time, consistent snapshot" (vehicle_state.hpp:34): what snapshot() is
\* about to return is the state of all sensors at one time, flags included,
\* although it was copied field by field.
SnapshotConsistent ==
    \A r \in Readers :
        pc[r] = "unlock" => local[r] = SnapshotAt(latest, local[r].now)

\* now - last_update_ is never negative when a flag is computed from it, or a stale
\* sensor would pass for fresh: `now` is read inside the lock.
AgeNotNegative ==
    \A r \in Readers : pc[r] = "flags" =>
        \A k \in Sensors : sample[k] # NoSample => local[r].now >= last_update[k]

\* The locked implementation behaves like the one-step specification.
ImplementsAtomicState == SpecOfState
=============================================================================
