---------------------- MODULE VehicleStateManagerProofs ----------------------
(***************************************************************************)
(* Proofs about VehicleStateManager, for any sets of sensors and readers,  *)
(* any updates and any thresholds: the invariants of the locked code, and  *)
(* that it implements the one-step VehicleStateSpec.                       *)
(***************************************************************************)
EXTENDS VehicleStateManager, TLAPS

Samples == {in.sample : in \in Inputs} \cup {NoSample}
SourceTimes == {in.source_ts : in \in Inputs} \cup {-1}

Snapshots ==
    [now : Nat, sample : [Sensors -> Samples], source_ts : [Sensors -> SourceTimes],
     stale : [Sensors -> BOOLEAN]]

\* The parts of the state that TypeOK leaves open.
Shape ==
    /\ DOMAIN pc = Threads
    /\ DOMAIN call = Threads
    /\ DOMAIN latest = Sensors
    /\ horizon \in 0 .. clock
    /\ \A k \in Sensors : last_update[k] \in 0 .. clock
    /\ local \in [Readers -> Snapshots]

\* A thread is in a call exactly as long as it is in the code of that call.
CallInv ==
    /\ \A t \in Threads : pc[t] = "idle" => call[t] = Idle
    /\ \A k \in Sensors : pc[k] # "idle" =>
          call[k].op = "update" /\ call[k].since \in 0 .. clock /\ call[k].in \in Inputs
    /\ \A r \in Readers : pc[r] # "idle" =>
          call[r].op = "snapshot" /\ call[r].since \in 0 .. clock

\* How far the holder of the lock has got with the fields of its sensor; outside of an
\* update they are those of the last one.
WriterInv ==
    \A k \in Sensors :
        /\ pc[k] \in {"write_time", "write_ts", "unlock"} => sample[k] = call[k].in.sample
        /\ pc[k] \in {"write_ts", "unlock"} =>
              last_update[k] >= call[k].since /\ last_update[k] >= horizon
        /\ pc[k] = "unlock" => source_ts_ms[k] = call[k].in.source_ts
        /\ pc[k] \notin {"write_time", "write_ts", "unlock"} =>
              latest[k] = [sample |-> sample[k], source_ts |-> source_ts_ms[k],
                           at |-> last_update[k]]
        /\ latest[k].at <= horizon

\* How far a reader has got with its copy: the sensors that are not pending have the
\* field that is being copied, all have the ones copied before.
CopyOf(r) ==
    /\ pc[r] \in {"copy_samples", "copy_ts", "flags", "unlock"} =>
          local[r].now \in horizon .. clock /\ local[r].now >= call[r].since
    /\ \A k \in Sensors :
          /\ \/ pc[r] = "copy_samples" /\ k \notin pending[r]
             \/ pc[r] \in {"copy_ts", "flags", "unlock"}
             => local[r].sample[k] = sample[k]
          /\ \/ pc[r] = "copy_ts" /\ k \notin pending[r]
             \/ pc[r] \in {"flags", "unlock"}
             => local[r].source_ts[k] = source_ts_ms[k]
          /\ \/ pc[r] = "flags" /\ k \notin pending[r]
             \/ pc[r] = "unlock"
             => local[r].stale[k] = IsStale(k, local[r].now)

ReaderInv == \A r \in Readers : CopyOf(r)

IInv == TypeOK /\ Shape /\ OneInside /\ CallInv /\ WriterInv /\ ReaderInv

USE ThreadsAssumption, NoThreadAssumption, ThresholdAssumption

-----------------------------------------------------------------------------
\* A reader starts from the empty snapshot with the time it read.
LEMMA EmptyType ==
    EmptySnapshot \in Snapshots /\ \A n \in Nat : [EmptySnapshot EXCEPT !.now = n] \in Snapshots
<1>1. EmptySnapshot \in Snapshots
  BY DEF EmptySnapshot, SnapshotAt, NoUpdate, Stale, Snapshots, Samples, SourceTimes
<1> QED BY <1>1 DEF Snapshots

\* The snapshot that a reader is building keeps its type, whichever member is assigned.
LEMMA SnapshotType ==
    ASSUME NEW s \in Snapshots, NEW k \in Sensors
    PROVE  /\ \A v \in Samples : [s EXCEPT !.sample[k] = v] \in Snapshots
           /\ \A v \in SourceTimes : [s EXCEPT !.source_ts[k] = v] \in Snapshots
           /\ \A v \in BOOLEAN : [s EXCEPT !.stale[k] = v] \in Snapshots
BY DEF Snapshots

\* What is left in the copy when one member of it is assigned.
LEMMA CopyMember ==
    ASSUME NEW l \in [Readers -> Snapshots], NEW r \in Readers, NEW k \in Sensors
    PROVE  /\ \A v \in Samples :
                 [l EXCEPT ![r].sample[k] = v] = [l EXCEPT ![r] = [l[r] EXCEPT !.sample[k] = v]]
           /\ \A v \in SourceTimes :
                 [l EXCEPT ![r].source_ts[k] = v]
                    = [l EXCEPT ![r] = [l[r] EXCEPT !.source_ts[k] = v]]
           /\ \A v \in BOOLEAN :
                 [l EXCEPT ![r].stale[k] = v] = [l EXCEPT ![r] = [l[r] EXCEPT !.stale[k] = v]]
OBVIOUS

\* Only a thread that found the mutex free enters, and only the holder leaves.
LEMMA OneInsideStep == IInv /\ [Next]_vars => OneInside'
<1> SUFFICES ASSUME IInv, [Next]_vars PROVE OneInside'
  OBVIOUS
<1> USE DEF IInv, TypeOK, Shape, OneInside, CallInv, Idle, Threads, UpdateInside, SnapshotInside
<1>1. CASE Tick
  BY <1>1 DEF Tick, SpecTick, fields, readerVars
<1>2. ASSUME NEW k \in Sensors, NEW in \in Inputs, BeginUpdate(k, in) PROVE OneInside'
  BY <1>2 DEF BeginUpdate, CallUpdate, Goto, fields, readerVars
<1>3. ASSUME NEW k \in Sensors, LockUpdate(k) PROVE OneInside'
  BY <1>3 DEF LockUpdate, Lock, LockFree, Goto, fields, readerVars, history
<1>4. ASSUME NEW k \in Sensors, WriteSample(k) PROVE OneInside'
  BY <1>4 DEF WriteSample, Goto, fields, readerVars, history
<1>5. ASSUME NEW k \in Sensors, WriteTime(k) PROVE OneInside'
  BY <1>5 DEF WriteTime, Goto, fields, readerVars, history
<1>6. ASSUME NEW k \in Sensors, WriteTs(k) PROVE OneInside'
  BY <1>6 DEF WriteTs, Goto, WrittenTs, fields, readerVars, history
<1>7. ASSUME NEW k \in Sensors, ReturnUpdate(k) PROVE OneInside'
  BY <1>7 DEF ReturnUpdate, Goto, fields, readerVars, history
<1>8. ASSUME NEW r \in Readers, BeginSnapshot(r) PROVE OneInside'
  BY <1>8 DEF BeginSnapshot, CallSnapshot, Goto, fields, readerVars, history
<1>9. ASSUME NEW r \in Readers, LockSnapshot(r) PROVE OneInside'
  BY <1>9 DEF LockSnapshot, Lock, LockFree, Goto, fields, readerVars, history
<1>10. ASSUME NEW r \in Readers, ReadNow(r) PROVE OneInside'
  BY <1>10 DEF ReadNow, Goto, fields, readerVars, history
<1>11. ASSUME NEW r \in Readers, NEW k \in Sensors, CopySample(r, k) PROVE OneInside'
  BY <1>11 DEF CopySample, Copied, Goto, fields, readerVars, history
<1>12. ASSUME NEW r \in Readers, NEW k \in Sensors, CopyTs(r, k) PROVE OneInside'
  BY <1>12 DEF CopyTs, Copied, Goto, fields, readerVars, history
<1>13. ASSUME NEW r \in Readers, NEW k \in Sensors, SetFlag(r, k) PROVE OneInside'
  BY <1>13 DEF SetFlag, Copied, Goto, fields, readerVars, history
<1>14. ASSUME NEW r \in Readers, ReturnSnapshot(r) PROVE OneInside'
  BY <1>14 DEF ReturnSnapshot, Goto, fields, readerVars, history
<1>15. CASE UNCHANGED vars
  BY <1>15 DEF vars, fields, readerVars, history
<1> QED
  BY <1>1, <1>2, <1>3, <1>4, <1>5, <1>6, <1>7, <1>8,
     <1>9, <1>10, <1>11, <1>12, <1>13, <1>14, <1>15
     DEF Next, UpdateStep, SnapshotStep

\* No access writes a value that its caller did not pass in, or leaves its operation.
LEMMA TypeStep == IInv /\ [Next]_vars => TypeOK'
<1> SUFFICES ASSUME IInv, [Next]_vars PROVE TypeOK'
  OBVIOUS
<1> USE DEF IInv, TypeOK, Shape, OneInside, CallInv, Threads, UpdateInside, SnapshotInside
<1>1. CASE Tick
  BY <1>1 DEF Tick, SpecTick, fields, readerVars
<1>2. ASSUME NEW k \in Sensors, NEW in \in Inputs, BeginUpdate(k, in) PROVE TypeOK'
  BY <1>2 DEF BeginUpdate, CallUpdate, Goto, fields, readerVars
<1>3. ASSUME NEW k \in Sensors, LockUpdate(k) PROVE TypeOK'
  BY <1>3 DEF LockUpdate, Lock, Goto, fields, readerVars, history
<1>4. ASSUME NEW k \in Sensors, WriteSample(k) PROVE TypeOK'
  BY <1>4 DEF WriteSample, Goto, fields, readerVars, history
<1>5. ASSUME NEW k \in Sensors, WriteTime(k) PROVE TypeOK'
  BY <1>5 DEF WriteTime, Goto, fields, readerVars, history
<1>6. ASSUME NEW k \in Sensors, WriteTs(k) PROVE TypeOK'
  BY <1>6 DEF WriteTs, Goto, WrittenTs, fields, readerVars, history
<1>7. ASSUME NEW k \in Sensors, ReturnUpdate(k) PROVE TypeOK'
  BY <1>7 DEF ReturnUpdate, Goto, fields, readerVars, history
<1>8. ASSUME NEW r \in Readers, BeginSnapshot(r) PROVE TypeOK'
  BY <1>8 DEF BeginSnapshot, CallSnapshot, Goto, fields, readerVars, history
<1>9. ASSUME NEW r \in Readers, LockSnapshot(r) PROVE TypeOK'
  BY <1>9 DEF LockSnapshot, Lock, Goto, fields, readerVars, history
<1>10. ASSUME NEW r \in Readers, ReadNow(r) PROVE TypeOK'
  BY <1>10 DEF ReadNow, Goto, fields, readerVars, history
<1>11. ASSUME NEW r \in Readers, NEW k \in Sensors, CopySample(r, k) PROVE TypeOK'
  BY <1>11 DEF CopySample, Copied, Goto, fields, readerVars, history
<1>12. ASSUME NEW r \in Readers, NEW k \in Sensors, CopyTs(r, k) PROVE TypeOK'
  BY <1>12 DEF CopyTs, Copied, Goto, fields, readerVars, history
<1>13. ASSUME NEW r \in Readers, NEW k \in Sensors, SetFlag(r, k) PROVE TypeOK'
  BY <1>13 DEF SetFlag, Copied, Goto, fields, readerVars, history
<1>14. ASSUME NEW r \in Readers, ReturnSnapshot(r) PROVE TypeOK'
  BY <1>14 DEF ReturnSnapshot, Goto, fields, readerVars, history
<1>15. CASE UNCHANGED vars
  BY <1>15 DEF vars, fields, readerVars, history
<1> QED
  BY <1>1, <1>2, <1>3, <1>4, <1>5, <1>6, <1>7, <1>8,
     <1>9, <1>10, <1>11, <1>12, <1>13, <1>14, <1>15
     DEF Next, UpdateStep, SnapshotStep

\* No access leaves the clock behind, or gives the copy of a reader another form.
LEMMA ShapeStep == IInv /\ [Next]_vars => Shape'
<1> SUFFICES ASSUME IInv, [Next]_vars PROVE Shape'
  OBVIOUS
<1> USE DEF IInv, TypeOK, Shape, CallInv, ReaderInv, CopyOf, Threads, UpdateInside, SnapshotInside
<1>1. CASE Tick
  BY <1>1 DEF Tick, SpecTick, fields, readerVars
<1>2. ASSUME NEW k \in Sensors, NEW in \in Inputs, BeginUpdate(k, in) PROVE Shape'
  BY <1>2 DEF BeginUpdate, CallUpdate, Goto, fields, readerVars
<1>3. ASSUME NEW k \in Sensors, LockUpdate(k) PROVE Shape'
  BY <1>3 DEF LockUpdate, Lock, Goto, fields, readerVars, history
<1>4. ASSUME NEW k \in Sensors, WriteSample(k) PROVE Shape'
  BY <1>4 DEF WriteSample, Goto, fields, readerVars, history
<1>5. ASSUME NEW k \in Sensors, WriteTime(k) PROVE Shape'
  BY <1>5 DEF WriteTime, Goto, fields, readerVars, history
<1>6. ASSUME NEW k \in Sensors, WriteTs(k) PROVE Shape'
  BY <1>6 DEF WriteTs, Goto, WrittenTs, fields, readerVars, history
<1>7. ASSUME NEW k \in Sensors, ReturnUpdate(k) PROVE Shape'
  BY <1>7 DEF ReturnUpdate, Goto, fields, readerVars, history
<1>8. ASSUME NEW r \in Readers, BeginSnapshot(r) PROVE Shape'
  BY <1>8 DEF BeginSnapshot, CallSnapshot, Goto, fields, readerVars, history
<1>9. ASSUME NEW r \in Readers, LockSnapshot(r) PROVE Shape'
  BY <1>9 DEF LockSnapshot, Lock, Goto, fields, readerVars, history
<1>10. ASSUME NEW r \in Readers, ReadNow(r) PROVE Shape'
  <2>1. local' \in [Readers -> Snapshots]
    BY <1>10, EmptyType DEF ReadNow, NowRead
  <2> QED BY <1>10, <2>1 DEF ReadNow, Goto, fields, history
<1>11. ASSUME NEW r \in Readers, NEW k \in Sensors, CopySample(r, k) PROVE Shape'
  <2>1. sample[k] \in Samples
    BY DEF Samples, IsStale
  <2>2. local' = [local EXCEPT ![r] = [local[r] EXCEPT !.sample[k] = sample[k]]]
    BY <1>11, <2>1, CopyMember DEF CopySample
  <2>3. local' \in [Readers -> Snapshots]
    BY <2>1, <2>2, SnapshotType
  <2> QED BY <1>11, <2>3 DEF CopySample, Copied, Goto, fields, history
<1>12. ASSUME NEW r \in Readers, NEW k \in Sensors, CopyTs(r, k) PROVE Shape'
  <2>1. source_ts_ms[k] \in SourceTimes
    BY DEF SourceTimes, IsStale
  <2>2. local' = [local EXCEPT ![r] = [local[r] EXCEPT !.source_ts[k] = source_ts_ms[k]]]
    BY <1>12, <2>1, CopyMember DEF CopyTs
  <2>3. local' \in [Readers -> Snapshots]
    BY <2>1, <2>2, SnapshotType
  <2> QED BY <1>12, <2>3 DEF CopyTs, Copied, Goto, fields, history
<1>13. ASSUME NEW r \in Readers, NEW k \in Sensors, SetFlag(r, k) PROVE Shape'
  <2>1. IsStale(k, local[r].now) \in BOOLEAN
    BY DEF IsStale
  <2>2. local' = [local EXCEPT ![r] = [local[r] EXCEPT !.stale[k] = IsStale(k, local[r].now)]]
    BY <1>13, <2>1, CopyMember DEF SetFlag
  <2>3. local' \in [Readers -> Snapshots]
    BY <2>1, <2>2, SnapshotType
  <2> QED BY <1>13, <2>3 DEF SetFlag, Copied, Goto, fields, history
<1>14. ASSUME NEW r \in Readers, ReturnSnapshot(r) PROVE Shape'
  BY <1>14 DEF ReturnSnapshot, Goto, fields, readerVars, history
<1>15. CASE UNCHANGED vars
  BY <1>15 DEF vars, fields, readerVars, history
<1> QED
  BY <1>1, <1>2, <1>3, <1>4, <1>5, <1>6, <1>7, <1>8,
     <1>9, <1>10, <1>11, <1>12, <1>13, <1>14, <1>15
     DEF Next, UpdateStep, SnapshotStep

\* A call begins and ends with the code of its operation.
LEMMA CallStep == IInv /\ [Next]_vars => CallInv'
<1> SUFFICES ASSUME IInv, [Next]_vars PROVE CallInv'
  OBVIOUS
<1> USE DEF IInv, TypeOK, Shape, CallInv, Threads, UpdateInside, SnapshotInside, Idle
<1>1. CASE Tick
  BY <1>1 DEF Tick, SpecTick, fields, readerVars
<1>2. ASSUME NEW k \in Sensors, NEW in \in Inputs, BeginUpdate(k, in) PROVE CallInv'
  BY <1>2 DEF BeginUpdate, CallUpdate, Goto, fields, readerVars
<1>3. ASSUME NEW k \in Sensors, LockUpdate(k) PROVE CallInv'
  BY <1>3 DEF LockUpdate, Lock, Goto, fields, readerVars, history
<1>4. ASSUME NEW k \in Sensors, WriteSample(k) PROVE CallInv'
  BY <1>4 DEF WriteSample, Goto, fields, readerVars, history
<1>5. ASSUME NEW k \in Sensors, WriteTime(k) PROVE CallInv'
  BY <1>5 DEF WriteTime, Goto, fields, readerVars, history
<1>6. ASSUME NEW k \in Sensors, WriteTs(k) PROVE CallInv'
  BY <1>6 DEF WriteTs, Goto, WrittenTs, fields, readerVars, history
<1>7. ASSUME NEW k \in Sensors, ReturnUpdate(k) PROVE CallInv'
  BY <1>7 DEF ReturnUpdate, Goto, fields, readerVars, history
<1>8. ASSUME NEW r \in Readers, BeginSnapshot(r) PROVE CallInv'
  BY <1>8 DEF BeginSnapshot, CallSnapshot, Goto, fields, readerVars, history
<1>9. ASSUME NEW r \in Readers, LockSnapshot(r) PROVE CallInv'
  BY <1>9 DEF LockSnapshot, Lock, Goto, fields, readerVars, history
<1>10. ASSUME NEW r \in Readers, ReadNow(r) PROVE CallInv'
  BY <1>10 DEF ReadNow, Goto, fields, readerVars, history
<1>11. ASSUME NEW r \in Readers, NEW k \in Sensors, CopySample(r, k) PROVE CallInv'
  BY <1>11 DEF CopySample, Copied, Goto, fields, readerVars, history
<1>12. ASSUME NEW r \in Readers, NEW k \in Sensors, CopyTs(r, k) PROVE CallInv'
  BY <1>12 DEF CopyTs, Copied, Goto, fields, readerVars, history
<1>13. ASSUME NEW r \in Readers, NEW k \in Sensors, SetFlag(r, k) PROVE CallInv'
  BY <1>13 DEF SetFlag, Copied, Goto, fields, readerVars, history
<1>14. ASSUME NEW r \in Readers, ReturnSnapshot(r) PROVE CallInv'
  BY <1>14 DEF ReturnSnapshot, Goto, fields, readerVars, history
<1>15. CASE UNCHANGED vars
  BY <1>15 DEF vars, fields, readerVars, history
<1> QED
  BY <1>1, <1>2, <1>3, <1>4, <1>5, <1>6, <1>7, <1>8,
     <1>9, <1>10, <1>11, <1>12, <1>13, <1>14, <1>15
     DEF Next, UpdateStep, SnapshotStep

\* Nobody but the holder of the lock writes, and each write is that of its own call.
LEMMA WriterStep == IInv /\ [Next]_vars => WriterInv'
<1> SUFFICES ASSUME IInv, [Next]_vars PROVE WriterInv'
  OBVIOUS
<1> USE DEF IInv, TypeOK, Shape, OneInside, CallInv, WriterInv, ReaderInv, CopyOf, Idle,
         Threads, UpdateInside, SnapshotInside
<1>1. CASE Tick
  BY <1>1 DEF Tick, SpecTick, fields, readerVars
<1>2. ASSUME NEW k \in Sensors, NEW in \in Inputs, BeginUpdate(k, in) PROVE WriterInv'
  BY <1>2 DEF BeginUpdate, CallUpdate, Goto, fields, readerVars
<1>3. ASSUME NEW k \in Sensors, LockUpdate(k) PROVE WriterInv'
  BY <1>3 DEF LockUpdate, Lock, Goto, fields, readerVars, history
<1>4. ASSUME NEW k \in Sensors, WriteSample(k) PROVE WriterInv'
  BY <1>4 DEF WriteSample, Goto, fields, readerVars, history
<1>5. ASSUME NEW k \in Sensors, WriteTime(k) PROVE WriterInv'
  BY <1>5 DEF WriteTime, Goto, fields, readerVars, history
<1>6. ASSUME NEW k \in Sensors, WriteTs(k) PROVE WriterInv'
  BY <1>6 DEF WriteTs, Goto, WrittenTs, fields, readerVars, history
<1>7. ASSUME NEW k \in Sensors, ReturnUpdate(k) PROVE WriterInv'
  BY <1>7 DEF ReturnUpdate, Goto, fields, readerVars, history
<1>8. ASSUME NEW r \in Readers, BeginSnapshot(r) PROVE WriterInv'
  BY <1>8 DEF BeginSnapshot, CallSnapshot, Goto, fields, readerVars, history
<1>9. ASSUME NEW r \in Readers, LockSnapshot(r) PROVE WriterInv'
  BY <1>9 DEF LockSnapshot, Lock, Goto, fields, readerVars, history
<1>10. ASSUME NEW r \in Readers, ReadNow(r) PROVE WriterInv'
  BY <1>10 DEF ReadNow, Goto, fields, readerVars, history
<1>11. ASSUME NEW r \in Readers, NEW k \in Sensors, CopySample(r, k) PROVE WriterInv'
  BY <1>11 DEF CopySample, Copied, Goto, fields, readerVars, history
<1>12. ASSUME NEW r \in Readers, NEW k \in Sensors, CopyTs(r, k) PROVE WriterInv'
  BY <1>12 DEF CopyTs, Copied, Goto, fields, readerVars, history
<1>13. ASSUME NEW r \in Readers, NEW k \in Sensors, SetFlag(r, k) PROVE WriterInv'
  BY <1>13 DEF SetFlag, Copied, Goto, fields, readerVars, history
<1>14. ASSUME NEW r \in Readers, ReturnSnapshot(r) PROVE WriterInv'
  BY <1>14 DEF ReturnSnapshot, Goto, fields, readerVars, history
<1>15. CASE UNCHANGED vars
  BY <1>15 DEF vars, fields, readerVars, history
<1> QED
  BY <1>1, <1>2, <1>3, <1>4, <1>5, <1>6, <1>7, <1>8,
     <1>9, <1>10, <1>11, <1>12, <1>13, <1>14, <1>15
     DEF Next, UpdateStep, SnapshotStep

\* A copied field stays what it was copied from: no writer gets in between.
LEMMA ReaderStep == IInv /\ [Next]_vars => ReaderInv'
<1> SUFFICES ASSUME IInv, [Next]_vars PROVE ReaderInv'
  OBVIOUS
<1> USE DEF IInv, TypeOK, Shape, OneInside, CallInv, ReaderInv, CopyOf, Idle, IsStale,
         Threads, UpdateInside, SnapshotInside
<1>1. CASE Tick
  BY <1>1 DEF Tick, SpecTick, fields, readerVars
<1>2. ASSUME NEW k \in Sensors, NEW in \in Inputs, BeginUpdate(k, in) PROVE ReaderInv'
  BY <1>2 DEF BeginUpdate, CallUpdate, Goto, fields, readerVars
<1>3. ASSUME NEW k \in Sensors, LockUpdate(k) PROVE ReaderInv'
  BY <1>3 DEF LockUpdate, Lock, LockFree, Goto, fields, readerVars, history
<1>4. ASSUME NEW k \in Sensors, WriteSample(k) PROVE ReaderInv'
  BY <1>4 DEF WriteSample, Goto, fields, readerVars, history
<1>5. ASSUME NEW k \in Sensors, WriteTime(k) PROVE ReaderInv'
  BY <1>5 DEF WriteTime, Goto, fields, readerVars, history
<1>6. ASSUME NEW k \in Sensors, WriteTs(k) PROVE ReaderInv'
  BY <1>6 DEF WriteTs, Goto, WrittenTs, fields, readerVars, history
<1>7. ASSUME NEW k \in Sensors, ReturnUpdate(k) PROVE ReaderInv'
  BY <1>7 DEF ReturnUpdate, Goto, fields, readerVars, history
<1>8. ASSUME NEW r \in Readers, BeginSnapshot(r) PROVE ReaderInv'
  BY <1>8 DEF BeginSnapshot, CallSnapshot, Goto, fields, readerVars, history
<1>9. ASSUME NEW r \in Readers, LockSnapshot(r) PROVE ReaderInv'
  BY <1>9 DEF LockSnapshot, Lock, LockFree, Goto, fields, readerVars, history
<1>10. ASSUME NEW r \in Readers, ReadNow(r) PROVE ReaderInv'
  BY <1>10 DEF ReadNow, NowRead, Goto, fields, readerVars, history
<1>11. ASSUME NEW r \in Readers, NEW k \in Sensors, CopySample(r, k) PROVE ReaderInv'
  <2>1. sample[k] \in Samples
    BY DEF Samples
  <2>2. ASSUME NEW q \in Readers, q # r PROVE CopyOf(q)'
    BY <1>11, <2>2 DEF CopySample, Copied, Goto, fields, history
  <2>3. local' = [local EXCEPT ![r] = [local[r] EXCEPT !.sample[k] = sample[k]]]
    BY <1>11, <2>1, CopyMember DEF CopySample
  <2>4. /\ local'[r].now = local[r].now
        /\ local'[r].sample = [local[r].sample EXCEPT ![k] = sample[k]]
        /\ local'[r].source_ts = local[r].source_ts
        /\ local'[r].stale = local[r].stale
    BY <2>3 DEF Snapshots
  <2>5. local[r] \in Snapshots
    OBVIOUS
  <2>6. CopyOf(r)'
    BY <1>11, <2>1, <2>4, <2>5 DEF CopySample, Copied, Goto, fields, history, Snapshots
  <2> QED BY <2>2, <2>6
<1>12. ASSUME NEW r \in Readers, NEW k \in Sensors, CopyTs(r, k) PROVE ReaderInv'
  <2>1. source_ts_ms[k] \in SourceTimes
    BY DEF SourceTimes
  <2>2. ASSUME NEW q \in Readers, q # r PROVE CopyOf(q)'
    BY <1>12, <2>2 DEF CopyTs, Copied, Goto, fields, history
  <2>3. local' = [local EXCEPT ![r] = [local[r] EXCEPT !.source_ts[k] = source_ts_ms[k]]]
    BY <1>12, <2>1, CopyMember DEF CopyTs
  <2>4. /\ local'[r].now = local[r].now
        /\ local'[r].sample = local[r].sample
        /\ local'[r].source_ts = [local[r].source_ts EXCEPT ![k] = source_ts_ms[k]]
        /\ local'[r].stale = local[r].stale
    BY <2>3 DEF Snapshots
  <2>5. local[r] \in Snapshots
    OBVIOUS
  <2>6. CopyOf(r)'
    BY <1>12, <2>1, <2>4, <2>5 DEF CopyTs, Copied, Goto, fields, history, Snapshots
  <2> QED BY <2>2, <2>6
<1>13. ASSUME NEW r \in Readers, NEW k \in Sensors, SetFlag(r, k) PROVE ReaderInv'
  <2>1. IsStale(k, local[r].now) \in BOOLEAN
    BY DEF IsStale
  <2>2. ASSUME NEW q \in Readers, q # r PROVE CopyOf(q)'
    BY <1>13, <2>2 DEF SetFlag, Copied, Goto, fields, history
  <2>3. local' = [local EXCEPT ![r] = [local[r] EXCEPT !.stale[k] = IsStale(k, local[r].now)]]
    BY <1>13, <2>1, CopyMember DEF SetFlag
  <2>4. /\ local'[r].now = local[r].now
        /\ local'[r].sample = local[r].sample
        /\ local'[r].source_ts = local[r].source_ts
        /\ local'[r].stale = [local[r].stale EXCEPT ![k] = IsStale(k, local[r].now)]
    BY <2>3 DEF Snapshots
  <2>5. local[r] \in Snapshots
    OBVIOUS
  <2>6. CopyOf(r)'
    BY <1>13, <2>1, <2>4, <2>5 DEF SetFlag, Copied, Goto, fields, history, Snapshots
  <2> QED BY <2>2, <2>6
<1>14. ASSUME NEW r \in Readers, ReturnSnapshot(r) PROVE ReaderInv'
  BY <1>14 DEF ReturnSnapshot, Goto, fields, readerVars, history
<1>15. CASE UNCHANGED vars
  BY <1>15 DEF vars, fields, readerVars, history
<1> QED
  BY <1>1, <1>2, <1>3, <1>4, <1>5, <1>6, <1>7, <1>8,
     <1>9, <1>10, <1>11, <1>12, <1>13, <1>14, <1>15
     DEF Next, UpdateStep, SnapshotStep

-----------------------------------------------------------------------------
\* No thread is in a call and every member has its initial value.
LEMMA InitIInv == Init => IInv
<1> SUFFICES ASSUME Init PROVE IInv
  OBVIOUS
<1> USE DEF Init, SpecInit, Threads
<1>1. TypeOK
  BY DEF TypeOK
<1>2. Shape
  BY EmptyType DEF Shape
<1>3. OneInside /\ CallInv
  BY DEF OneInside, CallInv
<1>4. WriterInv
  <2> SUFFICES ASSUME NEW k \in Sensors
               PROVE  /\ latest[k] = [sample |-> sample[k], source_ts |-> source_ts_ms[k],
                                      at |-> last_update[k]]
                      /\ latest[k].at <= horizon
    BY DEF WriterInv
  <2>1. latest[k] = [sample |-> NoSample, source_ts |-> -1, at |-> 0]
    BY DEF NoUpdate
  <2>2. sample[k] = NoSample /\ source_ts_ms[k] = -1 /\ last_update[k] = 0 /\ horizon = 0
    OBVIOUS
  <2>3. latest[k].at = 0
    BY <2>1
  <2> QED BY <2>1, <2>2, <2>3
<1>5. ReaderInv
  BY DEF ReaderInv, CopyOf
<1> QED BY <1>1, <1>2, <1>3, <1>4, <1>5 DEF IInv

\* The inductive invariant holds of every behaviour.
LEMMA Invariance == Spec => []IInv
<1>1. IInv /\ [Next]_vars => IInv'
  BY OneInsideStep, TypeStep, ShapeStep, CallStep, WriterStep, ReaderStep DEF IInv
<1> QED BY <1>1, InitIInv, PTL DEF Spec

\* A reader is in its critical section alone: no sensor is being written.
LEMMA NoWriter ==
    ASSUME IInv, NEW r \in Readers, pc[r] \in SnapshotInside, NEW k \in Sensors
    PROVE  latest[k] = [sample |-> sample[k], source_ts |-> source_ts_ms[k],
                        at |-> last_update[k]]
<1>1. mutex = r
  BY DEF IInv, OneInside, Threads, SnapshotInside
<1>2. mutex # k
  BY <1>1
<1>3. pc[k] \in {"idle", "lock"}
  BY <1>2 DEF IInv, OneInside, Threads
<1> QED BY <1>3 DEF IInv, WriterInv

\* The copy a reader is about to return is the snapshot of one moment.
LEMMA CompleteCopy ==
    ASSUME IInv, NEW r \in Readers, pc[r] = "unlock"
    PROVE  local[r] = SnapshotAt(latest, local[r].now)
<1> DEFINE s == local[r]
<1>1. s \in Snapshots
  BY DEF IInv, Shape
<1>2. ASSUME NEW k \in Sensors
      PROVE  /\ s.sample[k] = latest[k].sample
             /\ s.source_ts[k] = latest[k].source_ts
             /\ s.stale[k] = Stale(k, latest[k], s.now)
  <2>1. latest[k] = [sample |-> sample[k], source_ts |-> source_ts_ms[k],
                     at |-> last_update[k]]
    BY NoWriter DEF SnapshotInside
  <2>2. /\ s.sample[k] = sample[k] /\ s.source_ts[k] = source_ts_ms[k]
        /\ s.stale[k] = IsStale(k, s.now)
    BY DEF IInv, ReaderInv, CopyOf
  <2>3. IsStale(k, s.now) = Stale(k, latest[k], s.now)
    BY <2>1 DEF IsStale, Stale
  <2> QED BY <2>1, <2>2, <2>3
<1>3. /\ s.sample = [k \in Sensors |-> latest[k].sample]
      /\ s.source_ts = [k \in Sensors |-> latest[k].source_ts]
      /\ s.stale = [k \in Sensors |-> Stale(k, latest[k], s.now)]
  BY <1>1, <1>2 DEF Snapshots
<1> QED BY <1>1, <1>3 DEF SnapshotAt, Snapshots

-----------------------------------------------------------------------------
(* The theorems.                                                           *)

\* Every field of the manager holds nothing or a value some caller passed in.
THEOREM TypeCorrect == Spec => []TypeOK
<1>1. IInv => TypeOK
  BY DEF IInv
<1> QED BY <1>1, Invariance, PTL

\* mutex_ keeps all but one thread out of the updates and snapshots.
THEOREM MutualExclusion == Spec => []OneInside
<1>1. IInv => OneInside
  BY DEF IInv
<1> QED BY <1>1, Invariance, PTL

\* snapshot() never reads a sensor whose update is half done.
THEOREM NoTornRead == Spec => []FieldsTogether
<1>1. IInv => FieldsTogether
  BY NoWriter DEF FieldsTogether
<1> QED BY <1>1, Invariance, PTL

\* What snapshot() returns is the state of all sensors at one time, flags included.
THEOREM ConsistentSnapshots == Spec => []SnapshotConsistent
<1>1. IInv => SnapshotConsistent
  BY CompleteCopy DEF SnapshotConsistent
<1> QED BY <1>1, Invariance, PTL

\* An age that isStale() computes is never negative.
THEOREM AgesNotNegative == Spec => []AgeNotNegative
<1>1. IInv => AgeNotNegative
  <2> SUFFICES ASSUME IInv, NEW r \in Readers, pc[r] = "flags", NEW k \in Sensors
               PROVE  local[r].now >= last_update[k]
    BY DEF AgeNotNegative
  <2>1. latest[k].at = last_update[k]
    <3>1. latest[k] = [sample |-> sample[k], source_ts |-> source_ts_ms[k],
                       at |-> last_update[k]]
      BY NoWriter DEF SnapshotInside
    <3> QED BY <3>1
  <2>2. latest[k].at <= horizon
    BY DEF IInv, WriterInv
  <2>3. local[r].now \in horizon .. clock /\ horizon \in 0 .. clock /\ clock \in Nat
    BY DEF IInv, ReaderInv, CopyOf, Shape, TypeOK
  <2>4. last_update[k] \in Nat
    BY <2>3 DEF IInv, Shape
  <2> QED BY <2>1, <2>2, <2>3, <2>4
<1> QED BY <1>1, Invariance, PTL

-----------------------------------------------------------------------------
(* The refinement: every access is a step of VehicleStateSpec or changes   *)
(* none of its variables.                                                  *)

\* The unlock of an update is the step in which it takes effect, at the time written.
LEMMA ReturnIsUpdate ==
    ASSUME IInv, NEW k \in Sensors, ReturnUpdate(k) PROVE SpecNext
<1>1. last_update[k] \in 0 .. clock
  BY DEF IInv, Shape
<1>2. /\ call[k].op = "update" /\ last_update[k] >= call[k].since
      /\ last_update[k] >= horizon
      /\ sample[k] = call[k].in.sample /\ source_ts_ms[k] = call[k].in.source_ts
  BY DEF IInv, CallInv, WriterInv, ReturnUpdate
<1>3. Update(k, last_update[k])
  BY <1>2 DEF Update, ReturnUpdate
<1> QED BY <1>1, <1>3 DEF SpecNext

\* The unlock of a snapshot is the step in which it is taken, at the time read.
LEMMA ReturnIsSnapshot ==
    ASSUME IInv, NEW r \in Readers, ReturnSnapshot(r) PROVE SpecNext
<1> DEFINE now == local[r].now
<1>1. /\ now \in horizon .. clock /\ now >= call[r].since
      /\ horizon \in 0 .. clock /\ clock \in Nat
  BY DEF IInv, ReaderInv, CopyOf, Shape, TypeOK, ReturnSnapshot
<1>2. call[r].op = "snapshot"
  BY DEF IInv, CallInv, ReturnSnapshot
<1>3. local[r] = SnapshotAt(latest, now)
  BY CompleteCopy DEF ReturnSnapshot
<1>4. /\ snap' = [snap EXCEPT ![r] = local[r]] /\ horizon' = now
      /\ call' = [call EXCEPT ![r] = Idle] /\ UNCHANGED <<clock, latest>>
  BY DEF ReturnSnapshot
<1> HIDE DEF now
<1>5. snap' = [snap EXCEPT ![r] = SnapshotAt(latest, now)]
  BY <1>3, <1>4
<1>6. now >= horizon /\ now \in 0 .. clock
  BY <1>1
<1>7. Snapshot(r, now)
  BY <1>1, <1>2, <1>4, <1>5, <1>6 DEF Snapshot
<1> QED BY <1>6, <1>7 DEF SpecNext

\* VehicleStateManager implements VehicleStateSpec: with the mutex, field by field
\* updates and snapshots behave as if each took effect in one step.
THEOREM Refinement == Spec => ImplementsAtomicState
<1>1. Init => SpecInit
  BY DEF Init
<1>2. IInv /\ [Next]_vars => [SpecNext]_specVars
  <2> SUFFICES ASSUME IInv, [Next]_vars PROVE [SpecNext]_specVars
    OBVIOUS
  <2>1. CASE Tick
    BY <2>1 DEF Tick, SpecNext
  <2>2. ASSUME NEW k \in Sensors, NEW in \in Inputs, BeginUpdate(k, in) PROVE SpecNext
    BY <2>2 DEF BeginUpdate, SpecNext
  <2>3. ASSUME NEW k \in Sensors, ReturnUpdate(k) PROVE SpecNext
    BY <2>3, ReturnIsUpdate
  <2>4. ASSUME NEW k \in Sensors,
               LockUpdate(k) \/ WriteSample(k) \/ WriteTime(k) \/ WriteTs(k)
        PROVE  UNCHANGED specVars
    BY <2>4 DEF LockUpdate, WriteSample, WriteTime, WriteTs, history, specVars
  <2>5. ASSUME NEW r \in Readers, BeginSnapshot(r) PROVE SpecNext
    BY <2>5 DEF BeginSnapshot, SpecNext
  <2>6. ASSUME NEW r \in Readers, ReturnSnapshot(r) PROVE SpecNext
    BY <2>6, ReturnIsSnapshot
  <2>7. ASSUME NEW r \in Readers,
               \/ LockSnapshot(r) \/ ReadNow(r)
               \/ \E k \in Sensors : CopySample(r, k) \/ CopyTs(r, k) \/ SetFlag(r, k)
        PROVE  UNCHANGED specVars
    BY <2>7 DEF LockSnapshot, ReadNow, CopySample, CopyTs, SetFlag, history, specVars
  <2>8. CASE UNCHANGED vars
    BY <2>8 DEF vars, history, specVars
  <2> QED
    BY <2>1, <2>2, <2>3, <2>4, <2>5, <2>6, <2>7, <2>8 DEF Next, UpdateStep, SnapshotStep
<1> QED
  BY <1>1, <1>2, Invariance, PTL DEF Spec, ImplementsAtomicState, SpecOfState
=============================================================================
