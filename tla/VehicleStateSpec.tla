--------------------------- MODULE VehicleStateSpec ---------------------------
(***************************************************************************)
(* What the shared vehicle state of task 2 promises its callers: every     *)
(* update and every snapshot takes effect in one step, at a time between   *)
(* its call and its return, later than the time of every call that took    *)
(* effect before it.  There is no mutex here, and no field by field        *)
(* copying: module VehicleStateManager implements this specification.      *)
(***************************************************************************)
EXTENDS Integers

CONSTANTS
    Sensors,        \* gps, imu, encoder: each has one writing thread
    Readers,        \* threads that take snapshots
    Inputs,         \* the updates a run makes: records of a sample and its source_ts
    NoSample,       \* std::nullopt
    kStaleAfter,    \* staleness threshold of each sensor, in ms
    MaxTime         \* bound on the clock

Threads == Sensors \cup Readers

ASSUME ThreadsAssumption == Sensors \cap Readers = {}

ASSUME ThresholdAssumption == kStaleAfter \in [Sensors -> Nat] /\ MaxTime \in Nat

ASSUME InputsAssumption == \A in \in Inputs : in.sample # NoSample

VARIABLES
    clock,      \* steady_clock
    call,       \* the call each thread is in, with the time it was made
    latest,     \* the last update of each sensor that took effect
    horizon,    \* the time at which the last call took effect
    snap        \* the last snapshot returned to each reader

specVars == <<clock, call, latest, horizon, snap>>

Idle == [op |-> "idle"]

NoUpdate == [sample |-> NoSample, source_ts |-> -1, at |-> 0]

\* The staleness flag of sensor k in a snapshot taken at time `now`.
Stale(k, update, now) ==
    update.sample = NoSample \/ now - update.at > kStaleAfter[k]

SnapshotAt(updates, now) ==
    [now |-> now,
     sample |-> [k \in Sensors |-> updates[k].sample],
     source_ts |-> [k \in Sensors |-> updates[k].source_ts],
     stale |-> [k \in Sensors |-> Stale(k, updates[k], now)]]

SpecInit ==
    /\ clock = 0
    /\ call = [t \in Threads |-> Idle]
    /\ latest = [k \in Sensors |-> NoUpdate]
    /\ horizon = 0
    /\ snap = [r \in Readers |-> SnapshotAt(latest, 0)]

SpecTick ==
    /\ clock < MaxTime
    /\ clock' = clock + 1
    /\ UNCHANGED <<call, latest, horizon, snap>>

CallUpdate(k, in) ==
    /\ call[k] = Idle
    /\ call' = [call EXCEPT ![k] = [op |-> "update", since |-> clock, in |-> in]]
    /\ UNCHANGED <<clock, latest, horizon, snap>>

\* The update takes effect at time `at`, and returns.
Update(k, at) ==
    /\ call[k].op = "update"
    /\ at >= call[k].since /\ at >= horizon
    /\ latest' = [latest EXCEPT ![k] = [sample |-> call[k].in.sample,
                                        source_ts |-> call[k].in.source_ts,
                                        at |-> at]]
    /\ horizon' = at
    /\ call' = [call EXCEPT ![k] = Idle]
    /\ UNCHANGED <<clock, snap>>

CallSnapshot(r) ==
    /\ call[r] = Idle
    /\ call' = [call EXCEPT ![r] = [op |-> "snapshot", since |-> clock]]
    /\ UNCHANGED <<clock, latest, horizon, snap>>

\* The snapshot is taken at time `now`, and returned.
Snapshot(r, now) ==
    /\ call[r].op = "snapshot"
    /\ now >= call[r].since /\ now >= horizon
    /\ snap' = [snap EXCEPT ![r] = SnapshotAt(latest, now)]
    /\ horizon' = now
    /\ call' = [call EXCEPT ![r] = Idle]
    /\ UNCHANGED <<clock, latest>>

SpecNext ==
    \/ SpecTick
    \/ \E k \in Sensors :
          \/ \E in \in Inputs : CallUpdate(k, in)
          \/ \E at \in 0 .. clock : Update(k, at)
    \/ \E r \in Readers :
          \/ CallSnapshot(r)
          \/ \E now \in 0 .. clock : Snapshot(r, now)

SpecOfState == SpecInit /\ [][SpecNext]_specVars
=============================================================================
