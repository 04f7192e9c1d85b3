-------------------------------- MODULE Mvcc --------------------------------
(***************************************************************************)
(* The MVCC manager of a tablet (tablet/mvcc.h, tablet/mvcc.cc).            *)
(*                                                                         *)
(* Every op of the tablet reserves a timestamp (StartOp), then either      *)
(* applies (StartApplyingOp, FinishApplyingOp) or is aborted (AbortOp).    *)
(* The manager keeps the "latest" snapshot cur_snap_, which says of every  *)
(* timestamp whether it is applied, the lower bound on the timestamps of   *)
(* new ops, and the threads that wait for ops to be applied.               *)
(*                                                                         *)
(* lock_ is a spinlock held for a whole method: a method is one step,      *)
(* except where the code leaves the lock: Close() stores open_ before it   *)
(* takes the lock, and WaitUntil() reads open_ before it takes the lock    *)
(* and takes it again after its deadline.                                  *)
(*                                                                         *)
(* A CHECK of a method is a guard of its action: it is what the manager    *)
(* requires of its callers. TabletReplica.tla models the callers and shows *)
(* that they never fail one.                                               *)
(***************************************************************************)
EXTENDS Integers, FiniteSets

CONSTANTS kMax,      \* Timestamp::kMax: above the timestamp of every op
          Threads    \* the threads that call the Wait* methods

ASSUME kMaxAssumption == kMax \in Nat /\ kMax > 1

kMin              == 0
kInitialTimestamp == 1

Timestamps == 1 .. (kMax - 1)

VARIABLES
    cur_snap,       \* cur_snap_: its two watermarks and its applied_timestamps_
    ops_in_flight,  \* ops_in_flight_: the OpState of every timestamp, "NONE" if absent
    lower_bound,    \* new_op_timestamp_exc_lower_bound_
    earliest,       \* earliest_op_in_flight_
    open,           \* open_
    closing,        \* TRUE between Close()'s store of open_ and its critical section
    waiters,        \* waiters_: the threads registered in it
    thread,         \* what each waiting thread is doing
    applied,        \* history: the timestamps whose op finished applying
    aborted         \* history: the timestamps whose op was aborted

opVars     == <<cur_snap, ops_in_flight, lower_bound, earliest, applied, aborted>>
closeVars  == <<open, closing>>
threadVars == <<waiters, thread>>
mvccVars   == <<opVars, closeVars, threadVars>>

InFlight == {t \in Timestamps : ops_in_flight[t] # "NONE"}
Applying == {t \in Timestamps : ops_in_flight[t] = "APPLYING"}

(***************************************************************************)
(* MvccSnapshot                                                            *)
(***************************************************************************)
IsAppliedIn(snap, ts) ==
    \/ ts < snap.all_applied_before
    \/ /\ ts < snap.none_applied_at_or_after
       /\ ts \in snap.applied_timestamps

\* Mutant: the upper watermark is moved one too far.
AddAppliedTimestamp_OffByOne(snap, ts) ==
    [snap EXCEPT !.applied_timestamps = @ \cup {ts},
                 !.none_applied_at_or_after = IF @ <= ts THEN ts + 2 ELSE @]

AddAppliedTimestamp(snap, ts) ==
    IF IsAppliedIn(snap, ts)
    THEN snap
    ELSE [snap EXCEPT !.applied_timestamps = @ \cup {ts},
                      !.none_applied_at_or_after = IF @ <= ts THEN ts + 1 ELSE @]

\* The snapshot moved to a clean time, with the applied timestamps kept. The upper
\* watermark follows the clean time when none is kept.
SnapshotAt(snap, clean, kept) ==
    [all_applied_before       |-> clean,
     none_applied_at_or_after |-> IF kept = {} THEN clean ELSE snap.none_applied_at_or_after,
     applied_timestamps       |-> kept]

\* Mutant: the lower bound alone decides the clean time.
CleanedSnap_IgnoresInFlight(snap, first, bound) ==
    SnapshotAt(snap, bound, {t \in snap.applied_timestamps : t >= bound})

\* Mutant: the clean time includes the earliest op in flight.
CleanedSnap_IncludesEarliest(snap, first, bound) ==
    LET clean == IF first < bound THEN first + 1 ELSE bound
    IN  SnapshotAt(snap, clean, {t \in snap.applied_timestamps : t >= clean})

\* Mutant: FilterTimestamps drops the timestamp equal to the watermark.
CleanedSnap_FiltersWatermark(snap, first, bound) ==
    LET clean == IF first < bound THEN first ELSE bound
    IN  SnapshotAt(snap, clean, {t \in snap.applied_timestamps : t > clean})

\* The value of cur_snap_ after AdjustCleanTimeUnlocked, of the given snapshot,
\* earliest in-flight timestamp and lower bound.
CleanedSnap(snap, first, bound) ==
    LET clean == IF first < bound THEN first ELSE bound
    IN  SnapshotAt(snap, clean, {t \in snap.applied_timestamps : t >= clean})

\* m is the least timestamp of ops, or kMax if there is none.
IsEarliest(m, ops) ==
    \/ ops = {} /\ m = kMax
    \/ m \in ops /\ \A t \in ops : m <= t

AdvanceEarliestInFlightTimestamp(ops) ==
    CHOOSE m \in Timestamps \cup {kMax} : IsEarliest(m, ops)

-----------------------------------------------------------------------------
(***************************************************************************)
(* What a waiting thread waits for.                                        *)
(***************************************************************************)
AreAllOpsApplied(ts, snap, first) ==
    ts < snap.all_applied_before \/ ts < first

\* Mutant: the op at the timestamp itself is not waited for.
AnyApplyingAtOrBefore_Strict(ts, ops) == \E t \in ops : t < ts

\* As in the code, the ops that are only RESERVED count too.
AnyApplyingAtOrBefore(ts, ops) == \E t \in ops : t <= ts

IsDoneWaiting(w, snap, first, ops) ==
    IF thread[w].wait_for = "ALL_APPLIED"
    THEN AreAllOpsApplied(thread[w].ts, snap, first)
    ELSE ~ AnyApplyingAtOrBefore(thread[w].ts, ops)

\* The threads that AdjustCleanTimeUnlocked removes from waiters_ and wakes.
WakeDoneWaiters(snap, first, ops) ==
    LET done == {w \in waiters : IsDoneWaiting(w, snap, first, ops)}
    IN  /\ waiters' = waiters \ done
        /\ thread' = [w \in Threads |->
                        IF w \in done THEN [thread[w] EXCEPT !.latch = 0]
                        ELSE thread[w]]

-----------------------------------------------------------------------------
Init ==
    /\ cur_snap = [all_applied_before       |-> kInitialTimestamp,
                   none_applied_at_or_after |-> kInitialTimestamp,
                   applied_timestamps       |-> {}]
    /\ ops_in_flight = [t \in Timestamps |-> "NONE"]
    /\ lower_bound = kMin
    /\ earliest = kMax
    /\ open = TRUE
    /\ closing = FALSE
    /\ waiters = {}
    /\ thread = [w \in Threads |-> [pc |-> "idle", wait_for |-> "ALL_APPLIED",
                                    ts |-> kMin, latch |-> 1, called |-> {}]]
    /\ applied = {}
    /\ aborted = {}

\* What StartOp CHECKs of its caller.
StartOpAllowed(ts) ==
    /\ ~ IsAppliedIn(cur_snap, ts)
    /\ ts > lower_bound
    /\ ops_in_flight[ts] = "NONE"

StartOp(ts) ==
    /\ StartOpAllowed(ts)
    /\ ops_in_flight' = [ops_in_flight EXCEPT ![ts] = "RESERVED"]
    /\ earliest' = IF ts < earliest THEN ts ELSE earliest
    /\ UNCHANGED <<cur_snap, lower_bound, applied, aborted, closeVars, threadVars>>

StartApplyingOp(ts) ==
    /\ ops_in_flight[ts] = "RESERVED"
    /\ ops_in_flight' = [ops_in_flight EXCEPT ![ts] = "APPLYING"]
    /\ UNCHANGED <<cur_snap, lower_bound, earliest, applied, aborted, closeVars, threadVars>>

\* Once MVCC is closed the op may be in any state and earliest is left alone.
\* The clean time is not adjusted and no thread is woken.
AbortOp(ts) ==
    /\ ts \in InFlight
    /\ open => ops_in_flight[ts] = "RESERVED"
    /\ ops_in_flight' = [ops_in_flight EXCEPT ![ts] = "NONE"]
    /\ earliest' = IF open /\ earliest = ts
                   THEN AdvanceEarliestInFlightTimestamp(InFlight \ {ts})
                   ELSE earliest
    /\ aborted' = aborted \cup {ts}
    /\ UNCHANGED <<cur_snap, lower_bound, applied, closeVars, threadVars>>

FinishApplyingOp(ts) ==
    /\ ops_in_flight[ts] = "APPLYING"
    /\ LET was_earliest == earliest = ts
           ops   == InFlight \ {ts}
           first == IF was_earliest THEN AdvanceEarliestInFlightTimestamp(ops)
                    ELSE earliest
           snap  == AddAppliedTimestamp(cur_snap, ts)
       IN  /\ ops_in_flight' = [ops_in_flight EXCEPT ![ts] = "NONE"]
           /\ earliest' = first
           /\ IF was_earliest /\ lower_bound >= ts
              THEN /\ cur_snap' = CleanedSnap(snap, first, lower_bound)
                   /\ WakeDoneWaiters(CleanedSnap(snap, first, lower_bound), first, ops)
              ELSE /\ cur_snap' = snap
                   /\ UNCHANGED threadVars
    /\ applied' = applied \cup {ts}
    /\ UNCHANGED <<lower_bound, aborted, closeVars>>

AdjustNewOpLowerBound(ts) ==
    /\ IF lower_bound <= ts
       THEN /\ lower_bound' = ts
            /\ cur_snap' = CleanedSnap(cur_snap, earliest, ts)
            /\ WakeDoneWaiters(CleanedSnap(cur_snap, earliest, ts), earliest, InFlight)
       ELSE UNCHANGED <<lower_bound, cur_snap, threadVars>>
    /\ UNCHANGED <<ops_in_flight, earliest, applied, aborted, closeVars>>

-----------------------------------------------------------------------------
(***************************************************************************)
(* Close(): open_ is stored first, then the waiters are woken under lock_. *)
(***************************************************************************)
CloseStore ==
    /\ open
    /\ open' = FALSE
    /\ closing' = TRUE
    /\ UNCHANGED <<opVars, threadVars>>

CloseWake ==
    /\ closing
    /\ closing' = FALSE
    /\ thread' = [w \in Threads |-> IF w \in waiters
                                    THEN [thread[w] EXCEPT !.latch = 0]
                                    ELSE thread[w]]
    /\ waiters' = {}
    /\ UNCHANGED <<opVars, open>>

-----------------------------------------------------------------------------
(***************************************************************************)
(* The waiting threads. pc is                                              *)
(*   "idle"      the thread has not called;                                *)
(*   "scanning"  in WaitForApplyingOpsToApply, past its CheckOpen;         *)
(*   "entering"  at the CheckOpen of WaitUntil;                            *)
(*   "checked"   past that CheckOpen, not yet at the lock;                 *)
(*   "waiting"   on the latch;                                             *)
(*   "expired"   the deadline passed, not yet at the lock;                 *)
(*   "ok", "aborted", "timedout"   the Status the call returned.           *)
(* called records, of WaitForApplyingOpsToApply, the ops that were         *)
(* APPLYING when it looked.                                                *)
(***************************************************************************)
Goto(w, pc) == thread' = [thread EXCEPT ![w].pc = pc]

CallWaitForSnapshot(w, ts) ==
    /\ thread[w].pc = "idle"
    /\ thread' = [thread EXCEPT ![w] = [@ EXCEPT !.pc = "entering", !.ts = ts,
                                                 !.wait_for = "ALL_APPLIED"]]
    /\ UNCHANGED <<opVars, closeVars, waiters>>

CallWaitForApplyingOps(w) ==
    /\ thread[w].pc = "idle"
    /\ Goto(w, IF open THEN "scanning" ELSE "aborted")
    /\ UNCHANGED <<opVars, closeVars, waiters>>

ScanApplyingOps(w) ==
    /\ thread[w].pc = "scanning"
    /\ IF Applying = {}
       THEN Goto(w, "ok")
       ELSE \E last \in Applying :
               /\ \A t \in Applying : t <= last
               /\ thread' = [thread EXCEPT ![w] = [@ EXCEPT !.pc = "entering",
                                                            !.ts = last,
                                                            !.wait_for = "NONE_APPLYING",
                                                            !.called = Applying]]
    /\ UNCHANGED <<opVars, closeVars, waiters>>

WaitUntilCheckOpen(w) ==
    /\ thread[w].pc = "entering"
    /\ Goto(w, IF open THEN "checked" ELSE "aborted")
    /\ UNCHANGED <<opVars, closeVars, waiters>>

WaitUntilRegister(w) ==
    /\ thread[w].pc = "checked"
    /\ IF IsDoneWaiting(w, cur_snap, earliest, InFlight)
       THEN Goto(w, "ok") /\ UNCHANGED waiters
       ELSE Goto(w, "waiting") /\ waiters' = waiters \cup {w}
    /\ UNCHANGED <<opVars, closeVars>>

WaitUntilWoken(w) ==
    /\ thread[w].pc = "waiting"
    /\ thread[w].latch = 0
    /\ Goto(w, IF open THEN "ok" ELSE "aborted")
    /\ UNCHANGED <<opVars, closeVars, waiters>>

\* WaitForApplyingOpsToApply waits without a deadline.
WaitUntilDeadline(w) ==
    /\ thread[w].pc = "waiting"
    /\ thread[w].latch = 1
    /\ thread[w].wait_for = "ALL_APPLIED"
    /\ Goto(w, "expired")
    /\ UNCHANGED <<opVars, closeVars, waiters>>

\* Mutant: an expired wait leaves its entry in waiters_.
WaitUntilCleanup_KeepsEntry(w) ==
    /\ thread[w].pc = "expired"
    /\ Goto(w, "timedout")
    /\ UNCHANGED <<opVars, closeVars, waiters>>

WaitUntilCleanup(w) ==
    /\ thread[w].pc = "expired"
    /\ IF thread[w].latch = 0
       THEN Goto(w, IF open THEN "ok" ELSE "aborted") /\ UNCHANGED waiters
       ELSE Goto(w, "timedout") /\ waiters' = waiters \ {w}
    /\ UNCHANGED <<opVars, closeVars>>

WaitUntilStep(w) ==
    \/ ScanApplyingOps(w)
    \/ WaitUntilCheckOpen(w)
    \/ WaitUntilRegister(w)
    \/ WaitUntilWoken(w)
    \/ WaitUntilCleanup(w)

Next ==
    \/ \E ts \in Timestamps : \/ StartOp(ts)
                              \/ StartApplyingOp(ts)
                              \/ AbortOp(ts)
                              \/ FinishApplyingOp(ts)
                              \/ AdjustNewOpLowerBound(ts)
    \/ CloseStore
    \/ CloseWake
    \/ \E w \in Threads : \/ \E ts \in Timestamps : CallWaitForSnapshot(w, ts)
                          \/ CallWaitForApplyingOps(w)
                          \/ WaitUntilDeadline(w)
                          \/ WaitUntilStep(w)

Spec == Init /\ [][Next]_mvccVars
-----------------------------------------------------------------------------
SnapshotType ==
    [all_applied_before : 1 .. kMax, none_applied_at_or_after : 1 .. kMax,
     applied_timestamps : SUBSET Timestamps]

ThreadType ==
    [pc : {"idle", "scanning", "entering", "checked", "waiting", "expired",
           "ok", "aborted", "timedout"},
     wait_for : {"ALL_APPLIED", "NONE_APPLYING"},
     ts : 0 .. (kMax - 1), latch : {0, 1}, called : SUBSET Timestamps]

\* The type invariant of the manager's fields and of its callers' stacks.
TypeOK ==
    /\ cur_snap \in SnapshotType
    /\ ops_in_flight \in [Timestamps -> {"NONE", "RESERVED", "APPLYING"}]
    /\ lower_bound \in 0 .. (kMax - 1)
    /\ earliest \in 1 .. kMax
    /\ open \in BOOLEAN
    /\ closing \in BOOLEAN
    /\ waiters \in SUBSET Threads
    /\ thread \in [Threads -> ThreadType]
    /\ applied \in SUBSET Timestamps
    /\ aborted \in SUBSET Timestamps

\* The cached earliest_op_in_flight_ never passes an op in flight, and is
\* exact until Close() lets AbortOp skip its update.
EarliestInv ==
    /\ \A t \in InFlight : earliest <= t
    /\ open => IsEarliest(earliest, InFlight)

\* The clean time passes neither an op in flight nor the lower bound below
\* which no op starts.
CleanTimeInv ==
    /\ cur_snap.all_applied_before <= earliest
    /\ \/ cur_snap.all_applied_before = kInitialTimestamp
       \/ cur_snap.all_applied_before <= lower_bound

\* Of a snapshot and the ops that finished applying: applied_timestamps_ holds
\* exactly those the clean time has not passed, and none_applied_at_or_after_ is
\* max(applied_timestamps_) + 1, or the clean time when there are none.
ShapeOf(snap, done) ==
    /\ snap.applied_timestamps = {t \in done : t >= snap.all_applied_before}
    /\ \A t \in snap.applied_timestamps : t < snap.none_applied_at_or_after
    /\ IF snap.applied_timestamps = {}
       THEN snap.none_applied_at_or_after = snap.all_applied_before
       ELSE snap.none_applied_at_or_after - 1 \in snap.applied_timestamps

SnapshotShapeInv == ShapeOf(cur_snap, applied)

\* Safety. The three caches agree with the ops in flight and with the history:
\* earliest_op_in_flight_, the clean time, and the applied list with its upper
\* watermark (mvcc.h says "equivalent to max(applied_timestamps_) + 1").
WatermarkInv == EarliestInv /\ CleanTimeInv /\ SnapshotShapeInv

\* Safety. Whatever the order in which ops finish, abort and move the lower
\* bound, the latest snapshot says "applied" of every op that finished applying
\* and of no op that is in flight (a reader would see half of its writes), and
\* above the clean time it says so of nothing else. Code: FinishApplyingOp,
\* AbortOp, AdjustCleanTimeUnlocked, MvccSnapshot::IsApplied.
SnapshotExact ==
    /\ \A t \in applied : IsAppliedIn(cur_snap, t)
    /\ \A t \in InFlight : ~ IsAppliedIn(cur_snap, t)
    /\ \A t \in Timestamps :
          IsAppliedIn(cur_snap, t) => t \in applied \/ t < cur_snap.all_applied_before

\* Safety. waiters_ holds exactly the threads that wait on a latch not counted
\* down: the cleanup of an expired wait finds its entry (erase(find(...)) of an
\* absent entry is undefined), and no woken thread, whose WaitingState is gone
\* from the stack, stays in the list. Code: WaitUntil, Close, AdjustCleanTimeUnlocked.
WaitersMatchLatches ==
    \A w \in Threads :
        w \in waiters <=> /\ thread[w].pc \in {"waiting", "expired"}
                          /\ thread[w].latch = 1

\* Safety. When WaitForApplyingOpsToApply returns OK and MVCC is still open, the
\* ops that were APPLYING at the call have finished applying: the flush that
\* called it sees their writes. Code: WaitForApplyingOpsToApply.
ApplyingOpsFinished ==
    \A w \in Threads :
        open /\ thread[w].pc = "ok" => thread[w].called \subseteq applied

\* Action property. A timestamp the latest snapshot calls applied is called
\* applied for ever: a later reader of the latest snapshot never loses a row.
AppliedIsStable ==
    [][\A t \in Timestamps : IsAppliedIn(cur_snap, t) => IsAppliedIn(cur_snap, t)']_mvccVars

\* Action property. GetCleanTimestamp(): the outcome of every timestamp below
\* the clean time is settled. None is in flight in the next state and none
\* becomes applied, so a snapshot below the clean time reads the same for ever.
SettledBelowCleanTime ==
    [][\A t \in Timestamps : t < cur_snap.all_applied_before =>
          /\ t \notin InFlight'
          /\ t \in applied' <=> t \in applied]_mvccVars
=============================================================================
