----------------------------- MODULE TimeManager -----------------------------
(***************************************************************************)
(* The time manager of a replica (consensus/time_manager.h, .cc): it       *)
(* assigns timestamps to the ops of a leader, keeps the safe time and      *)
(* blocks scans until their timestamp is safe.                             *)
(*                                                                         *)
(* lock_ is held for a whole method, so a method is one step, except       *)
(* WaitUntilSafe(), which leaves the lock to wait for the local clock and  *)
(* for its latch. The server's clock (clock/hybrid_clock.cc) is the last   *)
(* timestamp it returned: Now() returns a greater one, Update(t) moves it  *)
(* to t, and time may pass at any moment.                                  *)
(*                                                                         *)
(* A CHECK of a method is a guard of its action.                           *)
(***************************************************************************)
EXTENDS Integers

CONSTANTS
    kMax,           \* bound: the clock stays below it
    Threads,        \* the threads that call WaitUntilSafe
    MaxError,       \* how far NowLatest() is ahead of Now()
    HeartbeatSkew   \* how far the safe time in a leader's heartbeat may be
                    \* ahead of this replica's clock

ASSUME TimeAssumption ==
    /\ kMax \in Nat /\ kMax > 1
    /\ MaxError \in Nat
    /\ HeartbeatSkew \in Nat

VARIABLES
    clock,        \* clock_
    mode,         \* mode_
    last_serial,  \* last_serial_ts_assigned_
    last_safe,    \* last_safe_ts_
    safe_waiters, \* waiters_
    reader        \* what each thread in WaitUntilSafe is doing

readerVars == <<safe_waiters, reader>>
timeVars   == <<clock, mode, last_serial, last_safe, readerVars>>

ConsistencyModes == {"CLIENT_PROPAGATED", "COMMIT_WAIT"}

\* The clock moves to now, below the bound.
ClockTo(now) == now < kMax /\ clock' = now

UpdatedClock(t) == IF t > clock THEN t ELSE clock

\* Mutant: a leader's safe time follows the clock while an op is outstanding.
GetSafeTimeUnlocked_NeverPinned(md, serial, safe, now) ==
    IF md = "LEADER"
    THEN [safe |-> now + 1, clock |-> now + 1]
    ELSE [safe |-> safe, clock |-> now]

\* Mutant: safe time is moved to NowLatest().
GetSafeTimeUnlocked_UsesLatest(md, serial, safe, now) ==
    IF md = "LEADER" /\ serial <= safe
    THEN [safe |-> now + 1 + MaxError, clock |-> now + 1]
    ELSE [safe |-> safe, clock |-> now]

\* What GetSafeTimeUnlocked() leaves in last_safe_ts_ and in the clock. A leader
\* with no op between assignment and append moves its safe time to Now().
GetSafeTimeUnlocked(md, serial, safe, now) ==
    IF md = "LEADER" /\ serial <= safe
    THEN [safe |-> now + 1, clock |-> now + 1]
    ELSE [safe |-> safe, clock |-> now]

\* Mutant: the waiters are not looked at.
AdvanceSafeTimeAndWakeUpWaiters_NoWake(t, md, now) ==
    /\ last_safe' = IF t <= last_safe THEN last_safe ELSE t
    /\ ClockTo(now)
    /\ UNCHANGED readerVars

\* Mutant: safe time is set without comparing it.
AdvanceSafeTimeAndWakeUpWaiters_MovesBack(t, md, now) ==
    /\ last_safe' = t
    /\ ClockTo(now)
    /\ safe_waiters' = {w \in safe_waiters : reader[w].ts > t}
    /\ reader' = [w \in Threads |-> IF w \in safe_waiters /\ reader[w].ts <= t
                                    THEN [reader[w] EXCEPT !.latch = 0]
                                    ELSE reader[w]]

\* Looking at a waiter calls IsTimestampSafeUnlocked(), which may move safe time
\* further. The looks of one call read the clock at one moment.
AdvanceSafeTimeAndWakeUpWaiters(t, md, now) ==
    IF t <= last_safe
    THEN last_safe' = last_safe /\ ClockTo(now) /\ UNCHANGED readerVars
    ELSE LET r    == IF safe_waiters = {} THEN [safe |-> t, clock |-> now]
                     ELSE GetSafeTimeUnlocked(md, last_serial, t, now)
             done == {w \in safe_waiters : reader[w].ts <= r.safe}
         IN  /\ last_safe' = r.safe
             /\ ClockTo(r.clock)
             /\ safe_waiters' = safe_waiters \ done
             /\ reader' = [w \in Threads |-> IF w \in done
                                             THEN [reader[w] EXCEPT !.latch = 0]
                                             ELSE reader[w]]

Init ==
    /\ clock = 1
    /\ mode = "NON_LEADER"
    /\ last_serial = 1
    /\ last_safe = 1
    /\ safe_waiters = {}
    /\ reader = [w \in Threads |-> [pc |-> "idle", ts |-> 1, latch |-> 1]]

-----------------------------------------------------------------------------
\* Time passes, or another user of the server's clock reads or updates it.
Tick ==
    /\ ClockTo(clock + 1)
    /\ UNCHANGED <<mode, last_serial, last_safe, readerVars>>

\* Also called while already in LEADER mode, when the peers are refreshed after
\* a config change.
SetLeaderMode ==
    /\ mode' = "LEADER"
    /\ AdvanceSafeTimeAndWakeUpWaiters(clock + 1, "LEADER", clock + 1)
    /\ UNCHANGED last_serial

SetNonLeaderMode ==
    /\ mode' = "NON_LEADER"
    /\ UNCHANGED <<clock, last_serial, last_safe, readerVars>>

\* t is the timestamp given to the message.
AssignTimestamp(ec, t) ==
    /\ mode = "LEADER"
    /\ ClockTo(clock + 1)
    /\ IF ec = "CLIENT_PROPAGATED"
       THEN t = clock + 1 /\ last_serial' = t
       ELSE t \in (clock + 1) .. (clock + 1 + MaxError) /\ UNCHANGED last_serial
    /\ UNCHANGED <<mode, last_safe, readerVars>>

\* GetSerialTimestamp(), which UnsafeChangeConfig() calls in either mode.
GetSerialTimestamp ==
    /\ ClockTo(clock + 1)
    /\ last_serial' = clock + 1
    /\ UNCHANGED <<mode, last_safe, readerVars>>

MessageReceivedFromLeader(ec, t) ==
    /\ mode = "NON_LEADER"
    /\ ClockTo(UpdatedClock(t))
    /\ last_serial' = IF ec = "CLIENT_PROPAGATED" THEN t ELSE last_serial
    /\ UNCHANGED <<mode, last_safe, readerVars>>

\* The clock is updated before the mode is looked at.
UpdateClockAndLastAssignedTimestamp(t) ==
    /\ ClockTo(UpdatedClock(t))
    /\ last_serial' = IF mode = "LEADER" /\ t > last_serial THEN t ELSE last_serial
    /\ UNCHANGED <<mode, last_safe, readerVars>>

AdvanceSafeTimeWithMessage(ec, t) ==
    /\ IF ec = "CLIENT_PROPAGATED"
       THEN AdvanceSafeTimeAndWakeUpWaiters(t, mode, clock)
       ELSE UNCHANGED <<clock, last_safe, readerVars>>
    /\ UNCHANGED <<mode, last_serial>>

AdvanceSafeTime(t) ==
    /\ mode = "NON_LEADER"
    /\ AdvanceSafeTimeAndWakeUpWaiters(t, mode, clock)
    /\ UNCHANGED <<mode, last_serial>>

GetSafeTime ==
    /\ LET r == GetSafeTimeUnlocked(mode, last_serial, last_safe, clock)
       IN  last_safe' = r.safe /\ ClockTo(r.clock)
    /\ UNCHANGED <<mode, last_serial, readerVars>>

-----------------------------------------------------------------------------
(***************************************************************************)
(* WaitUntilSafe(). pc is                                                  *)
(*   "idle"        the thread has not called;                              *)
(*   "localclock"  past the pre-flight checks, waiting for the local clock;*)
(*   "clocked"     the local clock passed, not yet at the lock;            *)
(*   "waiting"     on the latch;                                           *)
(*   "expired"     the deadline passed, not yet at the lock;               *)
(*   "ok", "timedout"   the Status the call returned.                      *)
(***************************************************************************)
GotoReader(w, pc) == reader' = [reader EXCEPT ![w].pc = pc]

\* In NON_LEADER mode the call is refused when safe time lags or has not moved
\* for a while; wall time being abstracted, it may be refused at any time.
WaitUntilSafe(w, t) ==
    /\ reader[w].pc = "idle"
    /\ LET r == GetSafeTimeUnlocked(mode, last_serial, last_safe, clock)
       IN  /\ last_safe' = r.safe
           /\ ClockTo(r.clock)
           /\ \E pc \in {"ok", "timedout", "localclock"} :
                 /\ pc = "ok" <=> t < r.safe
                 /\ pc = "timedout" => mode = "NON_LEADER"
                 /\ reader' = [reader EXCEPT ![w] = [@ EXCEPT !.pc = pc, !.ts = t]]
    /\ UNCHANGED <<mode, last_serial, safe_waiters>>

WaitUntilAfterLocally(w) ==
    /\ reader[w].pc = "localclock"
    /\ clock >= reader[w].ts
    /\ GotoReader(w, "clocked")
    /\ UNCHANGED <<clock, mode, last_serial, last_safe, safe_waiters>>

\* The deadline is nearer than the local clock's passing of the timestamp.
WaitUntilAfterLocallyTimesOut(w) ==
    /\ reader[w].pc = "localclock"
    /\ GotoReader(w, "timedout")
    /\ UNCHANGED <<clock, mode, last_serial, last_safe, safe_waiters>>

RegisterWaiter(w) ==
    /\ reader[w].pc = "clocked"
    /\ LET r == GetSafeTimeUnlocked(mode, last_serial, last_safe, clock)
       IN  /\ last_safe' = r.safe
           /\ ClockTo(r.clock)
           /\ IF reader[w].ts <= r.safe
              THEN GotoReader(w, "ok") /\ UNCHANGED safe_waiters
              ELSE GotoReader(w, "waiting") /\ safe_waiters' = safe_waiters \cup {w}
    /\ UNCHANGED <<mode, last_serial>>

WaiterWoken(w) ==
    /\ reader[w].pc = "waiting"
    /\ reader[w].latch = 0
    /\ GotoReader(w, "ok")
    /\ UNCHANGED <<clock, mode, last_serial, last_safe, safe_waiters>>

WaiterDeadline(w) ==
    /\ reader[w].pc = "waiting"
    /\ reader[w].latch = 1
    /\ GotoReader(w, "expired")
    /\ UNCHANGED <<clock, mode, last_serial, last_safe, safe_waiters>>

\* Mutant: a timed-out wait returns OK.
WaiterCleanup_ReturnsOk(w) ==
    /\ reader[w].pc = "expired"
    /\ GotoReader(w, "ok")
    /\ safe_waiters' = safe_waiters \ {w}
    /\ UNCHANGED <<clock, mode, last_serial, last_safe>>

WaiterCleanup(w) ==
    /\ reader[w].pc = "expired"
    /\ IF reader[w].latch = 0
       THEN GotoReader(w, "ok") /\ UNCHANGED safe_waiters
       ELSE GotoReader(w, "timedout") /\ safe_waiters' = safe_waiters \ {w}
    /\ UNCHANGED <<clock, mode, last_serial, last_safe>>

WaitUntilSafeStep(w) ==
    \/ WaitUntilAfterLocally(w)
    \/ WaitUntilAfterLocallyTimesOut(w)
    \/ RegisterWaiter(w)
    \/ WaiterWoken(w)
    \/ WaiterDeadline(w)
    \/ WaiterCleanup(w)

-----------------------------------------------------------------------------
Stamps == 1 .. (kMax - 1)

\* What the callers may pass: a committed or appended message has a timestamp
\* the clock has passed (AssignTimestamp and MessageReceivedFromLeader see to
\* it) except a COMMIT_WAIT one, and a heartbeat's safe time is at most
\* HeartbeatSkew ahead of the clock.
Next ==
    \/ Tick
    \/ SetLeaderMode
    \/ SetNonLeaderMode
    \/ \E ec \in ConsistencyModes, t \in Stamps : AssignTimestamp(ec, t)
    \/ GetSerialTimestamp
    \/ \E ec \in ConsistencyModes, t \in Stamps : MessageReceivedFromLeader(ec, t)
    \/ \E t \in Stamps : UpdateClockAndLastAssignedTimestamp(t)
    \/ \E ec \in ConsistencyModes, t \in Stamps :
          /\ ec = "CLIENT_PROPAGATED" => t <= clock
          /\ AdvanceSafeTimeWithMessage(ec, t)
    \/ \E t \in Stamps : t <= clock + HeartbeatSkew /\ AdvanceSafeTime(t)
    \/ GetSafeTime
    \/ \E w \in Threads : \/ \E t \in Stamps : WaitUntilSafe(w, t)
                          \/ WaitUntilSafeStep(w)

Spec == Init /\ [][Next]_timeVars
-----------------------------------------------------------------------------
\* The type invariant of the fields and of the waiting threads' stacks.
TypeOK ==
    /\ clock \in Stamps
    /\ mode \in {"LEADER", "NON_LEADER"}
    /\ last_serial \in Stamps
    /\ last_safe \in Stamps
    /\ safe_waiters \in SUBSET Threads
    /\ reader \in [Threads ->
          [pc : {"idle", "localclock", "clocked", "waiting", "expired", "ok", "timedout"},
           ts : Stamps, latch : {0, 1}]]

\* Safety. waiters_ holds exactly the threads on a latch that is not counted
\* down, so a timed-out thread erases an entry that is there and leaves none
\* that points into its dead stack frame. Code: WaitUntilSafe,
\* AdvanceSafeTimeAndWakeUpWaitersUnlocked.
SafeWaitersMatchLatches ==
    \A w \in Threads :
        w \in safe_waiters <=> /\ reader[w].pc \in {"waiting", "expired"}
                               /\ reader[w].latch = 1

\* Safety. A registered waiter waits for a timestamp that is above safe time and
\* that the local clock has passed.
WaitersAreBehindClock ==
    /\ last_serial <= clock
    /\ \A w \in safe_waiters : last_safe < reader[w].ts /\ reader[w].ts <= clock
    /\ \A w \in Threads : reader[w].pc = "clocked" => reader[w].ts <= clock

\* Safety. A leader without an outstanding op has no waiters: GetSafeTime() moves
\* its safe time without waking anyone, and with a waiter it would pass the
\* waiter's timestamp and leave it asleep until its deadline. The two ways into
\* this state, SetLeaderMode() and the append of the outstanding op, must both
\* have emptied waiters_. Code: GetSafeTimeUnlocked.
NoForgottenWaiters ==
    mode = "LEADER" /\ last_serial <= last_safe => safe_waiters = {}

\* Safety. The timestamp of a WaitUntilSafe() that returned OK, or will return
\* OK because its latch is down, is at or below safe time from then on
\* (time_manager-test.cc checks it after a wait).
WaitedIsSafe ==
    \A w \in Threads :
        reader[w].pc = "ok" \/ reader[w].latch = 0 => reader[w].ts <= last_safe

\* Action property. GetSafeTime() never moves back (time_manager.h says "GetSafeTime
\* will still return monotonically increasing timestamps"), whatever the mode
\* changes in between.
SafeTimeMonotonic == [][last_safe' >= last_safe]_timeVars

\* Action property. The timestamp a leader gives to an op is above every safe
\* time it reported, so no reader was told that the op's moment had passed.
AssignedAboveSafeTime ==
    [][\A ec \in ConsistencyModes, t \in Stamps :
          AssignTimestamp(ec, t) => t > last_safe]_timeVars
=============================================================================
