-------------------------- MODULE TimeManagerProofs --------------------------
(***************************************************************************)
(* Proofs about the time manager, for any bound on the clock, any set of   *)
(* waiting threads and any clock error.                                    *)
(*                                                                         *)
(* WaitInv says that the waiters are the threads behind safe time and that *)
(* a leader without an outstanding op has none. It holds however far a     *)
(* heartbeat is ahead of the clock. SafeInv adds that safe time is not     *)
(* ahead of the clock; it and what follows from it (monotonic safe time)   *)
(* need HeartbeatSkew = 0: far enough ahead of the clock, TLC finds each   *)
(* of them violated.                                                       *)
(***************************************************************************)
EXTENDS TimeManager, TLAPS

Modes == {"LEADER", "NON_LEADER"}

ReaderPcs == {"idle", "localclock", "clocked", "waiting", "expired", "ok", "timedout"}

\* A latch is fresh until its thread waits on it.
FreshLatches ==
    \A w \in Threads : reader[w].pc \in {"idle", "localclock", "clocked"} => reader[w].latch = 1

WaitInv ==
    /\ TypeOK
    /\ FreshLatches
    /\ SafeWaitersMatchLatches
    /\ WaitersAreBehindClock
    /\ NoForgottenWaiters

SafeInv ==
    /\ WaitInv
    /\ last_safe <= clock
    /\ WaitedIsSafe

-----------------------------------------------------------------------------
\* What waking the threads of done does to the waiters and their stacks.
Woken(done) ==
    /\ safe_waiters' = safe_waiters \ done
    /\ reader' \in [Threads -> [pc : ReaderPcs, ts : Stamps, latch : {0, 1}]]
    /\ \A w \in Threads : /\ reader'[w].pc = reader[w].pc
                          /\ reader'[w].ts = reader[w].ts
                          /\ reader'[w].latch = IF w \in done THEN 0 ELSE reader[w].latch

\* The three ways through AdvanceSafeTimeAndWakeUpWaitersUnlocked.
AdvanceStays(t, now) ==
    /\ t <= last_safe
    /\ last_safe' = last_safe
    /\ clock' = now
    /\ UNCHANGED readerVars

AdvanceMoves(t, md, now) ==
    /\ t > last_safe
    /\ last_safe' = t
    /\ clock' = now
    /\ Woken({w \in safe_waiters : reader[w].ts <= t})
    /\ safe_waiters = {} \/ ~(md = "LEADER" /\ last_serial <= t)

AdvanceMovesFurther(t, md, now) ==
    /\ t > last_safe
    /\ md = "LEADER"
    /\ last_serial <= t
    /\ last_safe' = now + 1
    /\ clock' = now + 1
    /\ Woken({w \in safe_waiters : reader[w].ts <= now + 1})

\* AdvanceSafeTimeAndWakeUpWaiters() does one of the three, below the bound.
LEMMA AdvanceCases ==
    ASSUME TypeOK, NEW t \in Nat, NEW md \in Modes, NEW now \in Nat,
           AdvanceSafeTimeAndWakeUpWaiters(t, md, now)
    PROVE  /\ \/ AdvanceStays(t, now)
              \/ AdvanceMoves(t, md, now)
              \/ AdvanceMovesFurther(t, md, now)
           /\ clock' < kMax
<1>1. CASE t <= last_safe
  BY <1>1 DEF AdvanceSafeTimeAndWakeUpWaiters, AdvanceStays, ClockTo
<1>2. CASE ~(t <= last_safe)
  <2> DEFINE r == IF safe_waiters = {} THEN [safe |-> t, clock |-> now]
                  ELSE GetSafeTimeUnlocked(md, last_serial, t, now)
             done == {w \in safe_waiters : reader[w].ts <= r.safe}
  <2>1. /\ last_safe' = r.safe
        /\ ClockTo(r.clock)
        /\ safe_waiters' = safe_waiters \ done
        /\ reader' = [w \in Threads |-> IF w \in done THEN [reader[w] EXCEPT !.latch = 0]
                                        ELSE reader[w]]
    BY <1>2 DEF AdvanceSafeTimeAndWakeUpWaiters
  <2>2. t > last_safe
    BY <1>2 DEF TypeOK, Stamps
  <2>3. \A w \in Threads : reader[w] \in [pc : ReaderPcs, ts : Stamps, latch : {0, 1}]
    BY DEF TypeOK, ReaderPcs
  <2>4. Woken(done)
    <3> HIDE DEF r
    <3> QED
      BY <2>1, <2>3 DEF Woken
  <2>5. CASE safe_waiters # {} /\ md = "LEADER" /\ last_serial <= t
    <3>1. r = [safe |-> now + 1, clock |-> now + 1]
      BY <2>5 DEF GetSafeTimeUnlocked
    <3>2. r.safe = now + 1 /\ r.clock = now + 1
      BY <3>1
    <3> HIDE DEF r
    <3>3. AdvanceMovesFurther(t, md, now)
      BY <2>1, <2>2, <2>4, <2>5, <3>2 DEF AdvanceMovesFurther, ClockTo
    <3> QED
      BY <3>3, <2>1 DEF ClockTo
  <2>6. CASE ~(safe_waiters # {} /\ md = "LEADER" /\ last_serial <= t)
    <3>1. r.safe = t /\ r.clock = now
      BY <2>6 DEF GetSafeTimeUnlocked
    <3> HIDE DEF r
    <3>2. AdvanceMoves(t, md, now)
      BY <2>1, <2>2, <2>4, <2>6, <3>1 DEF AdvanceMoves, ClockTo
    <3> QED
      BY <3>2, <2>1 DEF ClockTo
  <2> QED
    BY <2>5, <2>6
<1> QED
  BY <1>1, <1>2

\* The two ways through GetSafeTimeUnlocked.
LEMMA SafeTimeCases ==
    ASSUME NEW md, NEW serial, NEW safe, NEW now
    PROVE  LET r == GetSafeTimeUnlocked(md, serial, safe, now)
           IN  \/ md = "LEADER" /\ serial <= safe /\ r.safe = now + 1 /\ r.clock = now + 1
               \/ ~(md = "LEADER" /\ serial <= safe) /\ r.safe = safe /\ r.clock = now
  BY DEF GetSafeTimeUnlocked

\* Reading the safe time, alone or at the head of a wait.
SafeTimeRead ==
    /\ \/ /\ mode = "LEADER" /\ last_serial <= last_safe
          /\ last_safe' = clock + 1 /\ clock' = clock + 1
       \/ /\ ~(mode = "LEADER" /\ last_serial <= last_safe)
          /\ last_safe' = last_safe /\ clock' = clock
    /\ clock' < kMax

LEMMA ReadIsSafeTimeRead ==
    ASSUME NEW r, r = GetSafeTimeUnlocked(mode, last_serial, last_safe, clock),
           last_safe' = r.safe, ClockTo(r.clock)
    PROVE  SafeTimeRead
  BY SafeTimeCases DEF SafeTimeRead, ClockTo

-----------------------------------------------------------------------------
(***************************************************************************)
(* Every step is of one of a few shapes, which is all the invariants need. *)
(***************************************************************************)
\* A step that only moves the clock and the serial timestamp, or the mode.
ClockStep ==
    /\ clock' \in Stamps /\ clock' >= clock
    /\ last_serial' \in Stamps /\ last_serial' <= clock'
    /\ mode' \in Modes
    /\ mode' = "LEADER" => mode = "LEADER" /\ last_serial' >= last_serial
    /\ UNCHANGED <<last_safe, readerVars>>

\* A step through AdvanceSafeTimeAndWakeUpWaiters: SetLeaderMode() passes Now().
AdvanceStep(t, now) ==
    /\ \/ AdvanceStays(t, now)
       \/ AdvanceMoves(t, mode', now)
       \/ AdvanceMovesFurther(t, mode', now)
    /\ clock' < kMax
    /\ \/ mode' = mode /\ now = clock
       \/ mode' = "LEADER" /\ now = clock + 1 /\ t = clock + 1
    /\ UNCHANGED last_serial

\* A read of the safe time.
ReadStep ==
    /\ SafeTimeRead
    /\ UNCHANGED <<mode, last_serial, readerVars>>

\* The thread w calls WaitUntilSafe.
BeginStep(w) ==
    /\ reader[w].pc = "idle"
    /\ SafeTimeRead
    /\ UNCHANGED <<mode, last_serial, safe_waiters>>
    /\ \E pc \in {"ok", "timedout", "localclock"}, t \in Stamps :
          /\ reader' = [reader EXCEPT ![w] = [@ EXCEPT !.pc = pc, !.ts = t]]
          /\ pc = "ok" => t < last_safe'

\* The thread w is at the lock again, past the local clock.
RegisterStep(w) ==
    /\ reader[w].pc = "clocked"
    /\ SafeTimeRead
    /\ UNCHANGED <<mode, last_serial>>
    /\ \/ reader[w].ts <= last_safe' /\ GotoReader(w, "ok") /\ UNCHANGED safe_waiters
       \/ /\ reader[w].ts > last_safe'
          /\ GotoReader(w, "waiting") /\ safe_waiters' = safe_waiters \cup {w}

\* The other steps of a waiting thread.
ThreadStep(w) ==
    \/ WaitUntilAfterLocally(w)
    \/ WaitUntilAfterLocallyTimesOut(w)
    \/ WaiterWoken(w)
    \/ WaiterDeadline(w)
    \/ WaiterCleanup(w)

AnyStep ==
    \/ ClockStep
    \/ \E t \in Stamps, now \in Nat : AdvanceStep(t, now) /\ (HeartbeatSkew = 0 => t <= now)
    \/ ReadStep
    \/ \E w \in Threads : BeginStep(w) \/ RegisterStep(w) \/ ThreadStep(w)
    \/ UNCHANGED timeVars

LEMMA ClockSteps ==
    ASSUME WaitInv,
           \/ Tick
           \/ SetNonLeaderMode
           \/ \E ec \in ConsistencyModes, t \in Stamps : AssignTimestamp(ec, t)
           \/ GetSerialTimestamp
           \/ \E ec \in ConsistencyModes, t \in Stamps : MessageReceivedFromLeader(ec, t)
           \/ \E t \in Stamps : UpdateClockAndLastAssignedTimestamp(t)
    PROVE  ClockStep
<1> USE TimeAssumption DEF WaitInv, TypeOK, WaitersAreBehindClock, Stamps, ClockStep, ClockTo,
        Modes, readerVars
<1>1. CASE Tick
  BY <1>1 DEF Tick
<1>2. CASE SetNonLeaderMode
  BY <1>2 DEF SetNonLeaderMode
<1>3. CASE \E ec \in ConsistencyModes, t \in Stamps : AssignTimestamp(ec, t)
  BY <1>3 DEF AssignTimestamp
<1>4. CASE GetSerialTimestamp
  BY <1>4 DEF GetSerialTimestamp
<1>5. CASE \E ec \in ConsistencyModes, t \in Stamps : MessageReceivedFromLeader(ec, t)
  BY <1>5 DEF MessageReceivedFromLeader, UpdatedClock
<1>6. CASE \E t \in Stamps : UpdateClockAndLastAssignedTimestamp(t)
  BY <1>6 DEF UpdateClockAndLastAssignedTimestamp, UpdatedClock
<1> QED
  BY <1>1, <1>2, <1>3, <1>4, <1>5, <1>6

LEMMA AdvanceSteps ==
    ASSUME WaitInv,
           \/ SetLeaderMode
           \/ \E ec \in ConsistencyModes, t \in Stamps :
                 /\ ec = "CLIENT_PROPAGATED" => t <= clock
                 /\ AdvanceSafeTimeWithMessage(ec, t)
           \/ \E t \in Stamps : t <= clock + HeartbeatSkew /\ AdvanceSafeTime(t)
    PROVE  \/ \E t \in Stamps, now \in Nat :
                 AdvanceStep(t, now) /\ (HeartbeatSkew = 0 => t <= now)
           \/ UNCHANGED timeVars
<1> USE TimeAssumption
<1>0. TypeOK /\ clock \in Nat /\ clock + 1 \in Nat /\ mode \in Modes
  BY DEF WaitInv, TypeOK, Stamps, Modes
<1>1. CASE SetLeaderMode
  <2>1. /\ mode' = "LEADER"
        /\ AdvanceSafeTimeAndWakeUpWaiters(clock + 1, "LEADER", clock + 1)
        /\ last_serial' = last_serial
    BY <1>1 DEF SetLeaderMode
  <2>2. /\ \/ AdvanceStays(clock + 1, clock + 1)
           \/ AdvanceMoves(clock + 1, "LEADER", clock + 1)
           \/ AdvanceMovesFurther(clock + 1, "LEADER", clock + 1)
        /\ clock' < kMax
    BY <2>1, <1>0, AdvanceCases DEF Modes
  <2>3. AdvanceStep(clock + 1, clock + 1)
    BY <2>1, <2>2 DEF AdvanceStep
  <2>4. clock + 1 \in Stamps
    BY <2>2, <1>0 DEF AdvanceStays, AdvanceMoves, AdvanceMovesFurther, Stamps
  <2> QED
    BY <2>3, <2>4, <1>0
<1>2. ASSUME NEW t \in Stamps, AdvanceSafeTimeAndWakeUpWaiters(t, mode, clock),
             UNCHANGED <<mode, last_serial>>
      PROVE  AdvanceStep(t, clock)
  <2>1. t \in Nat
    BY DEF Stamps
  <2>2. /\ \/ AdvanceStays(t, clock)
           \/ AdvanceMoves(t, mode, clock)
           \/ AdvanceMovesFurther(t, mode, clock)
        /\ clock' < kMax
    BY <1>2, <2>1, <1>0, AdvanceCases
  <2> QED
    BY <2>2, <1>2 DEF AdvanceStep
<1>3. CASE \E ec \in ConsistencyModes, t \in Stamps :
              /\ ec = "CLIENT_PROPAGATED" => t <= clock
              /\ AdvanceSafeTimeWithMessage(ec, t)
  BY <1>0, <1>2, <1>3 DEF AdvanceSafeTimeWithMessage, timeVars, readerVars
<1>4. CASE \E t \in Stamps : t <= clock + HeartbeatSkew /\ AdvanceSafeTime(t)
  BY <1>0, <1>2, <1>4 DEF AdvanceSafeTime
<1> QED
  BY <1>1, <1>3, <1>4

LEMMA ReadSteps == GetSafeTime => ReadStep
  BY ReadIsSafeTimeRead DEF GetSafeTime, ReadStep

LEMMA BeginSteps ==
    ASSUME NEW w \in Threads, NEW t \in Stamps, WaitUntilSafe(w, t)
    PROVE  BeginStep(w)
<1>1. PICK r : /\ r = GetSafeTimeUnlocked(mode, last_serial, last_safe, clock)
               /\ last_safe' = r.safe
               /\ ClockTo(r.clock)
               /\ \E pc \in {"ok", "timedout", "localclock"} :
                     /\ pc = "ok" <=> t < r.safe
                     /\ reader' = [reader EXCEPT ![w] = [@ EXCEPT !.pc = pc, !.ts = t]]
  BY DEF WaitUntilSafe
<1>2. SafeTimeRead
  BY <1>1, ReadIsSafeTimeRead
<1> QED
  BY <1>1, <1>2 DEF WaitUntilSafe, BeginStep

LEMMA RegisterSteps ==
    ASSUME WaitInv, NEW w \in Threads, RegisterWaiter(w)
    PROVE  RegisterStep(w)
<1>1. PICK r : /\ r = GetSafeTimeUnlocked(mode, last_serial, last_safe, clock)
               /\ last_safe' = r.safe
               /\ ClockTo(r.clock)
               /\ IF reader[w].ts <= r.safe
                  THEN GotoReader(w, "ok") /\ UNCHANGED safe_waiters
                  ELSE GotoReader(w, "waiting") /\ safe_waiters' = safe_waiters \cup {w}
  BY DEF RegisterWaiter
<1>2. SafeTimeRead
  BY <1>1, ReadIsSafeTimeRead
<1>3. reader[w].ts \in Nat /\ last_safe' \in Nat
  BY <1>2 DEF WaitInv, TypeOK, Stamps, SafeTimeRead
<1> QED
  BY <1>1, <1>2, <1>3 DEF RegisterWaiter, RegisterStep

LEMMA StepShapes ==
    ASSUME WaitInv, [Next]_timeVars
    PROVE  AnyStep
<1>1. CASE GetSafeTime
  BY <1>1, ReadSteps DEF AnyStep
<1>2. CASE \E w \in Threads : (\E t \in Stamps : WaitUntilSafe(w, t)) \/ WaitUntilSafeStep(w)
  BY <1>2, BeginSteps, RegisterSteps DEF AnyStep, WaitUntilSafeStep, ThreadStep
<1>3. CASE \/ SetLeaderMode
           \/ \E ec \in ConsistencyModes, t \in Stamps :
                 /\ ec = "CLIENT_PROPAGATED" => t <= clock
                 /\ AdvanceSafeTimeWithMessage(ec, t)
           \/ \E t \in Stamps : t <= clock + HeartbeatSkew /\ AdvanceSafeTime(t)
  BY <1>3, AdvanceSteps DEF AnyStep
<1>4. CASE \/ Tick
           \/ SetNonLeaderMode
           \/ \E ec \in ConsistencyModes, t \in Stamps : AssignTimestamp(ec, t)
           \/ GetSerialTimestamp
           \/ \E ec \in ConsistencyModes, t \in Stamps : MessageReceivedFromLeader(ec, t)
           \/ \E t \in Stamps : UpdateClockAndLastAssignedTimestamp(t)
  BY <1>4, ClockSteps DEF AnyStep
<1>5. CASE UNCHANGED timeVars
  BY <1>5 DEF AnyStep
<1> QED
  BY <1>1, <1>2, <1>3, <1>4, <1>5 DEF Next

-----------------------------------------------------------------------------
(***************************************************************************)
(* The invariant of the waiters.                                           *)
(***************************************************************************)
LEMMA WaitInit == Init => WaitInv
  BY TimeAssumption DEF Init, WaitInv, TypeOK, FreshLatches, SafeWaitersMatchLatches,
     WaitersAreBehindClock, NoForgottenWaiters, Stamps

LEMMA WaitClockStep == WaitInv /\ ClockStep => WaitInv'
  BY DEF WaitInv, ClockStep, TypeOK, FreshLatches, SafeWaitersMatchLatches,
     WaitersAreBehindClock, NoForgottenWaiters, Stamps, Modes, readerVars

LEMMA WaitReadStep == WaitInv /\ ReadStep => WaitInv'
  BY TimeAssumption DEF WaitInv, ReadStep, SafeTimeRead, TypeOK, FreshLatches,
     SafeWaitersMatchLatches, WaitersAreBehindClock, NoForgottenWaiters, Stamps, readerVars

LEMMA WaitAdvanceStep ==
    ASSUME WaitInv, NEW t \in Stamps, NEW now \in Nat, AdvanceStep(t, now)
    PROVE  WaitInv'
<1> USE TimeAssumption
<1>1. CASE AdvanceStays(t, now)
  BY <1>1 DEF AdvanceStays, AdvanceStep, WaitInv, TypeOK, FreshLatches,
     SafeWaitersMatchLatches, WaitersAreBehindClock, NoForgottenWaiters, Stamps, Modes, readerVars
<1>2. ASSUME NEW done, done \in SUBSET safe_waiters, Woken(done)
      PROVE  FreshLatches' /\ SafeWaitersMatchLatches'
  BY <1>2 DEF Woken, WaitInv, TypeOK, FreshLatches, SafeWaitersMatchLatches
<1>3. CASE AdvanceMoves(t, mode', now)
  <2> DEFINE done == {w \in safe_waiters : reader[w].ts <= t}
  <2>1. /\ t > last_safe /\ last_safe' = t /\ clock' = now
        /\ Woken(done)
        /\ safe_waiters = {} \/ ~(mode' = "LEADER" /\ last_serial <= t)
    BY <1>3 DEF AdvanceMoves
  <2>2. FreshLatches' /\ SafeWaitersMatchLatches'
    BY <2>1, <1>2
  <2>3. clock' \in Stamps /\ clock' >= clock /\ last_serial' = last_serial /\ mode' \in Modes
    BY <2>1 DEF AdvanceStep, WaitInv, TypeOK, Stamps, Modes
  <2>4. TypeOK'
    BY <2>1, <2>3 DEF Woken, TypeOK, WaitInv, Modes, ReaderPcs
  <2>5. WaitersAreBehindClock'
    BY <2>1, <2>3 DEF Woken, WaitersAreBehindClock, WaitInv, TypeOK, Stamps
  <2>6. NoForgottenWaiters'
    BY <2>1, <2>3 DEF Woken, NoForgottenWaiters
  <2> QED
    BY <2>2, <2>4, <2>5, <2>6 DEF WaitInv
<1>4. CASE AdvanceMovesFurther(t, mode', now)
  <2> DEFINE done == {w \in safe_waiters : reader[w].ts <= now + 1}
  <2>1. /\ t > last_safe /\ last_safe' = now + 1 /\ clock' = now + 1
        /\ Woken(done)
    BY <1>4 DEF AdvanceMovesFurther
  <2>2. FreshLatches' /\ SafeWaitersMatchLatches'
    BY <2>1, <1>2
  <2>3. clock' \in Stamps /\ clock' >= clock /\ last_serial' = last_serial /\ mode' \in Modes
    BY <2>1 DEF AdvanceStep, WaitInv, TypeOK, Stamps, Modes
  <2>4. TypeOK'
    BY <2>1, <2>3 DEF Woken, TypeOK, WaitInv, Modes, ReaderPcs
  <2>5. safe_waiters' = {}
    <3>1. \A w \in safe_waiters : reader[w].ts <= now + 1
      BY <2>1, <2>3 DEF WaitersAreBehindClock, WaitInv, TypeOK, Stamps
    <3> QED
      BY <3>1, <2>1 DEF Woken
  <2>6. WaitersAreBehindClock' /\ NoForgottenWaiters'
    BY <2>1, <2>3, <2>5 DEF Woken, WaitersAreBehindClock, WaitInv, TypeOK, Stamps,
       NoForgottenWaiters
  <2> QED
    BY <2>2, <2>4, <2>6 DEF WaitInv
<1> QED
  BY <1>1, <1>3, <1>4 DEF AdvanceStep

LEMMA WaitBeginStep ==
    ASSUME WaitInv, NEW w \in Threads, BeginStep(w)
    PROVE  WaitInv'
<1> USE TimeAssumption
<1>1. PICK pc \in {"ok", "timedout", "localclock"}, t \in Stamps :
         reader' = [reader EXCEPT ![w] = [@ EXCEPT !.pc = pc, !.ts = t]]
  BY DEF BeginStep
<1>2. /\ reader' \in [Threads -> [pc : ReaderPcs, ts : Stamps, latch : {0, 1}]]
      /\ \A v \in Threads : v # w => reader'[v] = reader[v]
      /\ reader'[w].pc = pc
      /\ reader'[w].latch = reader[w].latch
  BY <1>1 DEF WaitInv, TypeOK, ReaderPcs
<1>3. w \notin safe_waiters /\ reader[w].latch = 1 /\ safe_waiters' = safe_waiters
  BY DEF BeginStep, WaitInv, SafeWaitersMatchLatches, FreshLatches
<1>4. TypeOK'
  BY <1>2, <1>3 DEF BeginStep, SafeTimeRead, WaitInv, TypeOK, Stamps, ReaderPcs
<1>5. FreshLatches' /\ SafeWaitersMatchLatches'
  BY <1>2, <1>3 DEF WaitInv, FreshLatches, SafeWaitersMatchLatches
<1>6. WaitersAreBehindClock' /\ NoForgottenWaiters'
  BY <1>2, <1>3 DEF BeginStep, SafeTimeRead, WaitInv, TypeOK, Stamps, WaitersAreBehindClock,
     NoForgottenWaiters
<1> QED
  BY <1>4, <1>5, <1>6 DEF WaitInv

\* What a thread's move to pc does to its stack.
LEMMA GotoEffect ==
    ASSUME TypeOK, NEW w \in Threads, NEW pc \in ReaderPcs, GotoReader(w, pc)
    PROVE  /\ reader' \in [Threads -> [pc : ReaderPcs, ts : Stamps, latch : {0, 1}]]
           /\ \A v \in Threads : v # w => reader'[v] = reader[v]
           /\ reader'[w].pc = pc
           /\ reader'[w].ts = reader[w].ts
           /\ reader'[w].latch = reader[w].latch
  BY DEF GotoReader, TypeOK, ReaderPcs

LEMMA WaitRegisterStep ==
    ASSUME WaitInv, NEW w \in Threads, RegisterStep(w)
    PROVE  WaitInv'
<1> USE TimeAssumption
<1>1. PICK pc \in {"ok", "waiting"} :
         /\ GotoReader(w, pc)
         /\ safe_waiters' = IF pc = "ok" THEN safe_waiters ELSE safe_waiters \cup {w}
         /\ pc = "waiting" => reader[w].ts > last_safe'
  BY DEF RegisterStep
<1>2. /\ reader' \in [Threads -> [pc : ReaderPcs, ts : Stamps, latch : {0, 1}]]
      /\ \A v \in Threads : v # w => reader'[v] = reader[v]
      /\ reader'[w].pc = pc
      /\ reader'[w].ts = reader[w].ts
      /\ reader'[w].latch = reader[w].latch
  BY <1>1, GotoEffect DEF WaitInv, ReaderPcs
<1>3. w \notin safe_waiters /\ reader[w].latch = 1 /\ reader[w].pc = "clocked"
  BY DEF RegisterStep, WaitInv, SafeWaitersMatchLatches, FreshLatches
<1>4. TypeOK'
  BY <1>1, <1>2, <1>3 DEF RegisterStep, SafeTimeRead, WaitInv, TypeOK, Stamps, ReaderPcs
<1>5. FreshLatches' /\ SafeWaitersMatchLatches'
  BY <1>1, <1>2, <1>3 DEF WaitInv, TypeOK, FreshLatches, SafeWaitersMatchLatches
<1>6. WaitersAreBehindClock'
  BY <1>1, <1>2, <1>3 DEF RegisterStep, SafeTimeRead, WaitInv, TypeOK, Stamps,
     WaitersAreBehindClock, NoForgottenWaiters
<1>7. NoForgottenWaiters'
  BY <1>1, <1>2, <1>3 DEF RegisterStep, SafeTimeRead, WaitInv, TypeOK, Stamps,
     WaitersAreBehindClock, NoForgottenWaiters
<1> QED
  BY <1>4, <1>5, <1>6, <1>7 DEF WaitInv

LEMMA WaitThreadStep ==
    ASSUME WaitInv, NEW w \in Threads, ThreadStep(w)
    PROVE  WaitInv'
<1>1. PICK pc \in {"clocked", "timedout", "ok", "expired"} :
         /\ GotoReader(w, pc)
         /\ UNCHANGED <<clock, mode, last_serial, last_safe>>
         /\ pc = "clocked" => reader[w].pc = "localclock" /\ clock >= reader[w].ts
         /\ pc = "timedout" => \/ reader[w].pc = "localclock"
                               \/ reader[w].pc = "expired"
         /\ pc = "ok" => reader[w].pc \in {"waiting", "expired"} /\ reader[w].latch = 0
         /\ pc = "expired" => reader[w].pc = "waiting"
         /\ safe_waiters' = IF pc = "timedout" THEN safe_waiters \ {w} ELSE safe_waiters
  <2>1. w \in safe_waiters => reader[w].pc # "localclock"
    BY DEF WaitInv, SafeWaitersMatchLatches
  <2> QED
    BY <2>1 DEF ThreadStep, WaitUntilAfterLocally, WaitUntilAfterLocallyTimesOut, WaiterWoken,
       WaiterDeadline, WaiterCleanup
<1>2. /\ reader' \in [Threads -> [pc : ReaderPcs, ts : Stamps, latch : {0, 1}]]
      /\ \A v \in Threads : v # w => reader'[v] = reader[v]
      /\ reader'[w].pc = pc
      /\ reader'[w].ts = reader[w].ts
      /\ reader'[w].latch = reader[w].latch
  BY <1>1, GotoEffect DEF WaitInv, ReaderPcs
<1>3. TypeOK'
  BY <1>1, <1>2 DEF WaitInv, TypeOK, ReaderPcs
<1>4. FreshLatches' /\ SafeWaitersMatchLatches'
  BY <1>1, <1>2 DEF WaitInv, TypeOK, FreshLatches, SafeWaitersMatchLatches
<1>5. WaitersAreBehindClock' /\ NoForgottenWaiters'
  BY <1>1, <1>2 DEF WaitInv, TypeOK, Stamps, WaitersAreBehindClock, NoForgottenWaiters
<1> QED
  BY <1>3, <1>4, <1>5 DEF WaitInv

LEMMA WaitStutter == WaitInv /\ UNCHANGED timeVars => WaitInv'
  BY DEF WaitInv, timeVars, readerVars, TypeOK, FreshLatches, SafeWaitersMatchLatches,
     WaitersAreBehindClock, NoForgottenWaiters

LEMMA WaitStep == WaitInv /\ [Next]_timeVars => WaitInv'
<1> SUFFICES ASSUME WaitInv, [Next]_timeVars PROVE WaitInv'
  OBVIOUS
<1>1. AnyStep
  BY StepShapes
<1> QED
  BY <1>1, WaitClockStep, WaitReadStep, WaitAdvanceStep, WaitBeginStep, WaitRegisterStep,
     WaitThreadStep, WaitStutter DEF AnyStep

\* The fields of TimeManager and the stacks of the waiting threads keep their types.
THEOREM TimeTypeCorrect == Spec => []TypeOK
<1>1. WaitInv => TypeOK
  BY DEF WaitInv
<1> QED
  BY <1>1, WaitInit, WaitStep, PTL DEF Spec

\* waiters_ holds exactly the threads on a raised latch, and no waiter is left
\* behind the safe time of a leader, however far heartbeats run ahead of the clock.
THEOREM WaitersCorrect ==
    Spec => [](SafeWaitersMatchLatches /\ WaitersAreBehindClock /\ NoForgottenWaiters)
<1>1. WaitInv => SafeWaitersMatchLatches /\ WaitersAreBehindClock /\ NoForgottenWaiters
  BY DEF WaitInv
<1> QED
  BY <1>1, WaitInit, WaitStep, PTL DEF Spec
-----------------------------------------------------------------------------
(***************************************************************************)
(* Safe time, when heartbeats are not ahead of the clock.                  *)
(***************************************************************************)
LEMMA SafeInit == Init => SafeInv
  BY WaitInit DEF Init, SafeInv, WaitedIsSafe

\* Neither safe time nor the clock moves back, and safe time does not pass the clock.
LEMMA SafeTimeStep ==
    ASSUME SafeInv, [Next]_timeVars, HeartbeatSkew = 0
    PROVE  last_safe' >= last_safe /\ last_safe' <= clock' /\ clock' >= clock
<1>0. WaitInv /\ last_safe <= clock /\ clock \in Nat /\ last_safe \in Nat
  BY DEF SafeInv, WaitInv, TypeOK, Stamps
<1>1. AnyStep
  BY <1>0, StepShapes
<1>2. CASE ClockStep
  BY <1>0, <1>2 DEF ClockStep, Stamps
<1>3. CASE \E t \in Stamps, now \in Nat : AdvanceStep(t, now) /\ (HeartbeatSkew = 0 => t <= now)
  <2>1. PICK t \in Stamps, now \in Nat : AdvanceStep(t, now) /\ t <= now
    BY <1>3
  <2>2. now >= clock
    BY <1>0, <2>1 DEF AdvanceStep
  <2> QED
    BY <1>0, <2>1, <2>2 DEF AdvanceStep, AdvanceStays, AdvanceMoves, AdvanceMovesFurther, Stamps
<1>4. CASE SafeTimeRead
  BY <1>0, <1>4 DEF SafeTimeRead
<1>5. CASE UNCHANGED <<last_safe, clock>>
  BY <1>0, <1>5
<1>6. ASSUME NEW w \in Threads, ThreadStep(w)
      PROVE  UNCHANGED <<last_safe, clock>>
  BY <1>6 DEF ThreadStep, WaitUntilAfterLocally, WaitUntilAfterLocallyTimesOut, WaiterWoken,
     WaiterDeadline, WaiterCleanup
<1> QED
  BY <1>1, <1>2, <1>3, <1>4, <1>5, <1>6 DEF AnyStep, ReadStep, BeginStep, RegisterStep,
     timeVars

LEMMA SafeStep ==
    ASSUME SafeInv, [Next]_timeVars, HeartbeatSkew = 0
    PROVE  SafeInv'
<1>0. WaitInv /\ TypeOK /\ WaitedIsSafe
  BY DEF SafeInv, WaitInv
<1>1. WaitInv' /\ last_safe' >= last_safe /\ last_safe' <= clock'
  BY <1>0, WaitStep, SafeTimeStep
<1>2. last_safe \in Nat /\ last_safe' \in Nat
  BY <1>0, <1>1 DEF WaitInv, TypeOK, Stamps
<1>3. \A w \in Threads : reader[w].ts \in Nat
  BY <1>0 DEF TypeOK, Stamps
<1>4. WaitedIsSafe'
  <2>1. CASE UNCHANGED reader
    BY <2>1, <1>0, <1>1, <1>2, <1>3 DEF WaitedIsSafe
  <2>2. CASE \E t \in Stamps, now \in Nat : AdvanceStep(t, now)
    <3>1. PICK t \in Stamps, now \in Nat : AdvanceStep(t, now)
      BY <2>2
    <3>2. CASE AdvanceMoves(t, mode', now) \/ AdvanceMovesFurther(t, mode', now)
      <4>1. \E done \in SUBSET safe_waiters :
               Woken(done) /\ \A w \in done : reader[w].ts <= last_safe'
        BY <3>2 DEF AdvanceMoves, AdvanceMovesFurther
      <4> QED
        BY <4>1, <1>0, <1>1, <1>2, <1>3 DEF Woken, WaitedIsSafe
    <3> QED
      BY <2>1, <3>1, <3>2 DEF AdvanceStep, AdvanceStays, readerVars
  <2>3. ASSUME NEW w \in Threads, BeginStep(w)
        PROVE  WaitedIsSafe'
    <3>1. PICK pc \in {"ok", "timedout", "localclock"}, t \in Stamps :
             /\ reader' = [reader EXCEPT ![w] = [@ EXCEPT !.pc = pc, !.ts = t]]
             /\ pc = "ok" => t < last_safe'
      BY <2>3 DEF BeginStep
    <3>2. /\ \A v \in Threads : v # w => reader'[v] = reader[v]
          /\ reader'[w].pc = pc /\ reader'[w].ts = t
          /\ reader'[w].latch = reader[w].latch /\ t \in Nat
      BY <3>1, <1>0 DEF TypeOK, Stamps
    <3>3. reader[w].latch = 1
      BY <2>3, <1>0 DEF BeginStep, WaitInv, FreshLatches
    <3> QED
      BY <3>1, <3>2, <3>3, <1>0, <1>1, <1>2, <1>3 DEF WaitedIsSafe
  <2>4. ASSUME NEW w \in Threads, NEW pc \in ReaderPcs, GotoReader(w, pc),
               pc = "ok" => reader[w].ts <= last_safe' \/ reader[w].latch = 0
        PROVE  WaitedIsSafe'
    BY <2>4, GotoEffect, <1>0, <1>1, <1>2, <1>3 DEF WaitedIsSafe
  <2>5. ASSUME NEW w \in Threads, RegisterStep(w)
        PROVE  WaitedIsSafe'
    BY <2>4, <2>5 DEF RegisterStep, ReaderPcs
  <2>6. ASSUME NEW w \in Threads, ThreadStep(w)
        PROVE  WaitedIsSafe'
    BY <2>4, <2>6 DEF ReaderPcs, ThreadStep, WaitUntilAfterLocally,
       WaitUntilAfterLocallyTimesOut, WaiterWoken, WaiterDeadline, WaiterCleanup
  <2>7. AnyStep
    BY <1>0, StepShapes
  <2> QED
    BY <2>1, <2>2, <2>3, <2>5, <2>6, <2>7 DEF AnyStep, ClockStep, ReadStep, readerVars, timeVars
<1> QED
  BY <1>1, <1>4 DEF SafeInv

\* A scan whose WaitUntilSafe() returned OK read a timestamp that stays safe.
THEOREM WaitedStaysSafe ==
    ASSUME HeartbeatSkew = 0
    PROVE  Spec => []WaitedIsSafe
<1>1. SafeInv => WaitedIsSafe
  BY DEF SafeInv
<1>2. SafeInv /\ [Next]_timeVars => SafeInv'
  BY SafeStep
<1> QED
  BY <1>1, <1>2, SafeInit, PTL DEF Spec

\* GetSafeTime() never moves back, across any changes of mode.
THEOREM SafeTimeIsMonotonic ==
    ASSUME HeartbeatSkew = 0
    PROVE  Spec => SafeTimeMonotonic
<1>1. SafeInv /\ [Next]_timeVars => SafeInv'
  BY SafeStep
<1>2. SafeInv /\ [Next]_timeVars => [last_safe' >= last_safe]_timeVars
  BY SafeTimeStep
<1> QED
  BY <1>1, <1>2, SafeInit, PTL DEF Spec, SafeTimeMonotonic

\* A leader gives an op a timestamp above every safe time it has reported.
THEOREM AssignedIsAboveSafeTime ==
    ASSUME HeartbeatSkew = 0
    PROVE  Spec => AssignedAboveSafeTime
<1>1. SafeInv /\ [Next]_timeVars => SafeInv'
  BY SafeStep
<1>2. SafeInv => \A ec \in ConsistencyModes, t \in Stamps :
                    AssignTimestamp(ec, t) => t > last_safe
  BY DEF SafeInv, WaitInv, TypeOK, Stamps, AssignTimestamp, ClockTo
<1>3. SafeInv /\ [Next]_timeVars =>
         [\A ec \in ConsistencyModes, t \in Stamps :
             AssignTimestamp(ec, t) => t > last_safe]_timeVars
  BY <1>2
<1> QED
  BY <1>1, <1>3, SafeInit, PTL DEF Spec, AssignedAboveSafeTime
=============================================================================
