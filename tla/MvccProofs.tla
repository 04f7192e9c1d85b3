----------------------------- MODULE MvccProofs -----------------------------
(***************************************************************************)
(* Proofs about Mvcc.tla, for every kMax and every set of threads.         *)
(*                                                                         *)
(* The inductive invariant of the snapshot, SnapInv, is TypeOK with parts  *)
(* of Mvcc.tla: EarliestInv, CleanTimeInv and SnapshotShapeInv tie the     *)
(* three caches (earliest, the clean time and the applied list) to the ops *)
(* in flight and to the history. That of the waiting threads, WaitInv,     *)
(* ties waiters_ to the latches and what a thread waits for to the ops.    *)
(***************************************************************************)
EXTENDS Mvcc, WellFoundedInduction, TLAPS

\* AdvanceEarliestInFlightTimestamp: std::min_element of a nonempty map exists,
\* and kMax stands for the empty one.
LEMMA EarliestExists ==
  ASSUME NEW ops \in SUBSET Timestamps
  PROVE  /\ AdvanceEarliestInFlightTimestamp(ops) \in Timestamps \cup {kMax}
         /\ IsEarliest(AdvanceEarliestInFlightTimestamp(ops), ops)
<1>1. \E m \in Timestamps \cup {kMax} : IsEarliest(m, ops)
  <2>1. CASE ops = {}
    BY <2>1 DEF IsEarliest
  <2>2. CASE ops # {}
    <3>1. ops \subseteq Nat
      BY kMaxAssumption DEF Timestamps
    <3>2. OpToRel(<, Nat) = {ss \in Nat \X Nat : ss[1] < ss[2]}
      BY Zenon DEF OpToRel
    <3>3. PICK x \in ops : \A y \in ops : ~ (<<y, x>> \in OpToRel(<, Nat))
      BY <2>2, <3>1, NatLessThanWellFounded, WFMin, Zenon
    <3>4. \A y \in ops : ~ (<<y, x>> \in {ss \in Nat \X Nat : ss[1] < ss[2]})
      BY <3>2, <3>3, Zenon
    <3>5. \A y \in ops : x <= y
      <4> SUFFICES ASSUME NEW y \in ops PROVE x <= y
        OBVIOUS
      <4>1. x \in Nat /\ y \in Nat
        BY <3>1
      <4>2. <<y, x>> \in Nat \X Nat
        BY <4>1
      <4>3. ~ (<<y, x>>[1] < <<y, x>>[2])
        BY <3>4, <4>2, Zenon
      <4> QED
        BY <4>1, <4>3
    <3> QED
      BY <3>5 DEF IsEarliest
  <2> QED
    BY <2>1, <2>2
<1> QED
  BY <1>1 DEF AdvanceEarliestInFlightTimestamp

-----------------------------------------------------------------------------
\* Init establishes the type invariant and every action preserves it.
LEMMA TypeInit == Init => TypeOK
<1> SUFFICES ASSUME Init PROVE TypeOK
  OBVIOUS
<1>1. cur_snap \in SnapshotType
  BY kMaxAssumption DEF Init, SnapshotType, kInitialTimestamp
<1>2. thread \in [Threads -> ThreadType]
  BY kMaxAssumption DEF Init, ThreadType, kMin, Timestamps
<1>3. lower_bound \in 0 .. (kMax - 1) /\ earliest \in 1 .. kMax
  BY kMaxAssumption DEF Init, kMin
<1>4. open \in BOOLEAN /\ closing \in BOOLEAN
  BY DEF Init
<1>5. ops_in_flight \in [Timestamps -> {"NONE", "RESERVED", "APPLYING"}]
  BY DEF Init
<1>6. waiters = {} /\ applied = {} /\ aborted = {}
  BY DEF Init
<1> QED
  BY <1>1, <1>2, <1>3, <1>4, <1>5, <1>6 DEF TypeOK

\* The value AdjustCleanTimeUnlocked gives to cur_snap_ is a snapshot.
LEMMA CleanedSnapType ==
  ASSUME NEW snap \in SnapshotType, NEW first \in 1 .. kMax, NEW bound \in 1 .. (kMax - 1)
  PROVE  CleanedSnap(snap, first, bound) \in SnapshotType
BY kMaxAssumption DEF CleanedSnap, SnapshotAt, SnapshotType, Timestamps

\* Adding an applied timestamp to a snapshot gives a snapshot.
LEMMA AddAppliedType ==
  ASSUME NEW snap \in SnapshotType, NEW ts \in Timestamps
  PROVE  AddAppliedTimestamp(snap, ts) \in SnapshotType
<1>1. CASE IsAppliedIn(snap, ts)
  BY <1>1 DEF AddAppliedTimestamp
<1>2. CASE ~ IsAppliedIn(snap, ts)
  <2> DEFINE none == IF snap.none_applied_at_or_after <= ts THEN ts + 1
                     ELSE snap.none_applied_at_or_after
  <2>1. none \in 1 .. kMax
    BY kMaxAssumption DEF SnapshotType, Timestamps
  <2>2. snap.applied_timestamps \cup {ts} \in SUBSET Timestamps
    BY DEF SnapshotType
  <2>3. AddAppliedTimestamp(snap, ts) =
          [snap EXCEPT !.applied_timestamps = snap.applied_timestamps \cup {ts},
                       !.none_applied_at_or_after = none]
    BY <1>2 DEF AddAppliedTimestamp
  <2> HIDE DEF none
  <2> QED
    BY <2>1, <2>2, <2>3 DEF SnapshotType
<1> QED
  BY <1>1, <1>2

\* Waking threads changes only latches.
LEMMA WakeType ==
  ASSUME TypeOK, NEW snap, NEW first, NEW ops, WakeDoneWaiters(snap, first, ops)
  PROVE  waiters' \in SUBSET Threads /\ thread' \in [Threads -> ThreadType]
BY DEF TypeOK, WakeDoneWaiters, ThreadType

LEMMA TypeStep == TypeOK /\ [Next]_mvccVars => TypeOK'
<1> SUFFICES ASSUME TypeOK, [Next]_mvccVars PROVE TypeOK'
  OBVIOUS
<1>1. ASSUME NEW ts \in Timestamps, StartOp(ts) PROVE TypeOK'
  BY <1>1, kMaxAssumption
     DEF TypeOK, StartOp, Timestamps, closeVars, threadVars
<1>2. ASSUME NEW ts \in Timestamps, StartApplyingOp(ts) PROVE TypeOK'
  BY <1>2 DEF TypeOK, StartApplyingOp, closeVars, threadVars
<1>3. ASSUME NEW ts \in Timestamps, AbortOp(ts) PROVE TypeOK'
  <2>1. AdvanceEarliestInFlightTimestamp(InFlight \ {ts}) \in 1 .. kMax
    BY EarliestExists, kMaxAssumption DEF InFlight, Timestamps
  <2> QED
    BY <1>3, <2>1 DEF TypeOK, AbortOp, closeVars, threadVars
<1>4. ASSUME NEW ts \in Timestamps, FinishApplyingOp(ts) PROVE TypeOK'
  <2> DEFINE ops   == InFlight \ {ts}
             first == IF earliest = ts THEN AdvanceEarliestInFlightTimestamp(ops)
                      ELSE earliest
             snap  == AddAppliedTimestamp(cur_snap, ts)
  <2>1. first \in 1 .. kMax
    BY EarliestExists, kMaxAssumption DEF InFlight, Timestamps, TypeOK
  <2>2. snap \in SnapshotType
    BY AddAppliedType DEF TypeOK
  <2>3. lower_bound >= ts => CleanedSnap(snap, first, lower_bound) \in SnapshotType
    BY <2>1, <2>2, CleanedSnapType, kMaxAssumption DEF TypeOK, Timestamps
  <2>4. waiters' \in SUBSET Threads /\ thread' \in [Threads -> ThreadType]
    BY <1>4, WakeType DEF FinishApplyingOp, TypeOK, threadVars
  <2>5. cur_snap' \in SnapshotType
    BY <1>4, <2>2, <2>3 DEF FinishApplyingOp
  <2>6. earliest' \in 1 .. kMax
    BY <1>4, <2>1 DEF FinishApplyingOp
  <2>7. ops_in_flight' \in [Timestamps -> {"NONE", "RESERVED", "APPLYING"}]
    BY <1>4 DEF FinishApplyingOp, TypeOK
  <2> QED
    BY <1>4, <2>4, <2>5, <2>6, <2>7 DEF FinishApplyingOp, TypeOK, closeVars
<1>5. ASSUME NEW ts \in Timestamps, AdjustNewOpLowerBound(ts) PROVE TypeOK'
  <2>1. CleanedSnap(cur_snap, earliest, ts) \in SnapshotType
    BY CleanedSnapType DEF TypeOK, Timestamps
  <2>2. waiters' \in SUBSET Threads /\ thread' \in [Threads -> ThreadType]
    BY <1>5, WakeType DEF AdjustNewOpLowerBound, TypeOK, threadVars
  <2>3. cur_snap' \in SnapshotType /\ lower_bound' \in 0 .. (kMax - 1)
    BY <1>5, <2>1, kMaxAssumption DEF AdjustNewOpLowerBound, TypeOK, Timestamps
  <2> QED
    BY <1>5, <2>2, <2>3 DEF AdjustNewOpLowerBound, TypeOK, closeVars
<1>6. ASSUME CloseStore \/ CloseWake PROVE TypeOK'
  <2>1. CASE CloseStore
    BY <2>1 DEF TypeOK, CloseStore, opVars, threadVars
  <2>2. CASE CloseWake
    <3>1. thread' \in [Threads -> ThreadType]
      BY <2>2 DEF TypeOK, CloseWake, ThreadType
    <3> QED
      BY <2>2, <3>1 DEF TypeOK, CloseWake, opVars
  <2> QED
    BY <1>6, <2>1, <2>2
<1>7. ASSUME NEW w \in Threads, NEW ts \in Timestamps, CallWaitForSnapshot(w, ts)
      PROVE  TypeOK'
  <2>1. ts \in 0 .. (kMax - 1)
    BY kMaxAssumption DEF Timestamps
  <2>2. [thread[w] EXCEPT !.pc = "entering", !.ts = ts, !.wait_for = "ALL_APPLIED"]
          \in ThreadType
    BY <2>1 DEF TypeOK, ThreadType
  <2> QED
    BY <1>7, <2>2 DEF TypeOK, CallWaitForSnapshot, opVars, closeVars
<1>8. ASSUME NEW w \in Threads, CallWaitForApplyingOps(w) PROVE TypeOK'
  BY <1>8 DEF TypeOK, CallWaitForApplyingOps, Goto, opVars, closeVars, ThreadType
<1>9. ASSUME NEW w \in Threads, WaitUntilDeadline(w) PROVE TypeOK'
  BY <1>9 DEF TypeOK, WaitUntilDeadline, Goto, opVars, closeVars, ThreadType
<1>10. ASSUME NEW w \in Threads, WaitUntilStep(w) PROVE TypeOK'
  <2>1. CASE ScanApplyingOps(w)
    <3>1. CASE Applying = {}
      BY <2>1, <3>1 DEF TypeOK, ScanApplyingOps, Goto, opVars, closeVars, ThreadType
    <3>2. ASSUME NEW last \in Applying,
                 thread' = [thread EXCEPT ![w] = [@ EXCEPT !.pc = "entering",
                                                           !.ts = last,
                                                           !.wait_for = "NONE_APPLYING",
                                                           !.called = Applying]]
          PROVE  TypeOK'
      <4>1. last \in 0 .. (kMax - 1) /\ Applying \in SUBSET Timestamps
        BY kMaxAssumption DEF Applying, Timestamps
      <4>2. [thread[w] EXCEPT !.pc = "entering", !.ts = last,
                              !.wait_for = "NONE_APPLYING", !.called = Applying]
              \in ThreadType
        BY <4>1 DEF TypeOK, ThreadType
      <4> QED
        BY <2>1, <3>2, <4>2 DEF TypeOK, ScanApplyingOps, opVars, closeVars
    <3> QED
      BY <2>1, <3>1, <3>2 DEF ScanApplyingOps
  <2>2. CASE WaitUntilCheckOpen(w) \/ WaitUntilRegister(w)
    BY <2>2 DEF TypeOK, WaitUntilCheckOpen, WaitUntilRegister, Goto, opVars,
                closeVars, ThreadType
  <2>3. CASE WaitUntilWoken(w) \/ WaitUntilCleanup(w)
    BY <2>3 DEF TypeOK, WaitUntilWoken, WaitUntilCleanup, Goto, opVars,
                closeVars, ThreadType
  <2> QED
    BY <1>10, <2>1, <2>2, <2>3 DEF WaitUntilStep
<1>11. CASE UNCHANGED mvccVars
  BY <1>11 DEF TypeOK, mvccVars, opVars, closeVars, threadVars
<1> QED
  BY <1>1, <1>2, <1>3, <1>4, <1>5, <1>6, <1>7, <1>8, <1>9, <1>10, <1>11 DEF Next

\* The fields of MvccManager keep their types whatever its callers do.
THEOREM TypeCorrect == Spec => []TypeOK
BY TypeInit, TypeStep, PTL DEF Spec

-----------------------------------------------------------------------------
(***************************************************************************)
(* The snapshot.                                                           *)
(***************************************************************************)
\* MvccSnapshot::IsApplied on a well-shaped snapshot: below the clean time, or
\* finished.
LEMMA IsAppliedMeaning ==
  ASSUME NEW snap \in SnapshotType, NEW done \in SUBSET Timestamps, ShapeOf(snap, done),
         NEW t \in Timestamps
  PROVE  IsAppliedIn(snap, t) <=> t < snap.all_applied_before \/ t \in done
BY kMaxAssumption DEF ShapeOf, IsAppliedIn, SnapshotType, Timestamps

\* AddAppliedTimestamp keeps the shape.
LEMMA AddAppliedShape ==
  ASSUME NEW snap \in SnapshotType, NEW done \in SUBSET Timestamps, ShapeOf(snap, done),
         NEW ts \in Timestamps, ts >= snap.all_applied_before, ts \notin done
  PROVE  /\ ShapeOf(AddAppliedTimestamp(snap, ts), done \cup {ts})
         /\ AddAppliedTimestamp(snap, ts).all_applied_before = snap.all_applied_before
<1> DEFINE none == IF snap.none_applied_at_or_after <= ts THEN ts + 1
                   ELSE snap.none_applied_at_or_after
           new  == AddAppliedTimestamp(snap, ts)
<1>1. ~ IsAppliedIn(snap, ts)
  BY IsAppliedMeaning, kMaxAssumption DEF SnapshotType, Timestamps
<1>2. /\ new.all_applied_before = snap.all_applied_before
      /\ new.none_applied_at_or_after = none
      /\ new.applied_timestamps = snap.applied_timestamps \cup {ts}
  BY <1>1 DEF AddAppliedTimestamp, SnapshotType
<1> HIDE DEF new
<1>3. new.applied_timestamps = {t \in done \cup {ts} : t >= new.all_applied_before}
  BY <1>2 DEF ShapeOf
<1>4. \A t \in new.applied_timestamps : t < new.none_applied_at_or_after
  BY <1>2, kMaxAssumption DEF ShapeOf, SnapshotType, Timestamps
<1>5. new.none_applied_at_or_after - 1 \in new.applied_timestamps
  <2>1. CASE snap.none_applied_at_or_after <= ts
    BY <1>2, <2>1, kMaxAssumption DEF SnapshotType, Timestamps
  <2>2. CASE ~ (snap.none_applied_at_or_after <= ts)
    BY <1>2, <2>2, kMaxAssumption DEF ShapeOf, SnapshotType, Timestamps
  <2> QED
    BY <2>1, <2>2
<1>6. new.applied_timestamps # {}
  BY <1>2
<1> QED
  BY <1>2, <1>3, <1>4, <1>5, <1>6 DEF ShapeOf, new

\* AdjustCleanTimeUnlocked keeps the shape and moves the clean time to the
\* smaller of the earliest op in flight and the lower bound.
LEMMA CleanedShape ==
  ASSUME NEW snap \in SnapshotType, NEW done \in SUBSET Timestamps, ShapeOf(snap, done),
         NEW first \in 1 .. kMax, NEW bound \in 1 .. (kMax - 1),
         snap.all_applied_before <= first, snap.all_applied_before <= bound
  PROVE  /\ ShapeOf(CleanedSnap(snap, first, bound), done)
         /\ CleanedSnap(snap, first, bound).all_applied_before <= first
         /\ CleanedSnap(snap, first, bound).all_applied_before <= bound
         /\ snap.all_applied_before <= CleanedSnap(snap, first, bound).all_applied_before
<1> DEFINE clean == IF first < bound THEN first ELSE bound
           kept  == {t \in snap.applied_timestamps : t >= clean}
           new   == CleanedSnap(snap, first, bound)
<1>1. /\ new.all_applied_before = clean
      /\ new.none_applied_at_or_after =
            IF kept = {} THEN clean ELSE snap.none_applied_at_or_after
      /\ new.applied_timestamps = kept
  BY DEF CleanedSnap, SnapshotAt
<1> HIDE DEF new
<1>2. clean \in 1 .. kMax /\ clean <= first /\ clean <= bound /\ snap.all_applied_before <= clean
  BY kMaxAssumption
<1> HIDE DEF clean
<1>3. kept = {t \in done : t >= clean}
  <2>1. snap.applied_timestamps = {t \in done : t >= snap.all_applied_before}
    BY DEF ShapeOf
  <2>2. snap.all_applied_before \in Int /\ clean \in Int /\ done \subseteq Int
    BY <1>2, kMaxAssumption DEF SnapshotType, Timestamps
  <2>3. \A t \in done : t >= clean => t >= snap.all_applied_before
    BY <1>2, <2>2
  <2> QED
    BY <2>1, <2>3
<1>4. \A t \in kept : t < snap.none_applied_at_or_after
  BY DEF ShapeOf
<1>5. kept # {} => snap.none_applied_at_or_after - 1 \in kept
  <2> SUFFICES ASSUME NEW k \in kept PROVE snap.none_applied_at_or_after - 1 \in kept
    OBVIOUS
  <2>1. snap.none_applied_at_or_after - 1 \in snap.applied_timestamps
    BY DEF ShapeOf
  <2>2. k \in Int /\ snap.none_applied_at_or_after \in Int /\ clean \in Int
    BY <1>2, kMaxAssumption DEF SnapshotType, Timestamps
  <2>3. snap.none_applied_at_or_after - 1 >= clean
    BY <1>4, <2>2
  <2> QED
    BY <2>1, <2>3
<1> QED
  BY <1>1, <1>2, <1>3, <1>4, <1>5 DEF ShapeOf, new

-----------------------------------------------------------------------------
(***************************************************************************)
(* The caches. The induction rests on TypeOK, WatermarkInv and             *)
(* SnapshotExact together: SnapshotExact keeps an op in flight out of the  *)
(* applied set, which AddAppliedShape needs.                               *)
(***************************************************************************)
SnapInv == TypeOK /\ WatermarkInv /\ SnapshotExact

\* No op in flight has finished, and none is below the clean time.
LEMMA InFlightFacts ==
  ASSUME SnapInv, NEW t \in InFlight
  PROVE  /\ t \in Timestamps
         /\ t \notin applied
         /\ t >= cur_snap.all_applied_before
<1>1. t \in Timestamps /\ ~ IsAppliedIn(cur_snap, t)
  BY DEF SnapInv, SnapshotExact, InFlight
<1>2. cur_snap \in SnapshotType /\ applied \in SUBSET Timestamps /\ ShapeOf(cur_snap, applied)
  BY DEF SnapInv, TypeOK, WatermarkInv, SnapshotShapeInv
<1>3. ~ (t < cur_snap.all_applied_before) /\ t \notin applied
  BY <1>1, <1>2, IsAppliedMeaning
<1> QED
  BY <1>1, <1>2, <1>3, kMaxAssumption DEF SnapshotType, Timestamps

\* SnapshotExact, of any snapshot, from its shape and from what InFlightFacts says.
LEMMA ExactFromShape ==
  ASSUME NEW snap \in SnapshotType, NEW done \in SUBSET Timestamps, ShapeOf(snap, done),
         NEW ops \in SUBSET Timestamps,
         \A t \in ops : t \notin done /\ t >= snap.all_applied_before
  PROVE  /\ \A t \in done : IsAppliedIn(snap, t)
         /\ \A t \in ops : ~ IsAppliedIn(snap, t)
         /\ \A t \in Timestamps :
               IsAppliedIn(snap, t) => t \in done \/ t < snap.all_applied_before
<1>1. \A t \in Timestamps :
         IsAppliedIn(snap, t) <=> t < snap.all_applied_before \/ t \in done
  BY IsAppliedMeaning
<1>2. \A t \in ops : ~ (t < snap.all_applied_before)
  BY kMaxAssumption DEF SnapshotType, Timestamps
<1> QED
  BY <1>1, <1>2

LEMMA SnapInit == Init => SnapInv
<1> SUFFICES ASSUME Init PROVE SnapInv
  OBVIOUS
<1>1. TypeOK
  BY TypeInit
<1>2. InFlight = {}
  BY DEF Init, InFlight
<1>3. EarliestInv
  BY <1>2 DEF Init, EarliestInv, IsEarliest
<1>4. CleanTimeInv
  BY kMaxAssumption DEF Init, CleanTimeInv, kInitialTimestamp
<1>5. SnapshotShapeInv
  BY DEF Init, SnapshotShapeInv, ShapeOf
<1>6. SnapshotExact
  BY <1>1, <1>2, <1>5, ExactFromShape DEF TypeOK, SnapshotShapeInv, SnapshotExact
<1> QED
  BY <1>1, <1>3, <1>4, <1>5, <1>6 DEF SnapInv, WatermarkInv

LEMMA SnapStep == SnapInv /\ [Next]_mvccVars => SnapInv'
<1> SUFFICES ASSUME SnapInv, [Next]_mvccVars PROVE SnapInv'
  OBVIOUS
<1> USE DEF SnapInv, WatermarkInv
<1>1. TypeOK' /\ TypeOK
  BY TypeStep
<1>a. /\ cur_snap \in SnapshotType /\ cur_snap' \in SnapshotType
      /\ applied \in SUBSET Timestamps /\ applied' \in SUBSET Timestamps
      /\ InFlight \in SUBSET Timestamps /\ InFlight' \in SUBSET Timestamps
      /\ earliest \in 1 .. kMax /\ lower_bound \in 0 .. (kMax - 1)
  BY <1>1 DEF TypeOK, InFlight
<1>b. ShapeOf(cur_snap, applied)
  BY DEF SnapshotShapeInv
\* It is enough to find the shape and what the ops in flight satisfy.
<1>c. ASSUME EarliestInv', CleanTimeInv', ShapeOf(cur_snap', applied'),
             InFlight' \cap applied' = {}
      PROVE  SnapInv'
  <2>1. \A t \in InFlight' : t \notin applied' /\ t >= cur_snap'.all_applied_before
    BY <1>1, <1>a, <1>c, kMaxAssumption
       DEF EarliestInv, CleanTimeInv, TypeOK, SnapshotType, Timestamps
  <2>2. SnapshotExact'
    BY <1>a, <1>c, <2>1, ExactFromShape DEF SnapshotExact
  <2> QED
    BY <1>1, <1>c, <2>2 DEF SnapshotShapeInv
<1>d. InFlight \cap applied = {}
  BY InFlightFacts
<1>2. ASSUME NEW ts \in Timestamps, StartOp(ts) PROVE SnapInv'
  <2>1. InFlight' = InFlight \cup {ts}
    BY <1>1, <1>2 DEF StartOp, StartOpAllowed, InFlight, TypeOK
  <2>2. UNCHANGED <<cur_snap, applied, lower_bound, open>>
    BY <1>2 DEF StartOp, closeVars
  <2>3. earliest' = IF ts < earliest THEN ts ELSE earliest
    BY <1>2 DEF StartOp
  <2>4. EarliestInv'
    BY <1>a, <2>1, <2>2, <2>3, kMaxAssumption DEF EarliestInv, IsEarliest, Timestamps
  <2>5. ts > lower_bound /\ ~ IsAppliedIn(cur_snap, ts)
    BY <1>2 DEF StartOp, StartOpAllowed
  <2>6. CleanTimeInv'
    BY <1>a, <2>2, <2>3, <2>5, kMaxAssumption
       DEF CleanTimeInv, SnapshotType, Timestamps, kInitialTimestamp
  <2>7. ts \notin applied
    BY <1>a, <1>b, <2>5, IsAppliedMeaning
  <2> QED
    BY <1>b, <1>c, <1>d, <2>1, <2>2, <2>4, <2>6, <2>7
<1>3. ASSUME NEW ts \in Timestamps, StartApplyingOp(ts) PROVE SnapInv'
  <2>1. InFlight' = InFlight
    BY <1>1, <1>3 DEF StartApplyingOp, InFlight, TypeOK
  <2>2. UNCHANGED <<cur_snap, applied, lower_bound, open, earliest>>
    BY <1>3 DEF StartApplyingOp, closeVars
  <2> QED
    BY <1>b, <1>c, <1>d, <2>1, <2>2 DEF EarliestInv, CleanTimeInv
<1>4. ASSUME NEW ts \in Timestamps, AbortOp(ts) PROVE SnapInv'
  <2>1. InFlight' = InFlight \ {ts}
    BY <1>1, <1>4 DEF AbortOp, InFlight, TypeOK
  <2>2. UNCHANGED <<cur_snap, applied, lower_bound, open>> /\ ts \in InFlight
    BY <1>4 DEF AbortOp, closeVars
  <2>3. CASE open /\ earliest = ts
    <3>1. earliest' = AdvanceEarliestInFlightTimestamp(InFlight')
      BY <1>4, <2>1, <2>3 DEF AbortOp
    <3>2. IsEarliest(earliest', InFlight')
      BY <1>a, <3>1, EarliestExists
    <3>3. earliest <= earliest'
      <4>1. \A t \in InFlight : earliest <= t
        BY DEF EarliestInv
      <4> QED
        BY <1>a, <2>1, <3>2, <4>1, kMaxAssumption DEF IsEarliest
    <3>4. EarliestInv'
      BY <3>2 DEF EarliestInv, IsEarliest
    <3>5. earliest' \in 1 .. kMax
      BY <1>1 DEF TypeOK
    <3>6. CleanTimeInv'
      BY <1>a, <2>2, <3>3, <3>5, kMaxAssumption DEF CleanTimeInv, SnapshotType
    <3> QED
      BY <1>b, <1>c, <1>d, <2>1, <2>2, <3>4, <3>6
  <2>4. CASE ~ (open /\ earliest = ts)
    <3>1. earliest' = earliest
      BY <1>4, <2>4 DEF AbortOp
    <3>2. EarliestInv'
      BY <2>1, <2>2, <2>4, <3>1 DEF EarliestInv, IsEarliest
    <3>3. CleanTimeInv'
      BY <2>2, <3>1 DEF CleanTimeInv
    <3> QED
      BY <1>b, <1>c, <1>d, <2>1, <2>2, <3>2, <3>3
  <2> QED
    BY <2>3, <2>4
<1>5. ASSUME NEW ts \in Timestamps, FinishApplyingOp(ts) PROVE SnapInv'
  <2> DEFINE snap == AddAppliedTimestamp(cur_snap, ts)
  <2>1. InFlight' = InFlight \ {ts} /\ ts \in InFlight
    BY <1>1, <1>5 DEF FinishApplyingOp, InFlight, TypeOK
  <2>2. UNCHANGED <<lower_bound, open>> /\ applied' = applied \cup {ts}
    BY <1>5 DEF FinishApplyingOp, closeVars
  <2>3. ts \notin applied /\ ts >= cur_snap.all_applied_before
    BY <2>1, InFlightFacts
  <2>4. /\ snap \in SnapshotType
        /\ ShapeOf(snap, applied')
        /\ snap.all_applied_before = cur_snap.all_applied_before
    BY <1>a, <1>b, <2>2, <2>3, AddAppliedShape, AddAppliedType
  <2>5. earliest' = IF earliest = ts THEN AdvanceEarliestInFlightTimestamp(InFlight')
                    ELSE earliest
    BY <1>5, <2>1 DEF FinishApplyingOp
  <2>6. EarliestInv' /\ earliest <= earliest'
    <3>1. CASE earliest = ts
      <4>1. IsEarliest(earliest', InFlight')
        BY <1>a, <2>5, <3>1, EarliestExists
      <4>2. EarliestInv'
        BY <4>1 DEF EarliestInv, IsEarliest
      <4>3. \A t \in InFlight : earliest <= t
        BY DEF EarliestInv
      <4>4. earliest <= earliest'
        BY <1>a, <2>1, <4>1, <4>3, kMaxAssumption DEF IsEarliest
      <4> QED
        BY <4>2, <4>4
    <3>2. CASE earliest # ts
      BY <1>a, <2>1, <2>2, <2>5, <3>2, kMaxAssumption DEF EarliestInv, IsEarliest
    <3> QED
      BY <3>1, <3>2
  <2>7. earliest' \in 1 .. kMax
    BY <1>1 DEF TypeOK
  <2>8. cur_snap.all_applied_before <= earliest'
    BY <1>a, <2>6, <2>7, kMaxAssumption DEF CleanTimeInv, SnapshotType
  <2>9. InFlight' \cap applied' = {}
    BY <1>d, <2>1, <2>2
  <2> HIDE DEF snap
  <2>10. CASE earliest = ts /\ lower_bound >= ts
    <3>1. cur_snap' = CleanedSnap(snap, earliest', lower_bound)
      BY <1>5, <2>10 DEF FinishApplyingOp, snap
    <3>2. lower_bound \in 1 .. (kMax - 1)
      BY <1>a, <2>10, kMaxAssumption DEF Timestamps
    <3>3. snap.all_applied_before <= lower_bound
      BY <1>a, <2>3, <2>4, <2>10, <3>2, kMaxAssumption DEF SnapshotType, Timestamps
    <3>4. /\ ShapeOf(cur_snap', applied')
          /\ cur_snap'.all_applied_before <= earliest'
          /\ cur_snap'.all_applied_before <= lower_bound
      BY <1>a, <2>4, <2>7, <2>8, <3>1, <3>2, <3>3, CleanedShape
    <3>5. CleanTimeInv'
      BY <2>2, <3>4 DEF CleanTimeInv
    <3> QED
      BY <1>c, <2>6, <2>9, <3>4, <3>5
  <2>11. CASE ~ (earliest = ts /\ lower_bound >= ts)
    <3>1. cur_snap' = snap
      BY <1>5, <2>11 DEF FinishApplyingOp, snap
    <3>2. CleanTimeInv'
      BY <2>2, <2>4, <2>8, <3>1 DEF CleanTimeInv
    <3> QED
      BY <1>c, <2>4, <2>6, <2>9, <3>1, <3>2
  <2> QED
    BY <2>10, <2>11
<1>6. ASSUME NEW ts \in Timestamps, AdjustNewOpLowerBound(ts) PROVE SnapInv'
  <2>1. UNCHANGED <<earliest, applied, open, ops_in_flight>> /\ InFlight' = InFlight
    BY <1>6 DEF AdjustNewOpLowerBound, closeVars, InFlight
  <2>2. EarliestInv'
    BY <2>1 DEF EarliestInv
  <2>3. CASE lower_bound <= ts
    <3>1. cur_snap' = CleanedSnap(cur_snap, earliest, ts) /\ lower_bound' = ts
      BY <1>6, <2>3 DEF AdjustNewOpLowerBound
    <3>2. ts \in 1 .. (kMax - 1)
      BY DEF Timestamps
    <3>3. cur_snap.all_applied_before <= earliest /\ cur_snap.all_applied_before <= ts
      BY <1>a, <2>3, <3>2, kMaxAssumption DEF CleanTimeInv, SnapshotType, kInitialTimestamp
    <3>4. /\ ShapeOf(cur_snap', applied)
          /\ cur_snap'.all_applied_before <= earliest
          /\ cur_snap'.all_applied_before <= ts
      BY <1>a, <1>b, <3>1, <3>2, <3>3, CleanedShape
    <3>5. CleanTimeInv'
      BY <2>1, <3>1, <3>4 DEF CleanTimeInv
    <3> QED
      BY <1>c, <1>d, <2>1, <2>2, <3>4, <3>5
  <2>4. CASE ~ (lower_bound <= ts)
    <3>1. UNCHANGED <<cur_snap, lower_bound>>
      BY <1>6, <2>4 DEF AdjustNewOpLowerBound
    <3> QED
      BY <1>b, <1>c, <1>d, <2>1, <2>2, <3>1 DEF CleanTimeInv
  <2> QED
    BY <2>3, <2>4
<1>7. ASSUME UNCHANGED opVars, open' => open PROVE SnapInv'
  <2>1. InFlight' = InFlight /\ UNCHANGED <<cur_snap, lower_bound, earliest, applied>>
    BY <1>7 DEF opVars, InFlight
  <2> QED
    BY <1>7, <1>b, <1>c, <1>d, <2>1 DEF EarliestInv, CleanTimeInv
<1>8. CASE CloseStore \/ CloseWake
  BY <1>7, <1>8 DEF CloseStore, CloseWake
<1>9. ASSUME NEW w \in Threads,
             \/ \E ts \in Timestamps : CallWaitForSnapshot(w, ts)
             \/ CallWaitForApplyingOps(w)
             \/ WaitUntilDeadline(w)
             \/ WaitUntilStep(w)
      PROVE  SnapInv'
  <2>1. UNCHANGED <<opVars, closeVars>>
    BY <1>9 DEF CallWaitForSnapshot, CallWaitForApplyingOps, WaitUntilDeadline,
                WaitUntilStep, ScanApplyingOps, WaitUntilCheckOpen, WaitUntilRegister,
                WaitUntilWoken, WaitUntilCleanup
  <2> QED
    BY <1>7, <2>1 DEF closeVars
<1>10. CASE UNCHANGED mvccVars
  BY <1>7, <1>10 DEF mvccVars, closeVars
<1> QED
  BY <1>2, <1>3, <1>4, <1>5, <1>6, <1>8, <1>9, <1>10 DEF Next

\* The latest snapshot is exact: it contains every op that finished and no op in
\* flight, whatever the order of finishes, aborts and lower-bound moves.
THEOREM SnapshotCorrect == Spec => [](WatermarkInv /\ SnapshotExact)
<1>1. SnapInv => WatermarkInv /\ SnapshotExact
  BY DEF SnapInv
<1> QED
  BY <1>1, SnapInit, SnapStep, PTL DEF Spec

-----------------------------------------------------------------------------
(***************************************************************************)
(* What a step may never do to the snapshot.                               *)
(***************************************************************************)
\* The clean time only advances, and only an op in flight becomes applied.
LEMMA SnapshotAdvances ==
  ASSUME SnapInv, [Next]_mvccVars
  PROVE  /\ cur_snap.all_applied_before <= cur_snap'.all_applied_before
         /\ applied \subseteq applied'
         /\ applied' \ applied \subseteq InFlight
<1> USE DEF SnapInv, WatermarkInv
<1>a. /\ cur_snap \in SnapshotType /\ applied \in SUBSET Timestamps
      /\ earliest \in 1 .. kMax /\ lower_bound \in 0 .. (kMax - 1)
  BY DEF TypeOK
<1>b. ShapeOf(cur_snap, applied)
  BY DEF SnapshotShapeInv
<1>c. cur_snap.all_applied_before <= cur_snap.all_applied_before
  BY <1>a, kMaxAssumption DEF SnapshotType
<1>1. ASSUME UNCHANGED <<cur_snap, applied>>
      PROVE  /\ cur_snap.all_applied_before <= cur_snap'.all_applied_before
             /\ applied \subseteq applied'
             /\ applied' \ applied \subseteq InFlight
  BY <1>1, <1>c
<1>2. ASSUME NEW ts \in Timestamps, FinishApplyingOp(ts)
      PROVE  /\ cur_snap.all_applied_before <= cur_snap'.all_applied_before
             /\ applied \subseteq applied'
             /\ applied' \ applied \subseteq InFlight
  <2> DEFINE snap == AddAppliedTimestamp(cur_snap, ts)
  <2>1. ts \in InFlight /\ applied' = applied \cup {ts}
    BY <1>2 DEF FinishApplyingOp, InFlight
  <2>2. ts \notin applied /\ ts >= cur_snap.all_applied_before
    BY <2>1, InFlightFacts
  <2>3. /\ snap \in SnapshotType
        /\ ShapeOf(snap, applied')
        /\ snap.all_applied_before = cur_snap.all_applied_before
    BY <1>a, <1>b, <2>1, <2>2, AddAppliedShape, AddAppliedType
  <2>4. TypeOK'
    BY TypeStep
  <2>5. earliest' \in 1 .. kMax /\ applied' \in SUBSET Timestamps
    BY <2>4 DEF TypeOK
  <2>6. cur_snap.all_applied_before <= earliest'
    <3>1. SnapInv'
      BY SnapStep
    <3>2. CASE earliest = ts
      <4>1. earliest' = AdvanceEarliestInFlightTimestamp(InFlight \ {ts})
        BY <1>2, <3>2 DEF FinishApplyingOp
      <4>2. IsEarliest(earliest', InFlight \ {ts})
        BY <4>1, EarliestExists DEF InFlight
      <4>3. \A t \in InFlight : cur_snap.all_applied_before <= t
        BY <1>a, InFlightFacts, kMaxAssumption DEF SnapshotType, Timestamps
      <4> QED
        BY <1>a, <4>2, <4>3, kMaxAssumption DEF IsEarliest, SnapshotType
    <3>3. CASE earliest # ts
      BY <1>2, <3>3 DEF FinishApplyingOp, CleanTimeInv
    <3> QED
      BY <3>2, <3>3
  <2> HIDE DEF snap
  <2>7. CASE earliest = ts /\ lower_bound >= ts
    <3>1. cur_snap' = CleanedSnap(snap, earliest', lower_bound)
      BY <1>2, <2>7 DEF FinishApplyingOp, snap
    <3>2. lower_bound \in 1 .. (kMax - 1)
      BY <1>a, <2>7, kMaxAssumption DEF Timestamps
    <3>3. snap.all_applied_before <= lower_bound
      BY <1>a, <2>2, <2>3, <2>7, <3>2, kMaxAssumption DEF SnapshotType, Timestamps
    <3>4. snap.all_applied_before <= cur_snap'.all_applied_before
      BY <2>3, <2>5, <2>6, <3>1, <3>2, <3>3, CleanedShape
    <3> QED
      BY <2>1, <2>3, <3>4
  <2>8. CASE ~ (earliest = ts /\ lower_bound >= ts)
    <3>1. cur_snap' = snap
      BY <1>2, <2>8 DEF FinishApplyingOp, snap
    <3> QED
      BY <1>c, <2>1, <2>3, <3>1
  <2> QED
    BY <2>7, <2>8
<1>3. ASSUME NEW ts \in Timestamps, AdjustNewOpLowerBound(ts)
      PROVE  /\ cur_snap.all_applied_before <= cur_snap'.all_applied_before
             /\ applied \subseteq applied'
             /\ applied' \ applied \subseteq InFlight
  <2>1. applied' = applied
    BY <1>3 DEF AdjustNewOpLowerBound
  <2>2. CASE lower_bound <= ts
    <3>1. cur_snap' = CleanedSnap(cur_snap, earliest, ts)
      BY <1>3, <2>2 DEF AdjustNewOpLowerBound
    <3>2. ts \in 1 .. (kMax - 1)
      BY DEF Timestamps
    <3>3. cur_snap.all_applied_before <= earliest /\ cur_snap.all_applied_before <= ts
      BY <1>a, <2>2, <3>2, kMaxAssumption DEF CleanTimeInv, SnapshotType, kInitialTimestamp
    <3> QED
      BY <1>a, <1>b, <2>1, <3>1, <3>2, <3>3, CleanedShape
  <2>3. CASE ~ (lower_bound <= ts)
    BY <1>1, <1>3, <2>1, <2>3 DEF AdjustNewOpLowerBound
  <2> QED
    BY <2>2, <2>3
<1>4. ASSUME NEW ts \in Timestamps, StartOp(ts) \/ StartApplyingOp(ts) \/ AbortOp(ts)
      PROVE  UNCHANGED <<cur_snap, applied>>
  BY <1>4 DEF StartOp, StartApplyingOp, AbortOp
<1>5. ASSUME \/ CloseStore
             \/ CloseWake
             \/ \E w \in Threads : \/ \E ts \in Timestamps : CallWaitForSnapshot(w, ts)
                                   \/ CallWaitForApplyingOps(w)
                                   \/ WaitUntilDeadline(w)
                                   \/ WaitUntilStep(w)
             \/ UNCHANGED mvccVars
      PROVE  UNCHANGED <<cur_snap, applied>>
  <2>1. UNCHANGED opVars
    BY <1>5 DEF CloseStore, CloseWake, CallWaitForSnapshot, CallWaitForApplyingOps,
                WaitUntilDeadline, WaitUntilStep, ScanApplyingOps, WaitUntilCheckOpen,
                WaitUntilRegister, WaitUntilWoken, WaitUntilCleanup, mvccVars
  <2> QED
    BY <2>1 DEF opVars
<1> QED
  BY <1>1, <1>2, <1>3, <1>4, <1>5 DEF Next

\* Once the latest snapshot calls a timestamp applied it does so for ever.
THEOREM AppliedStays == Spec => AppliedIsStable
<1>1. ASSUME SnapInv, [Next]_mvccVars
      PROVE  \A t \in Timestamps : IsAppliedIn(cur_snap, t) => IsAppliedIn(cur_snap', t)
  <2>1. SnapInv'
    BY <1>1, SnapStep
  <2>2. /\ cur_snap \in SnapshotType /\ cur_snap' \in SnapshotType
        /\ applied \in SUBSET Timestamps /\ applied' \in SUBSET Timestamps
        /\ ShapeOf(cur_snap, applied) /\ ShapeOf(cur_snap', applied')
    BY <1>1, <2>1 DEF SnapInv, TypeOK, WatermarkInv, SnapshotShapeInv
  <2>3. cur_snap.all_applied_before <= cur_snap'.all_applied_before /\ applied \subseteq applied'
    BY <1>1, SnapshotAdvances
  <2> SUFFICES ASSUME NEW t \in Timestamps, IsAppliedIn(cur_snap, t)
               PROVE  IsAppliedIn(cur_snap', t)
    OBVIOUS
  <2>4. t < cur_snap.all_applied_before \/ t \in applied
    BY <2>2, IsAppliedMeaning
  <2>5. t < cur_snap'.all_applied_before \/ t \in applied'
    BY <2>2, <2>3, <2>4, kMaxAssumption DEF SnapshotType, Timestamps
  <2> QED
    BY <2>2, <2>5, IsAppliedMeaning
<1>2. SnapInv /\ [Next]_mvccVars =>
        [\A t \in Timestamps : IsAppliedIn(cur_snap, t) => IsAppliedIn(cur_snap, t)']_mvccVars
  BY <1>1
<1> QED
  BY <1>2, SnapInit, SnapStep, PTL DEF Spec, AppliedIsStable

\* The outcome of every timestamp below the clean time is settled.
THEOREM CleanTimeSettles == Spec => SettledBelowCleanTime
<1>1. ASSUME SnapInv, [Next]_mvccVars,
             NEW t \in Timestamps, t < cur_snap.all_applied_before
      PROVE  t \notin InFlight' /\ (t \in applied' <=> t \in applied)
  <2>1. SnapInv'
    BY <1>1, SnapStep
  <2>2. cur_snap \in SnapshotType /\ cur_snap' \in SnapshotType
    BY <1>1, <2>1 DEF SnapInv, TypeOK
  <2>3. /\ cur_snap.all_applied_before <= cur_snap'.all_applied_before
        /\ applied \subseteq applied'
        /\ applied' \ applied \subseteq InFlight
    BY <1>1, SnapshotAdvances
  <2>4. t \notin InFlight
    BY <1>1, <2>2, InFlightFacts, kMaxAssumption DEF SnapshotType, Timestamps
  <2>5. t < cur_snap'.all_applied_before
    BY <1>1, <2>2, <2>3, kMaxAssumption DEF SnapshotType, Timestamps
  <2>6. IsAppliedIn(cur_snap', t)
    BY <2>5 DEF IsAppliedIn
  <2>7. t \notin InFlight'
    BY <2>1, <2>6 DEF SnapInv, SnapshotExact
  <2> QED
    BY <2>3, <2>4, <2>7
<1>2. SnapInv /\ [Next]_mvccVars =>
        [\A t \in Timestamps : t < cur_snap.all_applied_before =>
            /\ t \notin InFlight'
            /\ t \in applied' <=> t \in applied]_mvccVars
  BY <1>1
<1> QED
  BY <1>2, SnapInit, SnapStep, PTL DEF Spec, SettledBelowCleanTime

-----------------------------------------------------------------------------
(***************************************************************************)
(* The waiting threads. An op that was APPLYING when a thread looked stays *)
(* so until it has finished, as long as MVCC is open: only then does a     *)
(* latch that was counted down, or an immediate return, say that it has.   *)
(***************************************************************************)
ThreadOK(r) ==
    /\ r.pc \in {"idle", "scanning", "entering", "checked"} => r.latch = 1
    /\ r.pc \in {"idle", "scanning"} => r.wait_for = "ALL_APPLIED"
    /\ r.wait_for = "ALL_APPLIED" => r.called = {}
    /\ \A t \in r.called : t <= r.ts
    /\ open => r.called \subseteq Applying \cup applied
    /\ open /\ (r.latch = 0 \/ r.pc = "ok") => r.called \subseteq applied

ThreadInv(w) == ThreadOK(thread[w])

WaitInv ==
    /\ closing => ~ open
    /\ \A w \in Threads : ThreadInv(w)
    /\ WaitersMatchLatches

\* The threads done, which were in waiters_, are woken.
Wakes(done) ==
    /\ done \subseteq waiters
    /\ waiters' = waiters \ done
    /\ thread' = [w \in Threads |->
                    IF w \in done THEN [thread[w] EXCEPT !.latch = 0] ELSE thread[w]]

\* A step of an op, which wakes threads only when what they wait for has come.
LEMMA OpStepKeepsWait ==
  ASSUME TypeOK, WaitInv, open' = open, closing' => closing, NEW done, Wakes(done),
         applied \subseteq applied', open => Applying \cup applied \subseteq Applying' \cup applied',
         open => \A w \in done : thread[w].called \subseteq applied'
  PROVE  WaitInv'
<1>1. open' = open /\ (closing' => ~ open')
  BY DEF WaitInv
<1>2. \A w \in Threads :
         /\ w \in done => thread'[w] = [thread[w] EXCEPT !.latch = 0]
         /\ w \notin done => thread'[w] = thread[w]
         /\ thread[w] \in ThreadType
         /\ w \in done => w \in waiters
  BY DEF Wakes, TypeOK
<1>3. ASSUME NEW w \in Threads PROVE ThreadInv(w)'
  <2>1. CASE w \in done
    <3>1. /\ thread'[w].pc = thread[w].pc /\ thread'[w].wait_for = thread[w].wait_for
          /\ thread'[w].ts = thread[w].ts /\ thread'[w].called = thread[w].called
          /\ thread[w].pc \in {"waiting", "expired"}
      BY <1>2, <2>1 DEF ThreadType, WaitInv, WaitersMatchLatches
    <3> QED
      BY <1>1, <2>1, <3>1 DEF WaitInv, ThreadInv, ThreadOK
  <2>2. CASE w \notin done
    <3>1. thread'[w] = thread[w] /\ ThreadInv(w)
      BY <1>2, <2>2 DEF WaitInv
    <3> QED
      BY <1>1, <3>1 DEF ThreadInv, ThreadOK
  <2> QED
    BY <2>1, <2>2
<1>4. WaitersMatchLatches'
  <2> SUFFICES ASSUME NEW w \in Threads
               PROVE  w \in waiters' <=> /\ thread'[w].pc \in {"waiting", "expired"}
                                         /\ thread'[w].latch = 1
    BY DEF WaitersMatchLatches
  <2>1. CASE w \in done
    <3>1. thread'[w].latch = 0
      BY <1>2, <2>1 DEF ThreadType
    <3> QED
      BY <2>1, <3>1 DEF Wakes
  <2>2. CASE w \notin done
    BY <1>2, <2>2 DEF Wakes, WaitInv, WaitersMatchLatches
  <2> QED
    BY <2>1, <2>2
<1> QED
  BY <1>1, <1>3, <1>4 DEF WaitInv

\* WakeDoneWaiters wakes only such threads: what a thread saw APPLYING is at or
\* before the timestamp it waits for.
LEMMA WakeKeepsWait ==
  ASSUME TypeOK, WaitInv, UNCHANGED closeVars, NEW snap, NEW first, NEW ops,
         WakeDoneWaiters(snap, first, ops), Applying' \subseteq ops,
         applied \subseteq applied', open => Applying \cup applied \subseteq Applying' \cup applied'
  PROVE  WaitInv'
<1> DEFINE done == {w \in waiters : IsDoneWaiting(w, snap, first, ops)}
<1>1. Wakes(done)
  BY DEF Wakes, WakeDoneWaiters
<1>2. ASSUME open, NEW w \in done PROVE thread[w].called \subseteq applied'
  <2>1. w \in Threads /\ ThreadInv(w)
    BY <1>2 DEF TypeOK, WaitInv
  <2>2. CASE thread[w].wait_for = "ALL_APPLIED"
    BY <2>1, <2>2 DEF ThreadInv, ThreadOK
  <2>3. CASE thread[w].wait_for # "ALL_APPLIED"
    <3>1. \A t \in ops : ~ (t <= thread[w].ts)
      BY <1>2, <2>3 DEF IsDoneWaiting, AnyApplyingAtOrBefore
    <3> QED
      BY <1>2, <2>1, <3>1 DEF ThreadInv, ThreadOK
  <2> QED
    BY <2>2, <2>3
<1> HIDE DEF done
<1> QED
  BY <1>1, <1>2, OpStepKeepsWait DEF closeVars

\* Nobody is woken.
LEMMA QuietOpKeepsWait ==
  ASSUME TypeOK, WaitInv, UNCHANGED closeVars, UNCHANGED threadVars,
         applied \subseteq applied', open => Applying \cup applied \subseteq Applying' \cup applied'
  PROVE  WaitInv'
<1>1. Wakes({})
  BY DEF Wakes, threadVars, TypeOK
<1> QED
  BY <1>1, OpStepKeepsWait DEF closeVars

LEMMA WaitInit == Init => WaitInv
<1> SUFFICES ASSUME Init PROVE WaitInv
  OBVIOUS
<1>1. \A w \in Threads : thread[w] = [pc |-> "idle", wait_for |-> "ALL_APPLIED", ts |-> kMin,
                                      latch |-> 1, called |-> {}]
  BY DEF Init
<1> QED
  BY <1>1 DEF Init, WaitInv, ThreadInv, ThreadOK, WaitersMatchLatches

\* Thread w becomes r and enters or leaves waiters_ by itself.
LEMMA OneThreadKeepsWait ==
  ASSUME TypeOK, WaitInv, UNCHANGED <<opVars, closeVars>>, NEW w \in Threads, NEW r,
         thread' = [thread EXCEPT ![w] = r],
         waiters \ {w} = waiters' \ {w},
         w \in waiters' <=> r.pc \in {"waiting", "expired"} /\ r.latch = 1,
         ThreadOK(r)
  PROVE  WaitInv'
<1>1. UNCHANGED <<open, closing, applied, ops_in_flight>> /\ Applying' = Applying
  BY DEF opVars, closeVars, Applying
<1>2. thread'[w] = r /\ \A v \in Threads \ {w} : thread'[v] = thread[v]
  BY DEF TypeOK
<1>3. \A v \in Threads : ThreadInv(v)'
  BY <1>1, <1>2 DEF WaitInv, ThreadInv, ThreadOK
<1>4. WaitersMatchLatches'
  BY <1>2 DEF WaitInv, WaitersMatchLatches
<1> QED
  BY <1>1, <1>3, <1>4 DEF WaitInv

\* The steps of a thread that only move its pc.
LEMMA GotoKeepsWait ==
  ASSUME TypeOK, WaitInv, UNCHANGED <<opVars, closeVars>>, NEW w \in Threads, NEW pc,
         Goto(w, pc), waiters \ {w} = waiters' \ {w},
         w \in waiters' <=> pc \in {"waiting", "expired"} /\ thread[w].latch = 1,
         pc \in {"idle", "scanning", "entering", "checked"} => thread[w].latch = 1,
         pc \in {"idle", "scanning"} => thread[w].wait_for = "ALL_APPLIED",
         open /\ pc = "ok" => thread[w].called \subseteq applied
  PROVE  WaitInv'
<1> DEFINE r == [thread[w] EXCEPT !.pc = pc]
<1>1. thread' = [thread EXCEPT ![w] = r] /\ thread[w] \in ThreadType
  BY DEF Goto, TypeOK
<1>2. /\ r.pc = pc /\ r.wait_for = thread[w].wait_for /\ r.ts = thread[w].ts
      /\ r.latch = thread[w].latch /\ r.called = thread[w].called
  BY <1>1 DEF ThreadType
<1>3. ThreadInv(w)
  BY DEF WaitInv
<1> HIDE DEF r
<1>4. ThreadOK(r)
  BY <1>2, <1>3 DEF ThreadInv, ThreadOK
<1> QED
  BY <1>1, <1>2, <1>4, OneThreadKeepsWait

LEMMA ThreadStepKeepsWait ==
  ASSUME TypeOK, WaitInv, NEW w \in Threads,
         \/ \E ts \in Timestamps : CallWaitForSnapshot(w, ts)
         \/ CallWaitForApplyingOps(w)
         \/ WaitUntilDeadline(w)
         \/ WaitUntilStep(w)
  PROVE  WaitInv'
<1>1. UNCHANGED <<opVars, closeVars>>
  BY DEF CallWaitForSnapshot, CallWaitForApplyingOps, WaitUntilDeadline, WaitUntilStep,
         ScanApplyingOps, WaitUntilCheckOpen, WaitUntilRegister, WaitUntilWoken, WaitUntilCleanup
<1>2. ThreadInv(w) /\ thread[w] \in ThreadType
  BY DEF WaitInv, TypeOK
<1>3. w \in waiters <=> thread[w].pc \in {"waiting", "expired"} /\ thread[w].latch = 1
  BY DEF WaitInv, WaitersMatchLatches
<1>4. ASSUME NEW ts \in Timestamps, CallWaitForSnapshot(w, ts) PROVE WaitInv'
  <2> DEFINE r == [thread[w] EXCEPT !.pc = "entering", !.ts = ts, !.wait_for = "ALL_APPLIED"]
  <2>1. thread' = [thread EXCEPT ![w] = r] /\ thread[w].pc = "idle" /\ UNCHANGED waiters
    BY <1>4 DEF CallWaitForSnapshot
  <2>2. /\ r.pc = "entering" /\ r.wait_for = "ALL_APPLIED"
        /\ r.latch = thread[w].latch /\ r.called = thread[w].called
    BY <1>2 DEF ThreadType
  <2>3. r.called = {} /\ r.latch = 1
    BY <1>2, <2>1, <2>2 DEF ThreadInv, ThreadOK
  <2> HIDE DEF r
  <2>4. ThreadOK(r)
    BY <2>2, <2>3 DEF ThreadOK
  <2> QED
    BY <1>1, <1>3, <2>1, <2>2, <2>4, OneThreadKeepsWait
<1>5. CASE CallWaitForApplyingOps(w)
  BY <1>1, <1>2, <1>3, <1>5, GotoKeepsWait DEF CallWaitForApplyingOps, ThreadInv, ThreadOK
<1>6. CASE ScanApplyingOps(w)
  <2>1. thread[w].pc = "scanning" /\ UNCHANGED waiters /\ thread[w].called = {}
    BY <1>2, <1>6 DEF ScanApplyingOps, ThreadInv, ThreadOK
  <2>2. CASE Applying = {}
    BY <1>1, <1>2, <1>3, <1>6, <2>1, <2>2, GotoKeepsWait DEF ScanApplyingOps, ThreadInv, ThreadOK
  <2>3. CASE Applying # {}
    <3>1. PICK last \in Applying :
             /\ \A t \in Applying : t <= last
             /\ thread' = [thread EXCEPT ![w] = [@ EXCEPT !.pc = "entering",
                                                          !.ts = last,
                                                          !.wait_for = "NONE_APPLYING",
                                                          !.called = Applying]]
      BY <1>6, <2>3 DEF ScanApplyingOps
    <3> DEFINE r == [thread[w] EXCEPT !.pc = "entering", !.ts = last,
                                      !.wait_for = "NONE_APPLYING", !.called = Applying]
    <3>2. thread' = [thread EXCEPT ![w] = r]
      BY <3>1
    <3>3. /\ r.pc = "entering" /\ r.wait_for = "NONE_APPLYING" /\ r.ts = last
          /\ r.latch = thread[w].latch /\ r.called = Applying
      BY <1>2 DEF ThreadType
    <3>4. r.latch = 1
      BY <1>2, <2>1, <3>3 DEF ThreadInv, ThreadOK
    <3>5. \A t \in r.called : t <= r.ts
      BY <3>1, <3>3
    <3>6. w \notin waiters'
      BY <1>3, <2>1
    <3> HIDE DEF r
    <3>7. ThreadOK(r)
      BY <3>3, <3>4, <3>5 DEF ThreadOK
    <3> QED
      BY <1>1, <2>1, <3>2, <3>3, <3>6, <3>7, OneThreadKeepsWait
  <2> QED
    BY <2>2, <2>3
<1>7. CASE WaitUntilCheckOpen(w)
  BY <1>1, <1>2, <1>3, <1>7, GotoKeepsWait DEF WaitUntilCheckOpen, ThreadInv, ThreadOK
<1>8. CASE WaitUntilRegister(w)
  <2>1. thread[w].pc = "checked" /\ thread[w].latch = 1 /\ w \notin waiters
    BY <1>2, <1>3, <1>8 DEF WaitUntilRegister, ThreadInv, ThreadOK
  <2>2. CASE IsDoneWaiting(w, cur_snap, earliest, InFlight)
    <3>1. open => thread[w].called \subseteq applied
      <4>1. CASE thread[w].wait_for = "ALL_APPLIED"
        BY <1>2, <4>1 DEF ThreadInv, ThreadOK
      <4>2. CASE thread[w].wait_for # "ALL_APPLIED"
        <5>1. \A t \in InFlight : ~ (t <= thread[w].ts)
          BY <2>2, <4>2 DEF IsDoneWaiting, AnyApplyingAtOrBefore
        <5>2. Applying \subseteq InFlight
          BY DEF Applying, InFlight
        <5> QED
          BY <1>2, <5>1, <5>2 DEF ThreadInv, ThreadOK
      <4> QED
        BY <4>1, <4>2
    <3>2. Goto(w, "ok") /\ UNCHANGED waiters
      BY <1>8, <2>2 DEF WaitUntilRegister
    <3> QED
      BY <1>1, <2>1, <3>1, <3>2, GotoKeepsWait
  <2>3. CASE ~ IsDoneWaiting(w, cur_snap, earliest, InFlight)
    <3>1. Goto(w, "waiting") /\ waiters' = waiters \cup {w}
      BY <1>8, <2>3 DEF WaitUntilRegister
    <3> QED
      BY <1>1, <2>1, <3>1, GotoKeepsWait
  <2> QED
    BY <2>2, <2>3
<1>9. CASE WaitUntilWoken(w)
  BY <1>1, <1>2, <1>3, <1>9, GotoKeepsWait DEF WaitUntilWoken, ThreadInv, ThreadOK
<1>10. CASE WaitUntilDeadline(w)
  BY <1>1, <1>2, <1>3, <1>10, GotoKeepsWait DEF WaitUntilDeadline, ThreadInv, ThreadOK
<1>11. CASE WaitUntilCleanup(w)
  <2>1. CASE thread[w].latch = 0
    BY <1>1, <1>2, <1>3, <1>11, <2>1, GotoKeepsWait DEF WaitUntilCleanup, ThreadInv, ThreadOK
  <2>2. CASE thread[w].latch # 0
    BY <1>1, <1>2, <1>3, <1>11, <2>2, GotoKeepsWait DEF WaitUntilCleanup, ThreadInv, ThreadOK
  <2> QED
    BY <2>1, <2>2
<1> QED
  BY <1>4, <1>5, <1>6, <1>7, <1>8, <1>9, <1>10, <1>11 DEF WaitUntilStep

LEMMA WaitStep == TypeOK /\ WaitInv /\ [Next]_mvccVars => WaitInv'
<1> SUFFICES ASSUME TypeOK, WaitInv, [Next]_mvccVars PROVE WaitInv'
  OBVIOUS
<1>1. ASSUME NEW ts \in Timestamps, StartOp(ts) \/ StartApplyingOp(ts) \/ AbortOp(ts)
      PROVE  WaitInv'
  <2>1. UNCHANGED <<closeVars, threadVars, applied>>
    BY <1>1 DEF StartOp, StartApplyingOp, AbortOp
  <2>2. open => Applying \subseteq Applying'
    BY <1>1 DEF StartOp, StartApplyingOp, AbortOp, StartOpAllowed, Applying, InFlight, TypeOK
  <2> QED
    BY <2>1, <2>2, QuietOpKeepsWait
<1>2. ASSUME NEW ts \in Timestamps, FinishApplyingOp(ts) PROVE WaitInv'
  <2> DEFINE first == IF earliest = ts THEN AdvanceEarliestInFlightTimestamp(InFlight \ {ts})
                      ELSE earliest
             snap  == CleanedSnap(AddAppliedTimestamp(cur_snap, ts), first, lower_bound)
  <2>1. /\ UNCHANGED closeVars /\ applied' = applied \cup {ts}
        /\ UNCHANGED threadVars \/ WakeDoneWaiters(snap, first, InFlight \ {ts})
        /\ ops_in_flight' = [ops_in_flight EXCEPT ![ts] = "NONE"]
    BY <1>2 DEF FinishApplyingOp
  <2>2. /\ Applying' \subseteq InFlight \ {ts}
        /\ Applying \cup applied \subseteq Applying' \cup applied'
    BY <2>1 DEF Applying, InFlight, TypeOK
  <2> HIDE DEF first, snap
  <2> QED
    BY <2>1, <2>2, WakeKeepsWait, QuietOpKeepsWait
<1>3. ASSUME NEW ts \in Timestamps, AdjustNewOpLowerBound(ts) PROVE WaitInv'
  <2>1. /\ UNCHANGED <<closeVars, applied, ops_in_flight>>
        /\ \/ UNCHANGED threadVars
           \/ WakeDoneWaiters(CleanedSnap(cur_snap, earliest, ts), earliest, InFlight)
    BY <1>3 DEF AdjustNewOpLowerBound
  <2>2. Applying' = Applying /\ Applying \subseteq InFlight
    BY <2>1 DEF Applying, InFlight
  <2> QED
    BY <2>1, <2>2, WakeKeepsWait, QuietOpKeepsWait
<1>4. CASE CloseStore
  <2>1. open' = FALSE /\ UNCHANGED threadVars
    BY <1>4 DEF CloseStore
  <2> QED
    BY <2>1 DEF WaitInv, ThreadInv, ThreadOK, WaitersMatchLatches, threadVars
<1>5. CASE CloseWake
  <2>1. ~ open /\ open' = open /\ ~ closing' /\ UNCHANGED applied
    BY <1>5 DEF CloseWake, WaitInv, opVars
  <2>2. Wakes(waiters)
    BY <1>5 DEF CloseWake, Wakes
  <2> QED
    BY <2>1, <2>2, OpStepKeepsWait
<1>6. ASSUME NEW w \in Threads,
             \/ \E ts \in Timestamps : CallWaitForSnapshot(w, ts)
             \/ CallWaitForApplyingOps(w)
             \/ WaitUntilDeadline(w)
             \/ WaitUntilStep(w)
      PROVE  WaitInv'
  BY <1>6, ThreadStepKeepsWait
<1>7. CASE UNCHANGED mvccVars
  BY <1>7, QuietOpKeepsWait DEF mvccVars, opVars, Applying
<1> QED
  BY <1>1, <1>2, <1>3, <1>4, <1>5, <1>6, <1>7 DEF Next

\* The cleanup of an expired wait always finds its entry, and a woken thread,
\* whose WaitingState is gone, never stays in waiters_ (WaitUntil, Close,
\* AdjustCleanTimeUnlocked).
THEOREM WaitersMatch == Spec => []WaitersMatchLatches
<1>1. WaitInv => WaitersMatchLatches
  BY DEF WaitInv
<1> QED
  BY <1>1, TypeInit, TypeStep, WaitInit, WaitStep, PTL DEF Spec

\* When WaitForApplyingOpsToApply returns OK and MVCC is open, the ops that were
\* APPLYING at the call have finished, so that the flush sees their writes.
THEOREM ApplyingOpsAreFinished == Spec => []ApplyingOpsFinished
<1>1. WaitInv => ApplyingOpsFinished
  BY DEF WaitInv, ThreadInv, ThreadOK, ApplyingOpsFinished
<1> QED
  BY <1>1, TypeInit, TypeStep, WaitInit, WaitStep, PTL DEF Spec
=============================================================================
