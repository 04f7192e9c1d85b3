----------------------------- MODULE ResultTracker -----------------------------
(***************************************************************************)
(* The ResultTracker of a server (rpc/result_tracker.cc) as functions on   *)
(* its state for one client. It makes the attempts of an RPC execute once: *)
(* the first one is executed, later ones are attached to it or get the     *)
(* cached response. A replicated RPC may have two handlers on one server,  *)
(* an attempt of the client and the operation of a former leader: then one *)
(* of them is the driver.                                                  *)
(*                                                                         *)
(* A request id has a sequence number seq, the number no of the attempt,   *)
(* and the client's first incomplete sequence number, first. A response is *)
(* represented by the operation whose response it is.                      *)
(***************************************************************************)
EXTENDS Naturals, FiniteSetsExt

CONSTANT Seqs       \* the sequence numbers of the client

ASSUME SeqsAssumption == Seqs \subseteq Nat \ {0} /\ IsFiniteSet(Seqs)

NO_HANDLER == 0

NoRecord == [state |-> "none"]

\* stale: stale_before_seq_no, 0 if nothing was heard of the client yet.
\* An ongoing RPC is answered by its handler; its call is the attempt that waits
\* for the answer, 0 if it is no client's.
NewTracker == [stale |-> 0, records |-> [q \in Seqs |-> NoRecord]]

OngoingRpc(handler, call) == [handler |-> handler, call |-> call]

CompletionRecords(attempts, results) ==
    [state : {"IN_PROGRESS", "COMPLETED"}, driver : attempts, result : results,
     ongoing : SUBSET [handler : attempts \cup {NO_HANDLER}, call : attempts \cup {0}]]

WithRecord(t, q, r) == [t EXCEPT !.records[q] = r]

\* The completed records among old are erased, in order of their numbers and up to
\* the first record that is not among them.
GCCompletionRecords(t, old) ==
    LET kept(q) == t.records[q] # NoRecord
                       /\ (q \notin old \/ t.records[q].state # "COMPLETED")
        gone == {q \in Seqs : t.records[q] # NoRecord /\ \A p \in Seqs : p <= q => ~kept(p)}
    IN  [stale |-> Max({t.stale} \cup {q + 1 : q \in gone}),
         records |-> [q \in Seqs |-> IF q \in gone THEN NoRecord ELSE t.records[q]]]

\* TrackRpcUnlocked: what it returns and what the tracker becomes. call is the
\* attempt if a client waits for the answer, 0 otherwise.
Tracked(t, id, call) ==
    LET c == IF t.stale = 0 THEN [t EXCEPT !.stale = id.first] ELSE t
        g == GCCompletionRecords(c, {q \in Seqs : q < id.first})
        r == g.records[id.seq]
        own == IF call = 0 THEN {} ELSE {OngoingRpc(id.no, call)}
        attached == IF call = 0 THEN {} ELSE {OngoingRpc(NO_HANDLER, call)}
    IN  CASE id.seq < c.stale -> [state |-> "STALE", tracker |-> c]
          [] id.seq >= c.stale /\ r = NoRecord ->
                [state |-> "NEW",
                 tracker |-> WithRecord(g, id.seq, [state |-> "IN_PROGRESS", driver |-> id.no,
                                                    result |-> 0, ongoing |-> own])]
          [] id.seq >= c.stale /\ r.state = "COMPLETED" ->
                [state |-> "COMPLETED", tracker |-> g]
          [] OTHER ->
                [state |-> "IN_PROGRESS",
                 tracker |-> [g EXCEPT !.records[id.seq].ongoing = @ \cup attached]]

TrackRpc(t, id) == Tracked(t, id, id.no)

ChangeDriverQuietly(t, id) ==
    LET x == Tracked(t, id, 0)
    IN  IF x.state # "IN_PROGRESS" THEN x
        ELSE [state |-> "NEW", tracker |-> [x.tracker EXCEPT !.records[id.seq].driver = id.no]]

TrackRpcOrChangeDriver(t, id) ==
    LET x == Tracked(t, id, 0)
    IN  IF x.state # "IN_PROGRESS" THEN x
        ELSE [state |-> "NEW",
              tracker |-> WithRecord(x.tracker, id.seq,
                             [x.tracker.records[id.seq] EXCEPT
                                 !.driver = id.no, !.ongoing = @ \cup {OngoingRpc(id.no, 0)}])]

IsTracked(t, id) == t.records[id.seq] # NoRecord

IsCurrentDriver(t, id) == IsTracked(t, id) /\ t.records[id.seq].driver = id.no

MustHandleRpc(r, no, rpc) == rpc.handler = no \/ (r.driver = no /\ rpc.handler = NO_HANDLER)

\* The ongoing RPCs that the handler of attempt no does not answer.
OthersRpcs(r, no) == {rpc \in r.ongoing : ~MustHandleRpc(r, no, rpc)}

RecordCompletionAndRespond(t, id, result) ==
    LET r == t.records[id.seq]
    IN  WithRecord(t, id.seq, [r EXCEPT !.state = "COMPLETED", !.result = result,
                                        !.ongoing = OthersRpcs(r, id.no)])

FailAndRemember(t, id) ==
    IF ~IsTracked(t, id) THEN t
    ELSE WithRecord(t, id.seq, [t.records[id.seq] EXCEPT !.state = "COMPLETED",
                                   !.ongoing = OthersRpcs(t.records[id.seq], id.no)])

FailAndRespond(t, id) ==
    LET r == t.records[id.seq]
        others == OthersRpcs(r, id.no)
    IN  CASE ~IsTracked(t, id) -> t
          [] IsTracked(t, id) /\ others = {} /\ r.state # "COMPLETED" ->
                WithRecord(t, id.seq, NoRecord)
          [] OTHER -> [t EXCEPT !.records[id.seq].ongoing = others]

\* GCResults, when the responses up to q are older than their time to live.
GCResults(t, q) == GCCompletionRecords(t, {p \in Seqs : p <= q})
===============================================================================
