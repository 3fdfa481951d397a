------------------------------- MODULE Outbox -------------------------------
(***************************************************************************)
(* The outbox (crates/outbox): a relay task takes messages from a channel, *)
(* hands them to their actors and acks, requeues or dead-letters them.     *)
(* The relay gets its AIMD limiter from its caller, who may share it with  *)
(* others: here with calls of outbox_dispatch                              *)
(* (crates/wasm-runtime/src/outbox_host.rs).  The channel is the SQLite    *)
(* table, whose rows stay until they are acked, or the in-memory channel   *)
(* of a partition, whose messages are gone once received and whose ack and *)
(* nack do nothing.  A step is what runs between two awaits.               *)
(***************************************************************************)
EXTENDS Naturals, Sequences, FiniteSets, SequencesExt

CONSTANTS
    Parcels,          \* the messages
    Dispatchers,      \* concurrent calls of outbox_dispatch
    Batch,            \* relay_batch_size
    MinLimit,         \* min_limit of the limiter
    InitialLimit,     \* initial_limit
    MaxLimit,         \* max_limit
    MaxTries,         \* max_attempts of the retry policy of the outbox
    ChannelRetries,   \* max_attempts of the retry policy of the channel
    MaxOutboxFaults   \* bound on failing acks and nacks and crashes together

ASSUME OutboxAssumption ==
    /\ Batch \in Nat \ {0} /\ MaxTries \in Nat /\ ChannelRetries \in Nat \ {0}
    /\ MinLimit \in Nat \ {0} /\ MaxLimit \in Nat /\ MinLimit <= MaxLimit
    /\ InitialLimit \in Nat /\ MaxOutboxFaults \in Nat

VARIABLES
    store,       \* the kind of channel: "sqlite" or "memory"
    rows,        \* visible and delayed messages: [m, count, delayed]
    relay,       \* where the relay is in run()
    held,        \* the rest of the batch in hand
    running,     \* the running flag
    verdict,     \* what process_message() is about to tell the channel
    limit,       \* current_limit
    inFlight,    \* in_flight
    dispatch,    \* dispatch[d]: [at, attempt] of a dispatch
    sent,        \* messages that send() took
    delivered,   \* messages that reached their actor
    tried,       \* tried[m]: how often deliver() was called
    dead,        \* dead-lettered, or dropped by nack() without a DLQ
    vanished,    \* received from memory and then requeued: nobody has it
    outFaults,   \* failed acks and nacks so far
    outCrashes   \* crashes so far

outboxVars == <<store, rows, relay, held, running, verdict, limit, inFlight,
                dispatch, sent, delivered, tried, dead, vanished, outFaults, outCrashes>>

Item == [m: Parcels, count: Nat, delayed: BOOLEAN]

OutboxTypeOK ==
    /\ store \in {"sqlite", "memory"}
    /\ rows \in Seq(Item) /\ held \in Seq(Item)
    /\ relay \in {"new", "loop", "process", "deliver", "settle", "ended"}
    /\ running \in BOOLEAN
    /\ verdict \in {"none", "ack", "retry", "dead"}
    /\ limit \in MinLimit..MaxLimit /\ inFlight \in Nat
    /\ dispatch \in [Dispatchers -> [at: {"start", "sending", "accepted", "rejected"},
                                     attempt: 0..MaxTries]]
    /\ sent \subseteq Parcels /\ dead \subseteq Parcels /\ vanished \subseteq Parcels
    /\ delivered \subseteq Parcels /\ tried \in [Parcels -> Nat]
    /\ outFaults \in 0..MaxOutboxFaults /\ outCrashes \in 0..MaxOutboxFaults

AtLeast(a, b) == IF a < b THEN b ELSE a
AtMost(a, b)  == IF a > b THEN b ELSE a

OutboxInit ==
    /\ store \in {"sqlite", "memory"}
    /\ rows = <<>> /\ held = <<>>
    /\ relay = "new" /\ running = FALSE /\ verdict = "none"
    /\ limit = AtMost(AtLeast(InitialLimit, MinLimit), MaxLimit) /\ inFlight = 0
    /\ dispatch = [d \in Dispatchers |-> [at |-> "start", attempt |-> 0]]
    /\ sent = {} /\ dead = {} /\ vanished = {}
    /\ delivered = {} /\ tried = [m \in Parcels |-> 0]
    /\ outFaults = 0 /\ outCrashes = 0
-----------------------------------------------------------------------------
\* The limiter.  A permit is given out below the limit; the limit may have
\* fallen below what is in flight.
CanAcquire == inFlight < limit
Acquire    == CanAcquire /\ inFlight' = inFlight + 1 /\ UNCHANGED limit
Available  == IF inFlight < limit THEN limit - inFlight ELSE 0

OnSuccess ==
    /\ limit' = AtMost(limit + 1, MaxLimit)
    /\ inFlight' = inFlight - 1

\* Mutant: the permit of a rejected call is not returned.
OnRejectionLeaks ==
    /\ limit' = AtLeast(limit \div 2, MinLimit)
    /\ UNCHANGED inFlight

OnRejection ==
    /\ limit' = AtLeast(limit \div 2, MinLimit)
    /\ inFlight' = inFlight - 1

-----------------------------------------------------------------------------
\* The channel.  The rows that are due, in their order: the only member of
\* the set.  Memory knows no delay.
Due ==
    LET places == {i \in 1..Len(rows) : ~rows[i].delayed}
        n == Cardinality(places)
    IN  IF store = "memory" THEN {rows}
        ELSE {[k \in 1..n |-> rows[f[k]]] :
                f \in {g \in [1..n -> places] : \A j, k \in 1..n : j < k => g[j] < g[k]}}

\* The rows but the one of m: the id of a message is the key of the table.
Without(m) ==
    IF \E i \in 1..Len(rows) : rows[i].m = m
    THEN LET i == CHOOSE i \in 1..Len(rows) : rows[i].m = m
         IN  [k \in 1..(Len(rows) - 1) |-> IF k < i THEN rows[k] ELSE rows[k + 1]]
    ELSE rows

Requeued(r, wait) == [m |-> r.m, count |-> r.count + 1, delayed |-> wait]

\* ack(): the row leaves.
ChannelAck(r) ==
    /\ rows' = IF store = "memory" THEN rows ELSE Without(r.m)
    /\ UNCHANGED <<dead, vanished>>

\* nack(requeue): the row waits for its delay, behind the others; a row that
\* was requeued too often is dead-lettered or dropped.  In memory: nothing.
ChannelRequeue(r, wait) ==
    IF store = "memory"
    THEN vanished' = vanished \union {r.m} /\ UNCHANGED <<rows, dead>>
    ELSE /\ UNCHANGED vanished
         /\ IF r.count >= ChannelRetries
            THEN rows' = Without(r.m) /\ dead' = dead \union {r.m}
            ELSE /\ rows' = IF wait
                            THEN Append(Without(r.m), Requeued(r, TRUE))
                            ELSE [i \in 1..Len(rows) |->
                                    IF rows[i].m = r.m THEN Requeued(rows[i], rows[i].delayed)
                                    ELSE rows[i]]
                 /\ UNCHANGED dead

\* nack(no requeue).
ChannelReject(r) ==
    /\ rows' = IF store = "memory" THEN rows ELSE Without(r.m)
    /\ dead' = dead \union {r.m}
    /\ UNCHANGED vanished

OutboxSend(m) ==
    /\ m \notin sent
    /\ sent' = sent \union {m}
    /\ rows' = Append(rows, [m |-> m, count |-> 0, delayed |-> FALSE])
    /\ UNCHANGED <<store, relay, held, running, verdict, limit, inFlight, dispatch,
                   delivered, tried, dead, vanished, outFaults, outCrashes>>

\* send_at of the first delayed row has come.
DelayOver ==
    \E i \in 1..Len(rows) :
        /\ rows[i].delayed /\ \A j \in 1..(i - 1) : ~rows[j].delayed
        /\ rows' = [rows EXCEPT ![i] = [m |-> @.m, count |-> @.count, delayed |-> FALSE]]
        /\ UNCHANGED <<store, relay, held, running, verdict, limit, inFlight,
                       dispatch, sent, delivered, tried, dead, vanished, outFaults, outCrashes>>
-----------------------------------------------------------------------------
StatsVars == <<sent, delivered, tried, dead, vanished, outFaults, outCrashes>>

\* run() raises the flag when the task is first polled, stop() lowers it: a
\* stop() before that changes nothing.
RunRelay ==
    /\ relay = "new"
    /\ relay' = "loop" /\ running' = TRUE
    /\ UNCHANGED <<store, rows, held, verdict, limit, inFlight, dispatch, StatsVars>>

StopRelay ==
    /\ running
    /\ running' = FALSE
    /\ UNCHANGED <<store, rows, relay, held, verdict, limit, inFlight, dispatch, StatsVars>>

\* Mutant: one permit is kept in reserve.
RelayLoopReserves ==
    /\ relay = "loop" /\ running
    /\ \E due \in Due :
          LET n == AtMost(AtMost(AtLeast(Available, 1) - 1, Batch), Len(due)) IN
          /\ n > 0
          /\ held' = SubSeq(due, 1, n) /\ relay' = "process"
          /\ rows' = IF store = "memory" THEN SubSeq(rows, n + 1, Len(rows)) ELSE rows
    /\ UNCHANGED <<store, running, verdict, limit, inFlight, dispatch, StatsVars>>

\* The head of the loop: up to the free permits are received.
RelayLoop ==
    /\ relay = "loop"
    /\ IF running
       THEN \E due \in Due :
               LET n == AtMost(AtMost(Available, Batch), Len(due)) IN
               /\ n > 0
               /\ held' = SubSeq(due, 1, n) /\ relay' = "process"
               /\ rows' = IF store = "memory" THEN SubSeq(rows, n + 1, Len(rows)) ELSE rows
       ELSE relay' = "ended" /\ UNCHANGED <<held, rows>>
    /\ UNCHANGED <<store, running, verdict, limit, inFlight, dispatch, StatsVars>>

\* process_message(): a permit, or back to the channel at once.
RelayAcquire ==
    /\ relay = "process" /\ held # <<>>
    /\ Acquire
    /\ relay' = "deliver"
    /\ tried' = [tried EXCEPT ![Head(held).m] = @ + 1]
    /\ UNCHANGED <<store, rows, held, running, verdict, dispatch, sent, delivered,
                   dead, vanished, outFaults, outCrashes>>

RelayNoPermit ==
    /\ relay = "process" /\ held # <<>>
    /\ ~CanAcquire
    /\ ChannelRequeue(Head(held), FALSE)
    /\ held' = Tail(held)
    /\ UNCHANGED <<store, relay, running, verdict, limit, inFlight, dispatch, sent,
                   delivered, tried, outFaults, outCrashes>>

RelayBatchDone ==
    /\ relay = "process" /\ held = <<>>
    /\ relay' = "loop"
    /\ UNCHANGED <<store, rows, held, running, verdict, limit, inFlight, dispatch,
                   StatsVars>>

RelayDelivered ==
    /\ relay = "deliver"
    /\ OnSuccess
    /\ delivered' = delivered \union {Head(held).m}
    /\ relay' = "settle" /\ verdict' = "ack"
    /\ UNCHANGED <<store, rows, held, running, dispatch, sent, tried, dead, vanished,
                   outFaults, outCrashes>>

\* Mutant: the attempt that just failed is not counted.
ShouldRetryOneMore(r) == r.count < AtLeast(MaxTries, 1)

\* should_retry(): this was attempt delivery_count + 1.
ShouldRetry(r) == r.count + 1 < AtLeast(MaxTries, 1)

\* The actor refuses (a full mailbox) or delivery fails otherwise.
RelayFailed ==
    /\ relay = "deliver"
    /\ OnRejection \/ OnSuccess
    /\ relay' = "settle"
    /\ verdict' = IF ShouldRetry(Head(held)) THEN "retry" ELSE "dead"
    /\ UNCHANGED <<store, rows, held, running, dispatch, sent, delivered, tried, dead,
                   vanished, outFaults, outCrashes>>

\* Mutant: a message that failed is acked.
RelaySettleAcks ==
    /\ relay = "settle"
    /\ ChannelAck(Head(held))
    /\ held' = Tail(held) /\ relay' = "process" /\ verdict' = "none"
    /\ UNCHANGED <<store, running, limit, inFlight, dispatch, sent, delivered, tried,
                   outFaults, outCrashes>>

\* ack() or nack(); an error is logged, and the row stays as it was.
RelaySettle ==
    /\ relay = "settle"
    /\ held' = Tail(held) /\ relay' = "process" /\ verdict' = "none"
    /\ \/ /\ CASE verdict = "ack"   -> ChannelAck(Head(held))
               [] verdict = "retry" -> ChannelRequeue(Head(held), TRUE)
               [] verdict = "dead"  -> ChannelReject(Head(held))
          /\ UNCHANGED outFaults
       \/ /\ store = "sqlite" /\ outFaults + outCrashes < MaxOutboxFaults
          /\ outFaults' = outFaults + 1
          /\ UNCHANGED <<rows, dead, vanished>>
    /\ UNCHANGED <<store, running, limit, inFlight, dispatch, sent, delivered, tried,
                   outCrashes>>

\* The process crashes and starts again with a new limiter; rows are kept.
OutboxCrash ==
    /\ store = "sqlite" /\ outFaults + outCrashes < MaxOutboxFaults
    /\ outCrashes' = outCrashes + 1
    /\ relay' = "new" /\ held' = <<>> /\ running' = FALSE
    /\ verdict' = "none"
    /\ limit' = AtMost(AtLeast(InitialLimit, MinLimit), MaxLimit) /\ inFlight' = 0
    /\ dispatch' = [d \in Dispatchers |-> [at |-> "start", attempt |-> 0]]
    /\ UNCHANGED <<store, rows, sent, delivered, tried, dead, vanished, outFaults>>
-----------------------------------------------------------------------------
\* dispatch_single(): attempt 0..max_retries, each with a permit of its own.
RelayVars == <<store, rows, relay, held, running, verdict, StatsVars>>

DispatchGoes(d, at, attempt) == dispatch' = [dispatch EXCEPT ![d] = [at |-> at, attempt |-> attempt]]

\* No further attempt, or the next one after its backoff.
NextAttempt(d) ==
    IF dispatch[d].attempt >= MaxTries THEN DispatchGoes(d, "rejected", dispatch[d].attempt)
    ELSE DispatchGoes(d, "start", dispatch[d].attempt + 1)

DispatchAcquire(d) ==
    /\ dispatch[d].at = "start"
    /\ Acquire
    /\ DispatchGoes(d, "sending", dispatch[d].attempt)
    /\ UNCHANGED RelayVars

DispatchAtCapacity(d) ==
    /\ dispatch[d].at = "start"
    /\ ~CanAcquire
    /\ NextAttempt(d)
    /\ UNCHANGED <<RelayVars, limit, inFlight>>

DispatchSent(d) ==
    /\ dispatch[d].at = "sending"
    /\ OnSuccess
    /\ DispatchGoes(d, "accepted", dispatch[d].attempt)
    /\ UNCHANGED RelayVars

DispatchFailed(d) ==
    /\ dispatch[d].at = "sending"
    /\ OnRejection \/ OnSuccess
    /\ NextAttempt(d)
    /\ UNCHANGED RelayVars

DispatchStep(d) ==
    \/ DispatchAcquire(d) \/ DispatchAtCapacity(d) \/ DispatchSent(d) \/ DispatchFailed(d)

RelayStep ==
    \/ RunRelay \/ RelayLoop \/ RelayAcquire \/ RelayNoPermit \/ RelayBatchDone
    \/ RelayDelivered \/ RelayFailed \/ RelaySettle

OutboxNext ==
    \/ \E m \in Parcels : OutboxSend(m)
    \/ DelayOver \/ StopRelay \/ OutboxCrash
    \/ RelayStep
    \/ \E d \in Dispatchers : DispatchStep(d)

OutboxSpec == OutboxInit /\ [][OutboxNext]_outboxVars
-----------------------------------------------------------------------------
InTable(m) == \E i \in 1..Len(rows) : rows[i].m = m
InRelay(m) == \E k \in 1..Len(held) : held[k].m = m

(***************************************************************************)
(* No message is lost between channel, relay and actor, whatever fails or  *)
(* crashes when: a message that send() took is in the channel, in the hand *)
(* of the relay, delivered, or given up after its last attempt.  The one   *)
(* exception: a message of an in-memory partition that is to be retried,   *)
(* because nack() of that channel does nothing.                            *)
(***************************************************************************)
ParcelAccounted ==
    \A m \in sent : InTable(m) \/ InRelay(m) \/ m \in delivered \union dead \union vanished

NothingVanishesFromTable == store = "sqlite" => vanished = {}

(***************************************************************************)
(* A message is tried as often as the retry policy says; once more for     *)
(* each ack or nack that failed and each crash, and never without bound.   *)
(***************************************************************************)
Faults  == outFaults + outCrashes
Allowed == AtLeast(MaxTries, 1)

TriesBounded == \A m \in Parcels : tried[m] <= Allowed + Faults

\* A message is once in the table and once in the batch; a row stays in the
\* table while the relay works on it, with the count that the relay has, and a
\* message of a partition is in one of the two places.
OnePlaceEach ==
    /\ \A i, j \in 1..Len(rows) : rows[i].m = rows[j].m => i = j
    /\ \A k, l \in 1..Len(held) : held[k].m = held[l].m => k = l
    /\ \A i \in 1..Len(rows) : rows[i].m \in sent
    /\ \A k \in 1..Len(held) : held[k].m \in sent
    /\ \A k \in 1..Len(held) :
          IF store = "memory" THEN \A i \in 1..Len(rows) : rows[i].m # held[k].m
          ELSE \E i \in 1..Len(rows) : rows[i].m = held[k].m /\ rows[i].count = held[k].count

RelayAgrees ==
    /\ relay \in {"new", "loop", "ended"} => held = <<>>
    /\ relay \in {"deliver", "settle"} => held # <<>>
    /\ relay = "settle" <=> verdict # "none"
    /\ verdict = "ack" => held[1].m \in delivered

\* The delivery count of a row is at least the number of its attempts that
\* none of the f faults and crashes has hidden, and one attempt is left to it.
Trying == relay \in {"deliver", "settle"}
Left(r, f) == tried[r.m] <= r.count + f /\ tried[r.m] < Allowed + f

CountsTell ==
    /\ \A m \in Parcels \ sent : tried[m] = 0
    /\ \A i \in 1..Len(rows) : ~(Trying /\ held[1].m = rows[i].m) => Left(rows[i], Faults)
    /\ \A k \in 1..Len(held) : ~(Trying /\ k = 1) => Left(held[k], Faults)
    /\ Trying => /\ tried[held[1].m] <= held[1].count + 1 + Faults
                 /\ verdict = "retry" => tried[held[1].m] < Allowed + Faults

(***************************************************************************)
(* No permit is lost or returned twice: in_flight is the number of calls   *)
(* that hold one, so that the outbox never stops for want of permits, and  *)
(* the limit stays within its bounds.                                      *)
(***************************************************************************)
Sending == {d \in Dispatchers : dispatch[d].at = "sending"}
PermitHolders == Cardinality(Sending) + (IF relay = "deliver" THEN 1 ELSE 0)

PermitsBalance == IsFiniteSet(Sending) /\ inFlight = PermitHolders

\* What the relay, the limiter and the dispatch keep at every step.
OutboxInv ==
    /\ OutboxTypeOK /\ ParcelAccounted /\ NothingVanishesFromTable /\ TriesBounded
    /\ PermitsBalance /\ OnePlaceEach /\ RelayAgrees /\ CountsTell

OutboxGoesOn == RelayStep \/ DelayOver \/ \E d \in Dispatchers : DispatchStep(d)

(***************************************************************************)
(* A relay that is not stopped empties the table: every message is         *)
(* delivered, or fails for good, however the limit has moved.              *)
(***************************************************************************)
OutboxDrains == []<>(rows = <<>> \/ ~running)
=============================================================================
