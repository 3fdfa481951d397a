------------------------------ MODULE Mailbox ------------------------------
(***************************************************************************)
(* The mailbox of an actor (crates/mailbox/src/mod.rs): senders call       *)
(* enqueue() from any thread, one actor loop receives.  The configuration  *)
(* decides the path of a message:                                          *)
(*   fast     senders -> bounded mpsc channel -> actor                     *)
(*   memory   senders -> internal_queue -> processor task -> actor         *)
(*   durable  senders -> internal_queue -> processor task -> SQLite table  *)
(*            -> pump task -> actor                                        *)
(* A step is what runs between two awaits, or between two operations on    *)
(* state that other threads share.  The two tasks of the durable path wait *)
(* on one Notify.  Control messages have a channel of their own and meet   *)
(* nothing that is modelled here.                                          *)
(***************************************************************************)
EXTENDS Naturals, Sequences, FiniteSets, SequencesExt

CONSTANTS
    Senders,      \* threads that call enqueue()
    Letters,      \* the messages
    KeyOf,        \* KeyOf[m]: idempotency_key, or NoKey
    Overwrites,   \* the messages with conflict_resolution OVERWRITE
    SeqNo,        \* SeqNo[m]: the sequence_number header, 0 if there is none
    Rank,         \* Rank[m]: priority
    MailConfigs,  \* the configurations: [path, ordering, policy]
    MaxCapacity,  \* max_capacity
    Word,         \* the modulus of usize
    MaxCalls,     \* MaxCalls[path]: bound on the calls of enqueue()
    MaxAtOnce,    \* MaxAtOnce[path]: bound on the calls of enqueue() under way at once
    MaxRedeliveries,  \* max_retries of the durable channel
    MaxMailFaults,    \* bound on crashes, failing acks of the pump and nacks together
    NoKey,        \* no idempotency key
    NoLetter      \* a sender is in no call

Keys == {KeyOf[m] : m \in Letters} \ {NoKey}

ASSUME MailboxAssumption ==
    /\ KeyOf \in [Letters -> Keys \union {NoKey}]
    /\ Overwrites \subseteq {m \in Letters : KeyOf[m] # NoKey}
    /\ SeqNo \in [Letters -> Nat] /\ Rank \in [Letters -> Nat]
    /\ MailConfigs \subseteq [path: {"fast", "memory", "durable"},
                              ordering: {"fifo", "lifo", "priority", "random"},
                              policy: {"error", "drop_newest", "drop_oldest"}]
    /\ NoLetter \notin Letters
    /\ MaxCalls \in [{"fast", "memory", "durable"} -> Nat]
    /\ MaxAtOnce \in [{"fast", "memory", "durable"} -> Nat]
    /\ MaxRedeliveries \in Nat /\ MaxMailFaults \in Nat

\* A usize counts more than a mailbox and the threads of a process hold.
ASSUME WordAssumption ==
    /\ IsFiniteSet(Senders)
    /\ MaxCapacity \in Nat \ {0}
    /\ Word \in Nat /\ Word > MaxCapacity /\ Word >= MaxCapacity + Cardinality(Senders)

VARIABLES
    config,     \* the MailboxConfig, constant
    sender,     \* sender[s]: where s is in enqueue(), and with what
    calls,      \* calls of enqueue() so far
    seen,       \* seen[k]: the entry of the idempotency store
    iq,         \* internal_queue
    processor,  \* the task that empties internal_queue
    batch,      \* messages_to_send of the processor
    table,      \* unacked rows of the durable channel, oldest first
    pump,       \* the task that empties the durable channel
    fetched,    \* the rows try_receive() returned to the pump
    inbox,      \* data_rx / local_receiver
    ids,        \* the row ids of the messages in inbox, on the durable path
    working,    \* the message of a row that the actor processes, or NoRow
    acked,      \* rows of the durable channel with acked = 1
    tries,      \* tries[id]: delivery_count of the row
    depth,      \* data_queue_size
    permit,     \* the stored permit of notify
    waiting,    \* the tasks waiting on notify, first come first
    mode,       \* graceful_shutdown(): "open", "closing" or "closed"
    received,   \* received[m]: how often the actor got m
    answered,   \* messages with an Ok answer
    gone,       \* messages dropped by a policy, replaced, or lost with a stop or crash
    refused,    \* keys recorded by a call that was then answered Full
    repeats,    \* keys the store has evicted or not checked, or of a row given out again
    alive,      \* the actor loop runs and holds the receiver
    drift,      \* why data_queue_size may be off
    mailFaults  \* crashes, failing acks and nacks so far

RowVars == <<ids, working, acked, tries>>

mailVars == <<config, sender, calls, seen, iq, processor, batch, table, pump,
              fetched, inbox, depth, permit, waiting, mode, received,
              answered, gone, refused, repeats, alive, drift, mailFaults, RowVars>>

Idle == [at |-> "idle", m |-> NoLetter, record |-> FALSE]
Row  == [id: Letters, body: Letters]
NoRow == [id |-> NoLetter, body |-> NoLetter]

MailTypeOK ==
    /\ config \in MailConfigs
    /\ sender \in [Senders -> [at: {"idle", "push", "load", "try", "count", "complete"},
                               m: Letters \union {NoLetter}, record: BOOLEAN]]
    /\ calls \in 0..MaxCalls[config.path]
    /\ seen \in [Keys -> {"none", "in_flight", "complete"}]
    /\ iq \in Seq(Letters) /\ batch \in Seq(Letters) /\ inbox \in Seq(Letters)
    /\ table \in Seq(Row) /\ fetched \in Seq(Row)
    /\ ids \in Seq(Letters) /\ working \in Row \union {NoRow} /\ acked \subseteq Row
    /\ tries \in [Letters -> 0..MaxRedeliveries]
    /\ processor \in {"check", "await", "waiting", "drain", "send", "exited"}
    /\ pump \in {"receive", "await", "waiting", "forward", "ack", "exited"}
    /\ depth \in 0..(Word - 1)
    /\ permit \in BOOLEAN /\ waiting \in Seq({"processor", "pump"})
    /\ mode \in {"open", "closing", "closed"}
    /\ received \in [Letters -> Nat]
    /\ answered \subseteq Letters /\ gone \subseteq Letters
    /\ refused \subseteq Keys /\ repeats \subseteq Keys /\ alive \in BOOLEAN
    /\ drift \subseteq {"oldest", "recovered", "vanished", "repeated"}
    /\ mailFaults \in 0..MaxMailFaults

Running(path) == config.path = path
Queued == ~Running("fast")

\* A mailbox and its tasks, just built by new() on the rows in the table.
Built ==
    /\ sender' = [s \in Senders |-> Idle]
    /\ iq' = <<>> /\ batch' = <<>> /\ fetched' = <<>> /\ inbox' = <<>>
    /\ processor' = IF Queued THEN "check" ELSE "exited"
    /\ pump' = IF Running("durable") THEN "receive" ELSE "exited"
    /\ depth' = 0 /\ permit' = FALSE /\ waiting' = <<>>
    /\ mode' = "open" /\ alive' = TRUE
    /\ ids' = <<>> /\ working' = NoRow

MailInit ==
    /\ config \in MailConfigs
    /\ sender = [s \in Senders |-> Idle]
    /\ calls = 0
    /\ seen = [k \in Keys |-> "none"]
    /\ iq = <<>> /\ batch = <<>> /\ fetched = <<>> /\ inbox = <<>> /\ table = <<>>
    /\ processor = IF Queued THEN "check" ELSE "exited"
    /\ pump = IF Running("durable") THEN "receive" ELSE "exited"
    /\ depth = 0 /\ permit = FALSE /\ waiting = <<>>
    /\ mode = "open"
    /\ received = [m \in Letters |-> 0]
    /\ answered = {} /\ gone = {} /\ refused = {} /\ repeats = {}
    /\ alive = TRUE /\ drift = {} /\ mailFaults = 0
    /\ ids = <<>> /\ working = NoRow /\ acked = {}
    /\ tries = [m \in Letters |-> 0]

-----------------------------------------------------------------------------
\* The durable channel has a row with this id to give out.
Unacked(id) == \E i \in 1..Len(table) : table[i].id = id

\* What a filter leaves of s: the elements that are in S, in their order.
Kept(s, S) ==
    LET places  == {i \in 1..Len(s) : s[i] \in S}
        rank(i) == Cardinality({j \in places : j <= i})
    IN [k \in 1..Cardinality(places) |-> s[CHOOSE i \in places : rank(i) = k]]

\* fetch_add and fetch_sub wrap around.
Plus(n, k)  == (n + k) % Word
Minus(n, k) == (n + Word - k) % Word

\* notify_one(): the first task that waits goes on, or a permit is stored.
NotifyOne ==
    IF waiting = <<>>
    THEN permit' = TRUE /\ UNCHANGED <<waiting, processor, pump>>
    ELSE /\ waiting' = Tail(waiting)
         /\ IF Head(waiting) = "processor"
            THEN processor' = "drain" /\ UNCHANGED pump
            ELSE pump' = "receive" /\ UNCHANGED processor
         /\ UNCHANGED permit

\* enqueue() of s returns.
Return(s) == sender' = [sender EXCEPT ![s] = Idle]

Go(s, at) == sender' = [sender EXCEPT ![s].at = at]

Lost(m) == gone' = gone \union {m}

\* The call of s goes on to the queue with message m.
ToQueue(s, m, record) ==
    sender' = [sender EXCEPT ![s] = [at |-> IF Queued THEN "push" ELSE "load",
                                     m |-> m, record |-> record]]

Begin(s, m) ==
    /\ sender[s].at = "idle"
    /\ calls < MaxCalls[config.path]
    /\ Cardinality({t \in Senders : sender[t].at # "idle"}) < MaxAtOnce[config.path]
    /\ calls' = calls + 1

AfterBegin == <<config, processor, batch, table, pump, fetched, inbox, permit,
                waiting, mode, received, refused, alive, drift, mailFaults, RowVars>>

\* A durable mailbox that shuts down refuses.
EnqueueRefused(s, m) ==
    /\ Begin(s, m)
    /\ Running("durable") /\ mode # "open"
    /\ UNCHANGED <<AfterBegin, sender, seen, iq, depth, answered, gone, repeats>>

Accepting == ~(Running("durable") /\ mode # "open")

\* No key, or a key the store fails to check: straight to the queue.
EnqueuePlain(s, m) ==
    /\ Begin(s, m)
    /\ Accepting
    /\ m \notin Overwrites
    /\ ToQueue(s, m, FALSE)
    /\ repeats' = repeats \union ({KeyOf[m]} \ {NoKey})
    /\ UNCHANGED <<AfterBegin, seen, iq, depth, answered, gone>>

\* Mutant: A key in flight passes for one that was never seen.
EnqueueInFlightToo(s, m) ==
    /\ Begin(s, m)
    /\ Accepting
    /\ m \notin Overwrites /\ KeyOf[m] # NoKey
    /\ seen[KeyOf[m]] # "complete"
    /\ seen' = [seen EXCEPT ![KeyOf[m]] = "in_flight"]
    /\ ToQueue(s, m, TRUE)
    /\ UNCHANGED <<AfterBegin, iq, depth, answered, gone, repeats>>

\* check_and_record(): FirstSeen.
EnqueueFirstSeen(s, m) ==
    /\ Begin(s, m)
    /\ Accepting
    /\ m \notin Overwrites /\ KeyOf[m] # NoKey
    /\ seen[KeyOf[m]] = "none"
    /\ seen' = [seen EXCEPT ![KeyOf[m]] = "in_flight"]
    /\ ToQueue(s, m, TRUE)
    /\ UNCHANGED <<AfterBegin, iq, depth, answered, gone, repeats>>

\* check_and_record(): InFlight or Duplicate; Ok is returned.
EnqueueDuplicate(s, m) ==
    /\ Begin(s, m)
    /\ Accepting
    /\ m \notin Overwrites /\ KeyOf[m] # NoKey
    /\ seen[KeyOf[m]] # "none"
    /\ answered' = answered \union {m}
    /\ UNCHANGED <<AfterBegin, sender, seen, iq, depth, gone, repeats>>

\* Queued messages of the key of m that m does not replace: with a sequence
\* number on m, those that are at least as new.
NotReplaced(q, m) ==
    Kept(q, {x \in Letters : \/ KeyOf[x] # KeyOf[m]
                             \/ SeqNo[m] # 0 /\ SeqNo[x] >= SeqNo[m]})

\* OVERWRITE, under the write lock: queued messages of the key are removed;
\* if a newer one stays, m is dropped (the heap drops it whenever one stays,
\* the queue only if nothing was removed).  The lock is then released.
EnqueueOverwrite(s, m) ==
    LET kept    == NotReplaced(iq, m)
        removed == Len(iq) - Len(kept)
        newer   == \E x \in ToSet(kept) : KeyOf[x] = KeyOf[m]
        skip    == newer /\ (config.ordering = "priority" \/ removed = 0)
    IN
    /\ Begin(s, m)
    /\ Accepting
    /\ m \in Overwrites
    /\ iq' = kept
    /\ depth' = Minus(depth, removed)
    /\ gone' = gone \union (ToSet(iq) \ ToSet(kept))
                    \union (IF skip THEN {m} ELSE {})
    /\ IF skip THEN answered' = answered \union {m} /\ UNCHANGED sender
               ELSE ToQueue(s, m, FALSE) /\ UNCHANGED answered
    /\ UNCHANGED <<AfterBegin, seen, repeats>>
-----------------------------------------------------------------------------
\* Where the ordering strategy may put m in queue q.  The heap gives out the
\* highest priority first, and equals in any order.
Placed(q, m) ==
    CASE config.ordering = "fifo"     -> {Append(q, m)}
      [] config.ordering = "lifo"     -> {<<m>> \o q}
      [] config.ordering = "random"   -> {InsertAt(q, i, m) : i \in 1..(Len(q) + 1)}
      [] config.ordering = "priority" ->
            {p \in {InsertAt(q, i, m) : i \in 1..(Len(q) + 1)} :
                \A i \in 1..(Len(p) - 1) : Rank[p[i]] >= Rank[p[i + 1]]}

\* Err(Full): the key, if one was recorded, stays in flight.
AnswerFull(s) ==
    /\ refused' = IF sender[s].record THEN refused \union {KeyOf[sender[s].m]} ELSE refused
    /\ Return(s)
    /\ UNCHANGED <<answered, gone>>

\* Ok, and the message is dropped and counted.
AnswerDropped(s) ==
    /\ answered' = answered \union {sender[s].m}
    /\ Lost(sender[s].m)
    /\ Return(s)
    /\ UNCHANGED refused

AfterPush == <<config, calls, seen, processor, batch, table, pump, fetched,
               permit, waiting, mode, received, repeats, alive, mailFaults, RowVars>>

\* The fast path: the depth is read ...
FastLoad(s) ==
    /\ sender[s].at = "load"
    /\ IF depth >= MaxCapacity
       THEN IF config.policy = "error" THEN AnswerFull(s) ELSE AnswerDropped(s)
       ELSE Go(s, "try") /\ UNCHANGED <<answered, gone, refused>>
    /\ UNCHANGED <<AfterPush, iq, inbox, depth, drift>>

\* Mutant: The fast path leaves the bound to the channel, which has one slot more.
FastTrySendLoose(s) ==
    /\ sender[s].at = "try" /\ alive
    /\ inbox' = Append(inbox, sender[s].m)
    /\ Go(s, "count")
    /\ UNCHANGED <<AfterPush, iq, depth, drift, answered, gone, refused>>

\* ... and then try_send() finds room in the channel or not.  If the actor has
\* stopped, the message is dropped without a word.
FastTrySend(s) ==
    /\ sender[s].at = "try"
    /\ CASE ~alive ->
                /\ Lost(sender[s].m)
                /\ IF sender[s].record
                   THEN Go(s, "complete") /\ UNCHANGED answered
                   ELSE Return(s) /\ answered' = answered \union {sender[s].m}
                /\ UNCHANGED <<inbox, refused>>
         [] alive /\ Len(inbox) >= MaxCapacity ->
                AnswerFull(s) /\ UNCHANGED inbox
         [] alive /\ Len(inbox) < MaxCapacity ->
                /\ inbox' = Append(inbox, sender[s].m)
                /\ Go(s, "count")
                /\ UNCHANGED <<answered, gone, refused>>
    /\ UNCHANGED <<AfterPush, iq, depth, drift>>

\* Priority and durable path, under the write lock.  DropOldest pops the
\* queue, which may be empty while its messages are further on, and counts
\* one message less in either case.
Push(s) ==
    /\ sender[s].at = "push"
    /\ IF depth < MaxCapacity
       THEN /\ iq' \in Placed(iq, sender[s].m)
            /\ Go(s, "count")
            /\ UNCHANGED <<depth, drift, answered, gone, refused>>
       ELSE CASE config.policy = "error" ->
                    AnswerFull(s) /\ UNCHANGED <<iq, depth, drift>>
              [] config.policy = "drop_newest" ->
                    AnswerDropped(s) /\ UNCHANGED <<iq, depth, drift>>
              [] config.policy = "drop_oldest" ->
                    LET rest == IF iq = <<>> THEN iq ELSE Tail(iq)
                    IN /\ iq' \in Placed(rest, sender[s].m)
                       /\ depth' = Minus(depth, 1)
                       /\ IF iq = <<>>
                          THEN drift' = drift \union {"oldest"} /\ UNCHANGED gone
                          ELSE Lost(Head(iq)) /\ UNCHANGED drift
                       /\ Go(s, "count")
                       /\ UNCHANGED <<answered, refused>>
    /\ UNCHANGED <<AfterPush, inbox>>

AfterCount == <<config, calls, iq, batch, table, fetched, inbox, mode, received, gone,
                refused, repeats, alive, drift, mailFaults, RowVars>>

\* Mutant: enqueue() does not wake the processor.
FinishSilently(s) ==
    /\ answered' = answered \union {sender[s].m}
    /\ Return(s)
    /\ UNCHANGED <<permit, waiting, processor, pump>>

\* The call ends: the background task is woken (off the fast path), Ok.
Finish(s) ==
    /\ answered' = answered \union {sender[s].m}
    /\ Return(s)
    /\ IF Queued THEN NotifyOne ELSE UNCHANGED <<permit, waiting, processor, pump>>

\* data_queue_size.fetch_add(1), after the lock is released.
Count(s) ==
    /\ sender[s].at = "count"
    /\ depth' = Plus(depth, 1)
    /\ IF sender[s].record
       THEN Go(s, "complete") /\ UNCHANGED <<answered, permit, waiting, processor, pump>>
       ELSE Finish(s)
    /\ UNCHANGED <<AfterCount, seen>>

\* complete_record(); an entry that was evicted meanwhile stays away.
Complete(s) ==
    /\ sender[s].at = "complete"
    /\ seen' = [seen EXCEPT ![KeyOf[sender[s].m]] = IF @ = "none" THEN @ ELSE "complete"]
    /\ Finish(s)
    /\ UNCHANGED <<AfterCount, depth>>

\* The store evicts an entry: its ttl is over, or its bucket full.  (After the
\* last of the MaxCalls calls nobody looks it up any more.)
Evict(k) ==
    /\ seen[k] # "none" /\ calls < MaxCalls[config.path]
    /\ seen' = [seen EXCEPT ![k] = "none"]
    /\ repeats' = repeats \union {k}
    /\ UNCHANGED <<config, sender, calls, iq, processor, batch, table, pump,
                   fetched, inbox, depth, permit, waiting, mode, received,
                   answered, gone, refused, alive, drift, mailFaults, RowVars>>
-----------------------------------------------------------------------------
SenderVars == <<config, sender, calls, seen, answered, refused, repeats, mailFaults>>

\* The processor looks at the queue under the read lock, and then waits.
ProcessorCheck ==
    /\ processor = "check"
    /\ processor' = IF iq = <<>> THEN "await" ELSE "drain"
    /\ UNCHANGED <<SenderVars, iq, batch, table, pump, fetched, inbox, depth, permit,
                   waiting, mode, received, gone, alive, drift, RowVars>>

ProcessorAwait ==
    /\ processor = "await"
    /\ IF permit
       THEN processor' = "drain" /\ permit' = FALSE /\ UNCHANGED waiting
       ELSE processor' = "waiting" /\ waiting' = Append(waiting, "processor")
            /\ UNCHANGED permit
    /\ UNCHANGED <<SenderVars, iq, batch, table, pump, fetched, inbox, depth, mode,
                   received, gone, alive, drift, RowVars>>

\* Mutant: The processor counts out what it drains: every message is counted twice.
ProcessorDrainCounts ==
    /\ processor = "drain"
    /\ batch' = iq /\ iq' = <<>>
    /\ depth' = Minus(depth, Len(iq))
    /\ processor' = IF iq = <<>> THEN "check" ELSE "send"
    /\ UNCHANGED <<SenderVars, table, pump, fetched, inbox, permit, waiting,
                   mode, received, gone, alive, drift, RowVars>>

\* Everything queued is taken at once, under the write lock.
ProcessorDrain ==
    /\ processor = "drain"
    /\ batch' = iq /\ iq' = <<>>
    /\ processor' = IF iq = <<>> THEN "check" ELSE "send"
    /\ UNCHANGED <<SenderVars, table, pump, fetched, inbox, depth, permit, waiting,
                   mode, received, gone, alive, drift, RowVars>>

\* send() of the SQLite channel.  OVERWRITE updates the unacked row of the key
\* in place; otherwise a row is inserted, unless there is one with its id, acked
\* or not (the rows are kept: cleanup_acked is off).
Updates(t, m) == {i \in DOMAIN t : m \in Overwrites /\ KeyOf[t[i].body] = KeyOf[m]}

Fresh(m) == \A r \in ToSet(table) \union acked : r.id # m

Stored(t, m) ==
    IF Updates(t, m) # {}
    THEN [i \in DOMAIN t |-> IF i \in Updates(t, m) THEN [t[i] EXCEPT !.body = m] ELSE t[i]]
    ELSE Append(t, [id |-> m, body |-> m])

\* local_sender.send() fails when the actor has stopped: the processor ends
\* with what it has in hand.
SendLocal ==
    /\ Running("memory")
    /\ IF alive
       THEN /\ inbox' = Append(inbox, Head(batch))
            /\ batch' = Tail(batch)
            /\ processor' = IF Len(batch) = 1 THEN "check" ELSE "send"
            /\ UNCHANGED <<gone, drift>>
       ELSE /\ processor' = "exited" /\ batch' = <<>>
            /\ gone' = gone \union ToSet(batch)
            /\ drift' = drift \union {"vanished"}
            /\ UNCHANGED inbox
    /\ UNCHANGED table

\* channel.send(): the processor ends when the channel is closed, and goes on
\* without the message after any other error.
SendTable ==
    /\ Running("durable")
    /\ IF mode = "closed"
       THEN /\ processor' = "exited" /\ batch' = <<>>
            /\ gone' = gone \union ToSet(batch)
            /\ drift' = drift \union {"vanished"}
            /\ UNCHANGED table
       ELSE /\ batch' = Tail(batch)
            /\ processor' = IF Len(batch) = 1 THEN "check" ELSE "send"
            /\ \/ /\ Updates(table, Head(batch)) # {} \/ Fresh(Head(batch))
                  /\ table' = Stored(table, Head(batch))
                  /\ drift' = IF Len(table') = Len(table) THEN drift \union {"vanished"}
                              ELSE drift
                  /\ gone' = gone \union {table[i].body :
                                    i \in {j \in DOMAIN table : table'[j] # table[j]}}
               \/ /\ Lost(Head(batch))
                  /\ drift' = drift \union {"vanished"}
                  /\ UNCHANGED table
    /\ UNCHANGED inbox

ProcessorSend ==
    /\ processor = "send"
    /\ SendLocal \/ SendTable
    /\ UNCHANGED <<SenderVars, iq, pump, fetched, depth, permit, waiting, mode, received, alive, RowVars>>

\* Mutant: the rows are deleted as they are fetched.
PumpReceiveDeletes ==
    /\ pump = "receive"
    /\ fetched' = table /\ table' = <<>>
    /\ pump' = IF table = <<>> THEN "await" ELSE "forward"
    /\ UNCHANGED <<SenderVars, iq, processor, batch, inbox, depth, permit,
                   waiting, mode, received, gone, alive, drift, RowVars>>

\* try_receive(): the unacked rows, which stay unacked.
PumpReceive ==
    /\ pump = "receive"
    /\ fetched' = table
    /\ pump' = IF table = <<>> THEN "await" ELSE "forward"
    /\ UNCHANGED <<SenderVars, iq, processor, batch, table, inbox, depth, permit,
                   waiting, mode, received, gone, alive, drift, RowVars>>

PumpAwait ==
    /\ pump = "await"
    /\ IF permit
       THEN pump' = "receive" /\ permit' = FALSE /\ UNCHANGED waiting
       ELSE pump' = "waiting" /\ waiting' = Append(waiting, "pump") /\ UNCHANGED permit
    /\ UNCHANGED <<SenderVars, iq, processor, batch, table, fetched, inbox, depth, mode,
                   received, gone, alive, drift, RowVars>>

\* The row goes to the actor ...
PumpForward ==
    /\ pump = "forward"
    /\ IF alive THEN /\ pump' = "ack" /\ inbox' = Append(inbox, Head(fetched).body)
                     /\ ids' = Append(ids, Head(fetched).id)
                ELSE pump' = "exited" /\ UNCHANGED <<inbox, ids>>
    /\ UNCHANGED <<SenderVars, iq, processor, batch, table, fetched, depth, permit,
                   waiting, mode, received, gone, alive, drift, working, acked, tries>>

\* ack() by the id of r, whatever the row holds by now; a row that is acked
\* already stays so.
Ack(r) ==
    /\ table' = Kept(table, {x \in Row : x.id # r.id})
    /\ acked' = acked \union {x \in ToSet(table) : x.id = r.id}
    /\ gone' = gone \union {x.body : x \in {y \in ToSet(table) : y.id = r.id /\ y.body # r.body}}

\* The channel gives a row out again: its message was counted out before.
GivenAgain(id) ==
    /\ drift' = drift \union {"repeated"}
    /\ repeats' = repeats \union ({KeyOf[id]} \ {NoKey})

NextFetched ==
    /\ fetched' = Tail(fetched)
    /\ pump' = IF Len(fetched) = 1 THEN "receive" ELSE "forward"

\* ... and is acked ...
PumpAck ==
    /\ pump = "ack"
    /\ Ack(Head(fetched)) /\ NextFetched
    /\ UNCHANGED <<SenderVars, iq, processor, batch, inbox, depth, permit, waiting,
                   mode, received, alive, drift, ids, working, tries>>

\* ... or the ack fails, which nobody looks at: try_receive() returns it again.
PumpAckFails ==
    /\ pump = "ack" /\ mailFaults < MaxMailFaults
    /\ Unacked(Head(fetched).id)
    /\ mailFaults' = mailFaults + 1
    /\ GivenAgain(Head(fetched).id) /\ NextFetched
    /\ UNCHANGED <<config, sender, calls, seen, answered, refused, iq, processor,
                   batch, table, inbox, depth, permit, waiting, mode, received, gone, alive,
                   ids, working, acked, tries>>
-----------------------------------------------------------------------------
\* The actor loop takes a message and counts it out.  Off the durable path it
\* has nothing to ack.
Receive ==
    /\ alive /\ inbox # <<>> /\ working = NoRow
    /\ inbox' = Tail(inbox)
    /\ received' = [received EXCEPT ![Head(inbox)] = @ + 1]
    /\ depth' = Minus(depth, 1)
    /\ IF Running("durable")
       THEN working' = [id |-> Head(ids), body |-> Head(inbox)] /\ ids' = Tail(ids)
       ELSE UNCHANGED <<ids, working>>
    /\ UNCHANGED <<SenderVars, iq, processor, batch, table, pump, fetched, permit,
                   waiting, mode, gone, alive, drift, acked, tries>>

\* The message was processed: ack_message(), for the row that the pump has acked
\* or is about to.  nack_message() comes to the same when the row has been given
\* out often enough.  An error of either is only logged.
Processed ==
    /\ working # NoRow
    /\ working' = NoRow
    /\ Ack(working) \/ UNCHANGED <<table, acked, gone>>
    /\ UNCHANGED <<SenderVars, iq, processor, batch, pump, fetched, inbox, depth, permit,
                   waiting, mode, received, alive, drift, ids, tries>>

\* The behaviour failed: nack_message() sets acked = 0, by which a row that was
\* acked comes back to its place among the others.  Nobody is notified.
Nacked ==
    /\ working # NoRow /\ tries[working.id] < MaxRedeliveries
    /\ mailFaults < MaxMailFaults
    /\ mailFaults' = mailFaults + 1
    /\ working' = NoRow
    /\ tries' = [tries EXCEPT ![working.id] = @ + 1]
    /\ \/ \E r \in acked, i \in 1..(Len(table) + 1) :
             /\ r.id = working.id
             /\ table' = InsertAt(table, i, r) /\ acked' = acked \ {r}
             /\ GivenAgain(r.id)
       \/ (\A r \in acked : r.id # working.id) /\ UNCHANGED <<table, acked, drift, repeats>>
    /\ UNCHANGED <<config, sender, calls, seen, answered, refused, iq, processor,
                   batch, pump, fetched, inbox, depth, permit, waiting, mode, received, gone,
                   alive, ids>>

\* The actor loop ends and drops the receiver with what is in it.
ActorStops ==
    /\ alive
    /\ alive' = FALSE
    /\ inbox' = <<>>
    /\ gone' = gone \union ToSet(inbox)
    /\ drift' = IF inbox = <<>> THEN drift ELSE drift \union {"vanished"}
    /\ ids' = <<>> /\ working' = NoRow
    /\ UNCHANGED <<SenderVars, iq, processor, batch, table, pump, fetched, depth, permit,
                   waiting, mode, received, acked, tries>>

\* graceful_shutdown() of a durable mailbox: the flag, then (yield_now() and)
\* the wait for the message being processed, or its timeout, then close().
BeginShutdown ==
    /\ Running("durable") /\ mode = "open"
    /\ mode' = "closing"
    /\ UNCHANGED <<SenderVars, iq, processor, batch, table, pump, fetched, inbox, depth,
                   permit, waiting, received, gone, alive, drift, RowVars>>

CloseChannel ==
    /\ mode = "closing"
    /\ mode' = "closed"
    /\ UNCHANGED <<SenderVars, iq, processor, batch, table, pump, fetched, inbox, depth,
                   permit, waiting, received, gone, alive, drift, RowVars>>

\* The process crashes and the mailbox is built anew on the same table.  The
\* default idempotency store is in memory.
Crash ==
    /\ Running("durable") /\ mailFaults < MaxMailFaults
    /\ mailFaults' = mailFaults + 1
    /\ Built
    /\ seen' = [k \in Keys |-> "none"]
    /\ repeats' = Keys
    /\ gone' = gone \union (ToSet(iq) \union ToSet(batch) \union ToSet(inbox)
                                        \union ({sender[s].m : s \in Senders} \ {NoLetter}))
    /\ drift' = IF table = <<>> THEN drift ELSE drift \union {"recovered"}
    /\ UNCHANGED <<config, calls, table, received, answered, refused, acked, tries>>

EnqueueSteps(s) ==
    \/ \E m \in Letters : \/ EnqueueRefused(s, m) \/ EnqueuePlain(s, m)
                          \/ EnqueueFirstSeen(s, m) \/ EnqueueDuplicate(s, m)
                          \/ EnqueueOverwrite(s, m)
    \/ FastLoad(s) \/ FastTrySend(s) \/ Push(s) \/ Count(s) \/ Complete(s)

ProcessorStep == ProcessorCheck \/ ProcessorAwait \/ ProcessorDrain \/ ProcessorSend
PumpStep == PumpReceive \/ PumpAwait \/ PumpForward \/ PumpAck \/ PumpAckFails
ActorStep == Receive \/ Processed \/ Nacked

MailNext ==
    \/ \E s \in Senders : EnqueueSteps(s)
    \/ \E k \in Keys : Evict(k)
    \/ ProcessorStep \/ PumpStep
    \/ ActorStep \/ ActorStops
    \/ BeginShutdown \/ CloseChannel \/ Crash

MailSpec == MailInit /\ [][MailNext]_mailVars
-----------------------------------------------------------------------------
\* Messages on their way, each counted once: a row that the pump has forwarded
\* is acked next, if the actor has not acked it yet.
Twice == pump = "ack" /\ Unacked(Head(fetched).id)

InPipe == Len(iq) + Len(batch) + Len(inbox) + Len(table) - (IF Twice THEN 1 ELSE 0)

InHand(m) ==
    \/ m \in ToSet(iq) \union ToSet(batch) \union ToSet(inbox)
    \/ \E r \in ToSet(table) : r.body = m
    \/ \E s \in Senders : sender[s].m = m

\* Message m is on its way, has arrived, or was given up for a stated reason.
Accounted(m) == InHand(m) \/ received[m] > 0 \/ m \in gone

\* The messages that the store takes for m.
SameAs(m) == {x \in Letters : x = m \/ (KeyOf[x] # NoKey /\ KeyOf[x] = KeyOf[m])}

(***************************************************************************)
(* A message that enqueue() answered Ok does not get lost without a trace: *)
(* it, or one with its key, is on its way, has arrived, or was dropped by  *)
(* the policy, replaced by a newer one, or lost with the actor, the        *)
(* process or the channel.  The one exception is a key that was recorded   *)
(* by a call that then failed with Full.                                   *)
(***************************************************************************)
AcceptedAccounted ==
    \A m \in answered : KeyOf[m] \in refused \/ \E x \in SameAs(m) : Accounted(x)

(***************************************************************************)
(* data_queue_size, which senders and the actor change without a lock, is  *)
(* the number of messages on their way whenever no sender is between its   *)
(* push and its fetch_add; unless DropOldest found the internal queue      *)
(* empty, messages were recovered, came again after an ack that failed or  *)
(* a nack, or left without being received.                                 *)
(***************************************************************************)
Counting == {s \in Senders : sender[s].at = "count"}

DepthSettles == Counting = {} /\ drift = {} => depth = InPipe

(***************************************************************************)
(* The bound on the mailbox: exact on the fast path; elsewhere senders     *)
(* that have pushed and not yet counted let each other through.            *)
(***************************************************************************)
CapacityBound ==
    drift = {} => InPipe <= IF Queued THEN MaxCapacity + Cardinality(Senders) - 1
                            ELSE MaxCapacity

(***************************************************************************)
(* Deduplication: of the messages with one key that the store could check, *)
(* the actor receives at most one, whoever sends or retries them, unless   *)
(* the durable channel gives one out again: its row was nacked, or the ack *)
(* of the pump failed.                                                     *)
(***************************************************************************)
OncePerKey ==
    \A k \in Keys \ repeats :
        \A m, x \in Letters \ Overwrites :
            KeyOf[m] = k /\ KeyOf[x] = k /\ received[m] > 0 /\ received[x] > 0
                => m = x /\ received[m] = 1

-----------------------------------------------------------------------------
(* What makes these hold at every step.                                    *)

\* What a path does without.
PathsApart ==
    /\ ~Queued => iq = <<>> /\ processor = "exited"
    /\ ~Running("durable") => /\ table = <<>> /\ fetched = <<>> /\ pump = "exited"
                               /\ ids = <<>> /\ working = NoRow
    /\ \A s \in Senders : sender[s].at # "idle" => sender[s].at \notin
                              (IF Queued THEN {"load", "try"} ELSE {"push"})

\* A task is woken from its wait and nowhere else: what it has in hand stays.
TasksInStep ==
    /\ processor = "send" <=> batch # <<>>
    /\ pump \in {"forward", "ack"} => fetched # <<>>
    /\ \A i \in 1..Len(waiting) : waiting[i] = "processor" => processor = "waiting"
    /\ \A i \in 1..Len(waiting) : waiting[i] = "pump" => pump = "waiting"
    /\ \A i, j \in 1..Len(waiting) : waiting[i] = waiting[j] => i = j

\* A row keeps its key.
OwnRow(r) == r.body = r.id \/ (r.body \in Overwrites /\ KeyOf[r.body] = KeyOf[r.id])

Known(id)    == Unacked(id) \/ \E r \in acked : r.id = id
Repeated(id) == "repeated" \in drift /\ (KeyOf[id] # NoKey => KeyOf[id] \in repeats)

\* Ids are unique; the rows the pump has left are in the table; and the row of
\* a message that the actor has, or will have, is out of it once the pump is
\* through: unless the channel gives it out again.
RowsSound ==
    /\ \A i, j \in 1..Len(table) : table[i].id = table[j].id => i = j
    /\ \A i \in 1..Len(table) : OwnRow(table[i])
    /\ \A r \in acked : OwnRow(r) /\ ~Unacked(r.id) /\ \A q \in acked : q.id = r.id => q = r
    /\ pump \in {"forward", "ack"} =>
          /\ \A i, j \in 1..Len(fetched) : fetched[i].id = fetched[j].id => i = j
          /\ \A i \in 1..Len(fetched) :
                /\ OwnRow(fetched[i]) /\ Known(fetched[i].id)
                /\ Unacked(fetched[i].id) \/ (i = 1 /\ pump = "ack") \/ Repeated(fetched[i].id)

WithActor(id) == working.id = id \/ \E i \in 1..Len(ids) : ids[i] = id

HandedOver ==
    /\ Running("durable") => Len(ids) = Len(inbox)
    /\ \A id \in Letters : WithActor(id) =>
          /\ Known(id)
          /\ Unacked(id) => (pump = "ack" /\ Head(fetched).id = id) \/ Repeated(id)

\* Message m has left its sender.
Settled(m) ==
    \/ m \in ToSet(iq) \union ToSet(batch) \union ToSet(inbox)
    \/ \E r \in ToSet(table) : r.body = m
    \/ received[m] > 0
    \/ m \in gone

\* ... or its sender can give it up only by refusing its key.
Promised(m) == Settled(m) \/ \E s \in Senders : sender[s].m = m /\ sender[s].record

PromisesKept ==
    /\ \A s \in Senders : sender[s].at = "idle" => ~sender[s].record
    /\ \A s \in Senders : sender[s].at # "idle" =>
          /\ sender[s].m \in Letters
          /\ sender[s].record => KeyOf[sender[s].m] # NoKey
          /\ sender[s].at \in {"count", "complete"} => Settled(sender[s].m)
    /\ \A m \in answered : KeyOf[m] \in refused \/ \E x \in SameAs(m) : Promised(x)
    /\ \A k \in Keys : seen[k] # "none" =>
          k \in refused \/ \E x \in Letters : KeyOf[x] = k /\ Promised(x)
    /\ pump = "ack" => \/ Head(fetched).body \in ToSet(inbox) \union gone
                       \/ received[Head(fetched).body] > 0
    /\ working # NoRow => received[working.body] > 0

\* The depth between settlements: what is on its way and counted.
DepthFollows ==
    drift = {} =>
        LET n == Cardinality(Counting)
        IN  depth = IF InPipe >= n THEN InPipe - n ELSE Word + InPipe - n

\* The messages of key k that the store checks, and where they are.
Checked(k) == {m \in Letters \ Overwrites : KeyOf[m] = k}

Bringing(k) == {s \in Senders : /\ sender[s].at \in {"load", "try", "push"}
                                /\ sender[s].m \in Checked(k)}

Unforwarded(k) == {m \in Checked(k) : /\ \E i \in 1..Len(table) : table[i].id = m
                                      /\ ~(pump = "ack" /\ Head(fetched).id = m)}

\* They are all at one place, and there just once.
OnceIn(q, k) == \A i, j \in 1..Len(q) : q[i] \in Checked(k) /\ q[j] \in Checked(k) => i = j
NoneIn(q, k) == \A i \in 1..Len(q) : q[i] \notin Checked(k)

OnlyAt(k, place) ==
    /\ IF place = "sender" THEN \A s, t \in Bringing(k) : s = t ELSE Bringing(k) = {}
    /\ IF place = "queue" THEN OnceIn(iq, k) ELSE NoneIn(iq, k)
    /\ IF place = "batch" THEN OnceIn(batch, k) ELSE NoneIn(batch, k)
    /\ IF place = "table" THEN \A m, x \in Unforwarded(k) : m = x ELSE Unforwarded(k) = {}
    /\ IF place = "inbox" THEN OnceIn(inbox, k) ELSE NoneIn(inbox, k)
    /\ IF place = "actor"
       THEN \A m, x \in Checked(k) :
               received[m] > 0 /\ received[x] > 0 => m = x /\ received[m] = 1
       ELSE \A m \in Checked(k) : received[m] = 0

OneCopy ==
    \A k \in Keys \ repeats :
        /\ seen[k] = "none" => OnlyAt(k, "nowhere")
        /\ \E place \in {"sender", "queue", "batch", "table", "inbox", "actor"} : OnlyAt(k, place)

\* The invariant that is inductive, and what it is for.
MailSteps == /\ MailTypeOK /\ PathsApart /\ TasksInStep /\ RowsSound /\ HandedOver
             /\ PromisesKept /\ DepthFollows /\ CapacityBound /\ OneCopy

\* What enqueue(), the processors, the pump and dequeue() keep at every step.
MailInv == MailSteps /\ AcceptedAccounted /\ DepthSettles /\ OncePerKey

\* What tokio is bound to poll again: nothing makes a sender call, an actor
\* stop or a shutdown begin.  (Of the durable path, where a nacked row waits
\* until someone sends, nothing is promised, and nothing is asked.)
MailGoesOn ==
    /\ ~Running("durable")
    /\ \/ ProcessorStep \/ ActorStep
       \/ \E s \in Senders : sender[s].at # "idle" /\ EnqueueSteps(s)

(***************************************************************************)
(* No wake-up is lost off the durable path: what enqueue() took leaves the *)
(* mailbox again as long as the actor runs, though the processor looks at  *)
(* the queue first and waits afterwards.                                   *)
(***************************************************************************)
Undelivered == {m \in Letters : ~Running("durable") /\ InHand(m)}

MailDelivered == []<>(Undelivered = {} \/ ~alive)
=============================================================================
