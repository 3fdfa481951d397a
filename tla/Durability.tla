----------------------------- MODULE Durability -----------------------------
(***************************************************************************)
(* The durability facet (crates/journaling/src/durability_facet.rs): an    *)
(* actor journals every message before and after it handles it, saves      *)
(* checkpoints of its state, and on activation restores the latest         *)
(* checkpoint and replays the messages journaled after it.  Durable        *)
(* promises write to the same journal under the same counter.  The state   *)
(* of an actor is the sequence of messages it has applied.                 *)
(*                                                                         *)
(* Journal and checkpoints are the SQLite tables (storage/sql/sqlite.rs):  *)
(* one row per sequence number; saving a checkpoint replaces the row of    *)
(* the same number and the latest one is that with the highest number.     *)
(* The counter message_sequence is volatile.  Callers of the promises run  *)
(* beside the message loop; on_exit() and on_terminate_start() take        *)
(* &mut self and so exclude them.                                          *)
(***************************************************************************)
EXTENDS Naturals, Sequences, FiniteSets, FiniteSetsExt, SequencesExt

CONSTANTS
    Orders,           \* the messages sent to the actor
    Setups,           \* the kinds of actors, as SetupType says
    Effectful,        \* those whose handler records a side effect
    Promises,         \* promise ids
    PromiseCallers,   \* concurrent callers of the promise API
    Interval,         \* checkpoint_interval
    MaxLives,         \* bound on activations
    MaxPromiseCalls,  \* bound on calls of the promise API
    MaxJournalFaults, \* bound on failing writes to the storage
    Nothing           \* no message, no result

\* Whether the behaviour captures its state and whether it takes back what it
\* captured (a native component does the one and not the other), the config's
\* replay_on_activation and compression ("absent": a codec the build is
\* without), and the messages the behaviour answers with an error.
SetupType == [captures: BOOLEAN, restores: BOOLEAN, replay: BOOLEAN,
              compression: {"none", "codec", "absent"}, poison: SUBSET Orders]

ASSUME DurabilityAssumption ==
    /\ Setups \subseteq SetupType /\ Setups # {}
    /\ Effectful \subseteq Orders /\ Interval \in Nat
    /\ MaxLives \in Nat /\ MaxPromiseCalls \in Nat /\ MaxJournalFaults \in Nat
    /\ Nothing \notin Orders \cup PromiseCallers
    /\ Promises # {}

VARIABLES
    setup,        \* what kind of actor this is
    loop,         \* where the message loop is
    todo,         \* messages not yet taken
    order,        \* the message in hand
    mark,         \* the first number of the entries about to be appended
    state,        \* the behaviour's state
    seq,          \* message_sequence
    lastSeq,      \* last_sequence of the checkpoint manager
    journal,      \* journal_entries: [seq, kind, of, by]
    checkpoints,  \* checkpoints: [seq, state, raw], raw if the bytes are those
                  \* that were captured
    pending,      \* pending_promises
    resolved,     \* resolved_promises: who resolved it, or Nothing
    work,         \* work[c]: [at, of, seq] of a promise call
    lives,        \* activations so far
    calls,        \* promise calls so far
    journalFaults,\* failed writes so far
    gaps,         \* history: a number was handed out and never journaled
    lost,         \* history: messages a checkpoint leaves out or hides
    overlapped    \* history: promises with overlapping calls in this life

durabilityVars ==
    <<setup, loop, todo, order, mark, state, seq, lastSeq, journal,
      checkpoints, pending, resolved, work, lives, calls, journalFaults, gaps, lost, overlapped>>

Entries == [seq: Nat, kind: {"received", "processed", "effect", "created", "resolved"},
            of: Orders \cup Promises, by: PromiseCallers \cup {Nothing}]

NoWork(c) == work[c].at = "none"

DurabilityTypeOK ==
    /\ setup \in Setups
    /\ loop \in {"down", "idle", "received", "handling", "handled", "batch",
                 "check", "exiting"}
    /\ todo \subseteq Orders /\ order \in Orders \cup {Nothing}
    /\ mark \in Nat
    /\ state \in Seq(Orders) /\ seq \in Nat /\ lastSeq \in Nat
    /\ journal \subseteq Entries
    /\ \A c \in checkpoints : c.seq \in Nat /\ c.state \in Seq(Orders) /\ c.raw \in BOOLEAN
    /\ pending \subseteq Promises
    /\ resolved \in [Promises -> PromiseCallers \cup {Nothing}]
    /\ work \in [PromiseCallers ->
                   [at: {"none", "create", "created", "resolve", "resolved"},
                    of: Promises, seq: Nat]]
    /\ lives \in 0..MaxLives /\ calls \in 0..MaxPromiseCalls
    /\ journalFaults \in 0..MaxJournalFaults
    /\ gaps \in BOOLEAN /\ lost \subseteq Orders /\ overlapped \subseteq Promises

Asleep == [c \in PromiseCallers |->
             [at |-> "none", of |-> CHOOSE p \in Promises : TRUE, seq |-> 0]]

DurabilityInit ==
    /\ setup \in Setups
    /\ loop = "down" /\ todo = Orders /\ order = Nothing /\ mark = 0
    /\ state = <<>> /\ seq = 0 /\ lastSeq = 0 /\ journal = {} /\ checkpoints = {}
    /\ pending = {} /\ resolved = [p \in Promises |-> Nothing] /\ work = Asleep
    /\ lives = 0 /\ calls = 0 /\ journalFaults = 0
    /\ gaps = FALSE /\ lost = {} /\ overlapped = {}
-----------------------------------------------------------------------------
Numbers == {e.seq : e \in journal}
LastNumber == IF journal = {} THEN 0 ELSE Max(Numbers)

\* get_latest_checkpoint(); a missing one behaves like an empty one at 0,
\* for no entry has number 0.
Latest == IF checkpoints = {} THEN [seq |-> 0, state |-> <<>>, raw |-> TRUE]
          ELSE CHOOSE c \in checkpoints : \A d \in checkpoints : d.seq <= c.seq

\* replay_from(checkpoint.sequence + 1), the received messages only.
Received == {e \in journal : e.kind = "received"}
Replayed == {e \in Received : e.seq > Latest.seq}

\* The ways to list rows by number: one, where no two have the same.
InOrder(S) == {f \in Bijection(1..Cardinality(S), S) :
                 \A i, j \in 1..Cardinality(S) : i < j => f[i].seq <= f[j].seq}
BySeq(S) == LET rows == CHOOSE f \in InOrder(S) : TRUE
            IN [i \in 1..Cardinality(S) |-> rows[i].of]

\* What on_attach() restores when it succeeds: the state that was captured, or
\* no message of it where the bytes are not those that were captured, and then
\* what the replayed messages that the handler accepts add to it.
Accepted == {e \in Replayed : e.of \notin setup.poison}
Recovered == Latest.state \o BySeq(Accepted)

\* load_promises_from_journal()
Resolutions(p) == {e \in journal : e.kind = "resolved" /\ e.of = p}
LoadedResult(p) ==
    IF Resolutions(p) = {} THEN Nothing
    ELSE (CHOOSE e \in Resolutions(p) : \A d \in Resolutions(p) : d.seq <= e.seq).by
LoadedPending ==
    {p \in Promises : /\ \E e \in journal : e.kind = "created" /\ e.of = p
                      /\ LoadedResult(p) = Nothing}

\* INSERT OR REPLACE.  Bytes that were compressed hold the state for whoever
\* decompresses them, which nothing does.
SavedAt(n, st, raw) ==
    {c \in checkpoints : c.seq # n}
      \cup {[seq |-> n, state |-> IF raw THEN st ELSE <<>>, raw |-> raw]}

\* compress_state_data() leaves the bytes alone, changes them, or fails.
Raw == setup.compression = "none"
CanSave == setup.compression # "absent"

\* maybe_checkpoint() of the checkpoint manager
Due(n) == Interval > 0 /\ n - lastSeq >= Interval

\* How many side effects the handler recorded for the message in hand.
Effects == IF order \in Effectful THEN 1 ELSE 0

Row(n, kind, of, by) == [seq |-> n, kind |-> kind, of |-> of, by |-> by]

Fault == /\ journalFaults < MaxJournalFaults
         /\ journalFaults' = journalFaults + 1

PromisesAlone == UNCHANGED <<pending, resolved, work, overlapped>>
LoopAlone == UNCHANGED <<loop, todo, order, mark, state, lastSeq, checkpoints, lost>>
-----------------------------------------------------------------------------
(* Activation: a new facet and a new behaviour.                            *)

\* Mutant: the counter continues after the replayed entries only.
AttachedSeqOfDelta == IF Replayed = {} THEN 0 ELSE LastNumber

\* message_sequence becomes the number of the last of all entries.
AttachedSeq == LastNumber

\* restore_state() may fail: with bytes that are not those that were captured,
\* and always for a behaviour that has no way to take them.
MayRefuse == checkpoints # {} /\ setup.captures /\ ~(setup.restores /\ Latest.raw)
MayTake   == checkpoints = {} \/ (setup.captures => setup.restores)

\* The handler refuses a message that is replayed.
ReplayFails == \E e \in Replayed : e.of \in setup.poison

\* on_attach()
Attach ==
    /\ loop = "down" /\ lives < MaxLives
    /\ setup.replay => MayTake /\ ~ReplayFails
    /\ loop' = "idle"
    /\ state' = IF setup.replay THEN Recovered ELSE <<>>
    /\ seq' = AttachedSeq /\ lastSeq' = 0
    /\ pending' = LoadedPending
    /\ resolved' = [p \in Promises |-> LoadedResult(p)]
    /\ overlapped' = {} /\ lives' = lives + 1
    /\ lost' = IF setup.replay THEN lost ELSE Orders \ todo
    /\ UNCHANGED <<setup, todo, order, mark, journal, checkpoints, work,
                   calls, journalFaults, gaps>>

\* on_attach() fails: the state is not taken, a replayed message is refused, a
\* table cannot be read, or the checkpoint is one of a newer schema.  The
\* factory then gives up.  A supervisor and a WASM application only warn and run
\* the actor without the facet: such a life handles the messages of S and
\* writes nothing.
AttachFails(S) ==
    /\ loop = "down" /\ lives < MaxLives /\ S \subseteq todo
    /\ IF setup.replay /\ (MayRefuse \/ ReplayFails) THEN UNCHANGED journalFaults ELSE Fault
    /\ todo' = todo \ S /\ lives' = lives + 1
    /\ PromisesAlone
    /\ UNCHANGED <<setup, loop, order, mark, state, seq, lastSeq, journal, checkpoints,
                   calls, gaps, lost>>
-----------------------------------------------------------------------------
(* The message loop: before_method(), handle_message(), after_method().    *)

\* before_method() takes the next number: at or below that of the latest
\* checkpoint no replay will come to it ...
BeforeMethod(m) ==
    /\ loop = "idle" /\ m \in todo
    /\ todo' = todo \ {m} /\ order' = m
    /\ seq' = seq + 1 /\ mark' = seq + 1 /\ loop' = "received"
    /\ lost' = IF seq + 1 <= Latest.seq THEN lost \cup {m} ELSE lost
    /\ PromisesAlone
    /\ UNCHANGED <<setup, state, lastSeq, journal, checkpoints, lives, calls,
                   journalFaults, gaps>>

\* ... and appends the entry.
AppendReceived ==
    /\ loop = "received" /\ loop' = "handling"
    /\ journal' = journal \cup {Row(mark, "received", order, Nothing)}
    /\ PromisesAlone
    /\ UNCHANGED <<setup, todo, order, mark, state, seq, lastSeq,
                   checkpoints, lives, calls, journalFaults, gaps, lost>>

\* If that fails, the message fails and the number is used up.
AppendReceivedFails ==
    /\ loop = "received" /\ loop' = "idle" /\ order' = Nothing
    /\ gaps' = TRUE
    /\ Fault /\ PromisesAlone
    /\ UNCHANGED <<setup, todo, mark, state, seq, lastSeq, journal,
                   checkpoints, lives, calls, lost>>

\* handle_message(): after an error after_method() does not run.
HandleMessage ==
    /\ loop = "handling"
    /\ IF order \in setup.poison
       THEN /\ loop' = "idle" /\ order' = Nothing
            /\ UNCHANGED state
       ELSE /\ loop' = "handled"
            /\ state' = Append(state, order)
            /\ UNCHANGED order
    /\ PromisesAlone
    /\ UNCHANGED <<setup, todo, mark, seq, lastSeq, journal, checkpoints, lives, calls,
                   journalFaults, gaps, lost>>

\* after_method() takes one number for the message and one for each side
\* effect, ...
AfterMethod ==
    /\ loop = "handled" /\ loop' = "batch"
    /\ mark' = seq + 1 /\ seq' = seq + 1 + Effects
    /\ PromisesAlone
    /\ UNCHANGED <<setup, todo, order, state, lastSeq, journal,
                   checkpoints, lives, calls, journalFaults, gaps, lost>>

\* ... appends them in one transaction ...
AppendBatch ==
    /\ loop = "batch" /\ loop' = "check"
    /\ journal' = journal \cup {Row(mark, "processed", order, Nothing)}
                  \cup {Row(mark + i, "effect", order, Nothing) : i \in 1..Effects}
    /\ PromisesAlone
    /\ UNCHANGED <<setup, todo, order, mark, state, seq, lastSeq,
                   checkpoints, lives, calls, journalFaults, gaps, lost>>

\* (whose failure process_message() ignores)
AppendBatchFails ==
    /\ loop = "batch" /\ loop' = "idle" /\ order' = Nothing
    /\ gaps' = TRUE
    /\ Fault /\ PromisesAlone
    /\ UNCHANGED <<setup, todo, mark, state, seq, lastSeq, journal,
                   checkpoints, lives, calls, lost>>

CheckpointDue ==
    /\ Interval > 0 /\ seq % Interval = 0 /\ setup.captures /\ Due(seq) /\ CanSave

\* Mutant: the checkpoint is taken under the number of the received message's
\* successor, before the other entries of this message are counted.
CheckpointBehind ==
    /\ loop = "check" /\ loop' = "idle" /\ order' = Nothing
    /\ IF CheckpointDue
       THEN /\ checkpoints' = SavedAt(seq - 2 - Effects, state, Raw) /\ lastSeq' = seq
            /\ lost' = IF Raw THEN lost ELSE lost \cup ToSet(state)
       ELSE UNCHANGED <<checkpoints, lastSeq, lost>>
    /\ PromisesAlone
    /\ UNCHANGED <<setup, todo, mark, state, seq, journal, lives, calls,
                   journalFaults, gaps>>

\* ... and, at a multiple of the interval, saves a checkpoint under the
\* number the counter then has.
Checkpoint ==
    /\ loop = "check" /\ loop' = "idle" /\ order' = Nothing
    /\ IF CheckpointDue
       THEN /\ checkpoints' = SavedAt(seq, state, Raw) /\ lastSeq' = seq
            /\ lost' = IF Raw THEN lost ELSE lost \cup ToSet(state)
       ELSE UNCHANGED <<checkpoints, lastSeq, lost>>
    /\ PromisesAlone
    /\ UNCHANGED <<setup, todo, mark, state, seq, journal, lives, calls,
                   journalFaults, gaps>>

CheckpointFails ==
    /\ loop = "check" /\ loop' = "idle" /\ order' = Nothing
    /\ CheckpointDue
    /\ Fault /\ PromisesAlone
    /\ UNCHANGED <<setup, todo, mark, state, seq, lastSeq, journal,
                   checkpoints, lives, calls, gaps, lost>>
-----------------------------------------------------------------------------
(* How a life ends.                                                        *)

Reserved == IF loop = "received" THEN {mark}
            ELSE IF loop = "batch" THEN mark..(mark + Effects) ELSE {}
PromiseReserved(c) == IF work[c].at \in {"create", "resolve"} THEN {work[c].seq} ELSE {}

Ended == /\ loop' = "down" /\ order' = Nothing /\ mark' = 0
         /\ state' = <<>> /\ seq' = 0 /\ lastSeq' = 0
         /\ pending' = {} /\ resolved' = [p \in Promises |-> Nothing]
         /\ work' = Asleep

\* on_exit(): an EXIT the actor traps saves a checkpoint without a state; if
\* that fails there is a warning.
OnExit(saved) ==
    /\ loop = "idle" /\ \A c \in PromiseCallers : NoWork(c)
    /\ loop' = "exiting"
    /\ IF Due(seq) /\ CanSave /\ saved
       THEN /\ checkpoints' = SavedAt(seq, <<>>, FALSE) /\ lastSeq' = seq
            /\ lost' = lost \cup ToSet(state)
       ELSE UNCHANGED <<checkpoints, lastSeq, lost>>
    /\ IF saved THEN UNCHANGED journalFaults ELSE Due(seq) /\ CanSave /\ Fault
    /\ PromisesAlone
    /\ UNCHANGED <<setup, todo, order, mark, state, seq, journal, lives, calls, gaps>>

\* handle_exit() answers Handle and the loop goes on, ...
ExitHandled ==
    /\ loop = "exiting" /\ loop' = "idle"
    /\ PromisesAlone
    /\ UNCHANGED <<setup, todo, order, mark, state, seq, lastSeq, journal,
                   checkpoints, lives, calls, journalFaults, gaps, lost>>

\* ... or Propagate: the loop ends, on_terminate_start() is not called.
ExitPropagates ==
    /\ loop = "exiting" /\ \A c \in PromiseCallers : NoWork(c)
    /\ Ended
    /\ UNCHANGED <<setup, todo, journal, checkpoints, lives, calls, journalFaults, gaps, lost,
                   overlapped>>

\* What capture_state() finds once the loop has been aborted.
Captured == state
SavesState == setup.captures /\ CanSave

\* stop(): 100 ms after the shutdown signal the loop is aborted wherever it
\* is, a write on its way may still land, and on_terminate_start() saves the
\* state under the current number.
Stop(landed, saved) ==
    /\ loop \in {"idle", "received", "handling", "handled", "batch", "check"}
    /\ \A c \in PromiseCallers : NoWork(c)
    /\ landed => loop \in {"received", "batch"}
    /\ journal' =
         IF ~landed THEN journal
         ELSE IF loop = "received" THEN journal \cup {Row(mark, "received", order, Nothing)}
         ELSE journal \cup {Row(mark, "processed", order, Nothing)}
              \cup {Row(mark + i, "effect", order, Nothing) : i \in 1..Effects}
    /\ gaps' = (gaps \/ (loop \in {"received", "batch"} /\ ~landed))
    /\ checkpoints' = IF SavesState /\ saved THEN SavedAt(seq, Captured, Raw) ELSE checkpoints
    /\ lost' = lost \cup (IF loop = "handling" \/ (loop = "received" /\ landed) THEN {order} ELSE {})
                    \cup (IF SavesState /\ saved /\ ~Raw THEN ToSet(Captured) ELSE {})
    /\ IF saved THEN UNCHANGED journalFaults ELSE SavesState /\ Fault
    /\ Ended
    /\ UNCHANGED <<setup, todo, lives, calls, overlapped>>

\* The node goes down.
Crash ==
    /\ loop # "down"
    /\ gaps' = (gaps \/ Reserved # {} \/ \E c \in PromiseCallers : PromiseReserved(c) # {})
    /\ Ended
    /\ UNCHANGED <<setup, todo, journal, checkpoints, lives, calls, journalFaults, lost,
                   overlapped>>
-----------------------------------------------------------------------------
(* Promises.                                                               *)

Up == loop \notin {"down", "exiting"}

\* The check and the number of the entry; nothing keeps another call with the
\* same promise from passing the same check.
Begin(c, p, kind) ==
    /\ Up /\ NoWork(c) /\ calls < MaxPromiseCalls /\ calls' = calls + 1
    /\ seq' = seq + 1
    /\ work' = [work EXCEPT ![c] = [at |-> kind, of |-> p, seq |-> seq + 1]]
    /\ overlapped' = IF \E d \in PromiseCallers \ {c} : ~NoWork(d) /\ work[d].of = p
                     THEN overlapped \cup {p} ELSE overlapped
    /\ LoopAlone /\ UNCHANGED <<setup, journal, pending, resolved, lives, journalFaults, gaps>>

CreatePromise(c, p) == p \notin pending /\ resolved[p] = Nothing /\ Begin(c, p, "create")

ResolvePromise(c, p) == p \in pending /\ Begin(c, p, "resolve")

AppendPromise(c) ==
    /\ work[c].at \in {"create", "resolve"}
    /\ LET done == IF work[c].at = "create" THEN "created" ELSE "resolved" IN
       /\ journal' = journal \cup
            {Row(work[c].seq, done, work[c].of, IF done = "created" THEN Nothing ELSE c)}
       /\ work' = [work EXCEPT ![c].at = done]
    /\ LoopAlone /\ UNCHANGED <<setup, seq, pending, resolved, overlapped, lives, calls, journalFaults, gaps>>

\* Mutant: a failed append is found out after the promise has been moved.
AppendPromiseFailsLate(c) ==
    /\ work[c].at \in {"create", "resolve"}
    /\ work' = [work EXCEPT ![c] = Asleep[c]]
    /\ pending' = pending \ {work[c].of}
    /\ gaps' = TRUE
    /\ Fault
    /\ LoopAlone /\ UNCHANGED <<setup, seq, journal, resolved, overlapped, lives, calls>>

\* A failed append leaves the promise as it is.
AppendPromiseFails(c) ==
    /\ work[c].at \in {"create", "resolve"}
    /\ work' = [work EXCEPT ![c] = Asleep[c]]
    /\ gaps' = TRUE
    /\ Fault
    /\ LoopAlone /\ UNCHANGED <<setup, seq, journal, pending, resolved, overlapped, lives, calls>>

\* The promise enters pending_promises, or leaves it for resolved_promises.
SettlePromise(c) ==
    /\ work[c].at \in {"created", "resolved"}
    /\ IF work[c].at = "created"
       THEN pending' = pending \cup {work[c].of} /\ UNCHANGED resolved
       ELSE /\ pending' = pending \ {work[c].of}
            /\ resolved' = [resolved EXCEPT ![work[c].of] = c]
    /\ work' = [work EXCEPT ![c] = Asleep[c]]
    /\ LoopAlone /\ UNCHANGED <<setup, seq, journal, overlapped, lives, calls, journalFaults, gaps>>
-----------------------------------------------------------------------------
DurabilityNext ==
    \/ Attach
    \/ \E S \in SUBSET Orders : AttachFails(S)
    \/ \E m \in Orders : BeforeMethod(m)
    \/ AppendReceived \/ AppendReceivedFails
    \/ HandleMessage
    \/ AfterMethod \/ AppendBatch \/ AppendBatchFails
    \/ Checkpoint \/ CheckpointFails
    \/ (\E saved \in BOOLEAN : OnExit(saved)) \/ ExitHandled \/ ExitPropagates
    \/ \E landed, saved \in BOOLEAN : Stop(landed, saved)
    \/ Crash
    \/ \E c \in PromiseCallers, p \in Promises : CreatePromise(c, p) \/ ResolvePromise(c, p)
    \/ \E c \in PromiseCallers :
         AppendPromise(c) \/ AppendPromiseFails(c) \/ SettlePromise(c)

DurabilitySpec == DurabilityInit /\ [][DurabilityNext]_durabilityVars
-----------------------------------------------------------------------------
(* Properties.                                                             *)

\* What an activation that succeeds would restore at this moment contains no
\* message twice and only journaled ones, in the order in which they were
\* journaled; and a message the handler accepts, once journaled, is restored -
\* however the actor went down and whatever was not written - but for those that
\* a checkpoint leaves out or hides: one whose bytes were compressed, one of an
\* EXIT or of a stop in the middle of that message, a life without replay, and
\* the messages whose number a checkpoint had before them (before_method,
\* after_method, on_attach, on_terminate_start).
RecoveryComplete ==
    LET restored == Recovered IN
    /\ IsInjective(restored)
    /\ \A i \in 1..Len(restored) : \E e \in Received : e.of = restored[i]
    /\ \A i, j \in 1..Len(restored) : i < j =>
         \E d, e \in Received : d.of = restored[i] /\ e.of = restored[j] /\ d.seq < e.seq
    /\ \A e \in Received : e.of \in setup.poison \cup lost \cup ToSet(restored)

\* No two writes in progress, and no write and a row, ever have the same
\* number, over any number of restarts: the UNIQUE(actor_id, sequence) of the
\* journal is never met by an actor that runs once.
NumbersDistinct ==
    /\ Reserved \cap Numbers = {}
    /\ \A c \in PromiseCallers :
         /\ PromiseReserved(c) \cap (Numbers \cup Reserved) = {}
         /\ \A d \in PromiseCallers \ {c} : PromiseReserved(c) \cap PromiseReserved(d) = {}
    /\ Cardinality(Numbers) = Cardinality(journal)

\* Between calls the promises in memory are those a restart would load from
\* the journal, failed writes included, unless calls for the same promise
\* overlapped: then the order of the journal and the order in memory may
\* differ (create_promise, resolve_promise, load_promises_from_journal).
PromisesAgree ==
    loop # "down" =>
      \A p \in Promises \ overlapped :
        (\A c \in PromiseCallers : NoWork(c) \/ work[c].of # p) =>
           /\ p \in pending <=> p \in LoadedPending
           /\ resolved[p] = LoadedResult(p)

Unwritten == Reserved \cup UNION {PromiseReserved(c) : c \in PromiseCallers}
HasLast(S) == S = {} \/ \E e \in S : \A d \in S : d.seq <= e.seq

\* Both tables are finite, have one row per number, and so a last row.
TablesKept ==
    /\ IsFiniteSet(journal) /\ HasLast(journal) /\ HasLast(checkpoints)
    /\ \A d, e \in journal : d.seq = e.seq => d = e
    /\ \A d, e \in checkpoints : d.seq = e.seq => d = e
    /\ \A e \in journal :
         /\ e.seq > 0
         /\ e.kind = "received" => e.of \in Orders
         /\ e.kind = "resolved" => e.by \in PromiseCallers
    /\ \A p \in Promises : HasLast(Resolutions(p))

\* The counter is above every number in use; where none that was handed out was
\* lost, the last one was written or is about to be, and no checkpoint is above
\* the journal, so that none hides a message that comes after it.
NumbersInUse ==
    /\ \A n \in Unwritten : n > 0
    /\ loop # "down" => \A n \in Numbers \cup Unwritten : n <= seq
    /\ ~gaps /\ loop # "down" => seq = 0 \/ seq \in Numbers \cup Unwritten
    /\ ~gaps => \A c \in checkpoints :
                  IF loop = "down" THEN c.seq = 0 \/ \E n \in Numbers : c.seq <= n
                  ELSE c.seq <= seq

\* A message is journaled once, and the one in hand is the last of them.
OrdersOnce ==
    /\ \A e \in Received : e.of \notin todo
    /\ \A d, e \in Received : d.of = e.of => d = e
    /\ loop \in {"received", "handling", "handled", "batch", "check"} => order \in Orders \ todo
    /\ loop = "received" =>
         /\ order \notin ToSet(state)
         /\ \A e \in Received : e.of # order /\ e.seq < mark
         /\ Latest.seq < mark \/ order \in lost
    /\ loop = "handling" =>
         /\ order \notin ToSet(state)
         /\ \E e \in Received : e.of = order /\ \A d \in Received \ {e} : d.seq < e.seq

\* The messages of s were journaled under numbers up to n, in their order.
Journaled(s, n) ==
    /\ \A i \in DOMAIN s : \E e \in Received : e.of = s[i] /\ e.seq <= n
    /\ \A i, j \in DOMAIN s : i < j =>
         (\A d, e \in Received : d.of = s[i] /\ e.of = s[j] => d.seq < e.seq)

\* The state and every checkpoint list messages in their order, and leave out
\* none that was journaled before, but for the exceptions of RecoveryComplete.
StatesInOrder ==
    /\ Journaled(state, seq)
    /\ \A c \in checkpoints : Journaled(c.state, c.seq)
    /\ InOrder(Accepted) # {}
    /\ LET last == Latest IN \A e \in Received :
         /\ e.seq <= last.seq => e.of \in setup.poison \cup lost \cup ToSet(last.state)
         /\ loop # "down" => e.of \in setup.poison \cup lost \cup ToSet(state)
                                     \cup (IF loop = "handling" THEN {order} ELSE {})

\* What a promise is in memory and in the journal while its one call is on its way.
PromisesInTurn ==
    /\ loop \in {"down", "exiting"} => \A c \in PromiseCallers : NoWork(c)
    /\ \A c, d \in PromiseCallers :
         c # d /\ ~NoWork(c) /\ ~NoWork(d) /\ work[c].of = work[d].of => work[c].of \in overlapped
    /\ \A c \in PromiseCallers :
         LET p == work[c].of
             agree == resolved[p] = LoadedResult(p) /\ (p \in pending <=> p \in LoadedPending)
         IN \/ NoWork(c) \/ p \in overlapped
            \/ work[c].at = "create" /\ agree /\ p \notin pending /\ resolved[p] = Nothing
            \/ work[c].at = "created" /\ p \in LoadedPending /\ p \notin pending /\ resolved[p] = Nothing
            \/ work[c].at = "resolve" /\ agree /\ p \in pending
            \/ work[c].at = "resolved" /\ p \in pending /\ LoadedResult(p) = c

\* What the facet keeps at every await, over failed writes, stops and crashes.
DurabilityInv ==
    /\ DurabilityTypeOK /\ RecoveryComplete /\ NumbersDistinct /\ PromisesAgree
    /\ TablesKept /\ NumbersInUse /\ OrdersOnce /\ StatesInOrder /\ PromisesInTurn

\* "This ensures durability state is persisted before actor terminates"
\* (comment of on_exit): an activation after on_exit() would restore the
\* state the actor has.  It would not: the checkpoint is empty.
ExitKeepsState ==
    loop = "exiting" /\ setup.replay /\ setup.compression = "none" /\ ~gaps => Recovered = state
=============================================================================
