----------------------------- MODULE TupleSpace -----------------------------
(***************************************************************************)
(* The tuple space (crates/tuplespace/src/mod.rs) with its watchers and    *)
(* barriers.  A write or a take changes the storage and then, in further   *)
(* steps, tells the watchers over bounded channels while it holds the      *)
(* watchers' lock; a write finally looks at the barriers.  A call may be   *)
(* dropped where it waits, by a timeout around it or with its task.        *)
(*                                                                         *)
(* The storage is a vector in memory, in one space that all clients share, *)
(* or an SQLite table (storage/sql.rs) that the spaces of several          *)
(* processes share.  A pattern is the set of tuples it matches.            *)
(***************************************************************************)
EXTENDS Naturals, Sequences, FiniteSets, SequencesExt

CONSTANTS
    SpaceClients, \* callers of the space
    Homes,        \* the spaces (processes) of a shared table
    HomeOf,       \* HomeOf[c]: the one that c calls
    Tuples,       \* the tuples that may be written, once each
    Patterns,     \* patterns of take() and take_all()
    Leased,       \* tuples with a lease
    Gates,        \* tuples that match the pattern of the barrier
    Watchers,     \* watch() calls
    WatchRoom,    \* capacity of a watcher's channel
    BarrierSizes, \* counts with which barrier() is called
    MaxSpaceOps,  \* bound on calls
    NoClient

ASSUME TupleSpaceAssumption ==
    /\ HomeOf \in [SpaceClients -> Homes]
    /\ Patterns \subseteq SUBSET Tuples /\ Leased \subseteq Tuples /\ Gates \subseteq Tuples
    /\ WatchRoom \in Nat \ {0} /\ BarrierSizes \subseteq Nat /\ MaxSpaceOps \in Nat
    /\ NoClient \notin SpaceClients /\ Watchers # {}

VARIABLES
    backend,     \* "memory" or "sqlite"
    tuples,      \* the stored tuples, oldest first
    locked,      \* locked[h]: who holds the locks of tuples and stats
    job,         \* job[c]: what c has still to do
    readers,     \* readers[h]: who holds the watchers' lock for reading
    watching,    \* watching[h]: the watchers in the map
    chan,        \* chan[w]: events on their way
    gone,        \* watchers that dropped their receiver
    mirror,      \* mirror[w]: the tuples that are there, judged by the events
    atBarrier,     \* atBarrier[h]: clients in barrier()
    deserted,    \* deserted[h]: senders of callers that gave up waiting
    expected,    \* expected[h]: how many the barrier waits for
    expired,     \* tuples whose lease has ended
    written,     \* tuples written so far
    handed,      \* handed[t]: whose take() or take_all() returned t or has it to return
    wasted,      \* tuples that a dropped call had removed
    cut,         \* tuples whose write was dropped
    cleared,     \* tuples that clear() removed
    swept,       \* tuples that a take() removed beside the one it returned
    early,       \* tuples taken before their writer had told the watchers
    since,       \* since[w]: the tuples written before w watched
    spaceOps     \* calls so far

spaceVars == <<backend, tuples, locked, job, readers, watching, chan, gone, mirror, atBarrier,
               deserted, expected, expired, written, handed, wasted, cut, cleared, swept, early,
               since, spaceOps>>

Jobs == [at: {"idle", "delete", "announce", "send", "gate", "watch", "wait"},
         event: {"Added", "Removed"}, items: Seq(Tuples), got: SUBSET Tuples,
         rest: SUBSET Watchers, all: BOOLEAN, watcher: Watchers]

TupleSpaceTypeOK ==
    /\ backend \in {"memory", "sqlite"} /\ tuples \in Seq(Tuples)
    /\ locked \in [Homes -> SpaceClients \cup {NoClient}]
    /\ job \in [SpaceClients -> Jobs]
    /\ readers \in [Homes -> SUBSET SpaceClients]
    /\ watching \in [Homes -> SUBSET Watchers] /\ gone \subseteq Watchers
    /\ chan \in [Watchers -> Seq({"Added", "Removed"} \X Tuples)]
    /\ mirror \in [Watchers -> SUBSET Tuples] /\ since \in [Watchers -> SUBSET Tuples]
    /\ atBarrier \in [Homes -> SUBSET SpaceClients] /\ deserted \in [Homes -> Nat]
    /\ expected \in [Homes -> Nat]
    /\ \A S \in {expired, written, wasted, cut, cleared, swept, early} : S \subseteq Tuples
    /\ handed \in [Tuples -> SUBSET SpaceClients] /\ spaceOps \in 0..MaxSpaceOps

Idle == [at |-> "idle", event |-> "Added", items |-> <<>>, got |-> {}, rest |-> {},
         all |-> FALSE, watcher |-> CHOOSE w \in Watchers : TRUE]

TupleSpaceInit ==
    /\ backend \in {"memory", "sqlite"} /\ tuples = <<>>
    /\ locked = [h \in Homes |-> NoClient] /\ job = [c \in SpaceClients |-> Idle]
    /\ readers = [h \in Homes |-> {}] /\ watching = [h \in Homes |-> {}]
    /\ chan = [w \in Watchers |-> <<>>] /\ gone = {}
    /\ mirror = [w \in Watchers |-> {}] /\ since = [w \in Watchers |-> {}]
    /\ atBarrier = [h \in Homes |-> {}] /\ deserted = [h \in Homes |-> 0]
    /\ expected = [h \in Homes |-> 0] /\ wasted = {} /\ cut = {}
    /\ expired = {} /\ written = {} /\ cleared = {} /\ swept = {} /\ early = {}
    /\ handed = [t \in Tuples |-> {}] /\ spaceOps = 0
-----------------------------------------------------------------------------
\* In memory there is one space for all.
Home(c) == IF backend = "memory" THEN CHOOSE h \in Homes : TRUE ELSE HomeOf[c]

\* What a filter leaves of s: the elements that are in S, in their order.
Kept(s, S) ==
    LET places  == {i \in 1..Len(s) : s[i] \in S}
        rank(i) == Cardinality({j \in places : j <= i})
    IN [k \in 1..Cardinality(places) |-> s[CHOOSE i \in places : rank(i) = k]]

Unexpired(s) == Kept(s, Tuples \ expired)
Matching(s, p) == Kept(s, p)
Without(s, dropped) == Kept(s, Tuples \ dropped)

\* A call begins, when the locks it needs first are free.
Call(c) == /\ job[c].at = "idle" /\ spaceOps < MaxSpaceOps
           /\ spaceOps' = spaceOps + 1
Free(c) == locked[Home(c)] = NoClient

Tell(event, items, all) ==
    [Idle EXCEPT !.at = "announce", !.event = event, !.items = items, !.all = all,
                 !.got = IF event = "Removed" THEN ToSet(items) ELSE {}]

StillUntold == {t \in Tuples : \E c \in SpaceClients :
                  /\ job[c].event = "Added" /\ job[c].at \in {"announce", "send"}
                  /\ t \in ToSet(job[c].items)}

HandTo(c, S) == /\ handed' = [t \in Tuples |-> IF t \in S THEN handed[t] \cup {c} ELSE handed[t]]
                /\ early' = early \cup (S \cap StillUntold)

WatchersAlone == UNCHANGED <<readers, watching, chan, gone, mirror, since>>
BarrierAlone  == UNCHANGED <<atBarrier, deserted, expected>>
StorageAlone  == UNCHANGED <<tuples, locked, expired, written, handed, wasted, cut, cleared, swept,
                            early>>
-----------------------------------------------------------------------------
\* write(): a vector drops its expired tuples on the way.
WriteTuple(c, t) ==
    /\ Call(c) /\ Free(c) /\ t \notin written
    /\ tuples' = Append(IF backend = "memory" THEN Unexpired(tuples) ELSE tuples, t)
    /\ written' = written \cup {t}
    /\ job' = [job EXCEPT ![c] = Tell("Added", <<t>>, FALSE)]
    /\ WatchersAlone /\ BarrierAlone
    /\ UNCHANGED <<backend, locked, expired, handed, wasted, cut, cleared, swept, early>>

\* Mutant: take() in memory reads under the read lock and removes later.
TakeFirstLeaves(c, p) ==
    /\ Call(c) /\ Free(c) /\ backend = "memory"
    /\ LET found == Matching(Unexpired(tuples), p) IN
       IF found = <<>>
       THEN UNCHANGED <<tuples, job, handed, early>>
       ELSE /\ UNCHANGED tuples
            /\ HandTo(c, {Head(found)})
            /\ job' = [job EXCEPT ![c] = Tell("Removed", <<Head(found)>>, FALSE)]
    /\ WatchersAlone /\ BarrierAlone
    /\ UNCHANGED <<backend, locked, expired, written, wasted, cut, cleared, swept>>

\* take() in memory: the first match is removed and returned.
TakeFirst(c, p) ==
    /\ Call(c) /\ Free(c) /\ backend = "memory"
    /\ LET found == Matching(Unexpired(tuples), p) IN
       IF found = <<>>
       THEN /\ tuples' = Unexpired(tuples)
            /\ UNCHANGED <<job, handed, early>>
       ELSE /\ tuples' = Without(Unexpired(tuples), {Head(found)})
            /\ HandTo(c, {Head(found)})
            /\ job' = [job EXCEPT ![c] = Tell("Removed", <<Head(found)>>, FALSE)]
    /\ WatchersAlone /\ BarrierAlone
    /\ UNCHANGED <<backend, locked, expired, written, wasted, cut, cleared, swept>>

\* take_all() in memory keeps the locks until every watcher has been told.
TakeAll(c, p) ==
    /\ Call(c) /\ Free(c) /\ backend = "memory"
    /\ LET found == Matching(Unexpired(tuples), p) IN
       /\ tuples' = Without(Unexpired(tuples), ToSet(found))
       /\ HandTo(c, ToSet(found))
       /\ IF found = <<>>
          THEN UNCHANGED <<job, locked>>
          ELSE /\ locked' = [locked EXCEPT ![Home(c)] = c]
               /\ job' = [job EXCEPT ![c] = Tell("Removed", found, TRUE)]
    /\ WatchersAlone /\ BarrierAlone
    /\ UNCHANGED <<backend, expired, written, wasted, cut, cleared, swept>>

\* On a table take() and take_all() first select the rows ...
SelectRows(c, p, all) ==
    /\ Call(c) /\ Free(c) /\ backend = "sqlite"
    /\ LET found == Matching(Unexpired(tuples), p) IN
       IF found = <<>>
       THEN UNCHANGED <<job, locked>>
       ELSE /\ locked' = [locked EXCEPT ![Home(c)] = c]
            /\ job' = [job EXCEPT ![c] = [Tell("Removed", found, all) EXCEPT
                                       !.at = "delete", !.got = {}]]
    /\ WatchersAlone /\ BarrierAlone
    /\ UNCHANGED <<backend, tuples, expired, written, handed, wasted, cut, cleared, swept, early>>

\* ... and then delete them all, whether or not they are still there; take()
\* returns the last of them and forgets the others.
DeleteRows(c) ==
    /\ job[c].at = "delete"
    /\ LET found == ToSet(job[c].items)
           kept  == IF job[c].all THEN job[c].items ELSE <<Last(job[c].items)>> IN
       /\ tuples' = Without(tuples, found)
       /\ HandTo(c, ToSet(kept))
       /\ swept' = swept \cup ((found \cap ToSet(tuples)) \ ToSet(kept))
       /\ job' = [job EXCEPT ![c] = Tell("Removed", kept, job[c].all)]
    /\ locked' = IF job[c].all THEN locked ELSE [locked EXCEPT ![Home(c)] = NoClient]
    /\ WatchersAlone /\ BarrierAlone
    /\ UNCHANGED <<backend, expired, written, wasted, cut, cleared, spaceOps>>

\* clear(): no watcher hears of it.
ClearSpace(c) ==
    /\ Call(c) /\ Free(c)
    /\ cleared' = cleared \cup ToSet(tuples) /\ tuples' = <<>>
    /\ WatchersAlone /\ BarrierAlone
    /\ UNCHANGED <<backend, locked, job, expired, written, handed, wasted, cut, swept, early>>

\* cleanup_expired(), in memory only; no watcher hears of this either.
CleanupExpired(c) ==
    /\ Call(c) /\ Free(c) /\ backend = "memory"
    /\ tuples' = Unexpired(tuples)
    /\ WatchersAlone /\ BarrierAlone
    /\ UNCHANGED <<backend, locked, job, expired, written, handed, wasted, cut, cleared, swept,
                   early>>

\* A lease ends.
LeaseEnds(t) ==
    /\ t \in (Leased \cap written) \ expired
    /\ expired' = expired \cup {t}
    /\ WatchersAlone /\ BarrierAlone
    /\ UNCHANGED <<backend, tuples, locked, job, written, handed, wasted, cut, cleared, swept,
                   early, spaceOps>>
-----------------------------------------------------------------------------
(* Watchers.                                                               *)

\* The watchers' lock for reading; a writer that waits goes first.
Announce(c) ==
    /\ job[c].at = "announce"
    /\ \A d \in SpaceClients : ~(job[d].at = "watch" /\ Home(d) = Home(c))
    /\ readers' = [readers EXCEPT ![Home(c)] = @ \cup {c}]
    /\ job' = [job EXCEPT ![c].at = "send", ![c].rest = watching[Home(c)]]
    /\ StorageAlone /\ BarrierAlone
    /\ UNCHANGED <<backend, watching, chan, gone, mirror, since, spaceOps>>

\* Mutant: a send waits for room even if the receiver is gone.
RoomForEver(w) == Len(chan[w]) < WatchRoom

\* A send waits for room, unless the receiver is gone.
Room(w) == w \in gone \/ Len(chan[w]) < WatchRoom

\* Mutant: an event for which there is no room is dropped.
SendEventOrDrop(c) ==
    /\ job[c].at = "send" /\ job[c].rest # {}
    /\ LET w == CHOOSE w \in job[c].rest : TRUE IN
       /\ chan' = IF w \in gone \/ Len(chan[w]) >= WatchRoom THEN chan
                  ELSE [chan EXCEPT ![w] = Append(@, <<job[c].event, Head(job[c].items)>>)]
       /\ job' = [job EXCEPT ![c].rest = @ \ {w}]
    /\ StorageAlone /\ BarrierAlone
    /\ UNCHANGED <<backend, readers, watching, gone, mirror, since, spaceOps>>

\* The watchers are told one after the other.
SendEvent(c) ==
    /\ job[c].at = "send" /\ job[c].rest # {}
    /\ LET w == CHOOSE w \in job[c].rest : TRUE IN
       /\ Room(w)
       /\ chan' = IF w \in gone THEN chan
                  ELSE [chan EXCEPT ![w] = Append(@, <<job[c].event, Head(job[c].items)>>)]
       /\ job' = [job EXCEPT ![c].rest = @ \ {w}]
    /\ StorageAlone /\ BarrierAlone
    /\ UNCHANGED <<backend, readers, watching, gone, mirror, since, spaceOps>>

\* All have been told of this tuple: a write turns to the barriers, still
\* with the lock; take_all() goes on with its next tuple, in memory with a
\* lock of its own for each.
Told(c) ==
    /\ job[c].at = "send" /\ job[c].rest = {}
    /\ LET more == Tail(job[c].items) IN
       IF job[c].event = "Added"
       THEN /\ job' = [job EXCEPT ![c].at = "gate"]
            /\ UNCHANGED <<readers, locked>>
       ELSE IF more = <<>>
       THEN /\ job' = [job EXCEPT ![c] = Idle]
            /\ readers' = [readers EXCEPT ![Home(c)] = @ \ {c}]
            /\ locked' = IF job[c].all THEN [locked EXCEPT ![Home(c)] = NoClient] ELSE locked
       ELSE IF backend = "memory"
       THEN /\ job' = [job EXCEPT ![c].at = "announce", ![c].items = more]
            /\ readers' = [readers EXCEPT ![Home(c)] = @ \ {c}]
            /\ UNCHANGED locked
       ELSE /\ job' = [job EXCEPT ![c].items = more, ![c].rest = watching[Home(c)]]
            /\ UNCHANGED <<readers, locked>>
    /\ BarrierAlone
    /\ UNCHANGED <<backend, tuples, watching, chan, gone, mirror, since, expired, written,
                   handed, wasted, cut, cleared, swept, early, spaceOps>>

\* watch() waits for the lock ...
Watch(c, w) ==
    /\ Call(c) /\ \A h \in Homes : w \notin watching[h]
    /\ \A d \in SpaceClients : ~(job[d].at = "watch" /\ job[d].watcher = w)
    /\ job' = [job EXCEPT ![c] = [Idle EXCEPT !.at = "watch", !.watcher = w]]
    /\ StorageAlone /\ WatchersAlone /\ BarrierAlone /\ UNCHANGED backend

\* ... and enters the map; nothing ever removes it from there.
WatchEntered(c) ==
    /\ job[c].at = "watch" /\ readers[Home(c)] = {}
    /\ watching' = [watching EXCEPT ![Home(c)] = @ \cup {job[c].watcher}]
    /\ since' = [since EXCEPT ![job[c].watcher] = written]
    /\ job' = [job EXCEPT ![c] = Idle]
    /\ StorageAlone /\ BarrierAlone
    /\ UNCHANGED <<backend, readers, chan, gone, mirror, spaceOps>>

\* The receiver keeps book.
ReceiveEvent(w) ==
    /\ chan[w] # <<>> /\ w \notin gone
    /\ LET e == Head(chan[w]) IN
       mirror' = [mirror EXCEPT ![w] = IF e[1] = "Added" THEN @ \cup {e[2]} ELSE @ \ {e[2]}]
    /\ chan' = [chan EXCEPT ![w] = Tail(@)]
    /\ StorageAlone /\ BarrierAlone
    /\ UNCHANGED <<backend, job, readers, watching, gone, since, spaceOps>>

DropReceiver(w) ==
    /\ w \notin gone /\ \E h \in Homes : w \in watching[h]
    /\ gone' = gone \cup {w}
    /\ StorageAlone /\ BarrierAlone
    /\ UNCHANGED <<backend, job, readers, watching, chan, mirror, since, spaceOps>>
-----------------------------------------------------------------------------
(* Barriers.  There is one, in each space.                                 *)

\* barrier() sets the count, leaves a sender and waits; it writes no tuple.
BarrierWait(c, n) ==
    /\ Call(c)
    /\ expected' = [expected EXCEPT ![Home(c)] = n]
    /\ atBarrier' = [atBarrier EXCEPT ![Home(c)] = @ \cup {c}]
    /\ job' = [job EXCEPT ![c] = [Idle EXCEPT !.at = "wait"]]
    /\ StorageAlone /\ WatchersAlone /\ UNCHANGED <<backend, deserted>>

\* The caller gives up; its sender stays and is counted.
AbandonWait(c) ==
    /\ job[c].at = "wait"
    /\ atBarrier' = [atBarrier EXCEPT ![Home(c)] = @ \ {c}]
    /\ deserted' = [deserted EXCEPT ![Home(c)] = @ + 1]
    /\ job' = [job EXCEPT ![c] = Idle]
    /\ StorageAlone /\ WatchersAlone /\ UNCHANGED <<backend, expected, spaceOps>>

\* Mutant: the barrier waits for one more than it was asked to.
EnoughAndOne(h) == Cardinality(atBarrier[h]) + deserted[h] > expected[h]

Enough(h) == Cardinality(atBarrier[h]) + deserted[h] >= expected[h]

\* The end of write(): a matching tuple opens a barrier with enough waiters.
CheckBarriers(c) ==
    /\ job[c].at = "gate"
    /\ LET h == Home(c)
           opens == Head(job[c].items) \in Gates /\ Enough(h) IN
       /\ atBarrier' = IF opens THEN [atBarrier EXCEPT ![h] = {}] ELSE atBarrier
       /\ deserted' = IF opens THEN [deserted EXCEPT ![h] = 0] ELSE deserted
       /\ job' = [d \in SpaceClients |->
                    IF d = c \/ (opens /\ d \in atBarrier[h]) THEN Idle ELSE job[d]]
       /\ readers' = [readers EXCEPT ![h] = @ \ {c}]
    /\ StorageAlone
    /\ UNCHANGED <<backend, expected, watching, chan, gone, mirror, since, spaceOps>>
-----------------------------------------------------------------------------
\* A call is dropped where it waits and lets go of its locks.  What it has
\* removed goes with it: in memory take_all() drains the whole vector and
\* puts back what it does not take only at its end; a table may or may not
\* have the DELETE already.
DropCall(c, deleted) ==
    /\ job[c].at \in {"delete", "announce", "send", "gate", "watch"}
    /\ deleted => job[c].at = "delete"
    /\ LET drained == backend = "memory" /\ job[c].all
           removed == IF drained THEN ToSet(tuples)
                      ELSE IF deleted THEN ToSet(job[c].items) \cap ToSet(tuples) ELSE {} IN
       /\ tuples' = IF drained THEN <<>> ELSE Without(tuples, removed)
       /\ wasted' = wasted \cup job[c].got \cup removed
    /\ handed' = [t \in Tuples |-> IF t \in job[c].got THEN handed[t] \ {c} ELSE handed[t]]
    /\ cut' = IF job[c].event = "Added" THEN cut \cup ToSet(job[c].items) ELSE cut
    /\ job' = [job EXCEPT ![c] = Idle]
    /\ locked' = [h \in Homes |-> IF locked[h] = c THEN NoClient ELSE locked[h]]
    /\ readers' = [h \in Homes |-> readers[h] \ {c}]
    /\ BarrierAlone
    /\ UNCHANGED <<backend, watching, chan, gone, mirror, since, expired, written, cleared,
                   swept, early, spaceOps>>
-----------------------------------------------------------------------------
TupleSpaceGoesOn ==
    \/ \E c \in SpaceClients :
         DeleteRows(c) \/ Announce(c) \/ SendEvent(c) \/ Told(c) \/ WatchEntered(c)
            \/ CheckBarriers(c)
    \/ \E w \in Watchers : ReceiveEvent(w)

TupleSpaceNext ==
    \/ TupleSpaceGoesOn
    \/ \E c \in SpaceClients :
         \/ \E t \in Tuples : WriteTuple(c, t)
         \/ \E p \in Patterns :
              TakeFirst(c, p) \/ TakeAll(c, p) \/ \E all \in BOOLEAN : SelectRows(c, p, all)
         \/ \E w \in Watchers : Watch(c, w)
         \/ ClearSpace(c) \/ CleanupExpired(c) \/ AbandonWait(c)
         \/ \E n \in BarrierSizes : BarrierWait(c, n)
         \/ \E deleted \in BOOLEAN : DropCall(c, deleted)
    \/ \E t \in Tuples : LeaseEnds(t)
    \/ \E w \in Watchers : DropReceiver(w)

\* The runtime polls every task that can make progress and a receiver that is
\* kept is read; nothing makes anybody call the space.
TupleSpaceSpec ==
    TupleSpaceInit /\ [][TupleSpaceNext]_spaceVars /\ WF_spaceVars(TupleSpaceGoesOn)
-----------------------------------------------------------------------------
(* Properties.                                                             *)

\* A tuple is given to two callers only by takes of two spaces on one table,
\* and never both given and kept; a written tuple is there, or a call that was
\* not dropped returned it or is about to, or it expired, or was cleared, or
\* was removed by a call that was dropped later, or from a table beside the
\* tuple that take() returned (write, take, take_all).
TuplesAccounted ==
    /\ \A t \in Tuples : \A c, d \in handed[t] :
         c # d => backend = "sqlite" /\ Home(c) # Home(d)
    /\ \A t \in ToSet(tuples) : handed[t] = {} /\ t \notin wasted
    /\ \A t \in written : \/ t \in ToSet(tuples) \/ handed[t] # {}
                          \/ t \in expired \cup cleared \cup wasted
                          \/ backend = "sqlite" /\ t \in swept

Quiet == /\ \A c \in SpaceClients : job[c].at \in {"idle", "wait"}
         /\ \A w \in Watchers \ gone : chan[w] = <<>>

\* In memory, once all calls are done and all events received, a watcher that
\* keeps book has every tuple that is there and was written since it watched,
\* and no other, except those that expired or were cleared, which nobody
\* announces, those whose write or take was dropped, and those taken before
\* their writer had announced them, whose Removed may come before their Added
\* (write, take, watch).
MirrorTrue ==
    backend = "memory" /\ Quiet =>
      \A h \in Homes : \A w \in watching[h] \ gone :
        /\ ToSet(tuples) \ (since[w] \cup expired \cup cut) \subseteq mirror[w]
        /\ mirror[w] \subseteq ToSet(tuples) \cup expired \cup cleared \cup wasted \cup early

\* A call has something to work on, and the locks that it keeps; what a take
\* still has to announce it has to return, as long as it is not dropped; a
\* take on a table selected what no other caller of its process was given; and
\* only callers that wait are in a barrier.
JobsInStep ==
    /\ \A c \in SpaceClients :
         /\ job[c].at \in {"delete", "announce", "send", "gate"} => job[c].items # <<>>
         /\ job[c].at \in {"announce", "send"} /\ job[c].event = "Added" => Len(job[c].items) = 1
         /\ job[c].event = "Removed" /\ job[c].at \in {"announce", "send"} =>
              ToSet(job[c].items) \subseteq job[c].got
         /\ \A t \in job[c].got : c \in handed[t]
         /\ job[c].rest \subseteq watching[Home(c)]
         /\ job[c].at = "delete" \/ (job[c].at \in {"announce", "send"} /\ job[c].all) =>
              locked[Home(c)] = c
         /\ job[c].at = "delete" =>
              /\ backend = "sqlite" /\ ToSet(job[c].items) \subseteq written
              /\ \A t \in ToSet(job[c].items) : \A d \in handed[t] : Home(d) # Home(c)
    /\ \A h \in Homes : \A c \in atBarrier[h] : job[c].at = "wait" /\ Home(c) = h

\* The call that still has to send this event to w.
ToCome(w, event, t) ==
    \E c \in SpaceClients :
      /\ job[c].event = event
      /\ \/ job[c].at = "announce" /\ t \in ToSet(job[c].items)
         \/ job[c].at = "send" /\ t \in ToSet(Tail(job[c].items))
         \/ job[c].at = "send" /\ t = Head(job[c].items) /\ w \in job[c].rest

\* t was removed for a caller, who has it unless the call was dropped.
Given(t) == handed[t] # {} \/ t \in wasted

\* Only what was written is there or was given away, and only what was given
\* away is announced as removed, to those who watch.
EventsTrue ==
    /\ ToSet(tuples) \cup {t \in Tuples : Given(t)} \subseteq written
    /\ \A w \in Watchers :
         /\ \A i \in 1..Len(chan[w]) : chan[w][i][1] = "Removed" => Given(chan[w][i][2])
         /\ (\A h \in Homes : w \notin watching[h]) => chan[w] = <<>> /\ mirror[w] = {}
    /\ backend = "memory" =>
         \A h \in Homes : watching[h] # {} => \A c \in SpaceClients : Home(c) = h

\* The tuples of which a watcher need not be told that they are gone.
Excused == ToSet(tuples) \cup expired \cup cleared \cup wasted \cup early

\* In memory, at any time: what a watcher does not know of a tuple, or believes
\* of one that is gone, an event will tell that is in its channel, and there
\* behind those that say otherwise, or that a call still has to send.
NewsUnderWay ==
    backend = "memory" =>
      /\ \A c \in SpaceClients : job[c].event = "Added" /\ job[c].at \in {"announce", "send"} =>
           ToSet(job[c].items) \subseteq Excused
      /\ \A h \in Homes : \A w \in watching[h] \ gone :
           /\ \A t \in ToSet(tuples) \ (since[w] \cup expired \cup cut) :
                t \in mirror[w] \/ <<"Added", t>> \in ToSet(chan[w]) \/ ToCome(w, "Added", t)
           /\ \A t \in mirror[w] \ Excused :
                <<"Removed", t>> \in ToSet(chan[w]) \/ ToCome(w, "Removed", t)
           /\ \A i \in 1..Len(chan[w]) : \A t \in Tuples \ Excused :
                chan[w][i] = <<"Added", t>> =>
                  \/ \E j \in i + 1..Len(chan[w]) : chan[w][j] = <<"Removed", t>>
                  \/ ToCome(w, "Removed", t)

\* What the calls of a tuple space keep: no tuple is lost or given twice without
\* cause, and watchers are told the truth.
SpaceInv == /\ TupleSpaceTypeOK /\ TuplesAccounted /\ MirrorTrue
            /\ JobsInStep /\ EventsTrue /\ NewsUnderWay

\* A write of a matching tuple under way while enough callers wait (those that
\* gave up included) lets the waiting callers go, unless the write is dropped
\* or a later barrier() asks for more callers than wait (barrier).
GateOpens ==
    \A h \in Homes : \A t \in Gates :
      LET waiting == Cardinality(atBarrier[h]) + deserted[h] IN
      (\E c \in SpaceClients :
         /\ Home(c) = h /\ job[c].event = "Added" /\ job[c].at \in {"announce", "send", "gate"}
         /\ Head(job[c].items) = t /\ atBarrier[h] # {} /\ waiting >= expected[h])
        ~> atBarrier[h] = {} \/ waiting < expected[h] \/ t \in cut

\* Every call but barrier() comes to its end, though takes hold the storage
\* while they wait for room in a watcher's channel and watch() waits behind
\* them for the watchers' lock and calls are dropped, as long as receivers read
\* or are dropped; and barrier() ends when its gate opens.
CallsEnd == []<>Quiet /\ GateOpens

\* "This is atomic: read + remove in single operation" (take in storage.rs)
\* and "Take a tuple (destructive read)" (mod.rs): a take removes the tuple
\* it returns and no other, and nobody else is given it.
TakeExact ==
    /\ swept = {}
    /\ \A t \in Tuples : Cardinality(handed[t]) <= 1
=============================================================================
