-------------------------------- MODULE Links --------------------------------
(***************************************************************************)
(* Links and monitors of local actors (crates/actor).  When the task of an *)
(* actor ends its watch task sends DOWN to the monitors, sends EXIT to the *)
(* linked actors after an error, removes the actor from both tables and    *)
(* unregisters it; stop_actor() does the same itself and leaves a note in  *)
(* stopping_actors, by which the watch task knows that it has nothing to   *)
(* do.  The tables and the note are keyed by the id of the actor and know  *)
(* no incarnations.                                                        *)
(***************************************************************************)
EXTENDS Naturals, FiniteSets

CONSTANTS
    Members,     \* the ids of actors
    Refs,        \* monitor references
    Watched,     \* Watched[r]: the target of the monitor
    Watching,    \* Watching[r]: the monitoring actor
    StopTarget,  \* the actor that stop_actor() is called for
    Trapping,    \* actors with trap_exit, which may survive an EXIT
    MaxLives,    \* MaxLives[a]: bound on the incarnations of the actor
    Endings,     \* ways in which a task may end by itself
    NoLife

ASSUME LinksAssumption ==
    /\ Watched \in [Refs -> Members] /\ Watching \in [Refs -> Members]
    /\ Trapping \subseteq Members /\ StopTarget \in Members /\ NoLife = 0
    /\ "stop" \notin Members
    /\ MaxLives \in [Members -> Nat \ {0}] /\ Endings \subseteq {"normal", "killed", "error"}

Lives    == UNION {1..MaxLives[a] : a \in Members}
Reasons  == {"normal", "killed", "error"}
Cleaners == (Members \X Lives) \union {<<"stop", 1>>}  \* watch tasks; a call of stop_actor()
TheStop  == <<"stop", 1>>

VARIABLES
    life,      \* life[a]: the number of the last incarnation
    task,      \* task[a][i]: "none", "running" or the reason of the end
    entry,     \* entry[a]: the registered incarnation
    stage,     \* stage[p]: where a cleaner is
    stopped,   \* [a, i]: what stop_actor() was called for
    stopping,  \* stopping_actors
    monitors,  \* references in the monitor table
    asking,    \* references for which monitor() has checked the target
    setOn,     \* setOn[r]: the incarnation that monitor() was asked for
    downs,     \* references whose DOWN was sent
    pairs,     \* the links
    exits,     \* EXIT messages on their way: <<from, to>>
    late,      \* references set after a cleaner of the target had read the table
    robbed,    \* actors whose running incarnation lost its entries to an old cleaner
    noted      \* incarnations whose watch task found a note that was not for it

linkVars == <<life, task, entry, stage, stopped, stopping, monitors, asking,
              setOn, downs, pairs, exits, late, robbed, noted>>

Stages == {"idle", "watch", "taken", "down", "exit", "cleanup", "unregister", "done"}

LinksTypeOK ==
    /\ life \in [Members -> Lives \union {NoLife}]
    /\ task \in [Members -> [Lives -> {"none", "running"} \union Reasons]]
    /\ entry \in [Members -> Lives \union {NoLife}]
    /\ stage \in [Cleaners -> Stages]
    /\ stopped \in [a: Members, i: Lives \union {NoLife}]
    /\ stopping \subseteq Members
    /\ monitors \subseteq Refs /\ asking \subseteq Refs /\ downs \subseteq Refs
    /\ setOn \in [Refs -> Lives \union {NoLife}]
    /\ pairs \subseteq SUBSET Members /\ exits \subseteq Members \X Members
    /\ late \subseteq Refs /\ robbed \subseteq Members
    /\ noted \subseteq Members \X Lives

LinksInit ==
    /\ life = [a \in Members |-> 0]
    /\ task = [a \in Members |-> [i \in Lives |-> "none"]]
    /\ entry = [a \in Members |-> NoLife]
    /\ stage = [p \in Cleaners |-> "idle"]
    /\ stopped = [a |-> StopTarget, i |-> NoLife]
    /\ stopping = {}
    /\ monitors = {} /\ asking = {} /\ downs = {} /\ setOn = [r \in Refs |-> 0]
    /\ pairs = {} /\ exits = {} /\ late = {} /\ robbed = {} /\ noted = {}

RunningLife(a) == life[a] # 0 /\ task[a][life[a]] = "running"

\* The actor a cleaner works for.
Of(p) == IF p = TheStop THEN stopped.a ELSE p[1]

\* The cleaner is past its first reading of the monitor table.
HasRead(p) == stage[p] \in {"exit", "cleanup", "unregister"}
-----------------------------------------------------------------------------
\* spawn: a new incarnation, when the last one has ended.  A supervising actor
\* does so when it gets DOWN, before the cleaner is through.
Spawn(a) ==
    LET i == life[a] + 1 IN
    /\ life[a] < MaxLives[a] /\ ~RunningLife(a)
    /\ life[a] = 0 \/ entry[a] = NoLife \/ \E r \in downs : Watched[r] = a
    /\ life' = [life EXCEPT ![a] = i]
    /\ task' = [task EXCEPT ![a][i] = "running"]
    /\ entry' = [entry EXCEPT ![a] = i]
    /\ stage' = [stage EXCEPT ![<<a, i>>] = "watch"]
    /\ UNCHANGED <<stopped, stopping, monitors, asking, setOn, downs, pairs,
                   exits, late, robbed, noted>>

\* The task of an actor ends by itself.
TaskEnds(a, why) ==
    /\ RunningLife(a)
    /\ task' = [task EXCEPT ![a][life[a]] = why]
    /\ UNCHANGED <<life, entry, stage, stopped, stopping, monitors, asking,
                   setOn, downs, pairs, exits, late, robbed, noted>>

\* EXIT from a linked actor: the actor ends with the reason Linked, which is an
\* error too, unless it traps exits and its handle_exit() says Handle.
HandleExit(a, from) ==
    /\ <<from, a>> \in exits /\ RunningLife(a)
    /\ exits' = exits \ {<<from, a>>}
    /\ \/ task' = [task EXCEPT ![a][life[a]] = "error"]
       \/ a \in Trapping /\ UNCHANGED task
    /\ UNCHANGED <<life, entry, stage, stopped, stopping, monitors, asking,
                   setOn, downs, pairs, late, robbed, noted>>

\* monitor(): the target must be registered; then the entry is added.
MonitorCheck(r) ==
    /\ setOn[r] = 0 /\ entry[Watched[r]] # NoLife
    /\ asking' = asking \union {r}
    /\ setOn' = [setOn EXCEPT ![r] = entry[Watched[r]]]
    /\ UNCHANGED <<life, task, entry, stage, stopped, stopping, monitors, downs,
                   pairs, exits, late, robbed, noted>>

MonitorAdd(r) ==
    /\ r \in asking
    /\ asking' = asking \ {r}
    /\ monitors' = monitors \union {r}
    /\ late' = IF \E p \in Cleaners : \/ Of(p) = Watched[r] /\ HasRead(p)
                                      \/ p = <<Watched[r], setOn[r]>> /\ stage[p] = "done"
                                      \/ p = TheStop /\ stopped = [a |-> Watched[r], i |-> setOn[r]]
                                         /\ stage[p] = "done"
               THEN late \union {r} ELSE late
    /\ UNCHANGED <<life, task, entry, stage, stopped, stopping, setOn, downs,
                   pairs, exits, robbed, noted>>

\* link(): both directions, without a look at whether the actors are alive.
Link(a, b) ==
    /\ a # b /\ {a, b} \notin pairs
    /\ pairs' = pairs \union {{a, b}}
    /\ UNCHANGED <<life, task, entry, stage, stopped, stopping, monitors, asking,
                   setOn, downs, exits, late, robbed, noted>>

Unlink(a, b) ==
    /\ {a, b} \in pairs
    /\ pairs' = pairs \ {{a, b}}
    /\ UNCHANGED <<life, task, entry, stage, stopped, stopping, monitors, asking,
                   setOn, downs, exits, late, robbed, noted>>
-----------------------------------------------------------------------------
\* The watch task wakes up: with the note of a stop_actor() it is done.
WatchTakesNote(a, i) ==
    LET p == <<a, i>> IN
    /\ stage[p] = "watch" /\ task[a][i] \in Reasons
    /\ stopping' = stopping \ {a}
    /\ IF a \in stopping
       THEN /\ stage' = [stage EXCEPT ![p] = "done"]
            /\ noted' = IF stopped = [a |-> a, i |-> i] THEN noted ELSE noted \union {p}
       ELSE stage' = [stage EXCEPT ![p] = "down"] /\ UNCHANGED noted
    /\ UNCHANGED <<life, task, entry, stopped, monitors, asking, setOn, downs,
                   pairs, exits, late, robbed>>

\* stop_actor(): a registered instance is looked up, the note is written, then
\* the instance is asked to end (a task that has ended already is left alone).
StopNote ==
    /\ stage[TheStop] = "idle" /\ entry[stopped.a] # NoLife
    /\ stopped' = [stopped EXCEPT !.i = entry[stopped.a]]
    /\ stopping' = stopping \union {stopped.a}
    /\ stage' = [stage EXCEPT ![TheStop] = "taken"]
    /\ UNCHANGED <<life, task, entry, monitors, asking, setOn, downs, pairs,
                   exits, late, robbed, noted>>

StopTask ==
    /\ stage[TheStop] = "taken"
    /\ task' = [task EXCEPT ![stopped.a][stopped.i] = IF @ = "running" THEN "normal" ELSE @]
    /\ stage' = [stage EXCEPT ![TheStop] = "down"]
    /\ UNCHANGED <<life, entry, stopped, stopping, monitors, asking, setOn, downs,
                   pairs, exits, late, robbed, noted>>

\* Mutant: nothing is sent after an exit that is not an error.
SendDownOnError(p) ==
    LET a == Of(p) IN
    /\ stage[p] = "down"
    /\ stage' = [stage EXCEPT ![p] = "exit"]
    /\ IF p # TheStop /\ task[a][p[2]] = "error"
       THEN downs' = downs \union {r \in monitors : Watched[r] = a}
       ELSE UNCHANGED downs
    /\ UNCHANGED <<life, task, entry, stopped, stopping, monitors, asking, setOn,
                   pairs, exits, late, robbed, noted>>

\* handle_actor_termination(): DOWN to the monitors of the actor...
SendDown(p) ==
    /\ stage[p] = "down"
    /\ stage' = [stage EXCEPT ![p] = "exit"]
    /\ downs' = downs \union {r \in monitors : Watched[r] = Of(p)}
    /\ UNCHANGED <<life, task, entry, stopped, stopping, monitors, asking, setOn,
                   pairs, exits, late, robbed, noted>>

IsError(p) == p # TheStop /\ task[p[1]][p[2]] = "error"

\* Mutant: an actor without links is not cleaned up any further.
PropagateExitReturns(p) ==
    LET a == Of(p)
        peers == {c \in Members : {a, c} \in pairs}
    IN /\ stage[p] = "exit"
       /\ stage' = [stage EXCEPT ![p] = IF peers = {} THEN "done" ELSE "cleanup"]
       /\ exits' = IF IsError(p)
                   THEN exits \union {<<a, b>> : b \in {c \in peers : RunningLife(c)}}
                   ELSE exits
       /\ UNCHANGED <<life, task, entry, stopped, stopping, monitors, asking, setOn,
                      downs, pairs, late, robbed, noted>>

\* ... EXIT to the linked actors after an error (Killed is none) ...
PropagateExit(p) ==
    LET a == Of(p) IN
    /\ stage[p] = "exit"
    /\ stage' = [stage EXCEPT ![p] = "cleanup"]
    /\ exits' = IF IsError(p)
                THEN exits \union {<<a, b>> : b \in {c \in Members : {a, c} \in pairs /\ RunningLife(c)}}
                ELSE exits
    /\ UNCHANGED <<life, task, entry, stopped, stopping, monitors, asking, setOn,
                   downs, pairs, late, robbed, noted>>

\* ... and the actor leaves both tables, as target, as monitor and as peer.
CleanupTables(p) ==
    LET a == Of(p) IN
    /\ stage[p] = "cleanup"
    /\ stage' = [stage EXCEPT ![p] = "unregister"]
    /\ monitors' = {r \in monitors : Watched[r] # a /\ Watching[r] # a}
    /\ pairs' = {l \in pairs : a \notin l}
    /\ robbed' = IF RunningLife(a) THEN robbed \union {a} ELSE robbed
    /\ UNCHANGED <<life, task, entry, stopped, stopping, asking, setOn, downs,
                   exits, late, noted>>

\* unregister_with_cleanup(): whatever incarnation is registered.
UnregisterActor(p) ==
    LET a == Of(p) IN
    /\ stage[p] = "unregister"
    /\ stage' = [stage EXCEPT ![p] = "done"]
    /\ entry' = [entry EXCEPT ![a] = NoLife]
    /\ robbed' = IF RunningLife(a) THEN robbed \union {a} ELSE robbed
    /\ UNCHANGED <<life, task, stopped, stopping, monitors, asking, setOn, downs,
                   pairs, exits, late, noted>>

CleanerStep(p) ==
    \/ SendDown(p) \/ PropagateExit(p) \/ CleanupTables(p) \/ UnregisterActor(p)

LinksNext ==
    \/ \E a \in Members : Spawn(a) \/ \E why \in Endings : TaskEnds(a, why)
    \/ \E a, b \in Members : HandleExit(a, b) \/ Link(a, b) \/ Unlink(a, b)
    \/ \E r \in Refs : MonitorCheck(r) \/ MonitorAdd(r)
    \/ \E a \in Members, i \in Lives : WatchTakesNote(a, i)
    \/ StopNote \/ StopTask
    \/ \E p \in Cleaners : CleanerStep(p)

LinksSpec == LinksInit /\ [][LinksNext]_linkVars

\* The tasks go on and a mailbox is read.
LinksGoOn ==
    \/ \E a \in Members, i \in Lives : WatchTakesNote(a, i)
    \/ StopTask
    \/ \E p \in Cleaners : CleanerStep(p)
    \/ \E r \in Refs : MonitorAdd(r)
    \/ \E a, b \in Members : HandleExit(a, b)
-----------------------------------------------------------------------------
\* A running incarnation can be found in the registry, unless the cleaner of an
\* older one took its entry.
RunningIsRegistered ==
    \A a \in Members : RunningLife(a) => entry[a] = life[a] \/ a \in robbed

\* The end of an incarnation has been dealt with, by its watch task or by the
\* stop_actor() that the watch task made way for.
DealtWith(a, i) ==
    /\ stage[<<a, i>>] = "done" /\ <<a, i>> \notin noted
    /\ stopped = [a |-> a, i |-> i] => stage[TheStop] = "done"

\* Once the end of its target has been dealt with, a monitor has been told,
\* whatever the reason of the end, unless it came when the table had been read
\* or the monitoring actor has ended itself.
DownIsSent ==
    \A r \in Refs, i \in Lives :
        /\ setOn[r] = i /\ r \notin asking /\ DealtWith(Watched[r], i)
        /\ \A j \in Lives : task[Watching[r]][j] \notin Reasons
        => r \in downs \union late

\* The incarnations of an actor follow one another; only one that was there can
\* be registered.
LivesInOrder ==
    \A a \in Members :
        /\ life[a] \in 0..MaxLives[a] /\ entry[a] \in 0..life[a]
        /\ \A i \in Lives : task[a][i] = "none" <=> i > life[a]

\* Nobody cleans up after an incarnation that has not ended.
CleanersComeAfterwards ==
    /\ \A a \in Members, i \in Lives : stage[<<a, i>>] \notin {"idle", "watch"} => task[a][i] \in Reasons
    /\ IF stage[TheStop] = "idle" THEN stopped.i = NoLife
       ELSE /\ stopped.i \in 1..life[stopped.a]
            /\ stage[TheStop] # "taken" => task[stopped.a][stopped.i] \in Reasons

\* The monitor was set in time and has not been told yet.
Waits(r) ==
    /\ setOn[r] # NoLife /\ r \notin asking \union downs \union late
    /\ \A j \in Lives : task[Watching[r]][j] \notin Reasons

\* Nobody who cleans up after incarnation i of a has read the table, and nobody
\* but the stop_actor() that is still to read it has made the watch task go.
Unread(a, i) ==
    /\ \A p \in Cleaners : Of(p) = a => ~HasRead(p)
    /\ ~(stopped = [a |-> a, i |-> i] /\ stage[TheStop] = "done")
    /\ stage[<<a, i>>] = "done" /\ <<a, i>> \notin noted => stopped = [a |-> a, i |-> i]

\* A monitor that waits for its DOWN is in the table, which is still to be read.
WaitingIsInTable ==
    \A r \in Refs : Waits(r) => r \in monitors /\ Unread(Watched[r], setOn[r])

\* What the watch tasks, stop_actor(), monitor() and link() keep.
LinksInv ==
    LinksTypeOK /\ RunningIsRegistered /\ DownIsSent /\ LivesInOrder
    /\ CleanersComeAfterwards /\ WaitingIsInTable

\* Incarnations that have ended and can still be looked up, although no stale
\* note turned their watch task away.
DeadEntries ==
    {a \in Members : /\ entry[a] # NoLife /\ task[a][entry[a]] \in Reasons
                     /\ <<a, entry[a]>> \notin noted}

\* An incarnation that has ended leaves the registry.
EndedIsUnregistered == []<>(DeadEntries = {})
=============================================================================
