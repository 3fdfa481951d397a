---------------------------- MODULE Applications ----------------------------
(***************************************************************************)
(* Applications of a node: the application manager                         *)
(* (crates/application/src/application_manager.rs), the deploy and         *)
(* undeploy calls that use it (crates/services/src/application_service.rs) *)
(* and the shutdown of the node (crates/node/src/mod.rs).                  *)
(*                                                                         *)
(* start() and stop() hold the write lock of the map of applications while *)
(* they wait for the application; every other critical section is one      *)
(* step.  The future of a call is dropped when its client goes away.  An   *)
(* application is a WASM application whose actors either all live or all   *)
(* do not; the rows of the object registry are external.  The node context *)
(* is set before the node serves.                                          *)
(***************************************************************************)
EXTENDS Naturals, Sequences, FiniteSets, SequencesExt

CONSTANTS
    AppNames,     \* application ids
    Operators,    \* clients of the application service
    NodeItself,   \* the caller that shuts the node down
    Unlocked,     \* nobody has the write lock
    Releases,     \* release specs: <<>>, or the enabled applications in order
    MaxRequests,  \* bound on deploy and undeploy calls
    MaxGone       \* bound on clients that go away during a call

ASSUME ApplicationsAssumption ==
    /\ AppNames # {} /\ IsFiniteSet(AppNames)
    /\ NodeItself \notin Operators /\ Unlocked \notin Operators \cup {NodeItself}
    /\ \A r \in Releases : r \in Seq(AppNames)
    /\ MaxRequests \in Nat /\ MaxGone \in Nat

VARIABLES
    release,   \* the release spec of the node
    apps,      \* applications: state and instance, "none" where there is none
    listed,    \* names with a row in the object registry
    living,    \* living[n]: the instances of n whose actors live
    locked,    \* who has the write lock across an await
    request,   \* request[c]: where the call of c is, its number, and whether
               \* the application it removed had been started
    requests,  \* calls so far
    gone,      \* clients that went away so far
    crossed,   \* history: names with overlapping calls, or with a dropped one
    halt       \* the shutdown: [at, todo, stopped, first]

applicationsVars ==
    <<release, apps, listed, living, locked, request, requests, gone, crossed, halt>>

NoApp == [state |-> "none", id |-> 0]
NoRequest == [at |-> "idle", name |-> CHOOSE n \in AppNames : TRUE, no |-> 0, begun |-> FALSE]

Registered == {n \in AppNames : apps[n].state # "none"}
RunningApps == {n \in AppNames : apps[n].state = "running"}

Instances == [state: {"none", "created", "starting", "running", "stopping", "stopped", "failed"},
              id: 0..MaxRequests]
Calls == [at: {"idle", "check", "row", "insert", "start", "starting", "stop", "stopping",
               "unregister", "unlist", "remove", "cleanup", "namespace"},
          name: AppNames, no: 0..MaxRequests, begun: BOOLEAN]

ApplicationsTypeOK ==
    /\ release \in Releases
    /\ apps \in [AppNames -> Instances]
    /\ listed \subseteq AppNames
    /\ living \in [AppNames -> SUBSET (0..MaxRequests)]
    /\ locked \in Operators \cup {NodeItself, Unlocked}
    /\ request \in [Operators -> Calls]
    /\ requests \in 0..MaxRequests /\ gone \in 0..MaxGone
    /\ crossed \subseteq AppNames
    /\ halt \in [at: {"no", "release", "rest", "done"}, todo: Seq(AppNames),
                 stopped: SUBSET AppNames, first: SUBSET (AppNames \X (0..MaxRequests))]

\* Some applications have been deployed before, one after the other.
ApplicationsInit ==
    /\ release \in Releases
    /\ apps \in [AppNames -> {NoApp, [state |-> "running", id |-> 0]}]
    /\ listed = Registered
    /\ living = [n \in AppNames |-> IF n \in Registered THEN {0} ELSE {}]
    /\ locked = Unlocked /\ request = [c \in Operators |-> NoRequest]
    /\ requests = 0 /\ gone = 0 /\ crossed = {}
    /\ halt = [at |-> "no", todo |-> <<>>, stopped |-> {}, first |-> {}]

-----------------------------------------------------------------------------
Step(c, l) == request' = [request EXCEPT ![c].at = l]
Answered(c) == request' = [request EXCEPT ![c] = NoRequest]
Become(n, s) == apps' = [apps EXCEPT ![n].state = s]

Open(c, n, l) ==
    /\ request[c].at = "idle" /\ requests < MaxRequests
    /\ requests' = requests + 1
    /\ request' = [request EXCEPT ![c].at = l, ![c].name = n, ![c].no = requests + 1]
    /\ crossed' = IF \E d \in Operators : request[d].at # "idle" /\ request[d].name = n
                  THEN crossed \cup {n} ELSE crossed
    /\ UNCHANGED <<release, apps, listed, living, locked, gone, halt>>

\* deploy_application: register(), then start().
Deploy(c, n) == Open(c, n, "check")

\* undeploy_application: stop(), unregister(), then the namespace.
Undeploy(c, n) == Open(c, n, "stop")

-----------------------------------------------------------------------------
(* register                                                                *)

\* Whether the name is taken, under the read lock ...
RegisterCheck(c) ==
    /\ request[c].at = "check" /\ locked = Unlocked
    /\ IF request[c].name \in Registered THEN Answered(c) ELSE Step(c, "row")
    /\ UNCHANGED <<release, apps, listed, living, locked, requests, gone, crossed, halt>>

\* ... then the row of the object registry, which may fail ...
RegisterRow(c) ==
    /\ request[c].at = "row"
    /\ \/ listed' = listed \cup {request[c].name} /\ Step(c, "insert")
       \/ Answered(c) /\ UNCHANGED listed
    /\ UNCHANGED <<release, apps, living, locked, requests, gone, crossed, halt>>

\* ... and the entry, if the name is still free.  The instance has the number
\* of the call.
RegisterInsert(c) ==
    /\ request[c].at = "insert" /\ locked = Unlocked
    /\ IF request[c].name \in Registered
       THEN Answered(c) /\ UNCHANGED apps
       ELSE /\ apps' = [apps EXCEPT ![request[c].name] = [state |-> "created", id |-> request[c].no]]
            /\ Step(c, "start")
    /\ UNCHANGED <<release, listed, living, locked, requests, gone, crossed, halt>>

-----------------------------------------------------------------------------
(* start                                                                   *)

StartBegin(c) ==
    /\ request[c].at = "start" /\ locked = Unlocked
    /\ IF apps[request[c].name].state # "created"
       THEN Answered(c) /\ UNCHANGED <<apps, locked>>
       ELSE Become(request[c].name, "starting") /\ locked' = c /\ Step(c, "starting")
    /\ UNCHANGED <<release, listed, living, requests, gone, crossed, halt>>

\* Mutant: the application calls the manager while it starts, and waits for
\* the lock that start() holds.
StartEndsReentrant(c, ok, left) ==
    /\ request[c].at = "starting" /\ locked = Unlocked
    /\ Become(request[c].name, IF ok THEN "running" ELSE "failed")
    /\ living' = [living EXCEPT ![request[c].name] = @ \cup {apps[request[c].name].id}]
    /\ Answered(c)
    /\ UNCHANGED <<release, listed, locked, requests, gone, crossed, halt>>

\* The application has started, or failed and may leave actors behind.
StartEnds(c, ok, left) ==
    /\ request[c].at = "starting" /\ (ok => left)
    /\ LET n == request[c].name IN
       /\ Become(n, IF ok THEN "running" ELSE "failed")
       /\ living' = IF left THEN [living EXCEPT ![n] = @ \cup {apps[n].id}] ELSE living
    /\ locked' = Unlocked /\ Answered(c)
    /\ UNCHANGED <<release, listed, requests, gone, crossed, halt>>

-----------------------------------------------------------------------------
(* stop                                                                    *)

\* Not found: nothing is left to undo but the namespace.  Not running: "already
\* stopped", whatever the state is.
StopBegin(c) ==
    /\ request[c].at = "stop" /\ locked = Unlocked
    /\ LET n == request[c].name IN
       CASE n \notin Registered -> Step(c, "namespace") /\ UNCHANGED <<apps, locked>>
         [] n \in Registered \ RunningApps -> Step(c, "unregister") /\ UNCHANGED <<apps, locked>>
         [] n \in RunningApps -> Become(n, "stopping") /\ locked' = c /\ Step(c, "stopping")
    /\ UNCHANGED <<release, listed, living, requests, gone, crossed, halt>>

\* The application has stopped, or it failed or the time is over: then its
\* actors may live on.
Stopped(n, ok, left) ==
    /\ (ok => ~left)
    /\ Become(n, IF ok THEN "stopped" ELSE "failed")
    /\ living' = IF left THEN living ELSE [living EXCEPT ![n] = @ \ {apps[n].id}]
    /\ locked' = Unlocked

StopEnds(c, ok, left) ==
    /\ request[c].at = "stopping"
    /\ Stopped(request[c].name, ok, left)
    /\ IF ok THEN Step(c, "unregister") ELSE Answered(c)
    /\ UNCHANGED <<release, listed, requests, gone, crossed, halt>>

-----------------------------------------------------------------------------
(* unregister                                                              *)

Removable(n) == n \in Registered \ RunningApps

UnregisterRead(c) ==
    /\ request[c].at = "unregister" /\ locked = Unlocked
    /\ IF Removable(request[c].name) THEN Step(c, "unlist") ELSE Answered(c)
    /\ UNCHANGED <<release, apps, listed, living, locked, requests, gone, crossed, halt>>

UnregisterRow(c) ==
    /\ request[c].at = "unlist"
    /\ \/ listed' = listed \ {request[c].name} /\ Step(c, "remove")
       \/ Answered(c) /\ UNCHANGED listed
    /\ UNCHANGED <<release, apps, living, locked, requests, gone, crossed, halt>>

UnregisterRemove(c) ==
    /\ request[c].at = "remove" /\ locked = Unlocked
    /\ LET n == request[c].name IN
       IF Removable(n)
       THEN /\ apps' = [apps EXCEPT ![n] = NoApp]
            /\ request' = [request EXCEPT ![c].at = "cleanup",
                                          ![c].begun = apps[n].state # "created"]
       ELSE Answered(c) /\ UNCHANGED apps
    /\ UNCHANGED <<release, listed, living, locked, requests, gone, crossed, halt>>

\* Mutant: the cleanup takes the actors for stopped, and leaves them.
CleanupForUndeployLeaves(c) ==
    /\ request[c].at = "cleanup"
    /\ listed' = listed \ {request[c].name}
    /\ Step(c, "namespace")
    /\ UNCHANGED <<release, apps, living, locked, requests, gone, crossed, halt>>

\* cleanup_for_undeploy: fails for an application that was never started;
\* stops every live actor of the namespace, whosever it is, and removes the
\* rows of the namespace, or fails in between.
CleanupForUndeploy(c) ==
    /\ request[c].at = "cleanup"
    /\ LET n == request[c].name IN
       \/ ~request[c].begun /\ Answered(c) /\ UNCHANGED <<living, listed>>
       \/ /\ request[c].begun
          /\ living' = [living EXCEPT ![n] = {}]
          /\ \/ listed' = listed \ {n} /\ Step(c, "namespace")
             \/ Answered(c) /\ UNCHANGED listed
    /\ UNCHANGED <<release, apps, locked, requests, gone, crossed, halt>>

\* cleanup_namespace_for_undeploy
CleanupNamespace(c) ==
    /\ request[c].at = "namespace"
    /\ \/ listed' = listed \ {request[c].name}
       \/ UNCHANGED listed
    /\ Answered(c)
    /\ UNCHANGED <<release, apps, living, locked, requests, gone, crossed, halt>>

\* The client goes away: the future is dropped, and with it a guard.
GoAway(c) ==
    /\ request[c].at # "idle" /\ gone < MaxGone
    /\ gone' = gone + 1
    /\ crossed' = crossed \cup {request[c].name}
    /\ locked' = IF locked = c THEN Unlocked ELSE locked
    /\ LET n == request[c].name IN
       \/ UNCHANGED living
       \/ request[c].at = "starting" /\ living' = [living EXCEPT ![n] = @ \cup {apps[n].id}]
       \/ request[c].at = "stopping" /\ living' = [living EXCEPT ![n] = @ \ {apps[n].id}]
    /\ Answered(c)
    /\ UNCHANGED <<release, apps, listed, requests, halt>>

-----------------------------------------------------------------------------
(* shutdown of the node                                                    *)

\* With a release spec its enabled applications are visited in reverse order
\* first.
ShutdownBegin ==
    /\ halt.at = "no" /\ locked = Unlocked
    /\ halt' = [halt EXCEPT !.at = "release", !.todo = Reverse(release),
                            !.first = {<<n, apps[n].id>> : n \in RunningApps}]
    /\ UNCHANGED <<release, apps, listed, living, locked, request, requests, gone, crossed>>

\* Mutant: after the applications of a release the others are forgotten.
ShutdownListRelease ==
    /\ halt.at = "release" /\ halt.todo = <<>> /\ locked = Unlocked
    /\ \E order \in SetToSeqs(IF release = <<>> THEN RunningApps ELSE {}) :
         halt' = [halt EXCEPT !.at = "rest", !.todo = order]
    /\ UNCHANGED <<release, apps, listed, living, locked, request, requests, gone, crossed>>

\* Without a spec stop_all() takes the running applications, with one the loop
\* takes all but those it has stopped, in the order of the hash map.
ShutdownList ==
    /\ halt.at = "release" /\ halt.todo = <<>> /\ locked = Unlocked
    /\ \E order \in SetToSeqs(IF release = <<>> THEN RunningApps
                              ELSE Registered \ halt.stopped) :
         halt' = [halt EXCEPT !.at = "rest", !.todo = order]
    /\ UNCHANGED <<release, apps, listed, living, locked, request, requests, gone, crossed>>

\* One that is not running is passed over; the other is stopped.
ShutdownVisit ==
    /\ halt.todo # <<>> /\ locked = Unlocked
    /\ IF Head(halt.todo) \in RunningApps
       THEN /\ Become(Head(halt.todo), "stopping") /\ locked' = NodeItself
            /\ UNCHANGED halt
       ELSE /\ halt' = [halt EXCEPT !.todo = Tail(@)]
            /\ UNCHANGED <<apps, locked>>
    /\ UNCHANGED <<release, listed, living, request, requests, gone, crossed>>

\* An error is collected and the loop goes on.
ShutdownStopped(ok, left) ==
    /\ locked = NodeItself
    /\ Stopped(Head(halt.todo), ok, left)
    /\ halt' = [halt EXCEPT !.todo = Tail(@),
                  !.stopped = IF ok /\ halt.at = "release" THEN @ \cup {Head(halt.todo)} ELSE @]
    /\ UNCHANGED <<release, listed, request, requests, gone, crossed>>

ShutdownEnd ==
    /\ halt.at = "rest" /\ halt.todo = <<>> /\ locked = Unlocked
    /\ halt' = [halt EXCEPT !.at = "done"]
    /\ UNCHANGED <<release, apps, listed, living, locked, request, requests, gone, crossed>>

-----------------------------------------------------------------------------
ApplicationsGoesOn ==
    \/ \E c \in Operators :
         \/ RegisterCheck(c) \/ RegisterRow(c) \/ RegisterInsert(c) \/ StartBegin(c)
         \/ StopBegin(c) \/ UnregisterRead(c) \/ UnregisterRow(c) \/ UnregisterRemove(c)
         \/ CleanupForUndeploy(c) \/ CleanupNamespace(c)
         \/ \E ok, left \in BOOLEAN : StartEnds(c, ok, left) \/ StopEnds(c, ok, left)
    \/ ShutdownList \/ ShutdownVisit \/ ShutdownEnd
    \/ \E ok, left \in BOOLEAN : ShutdownStopped(ok, left)

ApplicationsNext ==
    \/ \E c \in Operators, n \in AppNames : Deploy(c, n) \/ Undeploy(c, n)
    \/ \E c \in Operators : GoAway(c)
    \/ ShutdownBegin
    \/ ApplicationsGoesOn

ApplicationsSpec == ApplicationsInit /\ [][ApplicationsNext]_applicationsVars

-----------------------------------------------------------------------------
(* Properties.                                                             *)

\* An application is Starting or Stopping only while the call that does it has
\* the lock, so that nobody else sees it in between, unless that call was
\* dropped.
BetweenUnderLock ==
    \A n \in AppNames : apps[n].state \in {"starting", "stopping"} =>
        \/ n \in crossed
        \/ \E c \in Operators : locked = c /\ request[c].name = n
        \/ locked = NodeItself /\ halt.todo[1] = n

Agreed(n) ==
    /\ n \in listed <=> n \in Registered
    /\ living[n] \subseteq {apps[n].id} /\ (living[n] # {} => n \in Registered)
    /\ n \in RunningApps => living[n] # {}
    /\ apps[n].state = "created" => living[n] = {}

\* Without overlapping or dropped calls for a name, and between calls, the map
\* of applications, the object registry and the actors agree, whichever of the
\* steps of deploy and undeploy failed and whatever the shutdown did: there is
\* a row just for what is registered, actors live for the registered instance
\* only, and they do when it is Running.
NamesAgree ==
    \A n \in AppNames \ crossed :
        (\A c \in Operators : request[c].at = "idle" \/ request[c].name # n) =>
            Agreed(n)

\* "we still need to stop every running application registered directly with
\* the ApplicationManager" (shutdown): when shutdown() returns, no instance
\* that was running when it began is running, however deploys, undeploys and
\* dropped calls interleave with it, and with or without a release spec.
ShutdownStops ==
    halt.at = "done" => \A n \in RunningApps : <<n, apps[n].id>> \notin halt.first

\* Whoever has the lock is a call in start() or stop(), or the shutdown in one;
\* the application is Starting or Stopping, and the others wait for no such call.
LockHeld ==
    /\ \A c \in Operators : locked = c <=> request[c].at \in {"starting", "stopping"}
    /\ \A c \in Operators : request[c].at \in {"starting", "stopping"} =>
          apps[request[c].name].state = request[c].at
    /\ locked = NodeItself => halt.todo # <<>> /\ apps[halt.todo[1]].state = "stopping"

\* What a call that is the only one for its name, and was not dropped, has done
\* so far and has still to do.
CallUnderWay(r) ==
    /\ r.at \in {"check", "stop", "stopping", "unregister", "unlist"} => Agreed(r.name)
    /\ r.at \in {"row", "namespace"} => Agreed(r.name) /\ r.name \notin Registered
    /\ r.at = "insert" =>
          r.name \notin Registered /\ r.name \in listed /\ living[r.name] = {}
    /\ r.at \in {"start", "starting"} =>
          /\ Agreed(r.name) /\ living[r.name] = {}
          /\ apps[r.name].state \in {"created", "starting"}
    /\ r.at \in {"unlist", "remove"} => Removable(r.name)
    /\ r.at = "remove" =>
          /\ r.name \notin listed /\ living[r.name] \subseteq {apps[r.name].id}
          /\ apps[r.name].state = "created" => living[r.name] = {}
    /\ r.at = "cleanup" =>
          /\ r.name \notin Registered /\ r.name \notin listed
          /\ ~r.begun => living[r.name] = {}

CallsAgree ==
    \A c \in Operators : request[c].at # "idle" /\ request[c].name \notin crossed =>
        /\ CallUnderWay(request[c])
        /\ \A d \in Operators \ {c} : request[d].at = "idle" \/ request[d].name # request[c].name

\* An instance that is not yet in the map has a number that no other has.
Unborn == {"check", "row", "insert"}

NumbersFresh ==
    /\ \A n \in AppNames : apps[n].id <= requests
    /\ \A f \in halt.first : f[2] <= requests
    /\ \A c \in Operators : request[c].at # "idle" => request[c].no \in 1..requests
    /\ \A c, d \in Operators : c # d /\ request[c].at \in Unborn /\ request[d].at \in Unborn
          => request[c].no # request[d].no
    /\ \A c \in Operators : request[c].at \in Unborn =>
          /\ \A n \in AppNames : apps[n].id # request[c].no
          /\ \A f \in halt.first : f[2] # request[c].no

\* What the shutdown has to stop is what it found running; such an instance is
\* never started again, and is in the list until it has been visited.
ToStop(n) == n \in RunningApps /\ <<n, apps[n].id>> \in halt.first

ShutdownReaches ==
    /\ halt.at = "no" => halt.first = {} /\ halt.stopped = {}
    /\ halt.at \in {"no", "done"} => halt.todo = <<>>
    /\ \A n \in AppNames : <<n, apps[n].id>> \in halt.first =>
          apps[n].state \notin {"created", "starting"}
    /\ \A n \in halt.stopped : ~ToStop(n)
    /\ halt.at = "rest" =>
          \A n \in AppNames : ToStop(n) => \E i \in 1..Len(halt.todo) : halt.todo[i] = n

\* Nothing that has begun is ever stuck: neither a call nor the shutdown waits
\* for the lock that start() and stop() hold while they wait for an
\* application, unless that application can go on.  (A call takes each of its
\* steps once, so it then ends.)
LifecycleGoesOn ==
    (halt.at \in {"release", "rest"} \/ \E c \in Operators : request[c].at # "idle")
        => ENABLED ApplicationsGoesOn

\* What deploy, undeploy and shutdown keep between them.
ApplicationsInv ==
    /\ ApplicationsTypeOK /\ BetweenUnderLock /\ NamesAgree /\ ShutdownStops
    /\ LockHeld /\ CallsAgree /\ NumbersFresh /\ ShutdownReaches
=============================================================================
