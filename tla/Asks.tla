-------------------------------- MODULE Asks --------------------------------
(***************************************************************************)
(* Request and reply (crates/actor, ask() and PendingAsks).  ask()         *)
(* registers a oneshot channel under its correlation id, dispatches the    *)
(* request and waits; a reply to the temporary sender takes the entry and  *)
(* sends on its channel; a background task sweeps the entries whose        *)
(* deadline has passed.  The deadline of the entry runs from the           *)
(* registration, the timeout of the caller from the end of the dispatch,   *)
(* so the sweep may come first.  timeout(rx) polls the channel and then    *)
(* the timer.                                                              *)
(***************************************************************************)
EXTENDS Naturals, FiniteSets

CONSTANTS Requests,   \* calls of ask()
          MaxReplies  \* bound on the replies the actor sends to one request

ASSUME AskAssumption == MaxReplies \in Nat

VARIABLES
    askAt,     \* askAt[k]: where the call is
    entries,   \* requests with an entry in PendingAsks
    expired,   \* entries whose expires_at has passed
    timer,     \* callers whose timeout has passed
    channel,   \* channel[k]: "open", "sent", "closed" (no sender), "dropped" (no receiver)
    delivered, \* requests that reached the actor
    replies,   \* replies[k]: replies that were sent so far
    sending,   \* replies between remove() and tx.send()
    claimed    \* requests for which resolve() returned TRUE

askVars == <<askAt, entries, expired, timer, channel, delivered, replies, sending, claimed>>

Outcomes == {"reply", "timeout", "closed", "failed", "abandoned"}

AsksTypeOK ==
    /\ askAt \in [Requests -> {"new", "dispatch", "poll", "polled", "elapsed"} \union Outcomes]
    /\ entries \subseteq Requests /\ expired \subseteq Requests /\ timer \subseteq Requests
    /\ channel \in [Requests -> {"open", "sent", "closed", "dropped"}]
    /\ delivered \subseteq Requests /\ sending \subseteq Requests /\ claimed \subseteq Requests
    /\ replies \in [Requests -> 0..MaxReplies]

AsksInit ==
    /\ askAt = [k \in Requests |-> "new"]
    /\ entries = {} /\ expired = {} /\ timer = {} /\ delivered = {} /\ sending = {} /\ claimed = {}
    /\ channel = [k \in Requests |-> "open"]
    /\ replies = [k \in Requests |-> 0]

AskIs(k, outcome) == askAt' = [askAt EXCEPT ![k] = outcome]

\* The sender half of an entry that is thrown away is dropped with it.
Closed(K) == [k \in Requests |-> IF k \in K /\ channel[k] = "open" THEN "closed" ELSE channel[k]]
-----------------------------------------------------------------------------
\* register()
RegisterAsk(k) ==
    /\ askAt[k] = "new"
    /\ entries' = entries \union {k}
    /\ AskIs(k, "dispatch")
    /\ UNCHANGED <<expired, timer, channel, delivered, replies, sending, claimed>>

\* The request reaches the actor: within dispatch_local_message(), or later, since
\* the message may be left in pending_activations for the next activation by a
\* call that returned, with success or with an error.
Reaches(k) ==
    /\ askAt[k] # "new" /\ k \notin delivered
    /\ delivered' = delivered \union {k}
    /\ UNCHANGED <<askAt, entries, expired, timer, channel, replies, sending, claimed>>

DispatchOk(k) ==
    /\ askAt[k] = "dispatch"
    /\ AskIs(k, "poll")
    /\ UNCHANGED <<entries, expired, timer, channel, delivered, replies, sending, claimed>>

\* Mutant: the failed call leaves its entry behind.
DispatchFailsLeaving(k) ==
    /\ askAt[k] = "dispatch"
    /\ channel' = [channel EXCEPT ![k] = "dropped"]
    /\ AskIs(k, "failed")
    /\ UNCHANGED <<entries, expired, timer, delivered, replies, sending, claimed>>

\* The error of a dispatch says nothing of the message: an activation may fail
\* after it has delivered what was pending, and the reply may be there already.
DispatchFails(k) ==
    /\ askAt[k] = "dispatch"
    /\ entries' = entries \ {k}
    /\ channel' = [channel EXCEPT ![k] = "dropped"]
    /\ AskIs(k, "failed")
    /\ UNCHANGED <<expired, timer, delivered, replies, sending, claimed>>

\* timeout(rx), woken by the channel or the timer: a value or a closed channel
\* ends the wait, otherwise the timer is polled.
PollChannel(k) ==
    /\ askAt[k] = "poll"
    /\ \/ channel[k] = "sent" /\ AskIs(k, "reply")
       \/ channel[k] = "closed" /\ AskIs(k, "closed")
       \/ channel[k] = "open" /\ k \in timer /\ AskIs(k, "polled")
    /\ UNCHANGED <<entries, expired, timer, channel, delivered, replies, sending, claimed>>

\* The timer has run out: the receiver is dropped, whatever has come since the
\* channel was polled.
PollTimer(k) ==
    /\ askAt[k] = "polled"
    /\ AskIs(k, "elapsed")
    /\ channel' = [channel EXCEPT ![k] = "dropped"]
    /\ UNCHANGED <<entries, expired, timer, delivered, replies, sending, claimed>>

\* cancel() and Err(Timeout)
AskTimesOut(k) ==
    /\ askAt[k] = "elapsed"
    /\ entries' = entries \ {k}
    /\ AskIs(k, "timeout")
    /\ UNCHANGED <<expired, timer, channel, delivered, replies, sending, claimed>>

\* The future of ask() is dropped by its owner: nothing is cancelled.
Abandon(k) ==
    /\ askAt[k] \in {"dispatch", "poll"}
    /\ AskIs(k, "abandoned")
    /\ channel' = [channel EXCEPT ![k] = "dropped"]
    /\ UNCHANGED <<entries, expired, timer, delivered, replies, sending, claimed>>

\* A reply: resolve() removes the entry, then sends.  Without an entry it is
\* dropped.
Resolve(k) ==
    /\ k \in delivered /\ replies[k] < MaxReplies
    /\ replies' = [replies EXCEPT ![k] = @ + 1]
    /\ IF k \in entries
       THEN entries' = entries \ {k} /\ sending' = sending \union {k}
       ELSE UNCHANGED <<entries, sending>>
    /\ UNCHANGED <<askAt, expired, timer, channel, delivered, claimed>>

ResolveSend(k) ==
    /\ k \in sending
    /\ sending' = sending \ {k}
    /\ IF channel[k] = "open"
       THEN channel' = [channel EXCEPT ![k] = "sent"] /\ claimed' = claimed \union {k}
       ELSE UNCHANGED <<channel, claimed>>
    /\ UNCHANGED <<askAt, entries, expired, timer, delivered, replies>>

\* Time: the deadline of the entry, and later the one of the caller.
DeadlinePasses(k) ==
    /\ askAt[k] # "new" /\ k \notin expired
    /\ expired' = expired \union {k}
    /\ UNCHANGED <<askAt, entries, timer, channel, delivered, replies, sending, claimed>>

TimeoutPasses(k) ==
    /\ askAt[k] = "poll" /\ k \in expired /\ k \notin timer
    /\ timer' = timer \union {k}
    /\ UNCHANGED <<askAt, entries, expired, channel, delivered, replies, sending, claimed>>

\* Mutant: only the entries whose receiver is still there are swept.
SweepExpiredWaiting ==
    /\ entries \intersect expired # {}
    /\ entries' = {k \in entries : k \notin expired \/ channel[k] = "dropped"}
    /\ channel' = Closed(entries \intersect expired)
    /\ UNCHANGED <<askAt, expired, timer, delivered, replies, sending, claimed>>

\* sweep_expired()
SweepExpired ==
    /\ entries \intersect expired # {}
    /\ entries' = entries \ expired
    /\ channel' = Closed(entries \intersect expired)
    /\ UNCHANGED <<askAt, expired, timer, delivered, replies, sending, claimed>>

AskStep(k) == \/ DispatchOk(k) \/ PollChannel(k) \/ PollTimer(k) \/ AskTimesOut(k)

AsksNext ==
    \/ \E k \in Requests : \/ RegisterAsk(k) \/ Reaches(k) \/ DispatchFails(k) \/ AskStep(k)
                           \/ Abandon(k) \/ Resolve(k) \/ ResolveSend(k)
                           \/ DeadlinePasses(k) \/ TimeoutPasses(k)
    \/ SweepExpired

AsksSpec == AsksInit /\ [][AsksNext]_askVars

\* What happens without anybody's asking: the tasks go on, time passes, the
\* sweep comes back every GC_INTERVAL.
AsksGoOn ==
    \/ \E k \in Requests : AskStep(k) \/ ResolveSend(k) \/ DeadlinePasses(k) \/ TimeoutPasses(k)
    \/ SweepExpired
-----------------------------------------------------------------------------
\* No entry outlives its call, except for one that was given up by its owner.
NoStrayEntry ==
    \A k \in entries : askAt[k] \in {"dispatch", "poll", "polled", "elapsed", "abandoned"}

\* An entry is the only way to its channel: as long as it is there nobody has
\* sent, and whoever is sending has removed it.
EntryGuardsChannel ==
    \A k \in entries : channel[k] \in {"open", "dropped"} /\ k \notin sending

\* What is sent or being sent answers a request that reached the actor, and the
\* call of such a request was registered.
ReplyAnswersRequest ==
    /\ claimed \union sending \subseteq delivered
    /\ \A k \in delivered : askAt[k] # "new"

\* The value in a channel was claimed, and stays until the receiver goes.
ClaimIsInChannel ==
    \A k \in Requests : /\ channel[k] = "sent" => k \in claimed
                        /\ k \in claimed => channel[k] \in {"sent", "dropped"}
                        /\ askAt[k] = "new" => channel[k] = "open"
                        /\ askAt[k] = "closed" => channel[k] = "closed"
                        /\ askAt[k] = "failed" => channel[k] = "dropped"

\* A reply that the caller returns was claimed by one resolve(), and a claimed
\* reply never ends in a closed channel.  It goes unread in three ways only: the
\* timer ran out in the poll that had already seen the empty channel, the call
\* was given up, or its dispatch failed after the request had been delivered.
ClaimIsReturned ==
    /\ \A k \in Requests : askAt[k] = "reply" => k \in claimed
    /\ \A k \in claimed : channel[k] = "dropped"
                             => askAt[k] \in {"elapsed", "timeout", "abandoned", "failed"}

\* What register(), resolve(), cancel() and sweep_expired() keep between them.
AsksInv ==
    AsksTypeOK /\ NoStrayEntry /\ EntryGuardsChannel /\ ReplyAnswersRequest
    /\ ClaimIsInChannel /\ ClaimIsReturned

\* All entries are removed in the end, also that of a call that nobody finishes.
EntriesVanish == []<>(entries = {})
=============================================================================
