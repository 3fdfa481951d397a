----------------------------- MODULE RedisLock -----------------------------
(***************************************************************************)
(* The Redis lock manager (crates/locks/src/redis.rs).  SET NX PX and the  *)
(* two Lua scripts run atomically in the server, which also removes the    *)
(* key when its time to live is over.  The client learns the outcome later *)
(* and computes the expiry of its Lock from its own clock at that moment   *)
(* (build_lock).                                                           *)
(***************************************************************************)
EXTENDS LockClients

CONSTANTS
    NoKey,        \* the key does not exist
    NoCall        \* the client waits for no answer

VARIABLES
    key,          \* value holder_id:version of the key, and when it ends
    redisHandle,  \* redisHandle[h]: the Lock last returned to h
    call          \* call[h]: the answer on its way to h

redisVars == <<key, now, nextVersion, redisHandle, call>>

Keys    == [holder: Holders, version: Nat, expires: Nat]
\* A Lock, and when the key the server set for it ends.
RedisHandles == [version: Nat, expires: Nat, keyEnds: Nat]
\* An answer: a Lock of the given version, or a refusal.
Answers == [version: Nat, keyEnds: Nat, result: {"ok", "held", "not held"}]

ASSUME RedisNullAssumption ==
    /\ NoKey \notin Keys
    /\ NoKey \notin Holders
    /\ NoHandle \notin RedisHandles
    /\ NoCall \notin Answers

RedisTypeOK ==
    /\ key \in Keys \union {NoKey}
    /\ now \in Nat
    /\ nextVersion \in Nat
    /\ redisHandle \in [Holders -> RedisHandles \union {NoHandle}]
    /\ call \in [Holders -> Answers \union {NoCall}]

RedisInit ==
    /\ key = NoKey
    /\ now = 0
    /\ nextVersion = 0
    /\ redisHandle = [h \in Holders |-> NoHandle]
    /\ call = [h \in Holders |-> NoCall]

-----------------------------------------------------------------------------
\* The key exists: its time to live is not over.
Exists == key # NoKey /\ key.expires > now

Answer(h, v, ends, result) ==
    call' = [call EXCEPT ![h] = [version |-> v, keyEnds |-> ends, result |-> result]]

\* SET key holder:version PX ttl, in a script or with NX.
SetKey(h) ==
    /\ nextVersion < MaxVersion
    /\ nextVersion' = nextVersion + 1
    /\ key' = [holder |-> h, version |-> nextVersion, expires |-> now + Lease[h]]
    /\ Answer(h, nextVersion, now + Lease[h], "ok")
    /\ UNCHANGED <<now, redisHandle>>

\* Mutant: SET without NX.
AcquireOverwrites(h) ==
    /\ call[h] = NoCall
    /\ SetKey(h)

\* SET NX: a key of any holder, the caller included, refuses it.
AcquireOk(h) ==
    /\ call[h] = NoCall
    /\ ~Exists
    /\ SetKey(h)

RedisAcquireHeld(h) ==
    /\ call[h] = NoCall
    /\ Exists
    /\ Answer(h, 0, 0, "held")
    /\ UNCHANGED <<key, now, nextVersion, redisHandle>>

\* Mutant: the renewal script without its comparison of the holder.
RedisRenewAnyHolder(h) ==
    /\ call[h] = NoCall
    /\ redisHandle[h] # NoHandle
    /\ Exists
    /\ SetKey(h)

\* The renewal script: the value starts with the caller's holder_id.
RenewOk(h) ==
    /\ call[h] = NoCall
    /\ redisHandle[h] # NoHandle
    /\ Exists /\ key.holder = h
    /\ SetKey(h)

RenewNotHeld(h) ==
    /\ call[h] = NoCall
    /\ redisHandle[h] # NoHandle
    /\ ~(Exists /\ key.holder = h)
    /\ Answer(h, 0, 0, "not held")
    /\ UNCHANGED <<key, now, nextVersion, redisHandle>>

\* The release script: the version is not looked at, the key is deleted
\* whatever delete_lock says.  The caller gives up its Lock.
RedisRelease(h) ==
    /\ call[h] = NoCall
    /\ redisHandle[h] # NoHandle
    /\ redisHandle' = [redisHandle EXCEPT ![h] = NoHandle]
    /\ key' = IF Exists /\ key.holder = h THEN NoKey ELSE key
    /\ UNCHANGED <<now, nextVersion, call>>

\* The answer arrives; the Lock is dated from now.
Receive(h) ==
    /\ call[h] # NoCall
    /\ redisHandle' = IF call[h].result = "ok"
                 THEN [redisHandle EXCEPT ![h] = [version |-> call[h].version,
                                             expires |-> now + Lease[h],
                                             keyEnds |-> call[h].keyEnds]]
                 ELSE redisHandle
    /\ call' = [call EXCEPT ![h] = NoCall]
    /\ UNCHANGED <<key, now, nextVersion>>

\* The connection breaks: BackendError.
Lose(h) ==
    /\ call[h] # NoCall
    /\ call' = [call EXCEPT ![h] = NoCall]
    /\ UNCHANGED <<key, now, nextVersion, redisHandle>>

\* The client process restarts under the same holder_id.
RedisRestart(h) ==
    /\ redisHandle[h] # NoHandle
    /\ redisHandle' = [redisHandle EXCEPT ![h] = NoHandle]
    /\ call' = [call EXCEPT ![h] = NoCall]
    /\ UNCHANGED <<key, now, nextVersion>>

RedisTick ==
    /\ now < MaxTime
    /\ now' = now + 1
    /\ UNCHANGED <<key, nextVersion, redisHandle, call>>

RedisNext ==
    \/ RedisTick
    \/ \E h \in Holders :
        \/ AcquireOk(h)
        \/ RedisAcquireHeld(h)
        \/ RenewOk(h)
        \/ RenewNotHeld(h)
        \/ RedisRelease(h)
        \/ Receive(h)
        \/ Lose(h)
        \/ RedisRestart(h)

RedisSpec == RedisInit /\ [][RedisNext]_redisVars
-----------------------------------------------------------------------------
\* The client has an unexpired Lock in hand.
Dated(h) == redisHandle[h] # NoHandle /\ redisHandle[h].expires > now

\* The client has a Lock whose key has not yet come to its end.
Covered(h) == redisHandle[h] # NoHandle /\ redisHandle[h].keyEnds > now

RedisOwns(h) == Exists /\ key.holder = h

(***************************************************************************)
(* Two holders have an unexpired Lock in hand only if the answer to one of *)
(* them was late and its key has ended: build_lock dates the Lock from the *)
(* arrival of the answer.  Lost answers, restarts, renewals of a lease     *)
(* that somebody else has taken meanwhile do not lead to a double holder.  *)
(***************************************************************************)
OnlyDelayOverlaps ==
    \A g, h \in Holders :
        Dated(g) /\ Dated(h) /\ g # h => ~Covered(g) \/ ~Covered(h)

\* As long as the key lasts for which it was given, a Lock is backed by the
\* key in the server, in the caller's name and for at least as long.
KeyBacksLock ==
    \A h \in Holders : Covered(h) => RedisOwns(h) /\ redisHandle[h].keyEnds <= key.expires

\* So is a Lock whose answer is still on its way.
KeyBacksAnswer ==
    \A h \in Holders :
        call[h] # NoCall /\ call[h].result = "ok" /\ call[h].keyEnds > now =>
            RedisOwns(h) /\ call[h].keyEnds <= key.expires

\* No key outlives the lease its holder asks for: a renewal never shortens it.
KeyBounded == key # NoKey => key.expires <= now + Lease[key.holder]

\* A Lock that acquire_lock() or renew_lock() returned is backed by its key, and
\* two overlap only where a late reply outlived one.
RedisLeaseInv ==
    RedisTypeOK /\ KeyBacksLock /\ KeyBacksAnswer /\ KeyBounded /\ OnlyDelayOverlaps

-----------------------------------------------------------------------------
RedisNobody    == NoKey
RedisOwner     == IF Exists THEN key.holder ELSE RedisNobody
RedisBelievers == {h \in Holders : Covered(h)}

RedisLeaseSpec == INSTANCE LeaseService WITH
    owner <- RedisOwner, believers <- RedisBelievers, Nobody <- RedisNobody

(***************************************************************************)
(* The manager implements the abstract lease with the holders whose key    *)
(* lasts as those who believe they hold it.                                *)
(***************************************************************************)
RedisImplementsLease == RedisLeaseSpec!Spec
=============================================================================
