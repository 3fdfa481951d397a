--------------------------- MODULE MessagingProofs ---------------------------
(***************************************************************************)
(* Proofs about the queues: the outbox, for any set of messages and        *)
(* dispatches, every limit and both kinds of channel; and the mailbox, for *)
(* any number of senders, messages and keys, every capacity and every      *)
(* configuration.                                                          *)
(***************************************************************************)
EXTENDS Messaging, FiniteSetTheorems, SequenceTheorems, TLAPS

-----------------------------------------------------------------------------
(* The outbox.                                                             *)

(***************************************************************************)
(* What the type invariant says.                                           *)
(***************************************************************************)
LEMMA OutboxFacts ==
    ASSUME OutboxInv
    PROVE  /\ rows \in Seq(Item) /\ Len(rows) \in Nat /\ held \in Seq(Item) /\ Len(held) \in Nat
           /\ \A i \in 1..Len(rows) : rows[i] \in Item /\ rows[i].m \in Parcels /\ rows[i].count \in Nat
           /\ \A k \in 1..Len(held) : held[k] \in Item /\ held[k].m \in Parcels /\ held[k].count \in Nat
           /\ tried \in [Parcels -> Nat] /\ outFaults \in Nat /\ outCrashes \in Nat /\ Faults \in Nat
           /\ Allowed \in Nat \ {0}
           /\ limit \in Nat \ {0} /\ inFlight \in Nat
<1>1. OutboxTypeOK
    BY DEF OutboxInv
<1>2. /\ Len(rows) \in Nat /\ Len(held) \in Nat
      /\ \A i \in 1..Len(rows) : rows[i] \in Item
      /\ \A k \in 1..Len(held) : held[k] \in Item
    BY <1>1, LenProperties, ElementOfSeq DEF OutboxTypeOK
<1>3. \A r \in Item : r.m \in Parcels /\ r.count \in Nat
    BY DEF Item
<1>4. outFaults \in Nat /\ outCrashes \in Nat /\ limit \in Nat \ {0} /\ inFlight \in Nat
    BY <1>1, OutboxAssumption DEF OutboxTypeOK
<1>5. Allowed \in Nat \ {0}
    BY OutboxAssumption DEF Allowed, AtLeast
<1> QED BY <1>1, <1>2, <1>3, <1>4, <1>5 DEF OutboxTypeOK, Faults

(***************************************************************************)
(* ack(), and the deletion half of nack(): the row of m leaves and the     *)
(* others stay.                                                            *)
(***************************************************************************)
LEMMA WithoutRow ==
    ASSUME OutboxInv, NEW m \in Parcels
    PROVE  /\ Without(m) \in Seq(Item)
           /\ \A k \in 1..Len(Without(m)) : \E i \in 1..Len(rows) : Without(m)[k] = rows[i] /\ rows[i].m # m
           /\ \A i \in 1..Len(rows) : rows[i].m # m => \E k \in 1..Len(Without(m)) : Without(m)[k] = rows[i]
           /\ \A j, k \in 1..Len(Without(m)) : Without(m)[j].m = Without(m)[k].m => j = k
<1>0. \A i, j \in 1..Len(rows) : rows[i].m = rows[j].m => i = j
    BY DEF OutboxInv, OnePlaceEach
<1>1. CASE ~\E i \in 1..Len(rows) : rows[i].m = m
    <2>1. Without(m) = rows
        BY <1>1 DEF Without
    <2> QED BY <1>0, <1>1, <2>1, OutboxFacts
<1>2. CASE \E i \in 1..Len(rows) : rows[i].m = m
    <2> DEFINE p == CHOOSE i \in 1..Len(rows) : rows[i].m = m
               t == [k \in 1..(Len(rows) - 1) |-> IF k < p THEN rows[k] ELSE rows[k + 1]]
    <2>1. p \in 1..Len(rows) /\ rows[p].m = m
        BY <1>2
    <2>2. Without(m) = t
        BY <1>2 DEF Without
    <2> HIDE DEF p
    <2>3. Len(rows) - 1 \in Nat
        BY <2>1, OutboxFacts
    <2>4. \A k \in 1..(Len(rows) - 1) : /\ k \in 1..Len(rows) /\ k + 1 \in 1..Len(rows)
                                        /\ t[k] = IF k < p THEN rows[k] ELSE rows[k + 1]
        BY <2>3
    <2>5. t \in [1..(Len(rows) - 1) -> Item]
        BY <2>4, OutboxFacts
    <2>6. t \in Seq(Item)
        BY <2>3, <2>5 DEF Seq
    <2>7. Len(t) = Len(rows) - 1
        BY <2>3, <2>5, <2>6, LenProperties
    <2> HIDE DEF t
    <2>8. ASSUME NEW k \in 1..Len(t) PROVE \E i \in 1..Len(rows) : t[k] = rows[i] /\ rows[i].m # m
        <3>1. CASE k < p
            <4>1. k \in 1..Len(rows) /\ t[k] = rows[k] /\ k # p
                BY <2>1, <2>4, <2>7, <3>1
            <4> QED BY <1>0, <2>1, <4>1
        <3>2. CASE ~(k < p)
            <4>1. k + 1 # p
                BY <2>1, <3>2, OutboxFacts
            <4> QED BY <1>0, <2>1, <2>4, <2>7, <3>2, <4>1
        <3> QED BY <3>1, <3>2
    <2>9. ASSUME NEW i \in 1..Len(rows), rows[i].m # m PROVE \E k \in 1..Len(t) : t[k] = rows[i]
        <3>1. i # p /\ i \in Nat /\ p \in Nat /\ Len(rows) \in Nat
            BY <2>1, <2>9, OutboxFacts
        <3>2. CASE i < p
            <4>1. i \in 1..(Len(rows) - 1)
                BY <2>1, <3>1, <3>2
            <4> QED BY <2>4, <2>7, <3>2, <4>1
        <3>3. CASE i > p
            <4>1. i - 1 \in 1..(Len(rows) - 1) /\ ~(i - 1 < p) /\ i - 1 + 1 = i
                BY <2>1, <3>1, <3>3
            <4> QED BY <2>4, <2>7, <4>1
        <3> QED BY <3>1, <3>2, <3>3
    <2>10. ASSUME NEW j \in 1..Len(t), NEW k \in 1..Len(t), t[j].m = t[k].m PROVE j = k
        <3>1. PICK a \in 1..Len(rows) : t[j] = rows[a] /\ a = IF j < p THEN j ELSE j + 1
            BY <2>4, <2>7
        <3>2. PICK b \in 1..Len(rows) : t[k] = rows[b] /\ b = IF k < p THEN k ELSE k + 1
            BY <2>4, <2>7
        <3>3. a = b
            BY <1>0, <2>10, <3>1, <3>2
        <3> QED BY <2>1, <2>3, <2>7, <3>1, <3>2, <3>3
    <2> QED BY <2>2, <2>6, <2>8, <2>9, <2>10
<1> QED BY <1>1, <1>2

(***************************************************************************)
(* What a step that tells the channel about m does to the table, after f   *)
(* faults: the other rows stay, and m, if it stays, may be tried again;    *)
(* and that m is not lost.                                                 *)
(***************************************************************************)
TableAfter(m, f) ==
    /\ rows' \in Seq(Item)
    /\ \A i, j \in 1..Len(rows') : rows'[i].m = rows'[j].m => i = j
    /\ \A i \in 1..Len(rows') : \/ \E j \in 1..Len(rows) : rows'[i] = rows[j] /\ rows[j].m # m
                                \/ store = "sqlite" /\ rows'[i].m = m /\ Left(rows'[i], f)
    /\ \A i \in 1..Len(rows) : rows[i].m # m => \E j \in 1..Len(rows') : rows'[j] = rows[i]

ToldOf(m) ==
    /\ dead \subseteq dead' /\ vanished \subseteq vanished' /\ (store = "sqlite" => vanished' = vanished)
    /\ dead' \subseteq Parcels /\ vanished' \subseteq Parcels
    /\ \/ \E i \in 1..Len(rows') : rows'[i].m = m
       \/ m \in delivered \union dead' \union vanished'

(***************************************************************************)
(* The relay is done with the first message of its batch and tells the     *)
(* channel.                                                                *)
(***************************************************************************)
LEMMA LetGo ==
    ASSUME OutboxInv, held # <<>>, relay \in {"process", "settle"}, held' = Tail(held),
           relay' = "process", verdict' = "none",
           UNCHANGED <<store, sent, tried, delivered, outCrashes>>,
           outFaults' \in Nat, outFaults <= outFaults',
           TableAfter(held[1].m, Faults'), ToldOf(held[1].m)
    PROVE  /\ ParcelAccounted' /\ NothingVanishesFromTable' /\ TriesBounded'
           /\ OnePlaceEach' /\ RelayAgrees' /\ CountsTell' /\ held' \in Seq(Item)
<1>0. /\ rows' \in Seq(Item)
      /\ \A i, j \in 1..Len(rows') : rows'[i].m = rows'[j].m => i = j
      /\ \A i \in 1..Len(rows') : \/ \E j \in 1..Len(rows) : rows'[i] = rows[j] /\ rows[j].m # held[1].m
                                  \/ store = "sqlite" /\ rows'[i].m = held[1].m /\ Left(rows'[i], Faults')
      /\ \A i \in 1..Len(rows) : rows[i].m # held[1].m => \E j \in 1..Len(rows') : rows'[j] = rows[i]
      /\ dead \subseteq dead' /\ vanished \subseteq vanished' /\ (store = "sqlite" => vanished' = vanished)
      /\ \/ \E i \in 1..Len(rows') : rows'[i].m = held[1].m
         \/ held[1].m \in delivered \union dead' \union vanished'
    BY DEF TableAfter, ToldOf
<1>1. /\ held' \in Seq(Item) /\ Len(held') = Len(held) - 1 /\ 1 \in 1..Len(held)
      /\ \A k \in 1..Len(held') : held'[k] = held[k + 1] /\ k + 1 \in 1..Len(held) /\ k + 1 # 1
    <2>1. /\ Tail(held) \in Seq(Item) /\ Len(Tail(held)) = Len(held) - 1 /\ Len(held) \in Nat /\ Len(held) # 0
          /\ \A k \in 1..Len(Tail(held)) : Tail(held)[k] = held[k + 1]
        BY OutboxFacts, HeadTailProperties, EmptySeq
    <2> QED BY <2>1
<1>2. \A k \in 1..Len(held') : held'[k].m # held[1].m
    BY <1>1 DEF OutboxInv, OnePlaceEach
<1>3. \A j \in 1..Len(held) : j = 1 \/ \E k \in 1..Len(held') : held'[k] = held[j]
    <2> SUFFICES ASSUME NEW j \in 1..Len(held), j # 1 PROVE \E k \in 1..Len(held') : held'[k] = held[j]
        OBVIOUS
    <2>1. j - 1 \in 1..Len(held') /\ j - 1 + 1 = j
        BY <1>1, OutboxFacts
    <2> QED BY <1>1, <2>1
<1>4. ParcelAccounted'
    <2> SUFFICES ASSUME NEW m \in sent
                 PROVE  \/ \E i \in 1..Len(rows') : rows'[i].m = m
                        \/ \E k \in 1..Len(held') : held'[k].m = m
                        \/ m \in delivered \union dead' \union vanished'
        BY DEF ParcelAccounted, InTable, InRelay
    <2>1. CASE m = held[1].m
        BY <1>0, <2>1
    <2>2. CASE m # held[1].m
        <3>1. InTable(m) \/ InRelay(m) \/ m \in delivered \union dead \union vanished
            BY DEF OutboxInv, ParcelAccounted
        <3>2. ASSUME InTable(m) PROVE \E i \in 1..Len(rows') : rows'[i].m = m
            <4>1. PICK i \in 1..Len(rows) : rows[i].m = m
                BY <3>2 DEF InTable
            <4>2. PICK j \in 1..Len(rows') : rows'[j] = rows[i]
                BY <1>0, <2>2, <4>1
            <4> QED BY <4>1, <4>2
        <3>3. ASSUME InRelay(m) PROVE \E k \in 1..Len(held') : held'[k].m = m
            <4>1. PICK j \in 1..Len(held) : held[j].m = m
                BY <3>3 DEF InRelay
            <4>2. PICK k \in 1..Len(held') : held'[k] = held[j]
                BY <1>3, <2>2, <4>1
            <4> QED BY <4>1, <4>2
        <3> QED BY <1>0, <3>1, <3>2, <3>3
    <2> QED BY <2>1, <2>2
<1>5. NothingVanishesFromTable'
    BY <1>0 DEF OutboxInv, NothingVanishesFromTable
<1>6. /\ Faults' \in Nat /\ Faults <= Faults'
      /\ \A r \in Item : Left(r, Faults) => Left(r, Faults')
    <2>1. Faults' = outFaults' + outCrashes /\ Faults = outFaults + outCrashes
        BY DEF Faults
    <2>2. Faults' \in Nat /\ Faults <= Faults'
        BY <2>1, OutboxFacts
    <2>3. ASSUME NEW r \in Item, Left(r, Faults) PROVE Left(r, Faults')
        <3>1. r.m \in Parcels /\ r.count \in Nat /\ tried[r.m] \in Nat
            BY OutboxFacts DEF Item
        <3>2. tried[r.m] <= r.count + Faults /\ tried[r.m] < Allowed + Faults
            BY <2>3 DEF Left
        <3>3. tried[r.m] <= r.count + Faults' /\ tried[r.m] < Allowed + Faults'
            <4>1. Faults \in Nat /\ Allowed \in Nat
                BY OutboxFacts
            <4> QED BY <2>2, <3>1, <3>2, <4>1
        <3> QED BY <3>3 DEF Left
    <2> QED BY <2>2, <2>3
<1>7. TriesBounded'
    <2> SUFFICES ASSUME NEW m \in Parcels PROVE tried[m] <= Allowed + Faults'
        BY DEF TriesBounded, Allowed
    <2>1. tried[m] <= Allowed + Faults /\ tried[m] \in Nat
        BY OutboxFacts DEF OutboxInv, TriesBounded
    <2> QED BY <1>6, <2>1, OutboxFacts
<1>8. OnePlaceEach'
    <2>1. \A k, l \in 1..Len(held') : held'[k].m = held'[l].m => k = l
        BY <1>1, OutboxFacts DEF OutboxInv, OnePlaceEach
    <2>2. held[1].m \in sent
        BY <1>1 DEF OutboxInv, OnePlaceEach
    <2>3. \A i \in 1..Len(rows') : rows'[i].m \in sent
        BY <1>0, <2>2 DEF OutboxInv, OnePlaceEach
    <2>4. \A k \in 1..Len(held') : held'[k].m \in sent
        BY <1>1 DEF OutboxInv, OnePlaceEach
    <2>5. ASSUME NEW k \in 1..Len(held')
          PROVE  IF store = "memory" THEN \A i \in 1..Len(rows') : rows'[i].m # held'[k].m
                 ELSE \E i \in 1..Len(rows') : rows'[i].m = held'[k].m /\ rows'[i].count = held'[k].count
        <3>1. k + 1 \in 1..Len(held) /\ held'[k] = held[k + 1] /\ held'[k].m # held[1].m
            BY <1>1, <1>2
        <3>2. IF store = "memory" THEN \A i \in 1..Len(rows) : rows[i].m # held'[k].m
              ELSE \E i \in 1..Len(rows) : rows[i].m = held'[k].m /\ rows[i].count = held'[k].count
            BY <3>1 DEF OutboxInv, OnePlaceEach
        <3>3. CASE store = "memory"
            <4>1. ASSUME NEW i \in 1..Len(rows') PROVE rows'[i].m # held'[k].m
                <5>1. PICK j \in 1..Len(rows) : rows'[i] = rows[j]
                    BY <1>0, <3>3
                <5> QED BY <3>2, <3>3, <5>1
            <4> QED BY <3>3, <4>1
        <3>4. CASE store # "memory"
            <4>1. PICK i \in 1..Len(rows) : rows[i].m = held'[k].m /\ rows[i].count = held'[k].count
                BY <3>2, <3>4
            <4>2. PICK j \in 1..Len(rows') : rows'[j] = rows[i]
                BY <1>0, <3>1, <4>1
            <4> QED BY <3>4, <4>1, <4>2
        <3> QED BY <3>3, <3>4
    <2> QED BY <1>0, <2>1, <2>3, <2>4, <2>5 DEF OnePlaceEach
<1>9. RelayAgrees'
    BY DEF RelayAgrees
<1>10. CountsTell'
    <2>1. \A m \in Parcels \ sent : tried[m] = 0
        BY DEF OutboxInv, CountsTell
    <2>2. \A j \in 1..Len(rows) : rows[j].m # held[1].m => Left(rows[j], Faults')
        <3>1. \A j \in 1..Len(rows) : rows[j].m # held[1].m => Left(rows[j], Faults)
            BY DEF OutboxInv, CountsTell
        <3> QED BY <1>6, <3>1, OutboxFacts
    <2>3. \A i \in 1..Len(rows') : Left(rows'[i], Faults')
        BY <1>0, <2>2
    <2>4. \A k \in 1..Len(held') : Left(held'[k], Faults')
        <3>1. \A k \in 1..Len(held') : Left(held'[k], Faults) /\ held'[k] \in Item
            BY <1>1, OutboxFacts DEF OutboxInv, CountsTell
        <3> QED BY <1>6, <3>1
    <2>5. ~Trying'
        BY DEF Trying
    <2> QED BY <2>1, <2>3, <2>4, <2>5 DEF CountsTell, Left, Allowed
<1> QED BY <1>1, <1>4, <1>5, <1>7, <1>8, <1>9, <1>10

(***************************************************************************)
(* A dispatch or the relay takes or returns a permit: in_flight stays the  *)
(* number of permits that are out, and the limit stays in its bounds.      *)
(***************************************************************************)
LEMMA PermitMoves ==
    ASSUME OutboxInv, NEW d \in Dispatchers, NEW at \in {"start", "sending", "accepted", "rejected"},
           NEW n, DispatchGoes(d, at, n), relay' = relay
    PROVE  /\ IsFiniteSet(Sending') /\ Cardinality(Sending') \in Nat /\ Cardinality(Sending) \in Nat
           /\ Cardinality(Sending') = Cardinality(Sending) + (IF at = "sending" THEN 1 ELSE 0)
                                                           - (IF dispatch[d].at = "sending" THEN 1 ELSE 0)
<1>1. IsFiniteSet(Sending)
    BY DEF OutboxInv, PermitsBalance
<1>2. \A e \in Dispatchers : dispatch'[e] = IF e = d THEN [at |-> at, attempt |-> n] ELSE dispatch[e]
    BY DEF DispatchGoes, OutboxInv, OutboxTypeOK
<1>3. Sending' = IF at = "sending" THEN Sending \union {d} ELSE Sending \ {d}
    BY <1>2 DEF Sending
<1>4. d \in Sending <=> dispatch[d].at = "sending"
    BY DEF Sending
<1>5. /\ IsFiniteSet(Sending \union {d}) /\ IsFiniteSet(Sending \ {d})
      /\ Cardinality(Sending \union {d}) = IF d \in Sending THEN Cardinality(Sending) ELSE Cardinality(Sending) + 1
      /\ Cardinality(Sending \ {d}) = IF d \in Sending THEN Cardinality(Sending) - 1 ELSE Cardinality(Sending)
    BY <1>1, FS_AddElement, FS_RemoveElement
<1>6. Cardinality(Sending) \in Nat /\ Cardinality(Sending') \in Nat
    BY <1>1, <1>3, <1>5, FS_CardinalityType
<1> QED BY <1>3, <1>4, <1>5, <1>6

LEMMA LimitMoves ==
    ASSUME OutboxInv, Acquire \/ OnSuccess \/ OnRejection
    PROVE  limit' \in MinLimit..MaxLimit
<1>1. /\ limit \in MinLimit..MaxLimit /\ MinLimit \in Nat \ {0} /\ MaxLimit \in Nat /\ MinLimit <= MaxLimit
    BY OutboxAssumption DEF OutboxInv, OutboxTypeOK
<1>2. CASE Acquire
    BY <1>1, <1>2 DEF Acquire
<1>3. CASE OnSuccess
    BY <1>1, <1>3 DEF OnSuccess, AtMost
<1>4. CASE OnRejection
    <2>1. limit \div 2 \in Int /\ limit \div 2 <= limit
        BY <1>1
    <2>2. limit' = AtLeast(limit \div 2, MinLimit)
        BY <1>4 DEF OnRejection
    <2> DEFINE h == limit \div 2
    <2> HIDE DEF h
    <2>3. h \in Int /\ h <= limit /\ limit' = AtLeast(h, MinLimit)
        BY <2>1, <2>2 DEF h
    <2> QED BY <1>1, <2>3 DEF AtLeast
<1> QED BY <1>2, <1>3, <1>4

(***************************************************************************)
(* A step that touches neither the channel nor the batch keeps what is     *)
(* said of messages.                                                       *)
(***************************************************************************)
MessagesInv ==
    /\ ParcelAccounted /\ NothingVanishesFromTable /\ TriesBounded /\ OnePlaceEach /\ RelayAgrees
    /\ CountsTell

LEMMA MessagesStay ==
    ASSUME OutboxInv, UNCHANGED <<store, rows, relay, held, verdict, StatsVars>>
    PROVE  MessagesInv'
BY DEF OutboxInv, MessagesInv, StatsVars, ParcelAccounted, NothingVanishesFromTable, TriesBounded,
       OnePlaceEach, RelayAgrees, CountsTell, InTable, InRelay, Trying, Left, Faults, Allowed

LEMMA DispatchKeeps ==
    ASSUME OutboxInv, NEW d \in Dispatchers, DispatchStep(d)
    PROVE  OutboxInv'
<1>0. /\ UNCHANGED <<store, rows, relay, held, running, verdict, StatsVars>>
      /\ UNCHANGED <<sent, delivered, tried, dead, vanished, outFaults, outCrashes>>
    BY DEF DispatchStep, DispatchAcquire, DispatchAtCapacity, DispatchSent, DispatchFailed, RelayVars, StatsVars
<1>1. MessagesInv'
    BY <1>0, MessagesStay
<1>2. dispatch[d].attempt \in 0..MaxTries /\ MaxTries \in Nat /\ inFlight \in Nat /\ limit \in MinLimit..MaxLimit
    BY OutboxAssumption DEF OutboxInv, OutboxTypeOK
<1>3. inFlight = Cardinality(Sending) + (IF relay = "deliver" THEN 1 ELSE 0)
    BY DEF OutboxInv, PermitsBalance, PermitHolders
<1>4. ASSUME NEW at \in {"start", "sending", "accepted", "rejected"}, NEW n \in 0..MaxTries,
             DispatchGoes(d, at, n), limit' \in MinLimit..MaxLimit,
             inFlight' = inFlight + (IF at = "sending" THEN 1 ELSE 0)
                                  - (IF dispatch[d].at = "sending" THEN 1 ELSE 0)
      PROVE  OutboxInv'
    <2>1. /\ IsFiniteSet(Sending') /\ Cardinality(Sending') \in Nat /\ Cardinality(Sending) \in Nat
          /\ Cardinality(Sending') = Cardinality(Sending) + (IF at = "sending" THEN 1 ELSE 0)
                                                          - (IF dispatch[d].at = "sending" THEN 1 ELSE 0)
        BY <1>0, <1>4, PermitMoves
    <2>2. inFlight' = Cardinality(Sending') + (IF relay' = "deliver" THEN 1 ELSE 0) /\ inFlight' \in Nat
        BY <1>0, <1>3, <1>4, <2>1
    <2>3. PermitsBalance'
        BY <2>1, <2>2 DEF PermitsBalance, PermitHolders
    <2>4. dispatch' \in [Dispatchers -> [at: {"start", "sending", "accepted", "rejected"}, attempt: 0..MaxTries]]
        BY <1>4 DEF DispatchGoes, OutboxInv, OutboxTypeOK
    <2>5. OutboxTypeOK'
        BY <1>0, <1>4, <2>2, <2>4 DEF OutboxInv, OutboxTypeOK
    <2> QED BY <1>1, <2>3, <2>5 DEF OutboxInv, MessagesInv
<1>5. CASE DispatchAcquire(d)
    <2>1. /\ inFlight' = inFlight + 1 /\ limit' = limit /\ dispatch[d].at = "start"
          /\ DispatchGoes(d, "sending", dispatch[d].attempt)
        BY <1>5 DEF DispatchAcquire, Acquire
    <2> QED BY <1>2, <1>4, <2>1
<1>6. CASE DispatchAtCapacity(d)
    <2>1. inFlight' = inFlight /\ limit' = limit /\ dispatch[d].at = "start" /\ NextAttempt(d)
        BY <1>6 DEF DispatchAtCapacity
    <2>2. CASE dispatch[d].attempt >= MaxTries
        BY <1>2, <1>4, <2>1, <2>2 DEF NextAttempt
    <2>3. CASE ~(dispatch[d].attempt >= MaxTries)
        <3>1. dispatch[d].attempt + 1 \in 0..MaxTries
            BY <1>2, <2>3
        <3> QED BY <1>2, <1>4, <2>1, <2>3, <3>1 DEF NextAttempt
    <2> QED BY <2>2, <2>3
<1>7. CASE DispatchSent(d)
    <2>1. /\ inFlight' = inFlight - 1 /\ dispatch[d].at = "sending" /\ OnSuccess
          /\ DispatchGoes(d, "accepted", dispatch[d].attempt)
        BY <1>7 DEF DispatchSent, OnSuccess
    <2>2. limit' \in MinLimit..MaxLimit
        BY <2>1, LimitMoves
    <2> QED BY <1>2, <1>4, <2>1, <2>2
<1>8. CASE DispatchFailed(d)
    <2>1. /\ inFlight' = inFlight - 1 /\ dispatch[d].at = "sending" /\ (OnSuccess \/ OnRejection)
          /\ NextAttempt(d)
        BY <1>8 DEF DispatchFailed, OnSuccess, OnRejection
    <2>2. limit' \in MinLimit..MaxLimit
        BY <2>1, LimitMoves
    <2>3. CASE dispatch[d].attempt >= MaxTries
        BY <1>2, <1>4, <2>1, <2>2, <2>3 DEF NextAttempt
    <2>4. CASE ~(dispatch[d].attempt >= MaxTries)
        <3>1. dispatch[d].attempt + 1 \in 0..MaxTries
            BY <1>2, <2>4
        <3> QED BY <1>2, <1>4, <2>1, <2>2, <2>4, <3>1 DEF NextAttempt
    <2> QED BY <2>3, <2>4
<1> QED BY <1>5, <1>6, <1>7, <1>8 DEF DispatchStep

(***************************************************************************)
(* The relay takes or returns its permit.                                  *)
(***************************************************************************)
LEMMA RelayPermit ==
    ASSUME OutboxInv, UNCHANGED dispatch, relay' # "deliver" \/ relay # "deliver",
           inFlight' = inFlight + (IF relay' = "deliver" THEN 1 ELSE 0) - (IF relay = "deliver" THEN 1 ELSE 0)
    PROVE  PermitsBalance' /\ inFlight' \in Nat
<1>1. IsFiniteSet(Sending) /\ inFlight = Cardinality(Sending) + (IF relay = "deliver" THEN 1 ELSE 0)
    BY DEF OutboxInv, PermitsBalance, PermitHolders
<1>2. Cardinality(Sending) \in Nat
    BY <1>1, FS_CardinalityType
<1>3. Sending' = Sending
    BY DEF Sending
<1>4. inFlight' = Cardinality(Sending) + (IF relay' = "deliver" THEN 1 ELSE 0) /\ inFlight' \in Nat
    BY <1>1, <1>2
<1> QED BY <1>1, <1>3, <1>4 DEF PermitsBalance, PermitHolders

LEMMA AcquireKeeps ==
    ASSUME OutboxInv, RelayAcquire
    PROVE  OutboxInv'
<1> DEFINE m == held[1].m
<1>0. /\ relay = "process" /\ held # <<>> /\ relay' = "deliver" /\ inFlight' = inFlight + 1 /\ limit' = limit
      /\ tried' = [tried EXCEPT ![Head(held).m] = @ + 1]
      /\ UNCHANGED <<store, rows, held, running, verdict, dispatch, sent, delivered, dead, vanished,
                     outFaults, outCrashes>>
    BY DEF RelayAcquire, Acquire
<1>1. Head(held) = held[1] /\ 1 \in 1..Len(held)
    <2>1. Head(held) = held[1] /\ Len(held) \in Nat /\ Len(held) # 0
        BY <1>0, OutboxFacts, HeadTailProperties, EmptySeq
    <2> QED BY <2>1
<1>2. m \in Parcels /\ m \in sent /\ held[1].count \in Nat /\ Left(held[1], Faults)
    BY <1>0, <1>1, OutboxFacts DEF OutboxInv, OnePlaceEach, CountsTell, Trying
<1>3. /\ tried'[m] = tried[m] + 1 /\ \A x \in Parcels \ {m} : tried'[x] = tried[x]
      /\ tried[m] \in Nat /\ tried' \in [Parcels -> Nat]
    BY <1>0, <1>1, <1>2, OutboxFacts
<1>4. PermitsBalance' /\ inFlight' \in Nat
    BY <1>0, RelayPermit, OutboxFacts
<1>5. OutboxTypeOK'
    BY <1>0, <1>3, <1>4 DEF OutboxInv, OutboxTypeOK
<1>6. Faults' = Faults /\ Faults \in Nat /\ Allowed \in Nat
    BY <1>0, OutboxFacts DEF Faults
<1>7. ParcelAccounted' /\ NothingVanishesFromTable' /\ OnePlaceEach'
    BY <1>0 DEF OutboxInv, ParcelAccounted, NothingVanishesFromTable, OnePlaceEach, InTable, InRelay
<1>8. RelayAgrees'
    BY <1>0 DEF OutboxInv, RelayAgrees
<1>9. tried'[m] <= held[1].count + 1 + Faults /\ tried'[m] <= Allowed + Faults
    BY <1>2, <1>3, <1>6 DEF Left
<1>10. TriesBounded'
    <2>1. \A x \in Parcels : tried'[x] <= Allowed + Faults
        BY <1>3, <1>9 DEF OutboxInv, TriesBounded
    <2> QED BY <1>6, <2>1 DEF TriesBounded, Allowed
<1>11. CountsTell'
    <2>1. \A x \in Parcels \ sent : tried'[x] = 0
        BY <1>2, <1>3 DEF OutboxInv, CountsTell
    <2>2. ASSUME NEW i \in 1..Len(rows), m # rows[i].m
          PROVE  tried'[rows[i].m] <= rows[i].count + Faults /\ tried'[rows[i].m] < Allowed + Faults
        BY <1>0, <1>3, <2>2, OutboxFacts DEF OutboxInv, CountsTell, Trying, Left
    <2>3. ASSUME NEW k \in 1..Len(held), k # 1
          PROVE  tried'[held[k].m] <= held[k].count + Faults /\ tried'[held[k].m] < Allowed + Faults
        <3>1. held[k].m # m /\ held[k].m \in Parcels
            BY <1>1, <2>3, OutboxFacts DEF OutboxInv, OnePlaceEach
        <3> QED BY <1>0, <1>3, <2>3, <3>1 DEF OutboxInv, CountsTell, Trying, Left
    <2>4. verdict' = "none"
        BY <1>0 DEF OutboxInv, RelayAgrees, OutboxTypeOK
    <2> QED BY <1>0, <1>6, <1>9, <2>1, <2>2, <2>3, <2>4 DEF CountsTell, Trying, Left, Allowed
<1> QED BY <1>4, <1>5, <1>7, <1>8, <1>10, <1>11 DEF OutboxInv

LEMMA DeliverKeeps ==
    ASSUME OutboxInv, RelayDelivered \/ RelayFailed
    PROVE  OutboxInv'
<1>0. /\ relay = "deliver" /\ relay' = "settle" /\ (OnSuccess \/ OnRejection) /\ inFlight' = inFlight - 1
      /\ UNCHANGED <<store, rows, held, running, dispatch, sent, tried, dead, vanished, outFaults, outCrashes>>
    BY DEF RelayDelivered, RelayFailed, OnSuccess, OnRejection
<1>1. Head(held) = held[1] /\ 1 \in 1..Len(held)
    <2>1. held # <<>>
        BY <1>0 DEF OutboxInv, RelayAgrees
    <2>2. Head(held) = held[1] /\ Len(held) \in Nat /\ Len(held) # 0
        BY <2>1, OutboxFacts, HeadTailProperties, EmptySeq
    <2> QED BY <2>2
<1>2. held[1].m \in Parcels /\ held[1].count \in Nat /\ tried[held[1].m] \in Nat
    BY <1>1, OutboxFacts
<1>3. \/ verdict' = "ack" /\ delivered' = delivered \union {held[1].m}
      \/ /\ verdict' \in {"retry", "dead"} /\ delivered' = delivered
         /\ verdict' = "retry" => held[1].count + 1 < Allowed
    BY <1>1 DEF RelayDelivered, RelayFailed, ShouldRetry, Allowed
<1>4. limit' \in MinLimit..MaxLimit
    BY <1>0, LimitMoves
<1>5. PermitsBalance' /\ inFlight' \in Nat
    BY <1>0, RelayPermit, OutboxFacts
<1>6. OutboxTypeOK'
    BY <1>0, <1>2, <1>3, <1>4, <1>5 DEF OutboxInv, OutboxTypeOK
<1>7. Faults' = Faults /\ Faults \in Nat /\ Allowed \in Nat
    BY <1>0, OutboxFacts DEF Faults
<1>8. ParcelAccounted'
    BY <1>0, <1>3 DEF OutboxInv, ParcelAccounted, InTable, InRelay
<1>9. NothingVanishesFromTable' /\ OnePlaceEach' /\ TriesBounded'
    BY <1>0, <1>7 DEF OutboxInv, NothingVanishesFromTable, OnePlaceEach, TriesBounded, Allowed
<1>10. RelayAgrees'
    BY <1>0, <1>3 DEF OutboxInv, RelayAgrees
<1>11. CountsTell'
    <2>1. tried[held[1].m] <= held[1].count + 1 + Faults
        BY <1>0 DEF OutboxInv, CountsTell, Trying
    <2>2. verdict' = "retry" => tried[held[1].m] < Allowed + Faults
        BY <1>2, <1>3, <1>7, <2>1
    <2>3. /\ \A m \in Parcels \ sent : tried[m] = 0
          /\ \A i \in 1..Len(rows) : held[1].m # rows[i].m => Left(rows[i], Faults)
          /\ \A k \in 1..Len(held) : k # 1 => Left(held[k], Faults)
        BY <1>0 DEF OutboxInv, CountsTell, Trying
    <2> QED BY <1>0, <1>7, <2>1, <2>2, <2>3 DEF CountsTell, Trying, Left, Allowed
<1> QED BY <1>5, <1>6, <1>8, <1>9, <1>10, <1>11 DEF OutboxInv

(***************************************************************************)
(* ack(), or nack() without a requeue: the row leaves the table.           *)
(***************************************************************************)
LEMMA GoneRow ==
    ASSUME OutboxInv, NEW m \in Parcels, NEW f,
           rows' = IF store = "memory" THEN rows ELSE Without(m),
           store = "memory" => \A i \in 1..Len(rows) : rows[i].m # m
    PROVE  TableAfter(m, f)
<1>1. CASE store = "memory"
    BY <1>1, OutboxFacts DEF OutboxInv, OnePlaceEach, TableAfter
<1>2. CASE store # "memory"
    <2> DEFINE t == Without(m)
    <2>1. /\ t \in Seq(Item)
          /\ \A k \in 1..Len(t) : \E i \in 1..Len(rows) : t[k] = rows[i] /\ rows[i].m # m
          /\ \A i \in 1..Len(rows) : rows[i].m # m => \E k \in 1..Len(t) : t[k] = rows[i]
          /\ \A j, k \in 1..Len(t) : t[j].m = t[k].m => j = k
        BY WithoutRow
    <2>2. rows' = t
        BY <1>2
    <2> HIDE DEF t
    <2> QED BY <2>1, <2>2 DEF TableAfter
<1> QED BY <1>1, <1>2

(***************************************************************************)
(* nack(requeue) counts the row up, and without a delay leaves it where it *)
(* is.                                                                     *)
(***************************************************************************)
LEMMA RequeueRow ==
    ASSUME OutboxInv, NEW r \in Item, NEW wait \in BOOLEAN, NEW f \in Nat,
           ChannelRequeue(r, wait), UNCHANGED tried,
           \A i \in 1..Len(rows) : rows[i].m = r.m => rows[i].count = r.count,
           store = "sqlite" => \E i \in 1..Len(rows) : rows[i].m = r.m,
           store = "memory" => \A i \in 1..Len(rows) : rows[i].m # r.m,
           tried[r.m] <= r.count + 1 + f, tried[r.m] < Allowed + f
    PROVE  TableAfter(r.m, f) /\ ToldOf(r.m)
<1>0. /\ \A i, j \in 1..Len(rows) : rows[i].m = rows[j].m => i = j
      /\ dead \subseteq Parcels /\ vanished \subseteq Parcels /\ store \in {"sqlite", "memory"}
    BY DEF OutboxInv, OnePlaceEach, OutboxTypeOK
<1>1. r.m \in Parcels /\ r.count \in Nat /\ tried[r.m] \in Nat /\ Allowed \in Nat
    BY OutboxFacts DEF Item
<1>2. ASSUME NEW w \in BOOLEAN
      PROVE  Requeued(r, w) \in Item /\ Requeued(r, w).m = r.m /\ Left(Requeued(r, w), f)
    BY <1>1 DEF Requeued, Item, Left
<1>3. CASE store = "memory"
    <2>1. rows' = rows /\ dead' = dead /\ vanished' = vanished \union {r.m}
        BY <1>3 DEF ChannelRequeue
    <2>2. TableAfter(r.m, f)
        BY <1>0, <1>3, <2>1, OutboxFacts DEF TableAfter
    <2> QED BY <1>0, <1>1, <1>3, <2>1, <2>2 DEF ToldOf
<1>4. CASE store = "sqlite" /\ r.count >= ChannelRetries
    <2>1. rows' = Without(r.m) /\ dead' = dead \union {r.m} /\ vanished' = vanished
        BY <1>4 DEF ChannelRequeue
    <2>2. TableAfter(r.m, f)
        BY <1>1, <1>4, <2>1, GoneRow
    <2> QED BY <1>0, <1>1, <2>1, <2>2 DEF ToldOf
<1>5. CASE store = "sqlite" /\ ~(r.count >= ChannelRetries) /\ wait
    <2> DEFINE t == Without(r.m)
               x == Requeued(r, TRUE)
    <2>1. rows' = Append(t, x) /\ dead' = dead /\ vanished' = vanished
        BY <1>5 DEF ChannelRequeue
    <2>2. /\ t \in Seq(Item)
          /\ \A k \in 1..Len(t) : \E i \in 1..Len(rows) : t[k] = rows[i] /\ rows[i].m # r.m
          /\ \A i \in 1..Len(rows) : rows[i].m # r.m => \E k \in 1..Len(t) : t[k] = rows[i]
          /\ \A j, k \in 1..Len(t) : t[j].m = t[k].m => j = k
        BY <1>1, WithoutRow
    <2>3. x \in Item /\ x.m = r.m /\ Left(x, f)
        BY <1>2
    <2> HIDE DEF t, x
    <2>4. /\ rows' \in Seq(Item) /\ Len(rows') = Len(t) + 1 /\ rows'[Len(t) + 1] = x /\ Len(t) \in Nat
          /\ \A k \in 1..Len(t) : rows'[k] = t[k]
        BY <2>1, <2>2, <2>3, AppendProperties, LenProperties
    <2>5. /\ \A k \in 1..Len(rows') : k \in 1..Len(t) \/ k = Len(t) + 1
          /\ \A k \in 1..Len(t) : k \in 1..Len(rows')
          /\ Len(t) + 1 \in 1..Len(rows')
        BY <2>4
    <2>6. ASSUME NEW k \in 1..Len(t) PROVE rows'[k].m # r.m
        <3>1. t[k].m # r.m BY <2>2
        <3> QED BY <2>4, <3>1
    <2>7. \A i, j \in 1..Len(rows') : rows'[i].m = rows'[j].m => i = j
        BY <2>2, <2>3, <2>4, <2>5, <2>6
    <2>8. ASSUME NEW i \in 1..Len(rows')
          PROVE  \/ \E j \in 1..Len(rows) : rows'[i] = rows[j] /\ rows[j].m # r.m
                 \/ store = "sqlite" /\ rows'[i].m = r.m /\ Left(rows'[i], f)
        <3>1. CASE i \in 1..Len(t)
            <4>1. PICK j \in 1..Len(rows) : t[i] = rows[j] /\ rows[j].m # r.m
                BY <2>2, <3>1
            <4> QED BY <2>4, <3>1, <4>1
        <3>2. CASE i = Len(t) + 1
            BY <1>5, <2>3, <2>4, <3>2
        <3> QED BY <2>5, <3>1, <3>2
    <2>9. ASSUME NEW i \in 1..Len(rows), rows[i].m # r.m PROVE \E j \in 1..Len(rows') : rows'[j] = rows[i]
        BY <2>2, <2>4, <2>5, <2>9
    <2>10. TableAfter(r.m, f)
        BY <2>4, <2>7, <2>8, <2>9 DEF TableAfter
    <2>11. ToldOf(r.m)
        BY <1>0, <2>1, <2>3, <2>4, <2>5 DEF ToldOf
    <2> QED BY <2>10, <2>11
<1>6. CASE store = "sqlite" /\ ~(r.count >= ChannelRetries) /\ ~wait
    <2> DEFINE n == Len(rows)
    <2>1. /\ rows' = [i \in 1..n |-> IF rows[i].m = r.m THEN Requeued(rows[i], rows[i].delayed) ELSE rows[i]]
          /\ dead' = dead /\ vanished' = vanished
        BY <1>6 DEF ChannelRequeue
    <2>2. n \in Nat
        BY OutboxFacts
    <2>3. ASSUME NEW i \in 1..n
          PROVE  /\ rows[i].m # r.m => rows'[i] = rows[i]
                 /\ rows[i].m = r.m => rows'[i].m = r.m /\ Left(rows'[i], f)
                 /\ rows'[i] \in Item
        <3>1. rows[i].delayed \in BOOLEAN /\ rows[i] \in Item
            BY OutboxFacts DEF Item
        <3>2. CASE rows[i].m = r.m
            <4>1. rows'[i] = Requeued(rows[i], rows[i].delayed)
                BY <2>1, <3>2
            <4>2. rows[i].count = r.count
                BY <3>2
            <4>3. rows'[i] = Requeued(r, rows[i].delayed)
                BY <3>2, <4>1, <4>2 DEF Requeued
            <4> QED BY <1>2, <3>1, <3>2, <4>3
        <3>3. CASE rows[i].m # r.m
            BY <2>1, <3>1, <3>3
        <3> QED BY <3>2, <3>3
    <2>4. rows' \in [1..n -> Item]
        BY <2>1, <2>3
    <2>5. rows' \in Seq(Item)
        BY <2>2, <2>4 DEF Seq
    <2>6. Len(rows') = n
        BY <2>2, <2>4, <2>5, LenProperties
    <2>7. \A i \in 1..n : rows'[i].m = rows[i].m
        BY <2>3
    <2>8. TableAfter(r.m, f)
        BY <1>0, <1>6, <2>3, <2>5, <2>6, <2>7 DEF TableAfter
    <2>9. ToldOf(r.m)
        BY <1>0, <1>6, <2>1, <2>6, <2>7 DEF ToldOf
    <2> QED BY <2>8, <2>9
<1> QED BY <1>0, <1>3, <1>4, <1>5, <1>6

(***************************************************************************)
(* The first message of the batch, as the table has it.                    *)
(***************************************************************************)
LEMMA FirstHeld ==
    ASSUME OutboxInv, held # <<>>
    PROVE  /\ Head(held) = held[1] /\ 1 \in 1..Len(held) /\ held[1] \in Item
           /\ held[1].m \in Parcels /\ held[1].m \in sent /\ held[1].count \in Nat
           /\ store = "memory" => \A i \in 1..Len(rows) : rows[i].m # held[1].m
           /\ store = "sqlite" => \E i \in 1..Len(rows) : rows[i].m = held[1].m
           /\ \A i \in 1..Len(rows) : rows[i].m = held[1].m => rows[i].count = held[1].count
<1>1. Head(held) = held[1] /\ 1 \in 1..Len(held)
    <2>1. Head(held) = held[1] /\ Len(held) \in Nat /\ Len(held) # 0
        BY OutboxFacts, HeadTailProperties, EmptySeq
    <2> QED BY <2>1
<1>2. /\ held[1].m \in sent
      /\ IF store = "memory" THEN \A i \in 1..Len(rows) : rows[i].m # held[1].m
         ELSE \E i \in 1..Len(rows) : rows[i].m = held[1].m /\ rows[i].count = held[1].count
      /\ \A i, j \in 1..Len(rows) : rows[i].m = rows[j].m => i = j
    BY <1>1 DEF OutboxInv, OnePlaceEach
<1>3. \A i \in 1..Len(rows) : rows[i].m = held[1].m => rows[i].count = held[1].count
    BY <1>2
<1> QED BY <1>1, <1>2, <1>3, OutboxFacts

LEMMA NoPermitKeeps ==
    ASSUME OutboxInv, RelayNoPermit
    PROVE  OutboxInv'
<1>0. /\ relay = "process" /\ held # <<>> /\ ChannelRequeue(Head(held), FALSE) /\ held' = Tail(held)
      /\ UNCHANGED <<store, relay, running, verdict, limit, inFlight, dispatch, sent, delivered, tried,
                     outFaults, outCrashes>>
    BY DEF RelayNoPermit
<1>1. verdict = "none" /\ Faults \in Nat /\ Allowed \in Nat /\ Faults' = Faults /\ outFaults \in Nat
    BY <1>0, OutboxFacts DEF OutboxInv, RelayAgrees, Faults
<1>2. tried[held[1].m] <= held[1].count + 1 + Faults /\ tried[held[1].m] < Allowed + Faults
    <2>1. Left(held[1], Faults) /\ tried[held[1].m] \in Nat /\ held[1].count \in Nat
        BY <1>0, FirstHeld, OutboxFacts DEF OutboxInv, CountsTell, Trying
    <2> QED BY <1>1, <2>1 DEF Left
<1>3. TableAfter(held[1].m, Faults) /\ ToldOf(held[1].m)
    <2>1. /\ Head(held) = held[1] /\ held[1] \in Item
          /\ store = "memory" => \A i \in 1..Len(rows) : rows[i].m # held[1].m
          /\ store = "sqlite" => \E i \in 1..Len(rows) : rows[i].m = held[1].m
          /\ \A i \in 1..Len(rows) : rows[i].m = held[1].m => rows[i].count = held[1].count
        BY <1>0, FirstHeld
    <2>2. ChannelRequeue(held[1], FALSE) /\ tried' = tried
        BY <1>0, <2>1
    <2> QED BY <1>1, <1>2, <2>1, <2>2, RequeueRow
<1>4. /\ ParcelAccounted' /\ NothingVanishesFromTable' /\ TriesBounded'
      /\ OnePlaceEach' /\ RelayAgrees' /\ CountsTell' /\ held' \in Seq(Item)
    <2>1. outFaults' \in Nat /\ outFaults <= outFaults' /\ TableAfter(held[1].m, Faults') /\ verdict' = "none"
        BY <1>0, <1>1, <1>3
    <2> QED BY <1>0, <1>3, <2>1, LetGo
<1>5. PermitsBalance'
    BY <1>0, RelayPermit, OutboxFacts
<1>6. OutboxTypeOK'
    BY <1>0, <1>3, <1>4 DEF OutboxInv, OutboxTypeOK, TableAfter, ToldOf
<1> QED BY <1>4, <1>5, <1>6 DEF OutboxInv

LEMMA SettleKeeps ==
    ASSUME OutboxInv, RelaySettle
    PROVE  OutboxInv'
<1>0. /\ relay = "settle" /\ held' = Tail(held) /\ relay' = "process" /\ verdict' = "none"
      /\ UNCHANGED <<store, running, limit, inFlight, dispatch, sent, delivered, tried, outCrashes>>
    BY DEF RelaySettle
<1>1. /\ held # <<>> /\ verdict \in {"ack", "retry", "dead"}
      /\ verdict = "ack" => held[1].m \in delivered
      /\ store \in {"sqlite", "memory"} /\ dead \subseteq Parcels /\ vanished \subseteq Parcels
    BY <1>0 DEF OutboxInv, RelayAgrees, OutboxTypeOK
<1>2. /\ Faults \in Nat /\ Allowed \in Nat /\ outFaults \in Nat /\ outCrashes \in Nat
      /\ tried[held[1].m] <= held[1].count + 1 + Faults
      /\ verdict = "retry" => tried[held[1].m] < Allowed + Faults
    BY <1>0, OutboxFacts DEF OutboxInv, CountsTell, Trying
<1>3. ASSUME outFaults' \in 0..MaxOutboxFaults, outFaults <= outFaults',
             TableAfter(held[1].m, Faults'), ToldOf(held[1].m)
      PROVE  OutboxInv'
    <2>0. outFaults' \in Nat
        BY <1>3, OutboxAssumption
    <2>1. /\ ParcelAccounted' /\ NothingVanishesFromTable' /\ TriesBounded'
          /\ OnePlaceEach' /\ RelayAgrees' /\ CountsTell' /\ held' \in Seq(Item)
        BY <1>0, <1>1, <1>3, <2>0, LetGo
    <2>2. PermitsBalance'
        BY <1>0, RelayPermit, OutboxFacts
    <2>3. OutboxTypeOK'
        BY <1>0, <1>3, <2>1 DEF OutboxInv, OutboxTypeOK, TableAfter, ToldOf
    <2> QED BY <2>1, <2>2, <2>3 DEF OutboxInv
<1>4. outFaults \in 0..MaxOutboxFaults /\ outFaults <= outFaults
    BY <1>2 DEF OutboxInv, OutboxTypeOK
<1>5. /\ Head(held) = held[1] /\ held[1] \in Item /\ held[1].m \in Parcels
      /\ store = "memory" => \A i \in 1..Len(rows) : rows[i].m # held[1].m
      /\ store = "sqlite" => \E i \in 1..Len(rows) : rows[i].m = held[1].m
      /\ \A i \in 1..Len(rows) : rows[i].m = held[1].m => rows[i].count = held[1].count
      /\ held[1].count \in Nat /\ tried[held[1].m] \in Nat
    BY <1>1, FirstHeld, OutboxFacts
<1>6. CASE UNCHANGED outFaults /\ verdict = "ack" /\ ChannelAck(Head(held))
    <2>1. /\ rows' = IF store = "memory" THEN rows ELSE Without(held[1].m)
          /\ dead' = dead /\ vanished' = vanished
        BY <1>5, <1>6 DEF ChannelAck
    <2>2. TableAfter(held[1].m, Faults')
        BY <1>5, <2>1, GoneRow
    <2>3. ToldOf(held[1].m)
        BY <1>1, <1>6, <2>1 DEF ToldOf
    <2> QED BY <1>3, <1>4, <1>6, <2>2, <2>3
<1>7. CASE UNCHANGED outFaults /\ verdict = "dead" /\ ChannelReject(Head(held))
    <2>1. /\ rows' = IF store = "memory" THEN rows ELSE Without(held[1].m)
          /\ dead' = dead \union {held[1].m} /\ vanished' = vanished
        BY <1>5, <1>7 DEF ChannelReject
    <2>2. TableAfter(held[1].m, Faults')
        BY <1>5, <2>1, GoneRow
    <2>3. ToldOf(held[1].m)
        BY <1>1, <1>5, <2>1 DEF ToldOf
    <2> QED BY <1>3, <1>4, <1>7, <2>2, <2>3
<1>8. CASE UNCHANGED outFaults /\ verdict = "retry" /\ ChannelRequeue(Head(held), TRUE)
    <2>1. Faults' = Faults
        BY <1>0, <1>8 DEF Faults
    <2>2. ChannelRequeue(held[1], TRUE) /\ tried' = tried /\ tried[held[1].m] < Allowed + Faults
        BY <1>0, <1>2, <1>5, <1>8
    <2>3. TableAfter(held[1].m, Faults) /\ ToldOf(held[1].m)
        BY <1>2, <1>5, <2>2, RequeueRow
    <2> QED BY <1>3, <1>4, <1>8, <2>1, <2>3
<1>9. CASE /\ store = "sqlite" /\ outFaults + outCrashes < MaxOutboxFaults /\ outFaults' = outFaults + 1
           /\ UNCHANGED <<rows, dead, vanished>>
    <2>1. Faults' = Faults + 1 /\ outFaults' \in 0..MaxOutboxFaults /\ outFaults <= outFaults'
        BY <1>0, <1>2, <1>4, <1>9, OutboxAssumption DEF Faults
    <2>2. ASSUME NEW i \in 1..Len(rows), rows[i].m = held[1].m PROVE Left(rows[i], Faults + 1)
        <3>1. tried[held[1].m] <= Allowed + Faults
            BY <1>5 DEF OutboxInv, TriesBounded
        <3>2. rows[i].count = held[1].count
            BY <1>5, <2>2
        <3>3. tried[held[1].m] <= held[1].count + (Faults + 1) /\ tried[held[1].m] < Allowed + (Faults + 1)
            BY <1>2, <1>5, <3>1
        <3> QED BY <2>2, <3>2, <3>3 DEF Left
    <2>3. \A i, j \in 1..Len(rows) : rows[i].m = rows[j].m => i = j
        BY DEF OutboxInv, OnePlaceEach
    <2>4. TableAfter(held[1].m, Faults')
        BY <1>9, <2>1, <2>2, <2>3, OutboxFacts DEF TableAfter
    <2>5. ToldOf(held[1].m)
        BY <1>1, <1>5, <1>9 DEF ToldOf
    <2> QED BY <1>3, <2>1, <2>4, <2>5
<1>10. \/ UNCHANGED outFaults /\ verdict = "ack" /\ ChannelAck(Head(held))
       \/ UNCHANGED outFaults /\ verdict = "dead" /\ ChannelReject(Head(held))
       \/ UNCHANGED outFaults /\ verdict = "retry" /\ ChannelRequeue(Head(held), TRUE)
       \/ /\ store = "sqlite" /\ outFaults + outCrashes < MaxOutboxFaults /\ outFaults' = outFaults + 1
          /\ UNCHANGED <<rows, dead, vanished>>
    BY <1>1 DEF RelaySettle
<1> QED BY <1>6, <1>7, <1>8, <1>9, <1>10

(***************************************************************************)
(* Rows in their order, picked by an increasing f, are picked once each.   *)
(***************************************************************************)
LEMMA DueRows ==
    ASSUME OutboxInv, NEW due \in Due
    PROVE  /\ due \in Seq(Item) /\ Len(due) \in Nat
           /\ store = "memory" => due = rows
           /\ \A k \in 1..Len(due) : \E i \in 1..Len(rows) : due[k] = rows[i]
           /\ \A k, l \in 1..Len(due) : due[k].m = due[l].m => k = l
<1>0. \A i, j \in 1..Len(rows) : rows[i].m = rows[j].m => i = j
    BY DEF OutboxInv, OnePlaceEach
<1>1. CASE store = "memory"
    <2>1. due = rows
        BY <1>1 DEF Due
    <2> QED BY <1>0, <2>1, OutboxFacts
<1>2. CASE store # "memory"
    <2> DEFINE places == {i \in 1..Len(rows) : ~rows[i].delayed}
               n == Cardinality(places)
    <2>1. n \in Nat
        <3>1. 1 \in Int /\ Len(rows) \in Int
            BY OutboxFacts
        <3>2. IsFiniteSet(1..Len(rows))
            BY <3>1, FS_Interval
        <3>3. IsFiniteSet(places)
            BY <3>2, FS_Subset
        <3> QED BY <3>3, FS_CardinalityType
    <2>2. PICK f \in [1..n -> places] : /\ \A j, k \in 1..n : j < k => f[j] < f[k]
                                        /\ due = [k \in 1..n |-> rows[f[k]]]
        BY <1>2 DEF Due
    <2> HIDE DEF n
    <2>3. \A k \in 1..n : f[k] \in 1..Len(rows) /\ due[k] = rows[f[k]]
        BY <2>2
    <2> HIDE DEF places
    <2>4. due \in [1..n -> Item]
        BY <2>2, <2>3, OutboxFacts
    <2>5. due \in Seq(Item)
        BY <2>1, <2>4 DEF Seq
    <2>6. Len(due) = n
        BY <2>1, <2>4, <2>5, LenProperties
    <2>7. ASSUME NEW k \in 1..n, NEW l \in 1..n, due[k].m = due[l].m PROVE k = l
        <3>1. f[k] = f[l] /\ f[k] \in Int /\ f[l] \in Int
            <4>1. rows[f[k]].m = rows[f[l]].m BY <2>3, <2>7
            <4>2. Len(rows) \in Nat /\ f[k] \in 1..Len(rows) /\ f[l] \in 1..Len(rows) BY <2>3, OutboxFacts
            <4> QED BY <1>0, <4>1, <4>2
        <3>2. ~(k < l) /\ ~(l < k)
            BY <2>2, <3>1
        <3> QED BY <2>1, <3>2
    <2> QED BY <1>2, <2>1, <2>3, <2>5, <2>6, <2>7
<1> QED BY <1>1, <1>2

(***************************************************************************)
(* try_receive(): a batch of the rows that are due.                        *)
(***************************************************************************)
LEMMA ReceiveKeeps ==
    ASSUME OutboxInv, relay = "loop", relay' = "process", NEW due \in Due, NEW n \in 1..Len(due),
           held' = SubSeq(due, 1, n),
           rows' = IF store = "memory" THEN SubSeq(rows, n + 1, Len(rows)) ELSE rows,
           UNCHANGED <<store, running, verdict, limit, inFlight, dispatch, StatsVars>>
    PROVE  OutboxInv'
<1>0. /\ UNCHANGED <<sent, delivered, tried, dead, vanished, outFaults, outCrashes>>
      /\ held = <<>> /\ verdict = "none"
    BY DEF StatsVars, OutboxInv, RelayAgrees
<1>1. /\ due \in Seq(Item) /\ Len(due) \in Nat
      /\ store = "memory" => due = rows
      /\ \A k \in 1..Len(due) : \E i \in 1..Len(rows) : due[k] = rows[i]
      /\ \A k, l \in 1..Len(due) : due[k].m = due[l].m => k = l
    BY DueRows
<1>2. /\ held' \in Seq(Item) /\ Len(held') = n /\ n \in Nat
      /\ \A k \in 1..n : held'[k] = due[k] /\ k \in 1..Len(due)
    <2>1. \A k \in 1..n : k \in 1..Len(due) /\ due[k] \in Item
        BY <1>1, ElementOfSeq
    <2>2. /\ SubSeq(due, 1, n) \in Seq(Item)
          /\ Len(SubSeq(due, 1, n)) = IF 1 <= n THEN n - 1 + 1 ELSE 0
          /\ \A k \in 1..n - 1 + 1 : SubSeq(due, 1, n)[k] = due[1 + k - 1]
        BY <1>1, <2>1, SubSeqProperties
    <2>3. n \in Nat /\ n - 1 + 1 = n /\ 1 <= n /\ \A k \in 1..n : 1 + k - 1 = k
        BY <1>1
    <2> QED BY <2>1, <2>2, <2>3
<1>3. /\ \A i, j \in 1..Len(rows) : rows[i].m = rows[j].m => i = j
      /\ \A i \in 1..Len(rows) : rows[i].m \in sent /\ Left(rows[i], Faults)
    BY DEF OutboxInv, OnePlaceEach, CountsTell, Trying
<1>4. ASSUME store = "memory"
      PROVE  /\ rows' \in Seq(Item) /\ OnePlaceEach' /\ ParcelAccounted'
             /\ \A i \in 1..Len(rows') : Left(rows'[i], Faults)
    <2>1. due = rows /\ n \in 1..Len(rows) /\ Len(rows) \in Nat /\ n \in Nat /\ rows \in Seq(Item)
        BY <1>1, <1>2, <1>4, OutboxFacts
    <2>2. /\ rows' \in Seq(Item) /\ Len(rows') = Len(rows) - n /\ Len(rows') \in Nat
          /\ \A i \in 1..Len(rows') : rows'[i] = rows[n + i] /\ n + i \in 1..Len(rows)
        <3>1. \A i \in (n + 1)..Len(rows) : i \in 1..Len(rows) /\ rows[i] \in Item
            BY <2>1, OutboxFacts
        <3>2. /\ SubSeq(rows, n + 1, Len(rows)) \in Seq(Item)
              /\ Len(SubSeq(rows, n + 1, Len(rows))) = IF n + 1 <= Len(rows) THEN Len(rows) - (n + 1) + 1 ELSE 0
              /\ \A i \in 1..Len(rows) - (n + 1) + 1 : SubSeq(rows, n + 1, Len(rows))[i] = rows[(n + 1) + i - 1]
            BY <2>1, <3>1, SubSeqProperties
        <3>3. /\ Len(SubSeq(rows, n + 1, Len(rows))) = Len(rows) - n
              /\ Len(rows) - (n + 1) + 1 = Len(rows) - n /\ Len(rows) - n \in Nat
            BY <2>1, <3>2
        <3>4. \A i \in 1..(Len(rows) - n) : (n + 1) + i - 1 = n + i /\ n + i \in 1..Len(rows)
            BY <2>1
        <3> QED BY <1>4, <3>2, <3>3, <3>4
    <2>3. \A i \in 1..Len(rows) : i \in 1..n \/ \E j \in 1..Len(rows') : i = n + j
        <3> SUFFICES ASSUME NEW i \in 1..Len(rows), i \notin 1..n PROVE \E j \in 1..Len(rows') : i = n + j
            OBVIOUS
        <3>1. i - n \in 1..Len(rows') /\ i = n + (i - n)
            BY <2>1, <2>2
        <3> QED BY <3>1
    <2>4. OnePlaceEach'
        <3>1. \A i, j \in 1..Len(rows') : rows'[i].m = rows'[j].m => i = j
            <4> SUFFICES ASSUME NEW i \in 1..Len(rows'), NEW j \in 1..Len(rows'), rows'[i].m = rows'[j].m
                         PROVE  i = j
                OBVIOUS
            <4>1. n + i = n + j
                BY <1>3, <2>2
            <4> QED BY <2>1, <2>2, <4>1
        <3>2. \A k, l \in 1..Len(held') : held'[k].m = held'[l].m => k = l
            BY <1>1, <1>2
        <3>3. \A k \in 1..Len(held') : \A i \in 1..Len(rows') : rows'[i].m # held'[k].m
            <4> SUFFICES ASSUME NEW k \in 1..n, NEW i \in 1..Len(rows'), rows'[i].m = held'[k].m PROVE FALSE
                BY <1>2
            <4>1. n + i = k
                BY <1>2, <1>3, <2>1, <2>2
            <4> QED BY <2>1, <2>2, <4>1
        <3>4. \A k \in 1..Len(held') : held'[k].m \in sent
            BY <1>2, <1>3, <2>1
        <3>5. \A i \in 1..Len(rows') : rows'[i].m \in sent
            BY <1>3, <2>2
        <3> QED BY <1>0, <1>4, <3>1, <3>2, <3>3, <3>4, <3>5 DEF OnePlaceEach
    <2>5. ParcelAccounted'
        <3> SUFFICES ASSUME NEW m \in sent
                     PROVE  \/ \E i \in 1..Len(rows') : rows'[i].m = m
                            \/ \E k \in 1..Len(held') : held'[k].m = m
                            \/ m \in delivered \union dead \union vanished
            BY <1>0 DEF ParcelAccounted, InTable, InRelay
        <3>1. InTable(m) \/ m \in delivered \union dead \union vanished
            <4>1. InTable(m) \/ InRelay(m) \/ m \in delivered \union dead \union vanished
                BY DEF OutboxInv, ParcelAccounted
            <4>2. 1..Len(held) = {}
                BY <1>0, EmptySeq
            <4> QED BY <4>1, <4>2 DEF InRelay
        <3>2. CASE InTable(m)
            <4>1. PICK i \in 1..Len(rows) : rows[i].m = m
                BY <3>2 DEF InTable
            <4>2. CASE i \in 1..n
                BY <1>2, <2>1, <4>1, <4>2
            <4>3. CASE \E j \in 1..Len(rows') : i = n + j
                BY <2>2, <4>1, <4>3
            <4> QED BY <2>3, <4>2, <4>3
        <3> QED BY <3>1, <3>2
    <2>6. \A i \in 1..Len(rows') : Left(rows'[i], Faults)
        BY <1>3, <2>2
    <2> QED BY <2>2, <2>4, <2>5, <2>6
<1>5. ASSUME store # "memory"
      PROVE  /\ rows' \in Seq(Item) /\ OnePlaceEach' /\ ParcelAccounted'
             /\ \A i \in 1..Len(rows') : Left(rows'[i], Faults)
    <2>1. rows' = rows
        BY <1>5
    <2>2. \A k \in 1..Len(held') : \E i \in 1..Len(rows) : held'[k] = rows[i]
        BY <1>1, <1>2
    <2>3. \A k, l \in 1..Len(held') : held'[k].m = held'[l].m => k = l
        BY <1>1, <1>2
    <2>4. OnePlaceEach'
        <3>1. ASSUME NEW k \in 1..Len(held')
              PROVE  /\ held'[k].m \in sent
                     /\ \E i \in 1..Len(rows) : rows[i].m = held'[k].m /\ rows[i].count = held'[k].count
            <4>1. PICK i \in 1..Len(rows) : held'[k] = rows[i]
                BY <2>2
            <4> QED BY <1>3, <4>1
        <3> QED BY <1>0, <1>3, <1>5, <2>1, <2>3, <3>1, SMTT(30) DEF OnePlaceEach
    <2>5. ParcelAccounted'
        <3>1. 1..Len(held) = {}
            BY <1>0, EmptySeq
        <3> QED BY <1>0, <2>1, <3>1 DEF OutboxInv, ParcelAccounted, InTable, InRelay
    <2> QED BY <1>3, <2>1, <2>4, <2>5, OutboxFacts
<1>6. rows' \in Seq(Item) /\ OnePlaceEach' /\ ParcelAccounted' /\ \A i \in 1..Len(rows') : Left(rows'[i], Faults)
    BY <1>4, <1>5
<1>7. \A k \in 1..Len(held') : Left(held'[k], Faults)
    <2> SUFFICES ASSUME NEW k \in 1..n PROVE Left(held'[k], Faults)
        BY <1>2
    <2>1. PICK i \in 1..Len(rows) : held'[k] = rows[i]
        BY <1>1, <1>2
    <2> QED BY <1>3, <2>1
<1>8. PermitsBalance'
    BY RelayPermit, OutboxFacts
<1>9. held' # <<>>
    BY <1>2, EmptySeq
<1>10. RelayAgrees'
    BY <1>0, <1>9 DEF RelayAgrees
<1>11. Faults' = Faults /\ TriesBounded' /\ NothingVanishesFromTable'
    BY <1>0 DEF OutboxInv, TriesBounded, NothingVanishesFromTable, Faults, Allowed
<1>12. CountsTell'
    <2>1. ~Trying' /\ \A m \in Parcels \ sent : tried[m] = 0
        BY DEF Trying, OutboxInv, CountsTell
    <2> QED BY <1>0, <1>6, <1>7, <1>11, <2>1 DEF CountsTell, Left, Allowed
<1>13. OutboxTypeOK'
    BY <1>0, <1>2, <1>6 DEF OutboxInv, OutboxTypeOK
<1> QED BY <1>6, <1>8, <1>10, <1>11, <1>12, <1>13 DEF OutboxInv

(***************************************************************************)
(* The relay moves on between two batches, or starts or stops.             *)
(***************************************************************************)
LEMMA RelayMoves ==
    ASSUME OutboxInv, held = <<>>, relay \notin {"deliver", "settle"}, relay' \in {"new", "loop", "ended"},
           running' \in BOOLEAN,
           UNCHANGED <<store, rows, held, verdict, limit, inFlight, dispatch, StatsVars>>
    PROVE  OutboxInv'
<1>0. UNCHANGED <<sent, delivered, tried, dead, vanished, outFaults, outCrashes>>
    BY DEF StatsVars
<1>1. OutboxTypeOK'
    BY <1>0 DEF OutboxInv, OutboxTypeOK
<1>2. ParcelAccounted' /\ NothingVanishesFromTable' /\ TriesBounded' /\ OnePlaceEach'
    BY <1>0 DEF OutboxInv, ParcelAccounted, NothingVanishesFromTable, TriesBounded, OnePlaceEach,
            InTable, InRelay, Faults, Allowed
<1>3. PermitsBalance'
    BY RelayPermit, OutboxFacts
<1>4. RelayAgrees'
    BY <1>0 DEF OutboxInv, RelayAgrees
<1>5. CountsTell'
    <2>1. ~Trying /\ ~Trying' /\ Faults' = Faults
        BY <1>0 DEF Trying, Faults
    <2> QED BY <1>0, <2>1 DEF OutboxInv, CountsTell, Left, Allowed
<1> QED BY <1>1, <1>2, <1>3, <1>4, <1>5 DEF OutboxInv

LEMMA LoopKeeps ==
    ASSUME OutboxInv, RelayLoop
    PROVE  OutboxInv'
<1>0. relay = "loop" /\ UNCHANGED <<store, running, verdict, limit, inFlight, dispatch, StatsVars>>
    BY DEF RelayLoop
<1>1. CASE running
    <2>1. PICK due \in Due :
            LET n == AtMost(AtMost(Available, Batch), Len(due)) IN
            /\ n > 0 /\ held' = SubSeq(due, 1, n) /\ relay' = "process"
            /\ rows' = IF store = "memory" THEN SubSeq(rows, n + 1, Len(rows)) ELSE rows
        BY <1>1 DEF RelayLoop
    <2> DEFINE n == AtMost(AtMost(Available, Batch), Len(due))
    <2>2. n \in 1..Len(due)
        <3>1. Len(due) \in Nat /\ n > 0
            BY <2>1, DueRows
        <3>2. AtMost(Available, Batch) \in Nat
            BY OutboxFacts, OutboxAssumption DEF Available, AtMost
        <3> QED BY <3>1, <3>2 DEF AtMost
    <2>3. /\ held' = SubSeq(due, 1, n) /\ relay' = "process"
          /\ rows' = IF store = "memory" THEN SubSeq(rows, n + 1, Len(rows)) ELSE rows
        BY <2>1
    <2> HIDE DEF n
    <2> QED BY <1>0, <2>2, <2>3, ReceiveKeeps
<1>2. CASE ~running
    <2>1. relay' = "ended" /\ UNCHANGED <<held, rows>>
        BY <1>2 DEF RelayLoop
    <2>2. UNCHANGED <<sent, delivered, tried, dead, vanished, outFaults, outCrashes>>
        BY <1>0 DEF StatsVars
    <2>3. held = <<>> /\ running' \in BOOLEAN
        BY <1>0 DEF OutboxInv, OutboxTypeOK, RelayAgrees
    <2>4. relay \notin {"deliver", "settle"} /\ relay' \in {"new", "loop", "ended"}
        BY <1>0, <2>1
    <2> QED BY <1>0, <2>1, <2>2, <2>3, <2>4, RelayMoves
<1> QED BY <1>1, <1>2

(***************************************************************************)
(* send(), and a delay that is over.                                       *)
(***************************************************************************)
LEMMA SendKeeps ==
    ASSUME OutboxInv, NEW m \in Parcels, OutboxSend(m)
    PROVE  OutboxInv'
<1> DEFINE x == [m |-> m, count |-> 0, delayed |-> FALSE]
<1>0. /\ m \notin sent /\ sent' = sent \union {m} /\ rows' = Append(rows, x)
      /\ UNCHANGED <<store, relay, held, running, verdict, limit, inFlight, dispatch, delivered, tried, dead,
                     vanished, outFaults, outCrashes>>
    BY DEF OutboxSend
<1>1. x \in Item /\ x.m = m /\ x.count = 0
    BY DEF Item
<1> HIDE DEF x
<1>2. /\ rows' \in Seq(Item) /\ Len(rows') = Len(rows) + 1 /\ rows'[Len(rows) + 1] = x
      /\ \A i \in 1..Len(rows) : rows'[i] = rows[i]
    BY <1>0, <1>1, OutboxFacts, AppendProperties
<1>3. /\ \A i \in 1..Len(rows') : i \in 1..Len(rows) \/ i = Len(rows) + 1
      /\ \A i \in 1..Len(rows) : i \in 1..Len(rows')
      /\ Len(rows) + 1 \in 1..Len(rows')
    BY <1>2, OutboxFacts
<1>4. /\ \A i \in 1..Len(rows) : rows[i].m \in sent /\ rows[i].m # m
      /\ \A k \in 1..Len(held) : held[k].m \in sent /\ held[k].m # m
    BY <1>0 DEF OutboxInv, OnePlaceEach
<1>5. tried[m] = 0 /\ Faults' = Faults /\ Faults \in Nat /\ Allowed \in Nat \ {0}
    BY <1>0, OutboxFacts DEF OutboxInv, CountsTell, Faults
<1>6. Left(x, Faults)
    BY <1>1, <1>5 DEF Left
<1>7. OutboxTypeOK'
    BY <1>0, <1>2 DEF OutboxInv, OutboxTypeOK
<1>8. ParcelAccounted'
    <2>1. InTable(m)'
        BY <1>1, <1>2, <1>3 DEF InTable
    <2>2. \A y \in sent : InTable(y) => InTable(y)'
        BY <1>2, <1>3 DEF InTable
    <2>3. \A y \in sent : InRelay(y) => InRelay(y)'
        BY <1>0 DEF InRelay
    <2> QED BY <1>0, <2>1, <2>2, <2>3 DEF OutboxInv, ParcelAccounted
<1>9. NothingVanishesFromTable' /\ TriesBounded' /\ RelayAgrees' /\ PermitsBalance'
    BY <1>0 DEF OutboxInv, NothingVanishesFromTable, TriesBounded, RelayAgrees, PermitsBalance, PermitHolders,
                Sending, Faults, Allowed
<1>10. OnePlaceEach'
    <2>1. \A i, j \in 1..Len(rows') : rows'[i].m = rows'[j].m => i = j
        BY <1>1, <1>2, <1>3, <1>4 DEF OutboxInv, OnePlaceEach
    <2>2. \A i \in 1..Len(rows') : rows'[i].m \in sent'
        BY <1>0, <1>1, <1>2, <1>3, <1>4
    <2>3. ASSUME NEW k \in 1..Len(held)
          PROVE  IF store = "memory" THEN \A i \in 1..Len(rows') : rows'[i].m # held[k].m
                 ELSE \E i \in 1..Len(rows') : rows'[i].m = held[k].m /\ rows'[i].count = held[k].count
        <3>1. CASE store = "memory"
            BY <1>1, <1>2, <1>3, <1>4, <3>1 DEF OutboxInv, OnePlaceEach
        <3>2. CASE store # "memory"
            <4>1. PICK i \in 1..Len(rows) : rows[i].m = held[k].m /\ rows[i].count = held[k].count
                BY <3>2 DEF OutboxInv, OnePlaceEach
            <4> QED BY <1>2, <1>3, <3>2, <4>1
        <3> QED BY <3>1, <3>2
    <2>4. /\ \A k, l \in 1..Len(held) : held[k].m = held[l].m => k = l
          /\ \A k \in 1..Len(held) : held[k].m \in sent'
        BY <1>0 DEF OutboxInv, OnePlaceEach
    <2> QED BY <1>0, <2>1, <2>2, <2>3, <2>4 DEF OnePlaceEach
<1>11. CountsTell'
    <2>1. \A i \in 1..Len(rows') : ~(Trying /\ held[1].m = rows'[i].m) => Left(rows'[i], Faults)
        BY <1>2, <1>3, <1>6 DEF OutboxInv, CountsTell
    <2>2. /\ \A y \in Parcels \ sent' : tried[y] = 0
          /\ \A k \in 1..Len(held) : ~(Trying /\ k = 1) => Left(held[k], Faults)
          /\ Trying => /\ tried[held[1].m] <= held[1].count + 1 + Faults
                       /\ verdict = "retry" => tried[held[1].m] < Allowed + Faults
        BY <1>0 DEF OutboxInv, CountsTell
    <2>3. Trying' = Trying
        BY <1>0 DEF Trying
    <2> QED BY <1>0, <1>5, <2>1, <2>2, <2>3 DEF CountsTell, Left, Allowed
<1> QED BY <1>7, <1>8, <1>9, <1>10, <1>11 DEF OutboxInv

LEMMA DelayKeeps ==
    ASSUME OutboxInv, DelayOver
    PROVE  OutboxInv'
<1>0. PICK p \in 1..Len(rows) :
        rows' = [rows EXCEPT ![p] = [m |-> rows[p].m, count |-> rows[p].count, delayed |-> FALSE]]
    BY DEF DelayOver
<1> DEFINE x == [m |-> rows[p].m, count |-> rows[p].count, delayed |-> FALSE]
<1>1. UNCHANGED <<store, relay, held, running, verdict, limit, inFlight, dispatch, sent, delivered, tried, dead,
                  vanished, outFaults, outCrashes>>
    BY DEF DelayOver
<1>2. x \in Item /\ x.m = rows[p].m /\ x.count = rows[p].count /\ rows' = [rows EXCEPT ![p] = x]
    BY <1>0, OutboxFacts DEF Item
<1> HIDE DEF x
<1>3. /\ rows' \in Seq(Item) /\ Len(rows') = Len(rows)
      /\ \A i \in 1..Len(rows) : rows'[i].m = rows[i].m /\ rows'[i].count = rows[i].count
    <2>1. rows \in Seq(Item) /\ Len(rows) \in Nat /\ rows \in [1..Len(rows) -> Item]
        BY OutboxFacts, LenProperties
    <2>2. rows' \in [1..Len(rows) -> Item]
        BY <1>2, <2>1
    <2>3. rows' \in Seq(Item)
        BY <2>1, <2>2 DEF Seq
    <2>4. Len(rows') = Len(rows)
        BY <2>1, <2>2, <2>3, LenProperties
    <2>5. \A i \in 1..Len(rows) : rows'[i] = IF i = p THEN x ELSE rows[i]
        BY <1>2, <2>1
    <2> QED BY <1>2, <2>3, <2>4, <2>5
<1>4. OutboxTypeOK'
    BY <1>1, <1>3 DEF OutboxInv, OutboxTypeOK
<1>5. ParcelAccounted' /\ NothingVanishesFromTable' /\ TriesBounded' /\ RelayAgrees' /\ PermitsBalance'
    BY <1>1, <1>3 DEF OutboxInv, ParcelAccounted, InTable, InRelay, NothingVanishesFromTable, TriesBounded,
            RelayAgrees, PermitsBalance, PermitHolders, Sending, Faults, Allowed
<1>6. OnePlaceEach'
    BY <1>1, <1>3, SMTT(30) DEF OutboxInv, OnePlaceEach
<1>7. CountsTell'
    <2>1. /\ \A i \in 1..Len(rows') : ~(Trying /\ held[1].m = rows'[i].m) => Left(rows'[i], Faults)
        BY <1>3 DEF OutboxInv, CountsTell, Left
    <2>2. Trying' = Trying /\ Faults' = Faults
        BY <1>1 DEF Trying, Faults
    <2> QED BY <1>1, <2>1, <2>2 DEF OutboxInv, CountsTell, Left, Allowed
<1> QED BY <1>4, <1>5, <1>6, <1>7 DEF OutboxInv

(***************************************************************************)
(* The process crashes: the rows stay, and an attempt that was under way   *)
(* is one the crash has hidden.                                            *)
(***************************************************************************)
LEMMA CrashKeeps ==
    ASSUME OutboxInv, OutboxCrash
    PROVE  OutboxInv'
<1>0. /\ store = "sqlite" /\ outFaults + outCrashes < MaxOutboxFaults /\ outCrashes' = outCrashes + 1
      /\ relay' = "new" /\ held' = <<>> /\ running' = FALSE /\ verdict' = "none"
      /\ limit' = AtMost(AtLeast(InitialLimit, MinLimit), MaxLimit) /\ inFlight' = 0
      /\ dispatch' = [d \in Dispatchers |-> [at |-> "start", attempt |-> 0]]
      /\ UNCHANGED <<store, rows, sent, delivered, tried, dead, vanished, outFaults>>
    BY DEF OutboxCrash
<1>1. Faults' = Faults + 1 /\ Faults \in Nat /\ Allowed \in Nat
    BY <1>0, OutboxFacts DEF Faults
<1>2. held' \in Seq(Item) /\ 1..Len(held') = {}
    BY <1>0, EmptySeq
<1>3. OutboxTypeOK'
    <2>1. limit' \in MinLimit..MaxLimit
        BY <1>0, OutboxAssumption DEF AtMost, AtLeast
    <2>2. dispatch' \in [Dispatchers -> [at: {"start", "sending", "accepted", "rejected"}, attempt: 0..MaxTries]]
        BY <1>0, OutboxAssumption
    <2>3. outCrashes' \in 0..MaxOutboxFaults
        BY <1>0, OutboxFacts, OutboxAssumption
    <2>4. running' \in BOOLEAN
        BY <1>0
    <2> QED BY <1>0, <1>2, <2>1, <2>2, <2>3, <2>4 DEF OutboxInv, OutboxTypeOK
<1>4. ASSUME NEW k \in 1..Len(held) PROVE \E i \in 1..Len(rows) : rows[i].m = held[k].m
    BY <1>0 DEF OutboxInv, OnePlaceEach
<1>5. ParcelAccounted'
    <2> SUFFICES ASSUME NEW m \in sent, m \notin delivered \union dead \union vanished PROVE InTable(m)'
        BY <1>0 DEF ParcelAccounted
    <2>1. InTable(m) \/ InRelay(m) BY DEF OutboxInv, ParcelAccounted
    <2>2. InTable(m) BY <1>4, <2>1 DEF InTable, InRelay
    <2> QED BY <1>0, <2>2 DEF InTable
<1>6. NothingVanishesFromTable' /\ RelayAgrees'
    BY <1>0 DEF OutboxInv, NothingVanishesFromTable, RelayAgrees
<1>7. TriesBounded'
    <2>1. \A m \in Parcels : tried[m] \in Nat /\ tried[m] <= Allowed + Faults
        BY OutboxFacts DEF OutboxInv, TriesBounded
    <2>2. \A m \in Parcels : tried[m] <= Allowed + (Faults + 1)
        BY <1>1, <2>1
    <2> QED BY <1>0, <1>1, <2>2 DEF TriesBounded, Allowed
<1>8. OnePlaceEach'
    BY <1>0, <1>2 DEF OutboxInv, OnePlaceEach
<1>9. PermitsBalance'
    <2>1. Sending' = {}
        BY <1>0 DEF Sending
    <2>2. IsFiniteSet({}) /\ Cardinality({}) = 0
        BY FS_EmptySet
    <2> QED BY <1>0, <2>1, <2>2 DEF PermitsBalance, PermitHolders
<1>10. CountsTell'
    <2>1. ASSUME NEW i \in 1..Len(rows) PROVE Left(rows[i], Faults + 1)
        <3>1. rows[i].m \in Parcels /\ rows[i].count \in Nat /\ tried[rows[i].m] \in Nat
            BY OutboxFacts
        <3>2. CASE ~(Trying /\ held[1].m = rows[i].m)
            BY <1>1, <3>1, <3>2, SMTT(30) DEF OutboxInv, CountsTell, Left
        <3>3. CASE Trying /\ held[1].m = rows[i].m
            <4>1. held # <<>>
                BY <3>3 DEF OutboxInv, RelayAgrees, Trying
            <4>2. rows[i].count = held[1].count
                BY <3>3, <4>1, FirstHeld
            <4>3. tried[rows[i].m] <= rows[i].count + 1 + Faults /\ tried[rows[i].m] <= Allowed + Faults
                BY <3>1, <3>3, <4>2 DEF OutboxInv, CountsTell, TriesBounded
            <4> QED BY <1>1, <3>1, <4>3 DEF Left
        <3> QED BY <3>2, <3>3
    <2>2. ~Trying' /\ \A m \in Parcels \ sent : tried[m] = 0
        BY <1>0 DEF Trying, OutboxInv, CountsTell
    <2> QED BY <1>0, <1>1, <1>2, <2>1, <2>2 DEF CountsTell, Left, Allowed
<1> QED BY <1>3, <1>5, <1>6, <1>7, <1>8, <1>9, <1>10 DEF OutboxInv

(***************************************************************************)
(* The outbox starts with no message and no permit out.                    *)
(***************************************************************************)
LEMMA OutboxStart ==
    ASSUME OutboxInit
    PROVE  OutboxInv
<1>0. /\ store \in {"sqlite", "memory"} /\ rows = <<>> /\ held = <<>>
      /\ relay = "new" /\ running = FALSE /\ verdict = "none"
      /\ limit = AtMost(AtLeast(InitialLimit, MinLimit), MaxLimit) /\ inFlight = 0
      /\ dispatch = [d \in Dispatchers |-> [at |-> "start", attempt |-> 0]]
      /\ sent = {} /\ dead = {} /\ vanished = {} /\ delivered = {} /\ tried = [m \in Parcels |-> 0]
      /\ outFaults = 0 /\ outCrashes = 0
    BY DEF OutboxInit
<1>1. /\ rows \in Seq(Item) /\ held \in Seq(Item) /\ 1..Len(rows) = {} /\ 1..Len(held) = {}
    BY <1>0, EmptySeq
<1>2. OutboxTypeOK
    <2>1. limit \in MinLimit..MaxLimit
        BY <1>0, OutboxAssumption DEF AtMost, AtLeast
    <2>2. dispatch \in [Dispatchers -> [at: {"start", "sending", "accepted", "rejected"}, attempt: 0..MaxTries]]
        BY <1>0, OutboxAssumption
    <2>3. running \in BOOLEAN
        BY <1>0
    <2>4. outFaults \in 0..MaxOutboxFaults /\ outCrashes \in 0..MaxOutboxFaults /\ tried \in [Parcels -> Nat]
        BY <1>0, OutboxAssumption
    <2> QED BY <1>0, <1>1, <2>1, <2>2, <2>3, <2>4 DEF OutboxTypeOK
<1>3. Allowed \in Nat \ {0} /\ Faults = 0
    BY <1>0, OutboxAssumption DEF Allowed, AtLeast, Faults
<1>4. TriesBounded
    <2>1. \A m \in Parcels : tried[m] = 0
        BY <1>0
    <2> QED BY <1>3, <2>1 DEF TriesBounded
<1>5. PermitsBalance
    <2>1. Sending = {}
        BY <1>0 DEF Sending
    <2>2. IsFiniteSet({}) /\ Cardinality({}) = 0
        BY FS_EmptySet
    <2> QED BY <1>0, <2>1, <2>2 DEF PermitsBalance, PermitHolders
<1>6. ParcelAccounted /\ NothingVanishesFromTable /\ OnePlaceEach /\ RelayAgrees
    BY <1>0, <1>1 DEF ParcelAccounted, NothingVanishesFromTable, OnePlaceEach, RelayAgrees
<1>7. CountsTell
    <2>1. ~Trying /\ \A m \in Parcels \ sent : tried[m] = 0
        BY <1>0 DEF Trying
    <2> QED BY <1>1, <2>1 DEF CountsTell
<1> QED BY <1>2, <1>4, <1>5, <1>6, <1>7 DEF OutboxInv

(***************************************************************************)
(* Every step of the outbox keeps its invariant: one step per action.      *)
(***************************************************************************)
LEMMA OutboxStep ==
    ASSUME OutboxInv, OutboxNext \/ UNCHANGED outboxVars
    PROVE  OutboxInv'
<1>1. ASSUME NEW m \in Parcels, OutboxSend(m) PROVE OutboxInv'
    BY <1>1, SendKeeps
<1>2. CASE DelayOver
    BY <1>2, DelayKeeps
<1>3. CASE OutboxCrash
    BY <1>3, CrashKeeps
<1>4. ASSUME running' \in BOOLEAN,
             UNCHANGED <<store, rows, relay, held, verdict, limit, inFlight, dispatch, StatsVars>>
      PROVE  OutboxInv'
    <2>1. MessagesInv'
        BY <1>4, MessagesStay
    <2>2. PermitsBalance'
        BY <1>4 DEF OutboxInv, PermitsBalance, PermitHolders, Sending
    <2>3. OutboxTypeOK'
        BY <1>4 DEF OutboxInv, OutboxTypeOK, StatsVars
    <2> QED BY <2>1, <2>2, <2>3 DEF OutboxInv, MessagesInv
<1>5. CASE StopRelay
    <2>1. running' \in BOOLEAN
        BY <1>5 DEF StopRelay
    <2> QED BY <1>4, <1>5, <2>1 DEF StopRelay
<1>6. CASE UNCHANGED outboxVars
    <2>1. running' \in BOOLEAN
        BY <1>6 DEF outboxVars, OutboxInv, OutboxTypeOK
    <2> QED BY <1>4, <1>6, <2>1 DEF outboxVars, StatsVars
<1>7. CASE RunRelay
    <2>1. /\ relay = "new" /\ relay' = "loop" /\ running' = TRUE
          /\ UNCHANGED <<store, rows, held, verdict, limit, inFlight, dispatch, StatsVars>>
        BY <1>7 DEF RunRelay
    <2>2. held = <<>>
        BY <2>1 DEF OutboxInv, RelayAgrees
    <2>3. running' \in BOOLEAN /\ relay \notin {"deliver", "settle"} /\ relay' \in {"new", "loop", "ended"}
        BY <2>1
    <2> QED BY <2>1, <2>2, <2>3, RelayMoves
<1>8. CASE RelayBatchDone
    <2>1. /\ relay = "process" /\ held = <<>> /\ relay' = "loop"
          /\ UNCHANGED <<store, rows, held, running, verdict, limit, inFlight, dispatch, StatsVars>>
        BY <1>8 DEF RelayBatchDone
    <2>2. running' \in BOOLEAN
        BY <2>1 DEF OutboxInv, OutboxTypeOK
    <2>3. relay \notin {"deliver", "settle"} /\ relay' \in {"new", "loop", "ended"}
        BY <2>1
    <2> QED BY <2>1, <2>2, <2>3, RelayMoves
<1>9. CASE RelayLoop
    BY <1>9, LoopKeeps
<1>10. CASE RelayAcquire
    BY <1>10, AcquireKeeps
<1>11. CASE RelayNoPermit
    BY <1>11, NoPermitKeeps
<1>12. CASE RelayDelivered \/ RelayFailed
    BY <1>12, DeliverKeeps
<1>13. CASE RelaySettle
    BY <1>13, SettleKeeps
<1>14. ASSUME NEW d \in Dispatchers, DispatchStep(d) PROVE OutboxInv'
    BY <1>14, DispatchKeeps
<1> QED BY <1>1, <1>2, <1>3, <1>5, <1>6, <1>7, <1>8, <1>9, <1>10, <1>11, <1>12, <1>13, <1>14
        DEF OutboxNext, RelayStep

(***************************************************************************)
(* For every set of messages and dispatches, every batch size, limit and   *)
(* retry policy, either channel, and any number of failing acks and nacks  *)
(* and of crashes of the SQLite channel: no message that send() took is    *)
(* lost, none is tried more often than the policy and the faults allow,    *)
(* and in_flight is the number of permits that are out.                    *)
(***************************************************************************)
THEOREM OutboxHolds == OutboxSpec => []OutboxInv
<1>1. OutboxInit => OutboxInv
    BY OutboxStart
<1>2. OutboxInv /\ [OutboxNext]_outboxVars => OutboxInv'
    BY OutboxStep
<1> QED BY <1>1, <1>2, PTL DEF OutboxSpec

-----------------------------------------------------------------------------
(* The mailbox: its queues.                                                *)

\* Queue q has lost elements and become p; q has got e somewhere and become p.
Shortened(q, p) ==
    /\ Len(p) <= Len(q)
    /\ \E f \in [1..Len(p) -> 1..Len(q)] :
          /\ \A k \in 1..Len(p) : p[k] = q[f[k]]
          /\ \A j, k \in 1..Len(p) : f[j] = f[k] => j = k

Inserted(q, e, p) ==
    /\ Len(p) = Len(q) + 1
    /\ \E i \in 1..Len(p) : /\ p[i] = e
                            /\ \A j \in 1..Len(p) : /\ j < i => p[j] = q[j]
                                                    /\ j > i => p[j] = q[j - 1]

(***************************************************************************)
(* What a filter leaves, as OVERWRITE and an ack of the durable channel    *)
(* use it: the elements of S, each as often as before.                     *)
(***************************************************************************)
LEMMA KeptFacts ==
    ASSUME NEW T, NEW s \in Seq(T), NEW S
    PROVE  /\ Kept(s, S) \in Seq(T) /\ Shortened(s, Kept(s, S))
           /\ ToSet(Kept(s, S)) = ToSet(s) \cap S
           /\ \A P \in SUBSET (1..Len(s)) :
                 (\A i \in 1..Len(s) : i \in P <=> s[i] \in S) => Len(Kept(s, S)) = Cardinality(P)
           /\ \A k \in 1..Len(Kept(s, S)) : Kept(s, S)[k] \in S
           /\ \A i \in 1..Len(s) : s[i] \in S => \E k \in 1..Len(Kept(s, S)) : Kept(s, S)[k] = s[i]
<1> DEFINE places == {i \in 1..Len(s) : s[i] \in S}
           upTo(i) == {j \in places : j <= i}
           n == Cardinality(places)
           rank == [i \in places |-> Cardinality(upTo(i))]
<1>1. Len(s) \in Nat /\ s \in [1..Len(s) -> T]
    BY LenProperties
<1>2. IsFiniteSet(places) /\ n \in Nat
    <2>1. IsFiniteSet(1..Len(s)) BY <1>1, FS_Interval
    <2>2. places \in SUBSET (1..Len(s)) OBVIOUS
    <2> QED BY <2>1, <2>2, FS_Subset, FS_CardinalityType
<1>3. \A i \in places : /\ IsFiniteSet(upTo(i)) /\ Cardinality(upTo(i)) \in 1..n
    <2> TAKE i \in places
    <2>1. upTo(i) \in SUBSET places OBVIOUS
    <2>2. i \in upTo(i) BY <1>1
    <2>3. IsFiniteSet(upTo(i)) /\ Cardinality(upTo(i)) <= n /\ Cardinality(upTo(i)) \in Nat
        BY <1>2, <2>1, FS_Subset, FS_CardinalityType
    <2>4. Cardinality(upTo(i)) # 0
        BY <2>2, <2>3, FS_EmptySet
    <2> QED BY <1>2, <2>3, <2>4
<1>4. \A i, j \in places : i < j => Cardinality(upTo(i)) # Cardinality(upTo(j))
    <2> SUFFICES ASSUME NEW i \in places, NEW j \in places, i < j
                 PROVE  Cardinality(upTo(i)) # Cardinality(upTo(j))
        OBVIOUS
    <2>1. upTo(i) \in SUBSET upTo(j) BY <1>1
    <2>2. j \in upTo(j) /\ j \notin upTo(i) BY <1>1
    <2> HIDE DEF upTo
    <2> QED BY <1>3, <2>1, <2>2, FS_Subset
<1>5. rank \in Injection(places, 1..n)
    <2>1. rank \in [places -> 1..n]
        <3> HIDE DEF upTo, n, places
        <3> QED BY <1>3
    <2>2. \A i, j \in places : rank[i] = rank[j] => i = j
        <3> SUFFICES ASSUME NEW i \in places, NEW j \in places, rank[i] = rank[j] PROVE i = j
            OBVIOUS
        <3>1. i \in Nat /\ j \in Nat /\ (i < j \/ j < i \/ i = j) BY <1>1
        <3>2. Cardinality(upTo(i)) = Cardinality(upTo(j)) OBVIOUS
        <3> HIDE DEF upTo, n, places
        <3> QED BY <1>4, <3>1, <3>2
    <2> HIDE DEF rank, n, places
    <2> QED BY <2>1, <2>2 DEF Injection, IsInjective
<1>6. Cardinality(1..n) = n /\ IsFiniteSet(1..n)
    BY <1>2, FS_Interval
<1>7. rank \in Surjection(places, 1..n)
    <2> HIDE DEF rank, n
    <2> QED BY <1>5, <1>6, FS_Injection DEF n
<1>8. \A k \in 1..n : \E i \in places : Cardinality(upTo(i)) = k
    <2> HIDE DEF upTo, n, places
    <2> QED BY <1>7 DEF Surjection
<1> DEFINE pick(k) == CHOOSE i \in places : Cardinality(upTo(i)) = k
           kept == [k \in 1..n |-> s[pick(k)]]
<1>9. Kept(s, S) = kept
    BY DEF Kept
<1>10. \A k \in 1..n : pick(k) \in places
    <2> HIDE DEF upTo, n, places
    <2> QED BY <1>8
<1>11. \A i \in places : \E k \in 1..n : pick(k) = i
    <2> TAKE i \in places
    <2>1. Cardinality(upTo(i)) \in 1..n BY <1>3
    <2>2. pick(Cardinality(upTo(i))) \in places
          /\ Cardinality(upTo(pick(Cardinality(upTo(i))))) = Cardinality(upTo(i))
        <3> HIDE DEF upTo, places
        <3> QED OBVIOUS
    <2>3. \A j \in places : Cardinality(upTo(j)) = Cardinality(upTo(i)) => j = i
        <3> TAKE j \in places
        <3>1. i \in Nat /\ j \in Nat /\ (i < j \/ j < i \/ i = j) BY <1>1
        <3> HIDE DEF upTo, places
        <3> QED BY <1>4, <3>1
    <2>4. pick(Cardinality(upTo(i))) = i
        <3> HIDE DEF pick, upTo, places
        <3> QED BY <2>2, <2>3
    <2> HIDE DEF pick, upTo, places, n
    <2> QED BY <2>1, <2>4
<1>12. kept \in Seq(T)
    <2>1. \A k \in 1..n : s[pick(k)] \in T
        <3> HIDE DEF pick, n
        <3> QED BY <1>1, <1>10
    <2>2. kept \in [1..n -> T]
        <3> HIDE DEF pick, n
        <3> QED BY <2>1
    <2> HIDE DEF kept, n
    <2> QED BY <1>2, <2>2, IsASeq
<1>13. ToSet(kept) = ToSet(s) \cap S
    <2>1. DOMAIN kept = 1..n /\ DOMAIN s = 1..Len(s) BY <1>1
    <2>2. \A k \in 1..n : kept[k] = s[pick(k)] OBVIOUS
    <2>3. \A i \in 1..Len(s) : i \in places <=> s[i] \in S OBVIOUS
    <2>4. places \subseteq 1..Len(s) OBVIOUS
    <2> HIDE DEF kept, pick, n, places
    <2>5. \A x \in ToSet(kept) : x \in ToSet(s) /\ x \in S
        <3> TAKE x \in ToSet(kept)
        <3>1. PICK k \in 1..n : x = kept[k] BY <2>1 DEF ToSet
        <3>2. pick(k) \in 1..Len(s) /\ x = s[pick(k)] /\ x \in S BY <3>1, <2>2, <2>3, <2>4, <1>10
        <3> QED BY <3>2, <2>1 DEF ToSet
    <2>6. \A x \in ToSet(s) : x \in S => x \in ToSet(kept)
        <3> TAKE x \in ToSet(s)
        <3> HAVE x \in S
        <3>1. PICK i \in 1..Len(s) : x = s[i] BY <2>1 DEF ToSet
        <3>2. PICK k \in 1..n : pick(k) = i BY <3>1, <2>3, <1>11
        <3>3. x = kept[k] BY <3>1, <3>2, <2>2
        <3> QED BY <3>3, <2>1 DEF ToSet
    <2> QED BY <2>5, <2>6
<1>14. Len(kept) = n /\ \A k \in 1..n : kept[k] = s[pick(k)]
    <2>1. DOMAIN kept = 1..n OBVIOUS
    <2>2. \A k \in 1..n : kept[k] = s[pick(k)] OBVIOUS
    <2> HIDE DEF kept, pick, n
    <2>3. Len(kept) \in Nat /\ DOMAIN kept = 1..Len(kept) BY <1>12, LenProperties
    <2>4. Len(kept) = n BY <1>2, <2>1, <2>3
    <2> QED BY <2>2, <2>4
<1>15. \A j, k \in 1..n : pick(j) = pick(k) => j = k
    <2>1. \A k \in 1..n : Cardinality(upTo(pick(k))) = k
        <3> HIDE DEF upTo, places, n
        <3> QED BY <1>8
    <2> HIDE DEF pick, upTo, n
    <2> QED BY <2>1
<1>16. Shortened(s, kept)
    <2> DEFINE f == [k \in 1..n |-> pick(k)]
    <2>0. places \subseteq 1..Len(s) OBVIOUS
    <2>1. f \in [1..n -> 1..Len(s)]
        <3> HIDE DEF pick, n, places
        <3> QED BY <1>10, <2>0
    <2>2. \A k \in 1..n : f[k] = pick(k) OBVIOUS
    <2>3. n <= Len(s)
        <3>1. Cardinality(1..Len(s)) = Len(s) /\ IsFiniteSet(1..Len(s)) BY <1>1, FS_Interval
        <3>2. places \in SUBSET (1..Len(s)) OBVIOUS
        <3> QED BY <3>1, <3>2, FS_Subset
    <2> HIDE DEF f, pick, n, kept
    <2>4. Len(kept) = n /\ \A k \in 1..n : kept[k] = s[f[k]] BY <1>14, <2>2
    <2>5. \A j, k \in 1..n : f[j] = f[k] => j = k BY <1>15, <2>2
    <2> QED BY <2>1, <2>3, <2>4, <2>5 DEF Shortened
<1>17. \A k \in 1..n : kept[k] \in S
    <2>1. \A i \in places : s[i] \in S OBVIOUS
    <2> HIDE DEF kept, pick, n, places
    <2> QED BY <2>1, <1>10, <1>14
<1>18. \A i \in 1..Len(s) : s[i] \in S => \E k \in 1..n : kept[k] = s[i]
    <2>1. \A i \in 1..Len(s) : s[i] \in S => i \in places OBVIOUS
    <2> HIDE DEF kept, pick, n, places
    <2> QED BY <2>1, <1>11, <1>14
<1>19. \A P \in SUBSET (1..Len(s)) : (\A i \in 1..Len(s) : i \in P <=> s[i] \in S) => n = Cardinality(P)
    <2> SUFFICES ASSUME NEW P \in SUBSET (1..Len(s)), \A i \in 1..Len(s) : i \in P <=> s[i] \in S
                 PROVE  n = Cardinality(P)
        OBVIOUS
    <2>1. P = places OBVIOUS
    <2> QED BY <2>1
<1> HIDE DEF kept, n
<1> QED BY <1>9, <1>12, <1>13, <1>14, <1>16, <1>17, <1>18, <1>19

\* Sequences and the sets of their elements.
LEMMA EndFacts ==
    ASSUME NEW T, NEW s \in Seq(T), s # <<>>
    PROVE  /\ Head(s) \in T /\ Tail(s) \in Seq(T) /\ Head(s) \in ToSet(s)
           /\ ToSet(s) = {Head(s)} \cup ToSet(Tail(s))
           /\ Len(s) \in Nat \ {0} /\ Len(Tail(s)) = Len(s) - 1
           /\ \A i \in 1..Len(s) - 1 : Tail(s)[i] = s[i + 1]
           /\ Head(s) = s[1] /\ Shortened(s, Tail(s))
<1>1. /\ Len(s) \in Nat /\ Len(s) # 0 /\ s \in [1..Len(s) -> T] /\ DOMAIN s = 1..Len(s)
      /\ Head(s) = s[1] /\ Tail(s) \in Seq(T) /\ Len(Tail(s)) = Len(s) - 1
      /\ \A i \in 1..Len(s) - 1 : Tail(s)[i] = s[i + 1]
    BY LenProperties, HeadTailProperties
<1>2. DOMAIN Tail(s) = 1..Len(s) - 1
    BY <1>1, LenProperties
<1>3. Head(s) \in T /\ Head(s) \in ToSet(s)
    BY <1>1 DEF ToSet
<1>4. ASSUME NEW x \in ToSet(s) PROVE x = Head(s) \/ x \in ToSet(Tail(s))
    <2>1. PICK i \in 1..Len(s) : x = s[i] BY <1>1 DEF ToSet
    <2>2. CASE i = 1 BY <2>1, <2>2, <1>1
    <2>3. CASE i # 1
        <3>1. i - 1 \in 1..Len(s) - 1 /\ Tail(s)[i - 1] = x BY <2>1, <2>3, <1>1
        <3> QED BY <3>1, <1>2 DEF ToSet
    <2> QED BY <2>2, <2>3
<1>5. ASSUME NEW x \in ToSet(Tail(s)) PROVE x \in ToSet(s)
    <2>1. PICK i \in 1..Len(s) - 1 : x = Tail(s)[i] BY <1>2 DEF ToSet
    <2>2. i + 1 \in 1..Len(s) /\ x = s[i + 1] BY <2>1, <1>1
    <2> QED BY <2>2, <1>1 DEF ToSet
<1>6. ToSet(s) = {Head(s)} \cup ToSet(Tail(s))
    BY <1>3, <1>4, <1>5
<1>7. Shortened(s, Tail(s))
    <2> DEFINE f == [i \in 1..(Len(s) - 1) |-> i + 1]
    <2>1. f \in [1..(Len(s) - 1) -> 1..Len(s)] /\ \A i \in 1..(Len(s) - 1) : f[i] = i + 1
        BY <1>1
    <2> HIDE DEF f
    <2> QED BY <1>1, <2>1 DEF Shortened
<1> QED BY <1>1, <1>3, <1>6, <1>7

\* A sequence grows by its last element.
LEMMA AppendFacts ==
    ASSUME NEW T, NEW s \in Seq(T), NEW e \in T
    PROVE  /\ Append(s, e) \in Seq(T) /\ Len(Append(s, e)) = Len(s) + 1 /\ Len(s) \in Nat
           /\ Append(s, e)[Len(s) + 1] = e /\ \A i \in 1..Len(s) : Append(s, e)[i] = s[i]
           /\ ToSet(Append(s, e)) = ToSet(s) \cup {e} /\ Inserted(s, e, Append(s, e))
<1>1. /\ Append(s, e) \in Seq(T) /\ Len(Append(s, e)) = Len(s) + 1 /\ Len(s) \in Nat
      /\ Append(s, e)[Len(s) + 1] = e /\ \A i \in 1..Len(s) : Append(s, e)[i] = s[i]
      /\ DOMAIN s = 1..Len(s) /\ DOMAIN Append(s, e) = 1..Len(s) + 1
    BY AppendProperties, LenProperties
<1>2. ToSet(Append(s, e)) \subseteq ToSet(s) \cup {e}
    <2> SUFFICES ASSUME NEW x \in ToSet(Append(s, e)) PROVE x \in ToSet(s) \cup {e}
        OBVIOUS
    <2>1. PICK i \in 1..Len(s) + 1 : x = Append(s, e)[i] BY <1>1 DEF ToSet
    <2>2. i \in 1..Len(s) \/ i = Len(s) + 1 BY <1>1
    <2> QED BY <2>1, <2>2, <1>1 DEF ToSet
<1>3. ToSet(s) \cup {e} \subseteq ToSet(Append(s, e))
    BY <1>1 DEF ToSet
<1>4. Inserted(s, e, Append(s, e))
    <2>1. Len(s) + 1 \in 1..(Len(s) + 1) BY <1>1
    <2>2. \A j \in 1..(Len(s) + 1) : /\ j < Len(s) + 1 => Append(s, e)[j] = s[j]
                                     /\ j > Len(s) + 1 => Append(s, e)[j] = s[j - 1]
        BY <1>1
    <2> QED BY <1>1, <2>1, <2>2 DEF Inserted
<1> QED BY <1>1, <1>2, <1>3, <1>4

\* The empty sequence, and the others.
LEMMA NoneSet ==
    /\ ToSet(<<>>) = {} /\ Len(<<>>) = 0 /\ 1..Len(<<>>) = {}
    /\ \A T : \A s \in Seq(T) : s # <<>> <=> Len(s) > 0
<1>1. ToSet(<<>>) = {} /\ Len(<<>>) = 0 /\ 1..Len(<<>>) = {}
    BY DEF ToSet
<1>2. ASSUME NEW T, NEW s \in Seq(T) PROVE s # <<>> <=> Len(s) > 0
    BY EmptySeq, LenProperties
<1> QED BY <1>1, <1>2

\* What is in a queue after an insertion.
LEMMA InsertedSet ==
    ASSUME NEW T, NEW q \in Seq(T), NEW e \in T, NEW p \in Seq(T), Inserted(q, e, p)
    PROVE  ToSet(p) = ToSet(q) \cup {e}
<1>1. /\ Len(q) \in Nat /\ Len(p) = Len(q) + 1 /\ DOMAIN q = 1..Len(q) /\ DOMAIN p = 1..Len(p)
    BY LenProperties DEF Inserted
<1>2. PICK i \in 1..Len(p) : /\ p[i] = e
                             /\ \A j \in 1..Len(p) : /\ j < i => p[j] = q[j]
                                                     /\ j > i => p[j] = q[j - 1]
    BY DEF Inserted
<1>3. ASSUME NEW x \in ToSet(p) PROVE x \in ToSet(q) \cup {e}
    <2>1. PICK j \in 1..Len(p) : x = p[j] BY <1>1 DEF ToSet
    <2>2. CASE j < i
        <3>1. j \in 1..Len(q) /\ x = q[j] BY <1>1, <1>2, <2>1, <2>2
        <3> QED BY <3>1, <1>1 DEF ToSet
    <2>3. CASE j > i
        <3>1. j - 1 \in 1..Len(q) /\ x = q[j - 1] BY <1>1, <1>2, <2>1, <2>3
        <3> QED BY <3>1, <1>1 DEF ToSet
    <2>4. CASE j = i BY <2>1, <2>4, <1>2
    <2>5. j < i \/ j > i \/ j = i BY <1>1
    <2> QED BY <2>2, <2>3, <2>4, <2>5
<1>4. e \in ToSet(p) BY <1>1, <1>2 DEF ToSet
<1>5. ASSUME NEW x \in ToSet(q) PROVE x \in ToSet(p)
    <2>1. PICK j \in 1..Len(q) : x = q[j] BY <1>1 DEF ToSet
    <2>2. CASE j < i
        <3>1. j \in 1..Len(p) /\ x = p[j] BY <1>1, <1>2, <2>1, <2>2
        <3> QED BY <3>1, <1>1 DEF ToSet
    <2>3. CASE j >= i
        <3>1. j + 1 \in 1..Len(p) /\ j + 1 > i /\ (j + 1) - 1 = j BY <1>1, <2>3
        <3>2. p[j + 1] = x BY <1>2, <2>1, <3>1
        <3> QED BY <3>1, <3>2, <1>1 DEF ToSet
    <2> QED BY <2>2, <2>3, <1>1
<1> QED BY <1>3, <1>4, <1>5

(***************************************************************************)
(* The push: wherever the ordering strategy puts a message, the queue has  *)
(* got that message and no other.                                          *)
(***************************************************************************)
LEMMA InsertFacts ==
    ASSUME NEW T, NEW q \in Seq(T), NEW e \in T, NEW i \in 1..(Len(q) + 1)
    PROVE  InsertAt(q, i, e) \in Seq(T) /\ Inserted(q, e, InsertAt(q, i, e))
<1> DEFINE a == SubSeq(q, 1, i - 1)
           b == SubSeq(q, i, Len(q))
<1>1. Len(q) \in Nat /\ \A j \in 1..Len(q) : q[j] \in T
    BY LenProperties, ElementOfSeq
<1>2. i \in Nat /\ i - 1 \in Int /\ Len(q) \in Int /\ 1 \in Int /\ i \in Int
    BY <1>1
<1>3. /\ a \in Seq(T) /\ Len(a) = i - 1 /\ \A j \in 1..(i - 1) : a[j] = q[j]
    <2>1. \A j \in 1..(i - 1) : q[j] \in T BY <1>1, <1>2
    <2>2. /\ a \in Seq(T) /\ Len(a) = IF 1 <= i - 1 THEN (i - 1) - 1 + 1 ELSE 0
          /\ \A j \in 1..((i - 1) - 1 + 1) : a[j] = q[1 + j - 1]
        BY <1>2, <2>1, SubSeqProperties
    <2>3. (i - 1) - 1 + 1 = i - 1 /\ \A j \in 1..(i - 1) : 1 + j - 1 = j BY <1>2
    <2> QED BY <2>2, <2>3, <1>2
<1>4. /\ b \in Seq(T) /\ Len(b) = Len(q) - i + 1 /\ \A j \in 1..(Len(q) - i + 1) : b[j] = q[i + j - 1]
    <2>1. \A j \in i..Len(q) : q[j] \in T BY <1>1, <1>2
    <2>2. /\ b \in Seq(T) /\ Len(b) = IF i <= Len(q) THEN Len(q) - i + 1 ELSE 0
          /\ \A j \in 1..(Len(q) - i + 1) : b[j] = q[i + j - 1]
        BY <1>2, <2>1, SubSeqProperties
    <2> QED BY <2>2, <1>1, <1>2
<1> HIDE DEF a, b
<1>5. <<e>> \in Seq(T) /\ Len(<<e>>) = 1 /\ <<e>>[1] = e
    OBVIOUS
<1>6. PICK c : c = a \o <<e>>
    OBVIOUS
<1>7. c \in Seq(T) /\ Len(c) = i /\ \A j \in 1..i : c[j] = IF j <= i - 1 THEN a[j] ELSE <<e>>[j - (i - 1)]
    BY <1>2, <1>3, <1>5, <1>6, ConcatProperties
<1>8. c[i] = e /\ \A j \in 1..(i - 1) : c[j] = q[j]
    BY <1>2, <1>3, <1>5, <1>7
<1>9. PICK p : p = c \o b
    OBVIOUS
<1>10. /\ p \in Seq(T) /\ Len(p) = Len(q) + 1
       /\ \A j \in 1..(Len(q) + 1) : p[j] = IF j <= i THEN c[j] ELSE b[j - i]
    <2>1. i + (Len(q) - i + 1) = Len(q) + 1 BY <1>1, <1>2
    <2>2. /\ c \o b \in Seq(T) /\ Len(c \o b) = Len(c) + Len(b)
          /\ \A j \in 1..(Len(c) + Len(b)) : (c \o b)[j] = IF j <= Len(c) THEN c[j] ELSE b[j - Len(c)]
        BY <1>4, <1>7, ConcatProperties
    <2>3. Len(c) = i /\ Len(c) + Len(b) = Len(q) + 1 BY <1>4, <1>7, <2>1
    <2> QED BY <1>9, <2>2, <2>3
<1>11. p[i] = e /\ \A j \in 1..Len(p) : (j < i => p[j] = q[j])
    <2>1. i \in 1..(Len(q) + 1) /\ i <= i BY <1>1, <1>2
    <2>2. p[i] = c[i] BY <1>10, <2>1
    <2>3. ASSUME NEW j \in 1..Len(p), j < i PROVE p[j] = q[j]
        <3>1. j \in 1..(Len(q) + 1) /\ j <= i /\ j \in 1..(i - 1) BY <1>1, <1>2, <1>10, <2>3
        <3>2. p[j] = c[j] BY <1>10, <3>1
        <3> QED BY <1>8, <3>1, <3>2
    <2> QED BY <1>8, <2>2, <2>3
<1>12. ASSUME NEW j \in 1..Len(p), j > i PROVE p[j] = q[j - 1]
    <2>1. j - i \in 1..(Len(q) - i + 1) /\ i + (j - i) - 1 = j - 1 /\ ~(j <= i)
        BY <1>1, <1>2, <1>10, <1>12
    <2>2. p[j] = b[j - i] BY <1>10, <2>1
    <2> QED BY <1>4, <2>1, <2>2
<1>13. Inserted(q, e, p)
    <2>1. i \in 1..Len(p) BY <1>10
    <2> QED BY <1>10, <1>11, <1>12, <2>1 DEF Inserted
<1> QED BY <1>6, <1>9, <1>10, <1>13 DEF a, b, InsertAt

\* Whatever the ordering, a push puts in its message and nothing else.
LEMMA PlacedFacts ==
    ASSUME MailTypeOK, NEW q \in Seq(Letters), NEW m \in Letters, NEW p \in Placed(q, m)
    PROVE  p \in Seq(Letters) /\ Inserted(q, m, p) /\ ToSet(p) = ToSet(q) \cup {m}
<1>0. config.ordering \in {"fifo", "lifo", "priority", "random"}
    BY MailboxAssumption DEF MailTypeOK
<1>1. p \in Seq(Letters) /\ Inserted(q, m, p)
    <2>1. CASE config.ordering = "fifo"
        <3>1. p = Append(q, m) BY <2>1 DEF Placed
        <3> QED BY <3>1, AppendFacts
    <2>2. CASE config.ordering = "lifo"
        <3>1. p = <<m>> \o q BY <2>2 DEF Placed
        <3>2. <<m>> \in Seq(Letters) /\ Len(<<m>>) = 1 /\ <<m>>[1] = m /\ Len(q) \in Nat
            BY LenProperties
        <3>3. /\ p \in Seq(Letters) /\ Len(p) = 1 + Len(q)
              /\ \A j \in 1..(1 + Len(q)) : p[j] = IF j <= 1 THEN <<m>>[j] ELSE q[j - 1]
            BY <3>1, <3>2, ConcatProperties
        <3>4. 1 \in 1..Len(p) /\ p[1] = m /\ \A j \in 1..Len(p) : /\ j < 1 => p[j] = q[j]
                                                                  /\ j > 1 => p[j] = q[j - 1]
            BY <3>2, <3>3
        <3>5. Len(p) = Len(q) + 1 BY <3>2, <3>3
        <3> QED BY <3>3, <3>4, <3>5 DEF Inserted
    <2>3. CASE config.ordering \in {"random", "priority"}
        <3>1. PICK i \in 1..(Len(q) + 1) : p = InsertAt(q, i, m) BY <2>3 DEF Placed
        <3> QED BY <3>1, InsertFacts
    <2> QED BY <1>0, <2>1, <2>2, <2>3
<1> QED BY <1>1, InsertedSet

(***************************************************************************)
(* fetch_add and fetch_sub on data_queue_size.                             *)
(***************************************************************************)
LEMMA Wrap ==
    ASSUME NEW n \in 0..(Word - 1), NEW k \in 0..(Word - 1)
    PROVE  /\ Minus(n, k) = (IF n >= k THEN n - k ELSE n + Word - k)
           /\ Plus(n, k) = (IF n + k < Word THEN n + k ELSE n + k - Word)
           /\ Minus(n, k) \in 0..(Word - 1) /\ Plus(n, k) \in 0..(Word - 1)
<1>1. Word \in Nat /\ Word > 0 /\ n \in Nat /\ k \in Nat
    BY WordAssumption
<1>2. \A x \in 0..(2 * Word - 1) : x % Word = IF x < Word THEN x ELSE x - Word
    BY <1>1
<1>3. n + k \in 0..(2 * Word - 1) /\ n + Word - k \in 0..(2 * Word - 1)
    BY <1>1
<1>4. Minus(n, k) = (IF n >= k THEN n - k ELSE n + Word - k)
    BY <1>1, <1>2, <1>3 DEF Minus
<1>5. Plus(n, k) = (IF n + k < Word THEN n + k ELSE n + k - Word)
    BY <1>1, <1>2, <1>3 DEF Plus
<1> QED BY <1>1, <1>4, <1>5

-----------------------------------------------------------------------------
(* The mailbox: its types.                                                 *)

SenderAt == {"idle", "push", "load", "try", "count", "complete"}
SenderState == [at: SenderAt, m: Letters \union {NoLetter}, record: BOOLEAN]

\* What the type invariant says.
LEMMA MailFacts ==
    ASSUME MailTypeOK
    PROVE  /\ config.path \in {"fast", "memory", "durable"}
           /\ config.policy \in {"error", "drop_newest", "drop_oldest"}
           /\ config.ordering \in {"fifo", "lifo", "priority", "random"}
           /\ Len(iq) \in Nat /\ Len(batch) \in Nat /\ Len(inbox) \in Nat
           /\ Len(table) \in Nat /\ Len(fetched) \in Nat /\ Len(waiting) \in Nat
           /\ \A i \in 1..Len(table) : table[i] \in Row
           /\ \A i \in 1..Len(fetched) : fetched[i] \in Row
           /\ \A i \in 1..Len(iq) : iq[i] \in Letters
           /\ \A i \in 1..Len(waiting) : waiting[i] \in {"processor", "pump"}
           /\ \A r \in Row : r.id \in Letters /\ r.body \in Letters
           /\ Word \in Nat /\ Word > 0 /\ depth \in 0..(Word - 1) /\ MaxCapacity \in Nat
           /\ sender \in [Senders -> SenderState]
           /\ Idle \in SenderState
           /\ calls \in Nat /\ MaxCalls[config.path] \in Nat
           /\ acked \subseteq Row /\ (working # NoRow => working \in Row) /\ NoRow.id \notin Letters
<1>1. /\ config.path \in {"fast", "memory", "durable"}
      /\ config.policy \in {"error", "drop_newest", "drop_oldest"}
      /\ config.ordering \in {"fifo", "lifo", "priority", "random"}
    BY MailboxAssumption DEF MailTypeOK
<1>2. /\ Len(iq) \in Nat /\ Len(batch) \in Nat /\ Len(inbox) \in Nat
      /\ Len(table) \in Nat /\ Len(fetched) \in Nat /\ Len(waiting) \in Nat
      /\ \A i \in 1..Len(table) : table[i] \in Row
      /\ \A i \in 1..Len(fetched) : fetched[i] \in Row
      /\ \A i \in 1..Len(iq) : iq[i] \in Letters
      /\ \A i \in 1..Len(waiting) : waiting[i] \in {"processor", "pump"}
    BY LenProperties, ElementOfSeq DEF MailTypeOK
<1>3. Word \in Nat /\ Word > 0 /\ depth \in 0..(Word - 1) /\ MaxCapacity \in Nat
    <2>1. IsFiniteSet(Senders) BY WordAssumption
    <2>2. Cardinality(Senders) \in Nat BY <2>1, FS_CardinalityType
    <2> QED BY <2>2, WordAssumption DEF MailTypeOK
<1>4. sender \in [Senders -> SenderState] /\ Idle \in SenderState
    BY DEF MailTypeOK, SenderState, SenderAt, Idle
<1>5. \A r \in Row : r.id \in Letters /\ r.body \in Letters
    BY DEF Row
<1>6. calls \in Nat /\ MaxCalls[config.path] \in Nat
    BY <1>1, MailboxAssumption DEF MailTypeOK
<1>7. acked \subseteq Row /\ (working # NoRow => working \in Row) /\ NoRow.id \notin Letters
    BY MailboxAssumption DEF MailTypeOK, NoRow
<1> QED BY <1>1, <1>2, <1>3, <1>4, <1>5, <1>6, <1>7

(***************************************************************************)
(* What a step of a sender does to it.                                     *)
(***************************************************************************)
LEMMA SenderMoves ==
    ASSUME MailTypeOK, NEW s \in Senders
    PROVE  /\ Return(s) => /\ sender' \in [Senders -> SenderState] /\ sender'[s] = Idle
                           /\ \A t \in Senders \ {s} : sender'[t] = sender[t]
           /\ \A at \in SenderAt : Go(s, at) =>
                 /\ sender' \in [Senders -> SenderState] /\ sender'[s].at = at
                 /\ sender'[s].m = sender[s].m /\ sender'[s].record = sender[s].record
                 /\ \A t \in Senders \ {s} : sender'[t] = sender[t]
           /\ \A m \in Letters, record \in BOOLEAN : ToQueue(s, m, record) =>
                 /\ sender' \in [Senders -> SenderState]
                 /\ sender'[s].at = (IF Queued THEN "push" ELSE "load")
                 /\ sender'[s].m = m /\ sender'[s].record = record
                 /\ \A t \in Senders \ {s} : sender'[t] = sender[t]
<1>1. sender \in [Senders -> SenderState] /\ Idle \in SenderState /\ sender[s] \in SenderState
    BY MailFacts
<1>2. Return(s) => /\ sender' \in [Senders -> SenderState] /\ sender'[s] = Idle
                   /\ \A t \in Senders \ {s} : sender'[t] = sender[t]
    BY <1>1 DEF Return
<1>3. ASSUME NEW at \in SenderAt, Go(s, at)
      PROVE  /\ sender' \in [Senders -> SenderState] /\ sender'[s].at = at
             /\ sender'[s].m = sender[s].m /\ sender'[s].record = sender[s].record
             /\ \A t \in Senders \ {s} : sender'[t] = sender[t]
    <2>1. [sender[s] EXCEPT !.at = at] \in SenderState
        BY <1>1 DEF SenderState
    <2>2. sender' = [sender EXCEPT ![s] = [sender[s] EXCEPT !.at = at]]
        BY <1>1, <1>3 DEF Go
    <2>3. /\ [sender[s] EXCEPT !.at = at].at = at /\ [sender[s] EXCEPT !.at = at].m = sender[s].m
          /\ [sender[s] EXCEPT !.at = at].record = sender[s].record
        BY <1>1 DEF SenderState
    <2> QED BY <1>1, <2>1, <2>2, <2>3
<1>4. ASSUME NEW m \in Letters, NEW record \in BOOLEAN, ToQueue(s, m, record)
      PROVE  /\ sender' \in [Senders -> SenderState]
             /\ sender'[s].at = (IF Queued THEN "push" ELSE "load")
             /\ sender'[s].m = m /\ sender'[s].record = record
             /\ \A t \in Senders \ {s} : sender'[t] = sender[t]
    <2>1. PICK r : r = [at |-> IF Queued THEN "push" ELSE "load", m |-> m, record |-> record]
        OBVIOUS
    <2>2. /\ r \in SenderState /\ r.at = (IF Queued THEN "push" ELSE "load") /\ r.m = m
          /\ r.record = record
        BY <2>1 DEF SenderState, SenderAt
    <2>3. sender' = [sender EXCEPT ![s] = r]
        BY <1>4, <2>1 DEF ToQueue
    <2> QED BY <1>1, <2>2, <2>3
<1> QED BY <1>2, <1>3, <1>4

(***************************************************************************)
(* notify_one() wakes a task from its wait or stores a permit.             *)
(***************************************************************************)
LEMMA NotifyTypes ==
    ASSUME MailTypeOK, NotifyOne
    PROVE  /\ permit' \in BOOLEAN /\ waiting' \in Seq({"processor", "pump"})
           /\ processor' \in {"check", "await", "waiting", "drain", "send", "exited"}
           /\ pump' \in {"receive", "await", "waiting", "forward", "ack", "exited"}
<1>1. CASE waiting = <<>>
    BY <1>1 DEF MailTypeOK, NotifyOne
<1>2. CASE waiting # <<>>
    <2>1. Tail(waiting) \in Seq({"processor", "pump"})
        BY <1>2, HeadTailProperties DEF MailTypeOK
    <2> QED BY <1>2, <2>1 DEF MailTypeOK, NotifyOne
<1> QED BY <1>1, <1>2

\* complete_record() and the others leave the store a store.
LEMMA SeenTypes ==
    ASSUME MailTypeOK, NEW k \in Keys, NEW v \in {"none", "in_flight", "complete"}
    PROVE  [seen EXCEPT ![k] = v] \in [Keys -> {"none", "in_flight", "complete"}]
BY DEF MailTypeOK

-----------------------------------------------------------------------------
(* The mailbox: what the larger steps do.                                  *)

\* A sender in a call has a message, and a key if it recorded one.
LEMMA SenderFacts ==
    ASSUME MailSteps, NEW s \in Senders, sender[s].at # "idle"
    PROVE  /\ sender[s].m \in Letters /\ sender[s].m # NoLetter
           /\ sender[s].record => KeyOf[sender[s].m] \in Keys
BY MailboxAssumption DEF MailSteps, PromisesKept, Keys

\* The configuration never changes.
LEMMA SamePath == UNCHANGED config => (Queued' = Queued) /\ \A p : Running(p)' = Running(p)
BY DEF Queued, Running

\* A call answered Full or by dropping its message.
LEMMA AnswerFacts ==
    ASSUME MailSteps, NEW s \in Senders, sender[s].at # "idle", AnswerFull(s) \/ AnswerDropped(s)
    PROVE  /\ sender' \in [Senders -> SenderState] /\ sender'[s] = Idle
           /\ \A t \in Senders \ {s} : sender'[t] = sender[t]
           /\ gone \subseteq gone' /\ gone' \subseteq Letters
           /\ answered' \subseteq answered \union (gone' \intersect {sender[s].m}) /\ answered' \subseteq Letters
           /\ refused \subseteq refused' /\ refused' \subseteq Keys
           /\ (sender[s].record /\ KeyOf[sender[s].m] \in refused') \/ sender[s].m \in gone' \/ ~sender[s].record
<1>1. MailTypeOK BY DEF MailSteps
<1>2. sender[s].m \in Letters /\ (sender[s].record => KeyOf[sender[s].m] \in Keys)
    BY SenderFacts
<1>3. Return(s) BY DEF AnswerFull, AnswerDropped
<1>4. /\ sender' \in [Senders -> SenderState] /\ sender'[s] = Idle
      /\ \A t \in Senders \ {s} : sender'[t] = sender[t]
    BY <1>1, <1>3, SenderMoves
<1>5. CASE AnswerFull(s)
    BY <1>1, <1>2, <1>4, <1>5 DEF AnswerFull, MailTypeOK
<1>6. CASE AnswerDropped(s)
    BY <1>1, <1>2, <1>4, <1>6 DEF AnswerDropped, Lost, MailTypeOK
<1> QED BY <1>5, <1>6

\* OVERWRITE: what it removes from the queue is gone.
LEMMA OverwriteFacts ==
    ASSUME MailSteps, NEW s \in Senders, NEW m \in Letters, EnqueueOverwrite(s, m)
    PROVE  /\ iq' \in Seq(Letters) /\ Shortened(iq, iq') /\ Len(iq') \in 0..Len(iq)
           /\ depth' = Minus(depth, Len(iq) - Len(iq'))
           /\ ToSet(iq) \subseteq ToSet(iq') \union gone'
           /\ gone \subseteq gone' /\ gone' \subseteq Letters
           /\ \/ m \in gone' /\ answered' = answered \union {m} /\ UNCHANGED sender
              \/ ToQueue(s, m, FALSE) /\ UNCHANGED answered
           /\ Begin(s, m) /\ m \in Overwrites
           /\ UNCHANGED <<AfterBegin, seen, repeats>>
<1>1. MailTypeOK BY DEF MailSteps
<1>2. iq \in Seq(Letters) /\ gone \subseteq Letters /\ Len(iq) \in Nat
    BY <1>1, MailFacts DEF MailTypeOK
<1>3. PICK S : NotReplaced(iq, m) = Kept(iq, S)
    BY DEF NotReplaced
<1>4. PICK kept : kept = NotReplaced(iq, m)
    OBVIOUS
<1>5. kept \in Seq(Letters) /\ Shortened(iq, kept)
    <2>1. Kept(iq, S) \in Seq(Letters) /\ Shortened(iq, Kept(iq, S))
        BY <1>2, KeptFacts
    <2> QED BY <1>3, <1>4, <2>1
<1>6. Len(kept) \in 0..Len(iq)
    <2>1. Len(kept) \in Nat BY <1>5, LenProperties
    <2> QED BY <1>5, <2>1 DEF Shortened
<1>7. iq' = kept /\ depth' = Minus(depth, Len(iq) - Len(kept))
    BY <1>4 DEF EnqueueOverwrite
<1>8. PICK skip \in BOOLEAN :
          /\ gone' = gone \union (ToSet(iq) \ ToSet(kept)) \union (IF skip THEN {m} ELSE {})
          /\ IF skip THEN answered' = answered \union {m} /\ UNCHANGED sender
                     ELSE ToQueue(s, m, FALSE) /\ UNCHANGED answered
    BY <1>4 DEF EnqueueOverwrite
<1>9. ToSet(iq) \subseteq Letters
    BY <1>2, LenProperties DEF ToSet
<1>10. ToSet(iq) \subseteq ToSet(iq') \union gone' /\ gone \subseteq gone' /\ gone' \subseteq Letters
    BY <1>2, <1>7, <1>8, <1>9
<1>11. \/ m \in gone' /\ answered' = answered \union {m} /\ UNCHANGED sender
       \/ ToQueue(s, m, FALSE) /\ UNCHANGED answered
    BY <1>8
<1>12. Begin(s, m) /\ m \in Overwrites /\ UNCHANGED <<AfterBegin, seen, repeats>>
    BY DEF EnqueueOverwrite
<1> QED BY <1>5, <1>6, <1>7, <1>10, <1>11, <1>12

\* A push that succeeds, with or without the oldest message being dropped.
Pushed(s, rest) ==
    /\ rest \in Seq(Letters) /\ Shortened(iq, rest)
    /\ iq' \in Seq(Letters) /\ Inserted(rest, sender[s].m, iq')
    /\ ToSet(iq') = ToSet(rest) \union {sender[s].m}
    /\ ToSet(iq) \subseteq ToSet(rest) \union gone'
    /\ gone \subseteq gone' /\ gone' \subseteq Letters
    /\ Go(s, "count")
    /\ UNCHANGED <<answered, refused>>
    /\ \/ rest = iq /\ depth < MaxCapacity /\ UNCHANGED <<depth, drift>>
       \/ Len(rest) = Len(iq) - 1 /\ depth' = Minus(depth, 1) /\ UNCHANGED drift
       \/ drift' = drift \union {"oldest"} /\ depth' = Minus(depth, 1)

\* push() puts the message in, or answers without it.
LEMMA PushFacts ==
    ASSUME MailSteps, NEW s \in Senders, Push(s)
    PROVE  /\ sender[s].at = "push" /\ UNCHANGED <<AfterPush, inbox>>
           /\ \/ \E rest \in Seq(Letters) : Pushed(s, rest)
              \/ (AnswerFull(s) \/ AnswerDropped(s)) /\ UNCHANGED <<iq, depth, drift>>
<1>1. MailTypeOK BY DEF MailSteps
<1>2. sender[s].at = "push" /\ UNCHANGED <<AfterPush, inbox>>
    BY DEF Push
<1>3. sender[s].m \in Letters /\ iq \in Seq(Letters) /\ gone \subseteq Letters /\ Len(iq) \in Nat
    BY <1>1, <1>2, SenderFacts, MailFacts DEF MailTypeOK
<1>4. Shortened(iq, iq)
    <2> DEFINE f == [i \in 1..Len(iq) |-> i]
    <2>1. f \in [1..Len(iq) -> 1..Len(iq)] /\ \A i \in 1..Len(iq) : f[i] = i OBVIOUS
    <2> HIDE DEF f
    <2> QED BY <1>3, <2>1 DEF Shortened
<1>5. CASE depth < MaxCapacity
    <2>1. /\ iq' \in Placed(iq, sender[s].m) /\ Go(s, "count")
          /\ UNCHANGED <<depth, drift, answered, gone, refused>>
        BY <1>5 DEF Push
    <2>2. /\ iq' \in Seq(Letters) /\ Inserted(iq, sender[s].m, iq')
          /\ ToSet(iq') = ToSet(iq) \union {sender[s].m}
        BY <1>1, <1>3, <2>1, PlacedFacts
    <2>3. Pushed(s, iq)
        BY <1>3, <1>4, <1>5, <2>1, <2>2 DEF Pushed
    <2> QED BY <1>2, <1>3, <2>3
<1>6. CASE ~(depth < MaxCapacity) /\ config.policy = "drop_oldest"
    <2>1. PICK rest : rest = (IF iq = <<>> THEN iq ELSE Tail(iq))
        OBVIOUS
    <2>2. /\ iq' \in Placed(rest, sender[s].m)
          /\ depth' = Minus(depth, 1)
          /\ IF iq = <<>> THEN drift' = drift \union {"oldest"} /\ UNCHANGED gone
                          ELSE Lost(Head(iq)) /\ UNCHANGED drift
          /\ Go(s, "count")
          /\ UNCHANGED <<answered, refused>>
        BY <1>6, <2>1 DEF Push
    <2>3. /\ rest \in Seq(Letters) /\ Shortened(iq, rest)
          /\ ToSet(iq) \subseteq ToSet(rest) \union gone' /\ gone \subseteq gone' /\ gone' \subseteq Letters
          /\ \/ Len(rest) = Len(iq) - 1 /\ UNCHANGED drift
             \/ drift' = drift \union {"oldest"}
        <3>1. CASE iq = <<>>
            BY <1>3, <1>4, <2>1, <2>2, <3>1
        <3>2. CASE iq # <<>>
            <4>1. /\ Head(iq) \in Letters /\ Tail(iq) \in Seq(Letters) /\ Shortened(iq, Tail(iq))
                  /\ ToSet(iq) = {Head(iq)} \cup ToSet(Tail(iq)) /\ Len(Tail(iq)) = Len(iq) - 1
                BY <1>3, <3>2, EndFacts
            <4> QED BY <1>3, <2>1, <2>2, <3>2, <4>1 DEF Lost
        <3> QED BY <3>1, <3>2
    <2>4. /\ iq' \in Seq(Letters) /\ Inserted(rest, sender[s].m, iq')
          /\ ToSet(iq') = ToSet(rest) \union {sender[s].m}
        BY <1>1, <1>3, <2>2, <2>3, PlacedFacts
    <2>5. Pushed(s, rest)
        BY <2>2, <2>3, <2>4 DEF Pushed
    <2> QED BY <1>2, <2>3, <2>5
<1>7. CASE ~(depth < MaxCapacity) /\ config.policy # "drop_oldest"
    <2>1. config.policy \in {"error", "drop_newest", "drop_oldest"}
        BY <1>1, MailFacts
    <2>2. (AnswerFull(s) \/ AnswerDropped(s)) /\ UNCHANGED <<iq, depth, drift>>
        BY <1>7, <2>1 DEF Push
    <2> QED BY <1>2, <2>2
<1> QED BY <1>5, <1>6, <1>7

\* The fast path's try_send().
LEMMA TrySendFacts ==
    ASSUME MailSteps, NEW s \in Senders, FastTrySend(s)
    PROVE  /\ sender[s].at = "try" /\ UNCHANGED <<AfterPush, iq, depth, drift>>
           /\ \/ /\ alive /\ Len(inbox) < MaxCapacity /\ inbox' = Append(inbox, sender[s].m)
                 /\ Go(s, "count") /\ UNCHANGED <<answered, gone, refused>>
              \/ AnswerFull(s) /\ UNCHANGED inbox
              \/ AnswerDropped(s) /\ UNCHANGED inbox
              \/ /\ sender[s].record /\ Go(s, "complete") /\ gone' = gone \union {sender[s].m}
                 /\ UNCHANGED <<answered, refused, inbox>>
<1>1. sender[s].at = "try" /\ UNCHANGED <<AfterPush, iq, depth, drift>>
    BY DEF FastTrySend
<1>2. CASE ~alive
    <2>1. /\ Lost(sender[s].m)
          /\ IF sender[s].record
             THEN Go(s, "complete") /\ UNCHANGED answered
             ELSE Return(s) /\ answered' = answered \union {sender[s].m}
          /\ UNCHANGED <<inbox, refused>>
        BY <1>2 DEF FastTrySend
    <2> QED BY <1>1, <2>1 DEF Lost, AnswerDropped
<1>3. CASE alive /\ Len(inbox) >= MaxCapacity
    <2>0. ~(Len(inbox) < MaxCapacity) BY <1>3, MailFacts DEF MailSteps
    <2>1. AnswerFull(s) /\ UNCHANGED inbox BY <1>3, <2>0 DEF FastTrySend
    <2> QED BY <1>1, <2>1
<1>4. CASE alive /\ ~(Len(inbox) >= MaxCapacity)
    <2>1. Len(inbox) < MaxCapacity
        BY <1>4, MailFacts DEF MailSteps
    <2>2. inbox' = Append(inbox, sender[s].m) /\ Go(s, "count") /\ UNCHANGED <<answered, gone, refused>>
        BY <1>4, <2>1 DEF FastTrySend
    <2> QED BY <1>1, <1>4, <2>1, <2>2
<1> QED BY <1>2, <1>3, <1>4

\* The processor hands over its first message, to the actor or the table.
ProcessorRest == <<SenderVars, iq, pump, fetched, depth, permit, waiting, mode, received, alive,
                   ids, working, acked, tries>>

\* The body of a row is replaced by m.
Overwritten(t, p, m) ==
    /\ Len(p) = Len(t)
    /\ \A i \in 1..Len(t) : \/ p[i] = t[i]
                            \/ /\ p[i].id = t[i].id /\ p[i].body = m
                               /\ m \in Overwrites /\ KeyOf[t[i].body] = KeyOf[m]
    /\ \E i \in 1..Len(t) : p[i].body = m

\* send() of the channel overwrites a row or appends one.
LEMMA StoredFacts ==
    ASSUME NEW t \in Seq(Row), NEW m \in Letters
    PROVE  /\ Stored(t, m) \in Seq(Row)
           /\ \/ Overwritten(t, Stored(t, m), m)
              \/ Stored(t, m) = Append(t, [id |-> m, body |-> m]) /\ Updates(t, m) = {}
<1>1. Len(t) \in Nat /\ t \in [1..Len(t) -> Row] /\ DOMAIN t = 1..Len(t)
    BY LenProperties
<1>2. PICK same : same = Updates(t, m)
    OBVIOUS
<1>3. CASE same = {}
    <2>1. Stored(t, m) = Append(t, [id |-> m, body |-> m])
        BY <1>2, <1>3 DEF Stored
    <2>2. [id |-> m, body |-> m] \in Row
        BY DEF Row
    <2>3. Append(t, [id |-> m, body |-> m]) \in Seq(Row)
        BY <2>2, AppendFacts
    <2> QED BY <1>1, <1>2, <1>3, <2>1, <2>3
<1>4. CASE same # {}
    <2>1. PICK p : p = [i \in DOMAIN t |-> IF i \in same THEN [t[i] EXCEPT !.body = m] ELSE t[i]]
        OBVIOUS
    <2>2. Stored(t, m) = p
        BY <1>2, <1>4, <2>1 DEF Stored
    <2>3. \A r \in Row : [r EXCEPT !.body = m] \in Row /\ [r EXCEPT !.body = m].id = r.id
                         /\ [r EXCEPT !.body = m].body = m
        BY DEF Row
    <2>4. p \in [1..Len(t) -> Row] /\ \A i \in 1..Len(t) : p[i] = IF i \in same THEN [t[i] EXCEPT !.body = m] ELSE t[i]
        BY <1>1, <2>1, <2>3
    <2>5. p \in Seq(Row)
        BY <1>1, <2>4 DEF Seq
    <2>6. Len(p) = Len(t)
        BY <1>1, <2>4, <2>5, LenProperties
    <2>7. \A i \in same : i \in 1..Len(t) /\ m \in Overwrites /\ KeyOf[t[i].body] = KeyOf[m]
        BY <1>1, <1>2 DEF Updates
    <2>8. \A i \in 1..Len(t) : t[i] \in Row
        BY <1>1
    <2>9. \A i \in same : p[i].id = t[i].id /\ p[i].body = m
        BY <2>3, <2>4, <2>7, <2>8
    <2>10. Overwritten(t, p, m)
        BY <1>4, <2>4, <2>6, <2>7, <2>9 DEF Overwritten
    <2> QED BY <2>2, <2>5, <2>10
<1> QED BY <1>3, <1>4

MayDrift == {"oldest", "recovered", "vanished", "repeated"}

\* The four ways ProcessorSend goes: to the actor, to the end, to the table, nowhere.
SentOn == /\ batch' = Tail(batch) /\ processor' = IF Len(batch) = 1 THEN "check" ELSE "send"
          /\ gone \subseteq gone' /\ gone' \subseteq Letters

SentToActor == /\ SentOn /\ Running("memory") /\ inbox' = Append(inbox, Head(batch))
               /\ UNCHANGED <<table, drift>>

SentToTable ==
    /\ SentOn /\ Running("durable") /\ UNCHANGED inbox /\ table' \in Seq(Row)
    /\ \A i \in 1..Len(table) : table'[i] = table[i] \/ table[i].body \in gone'
    /\ \/ /\ Overwritten(table, table', Head(batch))
          /\ drift' = drift \union {"vanished"}
       \/ /\ table' = Append(table, [id |-> Head(batch), body |-> Head(batch)])
          /\ ~Known(Head(batch))
          /\ UNCHANGED drift

SentNowhere == /\ SentOn /\ Head(batch) \in gone' /\ drift' = drift \union {"vanished"}
               /\ UNCHANGED <<table, inbox>>

ProcessorEnds == /\ processor' = "exited" /\ batch' = <<>>
                 /\ ToSet(batch) \subseteq gone' /\ gone \subseteq gone' /\ gone' \subseteq Letters
                 /\ drift' = drift \union {"vanished"} /\ UNCHANGED <<table, inbox>>

\* ProcessorSend is one of the four.
LEMMA SendFacts ==
    ASSUME MailSteps, ProcessorSend
    PROVE  /\ processor = "send" /\ batch # <<>> /\ UNCHANGED ProcessorRest
           /\ SentToActor \/ SentToTable \/ SentNowhere \/ ProcessorEnds
<1>1. MailTypeOK BY DEF MailSteps
<1>2. processor = "send" /\ batch # <<>> /\ UNCHANGED ProcessorRest
    BY DEF ProcessorSend, ProcessorRest, RowVars, MailSteps, TasksInStep
<1>3. /\ batch \in Seq(Letters) /\ gone \subseteq Letters /\ table \in Seq(Row) /\ Len(table) \in Nat
      /\ \A i \in 1..Len(table) : table[i] \in Row /\ table[i].body \in Letters
    BY <1>1, MailFacts DEF MailTypeOK
<1>4. Head(batch) \in Letters /\ Head(batch) \in ToSet(batch)
    BY <1>2, <1>3, EndFacts
<1>5. ToSet(batch) \subseteq Letters
    BY <1>3, LenProperties DEF ToSet
<1>6. CASE SendLocal
    <2>1. CASE alive
        BY <1>2, <1>3, <1>6, <2>1 DEF SendLocal, SentToActor, SentOn
    <2>2. CASE ~alive
        BY <1>2, <1>3, <1>5, <1>6, <2>2 DEF SendLocal, ProcessorEnds
    <2> QED BY <1>2, <2>1, <2>2
<1>7. CASE SendTable
    <2>1. CASE mode = "closed"
        BY <1>2, <1>3, <1>5, <1>7, <2>1 DEF SendTable, ProcessorEnds
    <2>2. ASSUME mode # "closed", ~SentNowhere PROVE SentToTable
        <3>1. /\ Running("durable") /\ UNCHANGED inbox
              /\ batch' = Tail(batch) /\ processor' = IF Len(batch) = 1 THEN "check" ELSE "send"
              /\ Updates(table, Head(batch)) # {} \/ Fresh(Head(batch))
              /\ table' = Stored(table, Head(batch))
              /\ drift' = IF Len(table') = Len(table) THEN drift \union {"vanished"} ELSE drift
              /\ gone' = gone \union {table[i].body : i \in {j \in DOMAIN table : table'[j] # table[j]}}
            <4>1. ASSUME Lost(Head(batch)), drift' = drift \union {"vanished"}, UNCHANGED table PROVE FALSE
                <5>1. UNCHANGED inbox /\ batch' = Tail(batch) /\ processor' = IF Len(batch) = 1 THEN "check" ELSE "send"
                    BY <1>7, <2>2 DEF SendTable
                <5> QED BY <1>3, <1>4, <2>2, <4>1, <5>1 DEF SentNowhere, SentOn, Lost
            <4> QED BY <1>7, <2>2, <4>1 DEF SendTable
        <3>2. DOMAIN table = 1..Len(table) BY <1>3, LenProperties
        <3>3. gone \subseteq gone' /\ gone' \subseteq Letters
            BY <1>3, <3>1, <3>2
        <3>4. \A i \in 1..Len(table) : table'[i] = table[i] \/ table[i].body \in gone'
            BY <3>1, <3>2
        <3>5. /\ table' \in Seq(Row)
              /\ \/ Overwritten(table, table', Head(batch))
                 \/ /\ table' = Append(table, [id |-> Head(batch), body |-> Head(batch)])
                    /\ Updates(table, Head(batch)) = {}
            BY <1>3, <1>4, <3>1, StoredFacts
        <3>6. CASE Overwritten(table, table', Head(batch))
            <4>1. drift' = drift \union {"vanished"} BY <3>1, <3>6 DEF Overwritten
            <4> QED BY <3>1, <3>3, <3>4, <3>5, <3>6, <4>1 DEF SentToTable, SentOn
        <3>7. CASE ~Overwritten(table, table', Head(batch))
            <4>1. [id |-> Head(batch), body |-> Head(batch)] \in Row BY <1>4 DEF Row
            <4>2. Len(table') = Len(table) + 1 BY <1>3, <3>5, <3>7, <4>1, AppendFacts
            <4>3. UNCHANGED drift
                <5>1. Len(table') # Len(table) BY <1>3, <4>2
                <5> QED BY <3>1, <5>1
            <4>4. ~Known(Head(batch))
                <5>1. Fresh(Head(batch)) BY <3>1, <3>5, <3>7
                <5>2. \A i \in 1..Len(table) : table[i] \in ToSet(table) BY <3>2 DEF ToSet
                <5> QED BY <5>1, <5>2 DEF Fresh, Known, Unacked
            <4> QED BY <3>1, <3>3, <3>4, <3>5, <3>7, <4>3, <4>4 DEF SentToTable, SentOn
        <3> QED BY <3>6, <3>7
    <2> QED BY <1>2, <2>1, <2>2
<1> QED BY <1>2, <1>6, <1>7 DEF ProcessorSend

\* The ack of the row with the id of r: it leaves the table, alone.
AckOf(r) == /\ table' \in Seq(Row) /\ Shortened(table, table')
            /\ \A k \in 1..Len(table') : table'[k].id # r.id
            /\ \A i \in 1..Len(table) : table[i].id # r.id => \E k \in 1..Len(table') : table'[k] = table[i]
            /\ gone \subseteq gone' /\ gone' \subseteq Letters
            /\ \A i \in 1..Len(table) : table[i].id = r.id
                  => table[i].body \in gone' \/ table[i].body = r.body
            /\ Len(table') = IF Unacked(r.id) THEN Len(table) - 1 ELSE Len(table)
            /\ acked \subseteq acked' /\ acked' \subseteq Row
            /\ \A x \in acked' : x \in acked \/ (x.id = r.id /\ \E i \in 1..Len(table) : table[i] = x)
            /\ \A i \in 1..Len(table) : table[i].id = r.id => table[i] \in acked'

LEMMA AckFacts ==
    ASSUME MailSteps, NEW h \in Row, Ack(h)
    PROVE  AckOf(h)
<1>1. MailTypeOK BY DEF MailSteps
<1>2. /\ table \in Seq(Row) /\ Len(table) \in Nat /\ DOMAIN table = 1..Len(table) /\ gone \subseteq Letters
      /\ \A i \in 1..Len(table) : table[i] \in Row /\ table[i].id \in Letters /\ table[i].body \in Letters
      /\ acked \subseteq Row
    BY <1>1, MailFacts, LenProperties DEF MailTypeOK
<1>4. PICK S : S = {r \in Row : r.id # h.id}
    OBVIOUS
<1>5. table' = Kept(table, S)
    BY <1>4 DEF Ack
<1>6. /\ Kept(table, S) \in Seq(Row) /\ Shortened(table, Kept(table, S))
      /\ \A k \in 1..Len(Kept(table, S)) : Kept(table, S)[k] \in S
      /\ \A i \in 1..Len(table) : table[i] \in S => \E k \in 1..Len(Kept(table, S)) : Kept(table, S)[k] = table[i]
    <2>1. table \in Seq(Row)
        BY <1>2
    <2>2. Kept(table, S) \in Seq(Row) /\ Shortened(table, Kept(table, S))
        BY <2>1, KeptFacts
    <2>4. \A k \in 1..Len(Kept(table, S)) : Kept(table, S)[k] \in S
        BY <2>1, KeptFacts
    <2>5. \A i \in 1..Len(table) : table[i] \in S => \E k \in 1..Len(Kept(table, S)) : Kept(table, S)[k] = table[i]
        BY <2>1, KeptFacts
    <2> QED BY <2>2, <2>4, <2>5
<1>7. \A P \in SUBSET (1..Len(table)) : (\A i \in 1..Len(table) : i \in P <=> table[i].id # h.id)
          => Len(Kept(table, S)) = Cardinality(P)
    <2> TAKE P \in SUBSET (1..Len(table))
    <2> HAVE \A i \in 1..Len(table) : i \in P <=> table[i].id # h.id
    <2>3. \A i \in 1..Len(table) : i \in P <=> table[i] \in S
        BY <1>2, <1>4
    <2>4. table \in Seq(Row)
        BY <1>2
    <2> QED BY <2>3, <2>4, KeptFacts
<1>8. IsFiniteSet(1..Len(table)) /\ Cardinality(1..Len(table)) = Len(table)
    <2>1. Len(table) \in Nat BY <1>2
    <2> QED BY <2>1, FS_Interval
<1>9. Unacked(h.id) => Len(table') = Len(table) - 1
    <2> HAVE Unacked(h.id)
    <2>0. PICK p \in 1..Len(table) : table[p].id = h.id BY DEF Unacked
    <2>1. \A i \in 1..Len(table) : table[i].id = h.id => i = p
        BY <2>0 DEF MailSteps, RowsSound
    <2>2. PICK P \in SUBSET (1..Len(table)) : P = (1..Len(table)) \ {p}
        OBVIOUS
    <2>3. \A i \in 1..Len(table) : i \in P <=> table[i].id # h.id
        BY <2>0, <2>1, <2>2
    <2>4. Cardinality(P) = Len(table) - 1
        BY <1>8, <2>0, <2>2, FS_RemoveElement
    <2> QED BY <1>5, <1>7, <2>3, <2>4
<1>10. ~Unacked(h.id) => Len(table') = Len(table)
    <2> HAVE ~Unacked(h.id)
    <2>1. PICK P \in SUBSET (1..Len(table)) : P = 1..Len(table) OBVIOUS
    <2>2. \A i \in 1..Len(table) : i \in P <=> table[i].id # h.id BY <2>1 DEF Unacked
    <2> QED BY <1>5, <1>7, <1>8, <2>1, <2>2
<1>11. \A k \in 1..Len(table') : table'[k].id # h.id
    BY <1>4, <1>5, <1>6
<1>12. \A i \in 1..Len(table) : table[i].id # h.id => \E k \in 1..Len(table') : table'[k] = table[i]
    BY <1>2, <1>4, <1>5, <1>6
<1>13. gone' = gone \union {r.body : r \in {x \in ToSet(table) : x.id = h.id /\ x.body # h.body}}
    BY DEF Ack
<1>14. \A r \in ToSet(table) : r.body \in Letters /\ \E i \in 1..Len(table) : table[i] = r
    BY <1>2 DEF ToSet
<1>15. gone \subseteq gone' /\ gone' \subseteq Letters
    BY <1>2, <1>13, <1>14
<1>16. \A i \in 1..Len(table) : table[i] \in ToSet(table)
    BY <1>2 DEF ToSet
<1>17. \A i \in 1..Len(table) : table[i].id = h.id => table[i].body \in gone' \/ table[i].body = h.body
    BY <1>13, <1>16
<1>18. PICK A : A = {x \in ToSet(table) : x.id = h.id}
    OBVIOUS
<1>19. acked' = acked \union A
    BY <1>18 DEF Ack
<1>20. /\ acked \subseteq acked'
       /\ \A x \in acked' : x \in acked \/ (x.id = h.id /\ \E i \in 1..Len(table) : table[i] = x)
       /\ \A i \in 1..Len(table) : table[i].id = h.id => table[i] \in acked'
    BY <1>14, <1>16, <1>18, <1>19
<1>21. acked' \subseteq Row
    BY <1>2, <1>20
<1> QED BY <1>5, <1>6, <1>9, <1>10, <1>11, <1>12, <1>15, <1>17, <1>20, <1>21 DEF AckOf

\* The pump acks the row that it has forwarded.
LEMMA PumpAckFacts ==
    ASSUME MailSteps, PumpAck
    PROVE  /\ pump = "ack" /\ fetched # <<>> /\ fetched' = Tail(fetched) /\ pump' # "ack"
           /\ fetched[1] = Head(fetched) /\ Head(fetched) \in Row /\ AckOf(Head(fetched))
<1>1. pump = "ack" /\ fetched # <<>> /\ fetched' = Tail(fetched) /\ pump' # "ack" /\ fetched \in Seq(Row)
    BY DEF MailSteps, MailTypeOK, PumpAck, NextFetched, TasksInStep
<1>2. fetched[1] = Head(fetched) /\ Head(fetched) \in Row
    BY <1>1, EndFacts
<1>3. AckOf(Head(fetched))
    BY <1>2, AckFacts DEF PumpAck
<1> QED BY <1>1, <1>2, <1>3

\* A message given out again is one that the store no longer answers for.
LEMMA AgainFacts ==
    ASSUME MailSteps, NEW id \in Letters, GivenAgain(id)
    PROVE  /\ repeats \subseteq repeats' /\ repeats' \subseteq Keys /\ drift' = drift \union {"repeated"}
           /\ "repeated" \in drift' /\ (KeyOf[id] # NoKey => KeyOf[id] \in repeats')
<1>1. KeyOf[id] \in Keys \union {NoKey} /\ repeats \subseteq Keys
    BY MailboxAssumption DEF MailSteps, MailTypeOK
<1> QED BY <1>1 DEF GivenAgain

\* What the steps that give a row out again, or end with it, leave alone.
LEMMA QuietFacts ==
    ASSUME PumpAckFails \/ Processed \/ Nacked
    PROVE  /\ UNCHANGED <<config, sender, calls, seen, answered, refused, iq, processor, batch, inbox, depth, permit,
                          waiting, mode, received, alive, ids>>
           /\ PumpAckFails => UNCHANGED <<table, gone, working, acked, tries>>
           /\ Processed => UNCHANGED <<pump, fetched, drift, repeats, tries>> /\ working' = NoRow
           /\ Nacked => UNCHANGED <<pump, fetched, gone>> /\ working' = NoRow
BY DEF PumpAckFails, Processed, Nacked, SenderVars

LEMMA AckFailsFacts ==
    ASSUME MailSteps, PumpAckFails
    PROVE  /\ pump = "ack" /\ fetched # <<>> /\ NextFetched /\ fetched[1] = Head(fetched) /\ Head(fetched) \in Row
           /\ Head(fetched).id \in Letters /\ GivenAgain(Head(fetched).id)
<1>1. pump = "ack" /\ fetched # <<>> /\ NextFetched /\ GivenAgain(Head(fetched).id) /\ fetched \in Seq(Row)
    BY DEF MailSteps, MailTypeOK, PumpAckFails, TasksInStep
<1>2. fetched[1] = Head(fetched) /\ Head(fetched) \in Row
    BY <1>1, EndFacts
<1>3. Head(fetched).id \in Letters
    BY <1>2 DEF Row
<1> QED BY <1>1, <1>2, <1>3

LEMMA ProcessedFacts ==
    ASSUME MailSteps, Processed
    PROVE  /\ working \in Row /\ working # NoRow
           /\ AckOf(working) \/ UNCHANGED <<table, acked, gone>>
<1>1. working \in Row /\ working # NoRow
    BY DEF MailSteps, MailTypeOK, Processed
<1>2. Ack(working) \/ UNCHANGED <<table, acked, gone>>
    BY DEF Processed
<1> QED BY <1>1, <1>2, AckFacts

\* A nack takes row r back into the table.
TakenBack(r) == /\ r \in Row /\ r.id \in Letters /\ Inserted(table, r, table') /\ table' \in Seq(Row)
                /\ acked' = acked \ {r} /\ r.id = working.id /\ GivenAgain(r.id)

LEMMA NackFacts ==
    ASSUME MailSteps, Nacked
    PROVE  /\ working \in Row
           /\ tries' = [tries EXCEPT ![working.id] = @ + 1] /\ tries[working.id] < MaxRedeliveries
           /\ UNCHANGED <<table, acked, drift, repeats>> \/ \E r \in acked : TakenBack(r)
<1>1. /\ working \in Row /\ tries' = [tries EXCEPT ![working.id] = @ + 1] /\ tries[working.id] < MaxRedeliveries
      /\ table \in Seq(Row) /\ acked \subseteq Row
    BY DEF MailSteps, MailTypeOK, Nacked
<1>2. ASSUME NEW r \in acked, NEW i \in 1..(Len(table) + 1), r.id = working.id,
             table' = InsertAt(table, i, r), acked' = acked \ {r}, GivenAgain(r.id)
      PROVE  TakenBack(r)
    <2>1. r \in Row BY <1>1
    <2>2. r.id \in Letters BY <2>1 DEF Row
    <2>3. InsertAt(table, i, r) \in Seq(Row) /\ Inserted(table, r, InsertAt(table, i, r))
        BY <1>1, <2>1, InsertFacts
    <2> QED BY <1>2, <2>1, <2>2, <2>3 DEF TakenBack
<1> QED BY <1>1, <1>2 DEF Nacked

-----------------------------------------------------------------------------
(* The mailbox: every step keeps the types.                                *)

\* The types of what a sender's step may change, and of what it may not.
SenderSide ==
    /\ config \in MailConfigs /\ sender \in [Senders -> SenderState]
    /\ calls \in 0..MaxCalls[config.path]
    /\ seen \in [Keys -> {"none", "in_flight", "complete"}]
    /\ answered \subseteq Letters /\ refused \subseteq Keys /\ repeats \subseteq Keys
    /\ mailFaults \in 0..MaxMailFaults

QueueSide ==
    /\ iq \in Seq(Letters) /\ batch \in Seq(Letters) /\ inbox \in Seq(Letters)
    /\ table \in Seq(Row) /\ fetched \in Seq(Row)
    /\ depth \in 0..(Word - 1)
    /\ received \in [Letters -> Nat] /\ gone \subseteq Letters
    /\ drift \subseteq MayDrift

TaskSide ==
    /\ processor \in {"check", "await", "waiting", "drain", "send", "exited"}
    /\ pump \in {"receive", "await", "waiting", "forward", "ack", "exited"}
    /\ permit \in BOOLEAN /\ waiting \in Seq({"processor", "pump"})
    /\ mode \in {"open", "closing", "closed"} /\ alive \in BOOLEAN

RowSide ==
    /\ ids \in Seq(Letters) /\ working \in Row \union {NoRow} /\ acked \subseteq Row
    /\ tries \in [Letters -> 0..MaxRedeliveries]

\* The type invariant has four sides.
LEMMA MailSides == MailTypeOK <=> SenderSide /\ QueueSide /\ TaskSide /\ RowSide
BY DEF MailTypeOK, SenderSide, QueueSide, TaskSide, RowSide, MayDrift, SenderState, SenderAt

\* The calls and the store keep their types.
LEMMA SenderSideStep ==
    ASSUME MailSteps, MailNext
    PROVE  SenderSide'
<1>0. MailTypeOK /\ SenderSide BY MailSides DEF MailSteps
<1>1. calls \in Nat /\ MaxCalls[config.path] \in Nat /\ KeyOf \in [Letters -> Keys \union {NoKey}]
    BY <1>0, MailFacts, MailboxAssumption
<1>2. ASSUME NEW s \in Senders, NEW m \in Letters, Begin(s, m), UNCHANGED config
      PROVE  calls' \in 0..MaxCalls[config.path]
    BY <1>0, <1>1, <1>2 DEF Begin, SenderSide
<1>3. ASSUME NEW s \in Senders, NEW m \in Letters, EnqueueRefused(s, m) PROVE SenderSide'
    BY <1>0, <1>2, <1>3 DEF EnqueueRefused, AfterBegin, SenderSide
<1>4. ASSUME NEW s \in Senders, NEW m \in Letters, EnqueuePlain(s, m) PROVE SenderSide'
    <2>1. /\ Begin(s, m) /\ ToQueue(s, m, FALSE) /\ repeats' = repeats \union ({KeyOf[m]} \ {NoKey})
          /\ UNCHANGED <<config, seen, answered, refused, mailFaults>>
        BY <1>4 DEF EnqueuePlain, AfterBegin
    <2>2. sender' \in [Senders -> SenderState] BY <1>0, <2>1, SenderMoves
    <2> QED BY <1>0, <1>1, <1>2, <2>1, <2>2 DEF SenderSide
<1>5. ASSUME NEW s \in Senders, NEW m \in Letters, EnqueueFirstSeen(s, m) PROVE SenderSide'
    <2>1. /\ Begin(s, m) /\ ToQueue(s, m, TRUE) /\ KeyOf[m] # NoKey
          /\ seen' = [seen EXCEPT ![KeyOf[m]] = "in_flight"]
          /\ UNCHANGED <<config, repeats, answered, refused, mailFaults>>
        BY <1>5 DEF EnqueueFirstSeen, AfterBegin
    <2>2. sender' \in [Senders -> SenderState] BY <1>0, <2>1, SenderMoves
    <2>3. seen' \in [Keys -> {"none", "in_flight", "complete"}] BY <1>0, <1>1, <2>1, SeenTypes
    <2> QED BY <1>0, <1>2, <2>1, <2>2, <2>3 DEF SenderSide
<1>6. ASSUME NEW s \in Senders, NEW m \in Letters, EnqueueDuplicate(s, m) PROVE SenderSide'
    BY <1>0, <1>2, <1>6 DEF EnqueueDuplicate, AfterBegin, SenderSide
<1>7. ASSUME NEW s \in Senders, NEW m \in Letters, EnqueueOverwrite(s, m) PROVE SenderSide'
    <2>1. /\ Begin(s, m) /\ UNCHANGED <<config, seen, repeats, refused, mailFaults>>
          /\ \/ answered' = answered \union {m} /\ UNCHANGED sender
             \/ ToQueue(s, m, FALSE) /\ UNCHANGED answered
        BY <1>7, OverwriteFacts DEF AfterBegin
    <2>2. sender' \in [Senders -> SenderState] /\ answered' \subseteq Letters
        BY <1>0, <2>1, SenderMoves DEF SenderSide
    <2> QED BY <1>0, <1>2, <2>1, <2>2 DEF SenderSide
<1>8. ASSUME NEW s \in Senders, sender[s].at # "idle",
             \/ AnswerFull(s) \/ AnswerDropped(s)
             \/ (\E at \in SenderAt : Go(s, at)) /\ UNCHANGED <<answered, refused>>,
             UNCHANGED <<config, calls, seen, repeats, mailFaults>>
      PROVE  SenderSide'
    <2>1. sender' \in [Senders -> SenderState] /\ answered' \subseteq Letters /\ refused' \subseteq Keys
        BY <1>0, <1>8, SenderMoves, AnswerFacts DEF SenderSide
    <2> QED BY <1>0, <1>8, <2>1 DEF SenderSide
<1>9. ASSUME NEW s \in Senders, FastLoad(s) PROVE SenderSide'
    <2>1. "try" \in SenderAt BY DEF SenderAt
    <2>2. /\ sender[s].at # "idle" /\ UNCHANGED <<config, calls, seen, repeats, mailFaults>>
          /\ \/ AnswerFull(s) \/ AnswerDropped(s)
             \/ Go(s, "try") /\ UNCHANGED <<answered, refused>>
        BY <1>9 DEF FastLoad, AfterPush
    <2> QED BY <1>8, <2>1, <2>2
<1>10. ASSUME NEW s \in Senders, FastTrySend(s) PROVE SenderSide'
    <2>1. "count" \in SenderAt /\ "complete" \in SenderAt BY DEF SenderAt
    <2>2. /\ sender[s].at # "idle" /\ UNCHANGED <<config, calls, seen, repeats, mailFaults>>
          /\ \/ AnswerFull(s) \/ AnswerDropped(s)
             \/ (Go(s, "count") \/ Go(s, "complete")) /\ UNCHANGED <<answered, refused>>
        BY <1>10, TrySendFacts DEF AfterPush
    <2> QED BY <1>8, <2>1, <2>2
<1>11. ASSUME NEW s \in Senders, Push(s) PROVE SenderSide'
    <2>1. "count" \in SenderAt BY DEF SenderAt
    <2>2. /\ sender[s].at # "idle" /\ UNCHANGED <<config, calls, seen, repeats, mailFaults>>
          /\ \/ AnswerFull(s) \/ AnswerDropped(s)
             \/ Go(s, "count") /\ UNCHANGED <<answered, refused>>
        BY <1>11, PushFacts DEF AfterPush, Pushed
    <2> QED BY <1>8, <2>1, <2>2
<1>12. ASSUME NEW s \in Senders, Count(s) PROVE SenderSide'
    <2>1. /\ sender[s].at = "count" /\ UNCHANGED <<config, calls, seen, refused, repeats, mailFaults>>
          /\ \/ Go(s, "complete") /\ UNCHANGED answered
             \/ Return(s) /\ answered' = answered \union {sender[s].m}
        BY <1>12 DEF Count, AfterCount, Finish
    <2>2. "complete" \in SenderAt /\ sender[s].m \in Letters
        BY <2>1, SenderFacts DEF SenderAt
    <2>3. sender' \in [Senders -> SenderState] /\ answered' \subseteq Letters
        BY <1>0, <2>1, <2>2, SenderMoves DEF SenderSide
    <2> QED BY <1>0, <2>1, <2>3 DEF SenderSide
<1>13. ASSUME NEW s \in Senders, Complete(s) PROVE SenderSide'
    <2>1. /\ sender[s].at = "complete" /\ UNCHANGED <<config, calls, refused, repeats, mailFaults>>
          /\ Return(s) /\ answered' = answered \union {sender[s].m}
          /\ seen' = [seen EXCEPT ![KeyOf[sender[s].m]] = IF @ = "none" THEN @ ELSE "complete"]
        BY <1>13 DEF Complete, AfterCount, Finish
    <2>2. sender[s].m \in Letters
        BY <2>1, SenderFacts
    <2>3. sender' \in [Senders -> SenderState] /\ answered' \subseteq Letters
        BY <1>0, <2>1, <2>2, SenderMoves DEF SenderSide
    <2>4. seen' \in [Keys -> {"none", "in_flight", "complete"}]
        BY <1>0, <2>1 DEF SenderSide
    <2> QED BY <1>0, <2>1, <2>3, <2>4 DEF SenderSide
<1>14. ASSUME NEW k \in Keys, Evict(k) PROVE SenderSide'
    BY <1>0, <1>14 DEF Evict, SenderSide
<1>15. CASE \/ ProcessorStep \/ PumpReceive \/ PumpAwait \/ PumpForward \/ PumpAck \/ Receive \/ Processed
            \/ ActorStops \/ BeginShutdown \/ CloseChannel
    <2>1. UNCHANGED <<config, sender, calls, seen, answered, refused, repeats, mailFaults>>
        BY <1>15 DEF ProcessorStep, ProcessorCheck, ProcessorAwait, ProcessorDrain, ProcessorSend,
              PumpReceive, PumpAwait, PumpForward, PumpAck, Receive, Processed, ActorStops, BeginShutdown, CloseChannel,
              SenderVars
    <2> QED BY <1>0, <2>1 DEF SenderSide
<1>16. CASE Crash
    <2>1. sender' \in [Senders -> SenderState] /\ repeats' = Keys
        BY <1>0, <1>16, MailFacts DEF Crash, Built
    <2>2. mailFaults' \in 0..MaxMailFaults
        BY <1>0, <1>16, MailboxAssumption DEF Crash, SenderSide
    <2>3. seen' \in [Keys -> {"none", "in_flight", "complete"}] /\ UNCHANGED <<config, calls, answered, refused>>
        BY <1>16 DEF Crash
    <2> QED BY <1>0, <2>1, <2>2, <2>3 DEF SenderSide
<1>17. CASE PumpAckFails \/ Nacked
    <2>1. /\ UNCHANGED <<config, sender, calls, seen, answered, refused>>
          /\ repeats' \subseteq Keys /\ mailFaults' \in 0..MaxMailFaults
        <3>1. CASE PumpAckFails
            <4>1. mailFaults' \in 0..MaxMailFaults
                BY <1>0, <3>1, MailboxAssumption DEF PumpAckFails, SenderSide
            <4>2. repeats' \subseteq Keys BY <3>1, AckFailsFacts, AgainFacts
            <4> QED BY <3>1, <4>1, <4>2, QuietFacts
        <3>2. CASE Nacked
            <4>1. mailFaults' \in 0..MaxMailFaults
                BY <1>0, <3>2, MailboxAssumption DEF Nacked, SenderSide
            <4>2. repeats' \subseteq Keys BY <1>0, <3>2, NackFacts, AgainFacts DEF SenderSide, TakenBack
            <4> QED BY <3>2, <4>1, <4>2, QuietFacts
        <3> QED BY <1>17, <3>1, <3>2
    <2> QED BY <1>0, <2>1 DEF SenderSide
<1> QED BY <1>3, <1>4, <1>5, <1>6, <1>7, <1>9, <1>10, <1>11, <1>12, <1>13, <1>14, <1>15, <1>16, <1>17
        DEF MailNext, EnqueueSteps, PumpStep, ActorStep

\* What fetch_add and fetch_sub give is a usize.
LEMMA WordFacts ==
    /\ Word \in Nat /\ Word >= 2 /\ 1 \in 0..(Word - 1) /\ 0 \in 0..(Word - 1)
    /\ \A n, k \in Int : Minus(n, k) \in 0..(Word - 1) /\ Plus(n, k) \in 0..(Word - 1)
<1>1. Word \in Nat /\ Word >= 2
    BY WordAssumption
<1>2. \A x \in Int : x % Word \in 0..(Word - 1)
    BY <1>1
<1> QED BY <1>1, <1>2 DEF Minus, Plus

\* The queues, the rows and the counter keep their types.
LEMMA QueueSideStep ==
    ASSUME MailSteps, MailNext
    PROVE  QueueSide'
<1>0. MailTypeOK /\ QueueSide BY MailSides DEF MailSteps
<1>1. <<>> \in Seq(Letters) /\ <<>> \in Seq(Row) OBVIOUS
<1>2. depth \in Int /\ Len(iq) \in Int /\ 0 \in 0..(Word - 1) /\ 1 \in Int
    BY <1>0, MailFacts, WordFacts
<1>3. ASSUME NEW s \in Senders, NEW m \in Letters,
             EnqueueRefused(s, m) \/ EnqueuePlain(s, m) \/ EnqueueFirstSeen(s, m) \/ EnqueueDuplicate(s, m)
      PROVE  QueueSide'
    <2>1. UNCHANGED <<iq, batch, inbox, table, fetched, depth, received, gone, drift>>
        BY <1>3 DEF EnqueueRefused, EnqueuePlain, EnqueueFirstSeen, EnqueueDuplicate, AfterBegin
    <2> QED BY <1>0, <2>1 DEF QueueSide
<1>4. ASSUME NEW s \in Senders, NEW m \in Letters, EnqueueOverwrite(s, m) PROVE QueueSide'
    <2>1. /\ iq' \in Seq(Letters) /\ depth' = Minus(depth, Len(iq) - Len(iq')) /\ gone' \subseteq Letters
          /\ UNCHANGED <<batch, inbox, table, fetched, received, drift>>
        BY <1>4, OverwriteFacts DEF AfterBegin
    <2>2. depth' \in 0..(Word - 1)
        <3>0. Len(iq') \in Int BY <2>1, LenProperties
        <3>1. Len(iq) - Len(iq') \in Int BY <1>2, <3>0
        <3> QED BY <1>2, <2>1, <3>1, WordFacts
    <2> QED BY <1>0, <2>1, <2>2 DEF QueueSide
<1>5. ASSUME NEW s \in Senders, FastLoad(s) PROVE QueueSide'
    <2>1. /\ sender[s].at # "idle" /\ UNCHANGED <<iq, batch, inbox, table, fetched, depth, received, drift>>
          /\ AnswerFull(s) \/ AnswerDropped(s) \/ UNCHANGED gone
        BY <1>5 DEF FastLoad, AfterPush
    <2>2. gone' \subseteq Letters BY <1>0, <2>1, AnswerFacts DEF QueueSide
    <2> QED BY <1>0, <2>1, <2>2 DEF QueueSide
<1>6. ASSUME NEW s \in Senders, FastTrySend(s) PROVE QueueSide'
    <2>1. /\ sender[s].at # "idle" /\ UNCHANGED <<iq, batch, table, fetched, depth, received, drift>>
          /\ \/ inbox' = Append(inbox, sender[s].m) /\ UNCHANGED gone
             \/ (AnswerFull(s) \/ AnswerDropped(s) \/ gone' = gone \union {sender[s].m}) /\ UNCHANGED inbox
        BY <1>6, TrySendFacts DEF AfterPush
    <2>2. sender[s].m \in Letters BY <2>1, SenderFacts
    <2>3. gone' \subseteq Letters BY <1>0, <2>1, <2>2, AnswerFacts DEF QueueSide
    <2>4. inbox' \in Seq(Letters)
        <3>1. inbox \in Seq(Letters) BY <1>0 DEF QueueSide
        <3>2. Append(inbox, sender[s].m) \in Seq(Letters) BY <2>2, <3>1, AppendFacts
        <3> QED BY <2>1, <3>1, <3>2
    <2> QED BY <1>0, <2>1, <2>3, <2>4 DEF QueueSide
<1>7. ASSUME NEW s \in Senders, Push(s) PROVE QueueSide'
    <2>1. sender[s].at # "idle" /\ UNCHANGED <<batch, inbox, table, fetched, received>>
        BY <1>7, PushFacts DEF AfterPush
    <2>2. CASE \E rest \in Seq(Letters) : Pushed(s, rest)
        <3>1. /\ iq' \in Seq(Letters) /\ gone' \subseteq Letters
              /\ depth' = depth \/ depth' = Minus(depth, 1)
              /\ drift' \subseteq drift \union {"oldest"}
            BY <2>2 DEF Pushed
        <3>2. depth' \in 0..(Word - 1) BY <1>0, <1>2, <3>1, WordFacts DEF QueueSide
        <3> QED BY <1>0, <2>1, <3>1, <3>2 DEF QueueSide, MayDrift
    <2>3. CASE (AnswerFull(s) \/ AnswerDropped(s)) /\ UNCHANGED <<iq, depth, drift>>
        <3>1. gone' \subseteq Letters BY <2>1, <2>3, AnswerFacts
        <3> QED BY <1>0, <2>1, <2>3, <3>1 DEF QueueSide
    <2> QED BY <1>7, <2>2, <2>3, PushFacts
<1>8. ASSUME NEW s \in Senders, Count(s) PROVE QueueSide'
    <2>1. depth' = Plus(depth, 1) /\ UNCHANGED <<iq, batch, table, fetched, inbox, received, gone, drift>>
        BY <1>8 DEF Count, AfterCount
    <2>2. depth' \in 0..(Word - 1) BY <1>2, <2>1, WordFacts
    <2> QED BY <1>0, <2>1, <2>2 DEF QueueSide
<1>9. ASSUME NEW s \in Senders, Complete(s) PROVE QueueSide'
    BY <1>0, <1>9 DEF Complete, AfterCount, QueueSide
<1>10. ASSUME NEW k \in Keys, Evict(k) PROVE QueueSide'
    BY <1>0, <1>10 DEF Evict, QueueSide
<1>11. CASE ProcessorCheck \/ ProcessorAwait \/ PumpAwait \/ BeginShutdown \/ CloseChannel
    <2>1. UNCHANGED <<iq, batch, inbox, table, fetched, depth, received, gone, drift>>
        BY <1>11 DEF ProcessorCheck, ProcessorAwait, PumpAwait, BeginShutdown, CloseChannel
    <2> QED BY <1>0, <2>1 DEF QueueSide
<1>12. CASE ProcessorDrain
    BY <1>0, <1>1, <1>12 DEF ProcessorDrain, QueueSide
<1>13. CASE ProcessorSend
    <2>1. batch # <<>> /\ batch \in Seq(Letters) /\ inbox \in Seq(Letters) /\ UNCHANGED <<iq, fetched, depth, received>>
        BY <1>0, <1>13, SendFacts DEF ProcessorRest, QueueSide
    <2>2. Head(batch) \in Letters /\ Tail(batch) \in Seq(Letters) /\ Append(inbox, Head(batch)) \in Seq(Letters)
        BY <2>1, EndFacts, AppendFacts
    <2>3. /\ batch' = Tail(batch) \/ batch' = <<>>
          /\ inbox' = inbox \/ inbox' = Append(inbox, Head(batch))
          /\ gone' \subseteq Letters /\ drift' \subseteq drift \union {"vanished"}
          /\ table' = table \/ table' \in Seq(Row)
        BY <1>13, SendFacts DEF SentToActor, SentToTable, SentNowhere, ProcessorEnds, SentOn
    <2>4. drift' \subseteq MayDrift BY <1>0, <2>3 DEF QueueSide, MayDrift
    <2>5. batch' \in Seq(Letters) /\ inbox' \in Seq(Letters) BY <1>1, <2>1, <2>2, <2>3
    <2>6. table' \in Seq(Row) BY <1>0, <2>3 DEF QueueSide
    <2> QED BY <1>0, <2>1, <2>3, <2>4, <2>5, <2>6 DEF QueueSide
<1>14. CASE PumpReceive
    BY <1>0, <1>14 DEF PumpReceive, QueueSide
<1>15. CASE PumpForward
    <2>1. fetched # <<>> /\ fetched \in Seq(Row) /\ inbox \in Seq(Letters)
        BY <1>0, <1>15 DEF PumpForward, MailSteps, TasksInStep, QueueSide
    <2>2. Head(fetched).body \in Letters BY <1>0, <2>1, EndFacts, MailFacts
    <2>3. inbox' \in Seq(Letters)
        <3>1. PICK b : b = Head(fetched).body OBVIOUS
        <3>2. Append(inbox, b) \in Seq(Letters) BY <2>1, <2>2, <3>1, AppendFacts
        <3>3. inbox' = Append(inbox, b) \/ inbox' = inbox BY <1>15, <3>1 DEF PumpForward
        <3> QED BY <2>1, <3>2, <3>3
    <2> QED BY <1>0, <1>15, <2>3 DEF PumpForward, QueueSide
<1>16. CASE PumpAck
    <2>1. /\ table' \in Seq(Row) /\ gone' \subseteq Letters /\ fetched # <<>> /\ fetched' = Tail(fetched)
          /\ fetched \in Seq(Row)
        BY <1>0, <1>16, PumpAckFacts DEF QueueSide, AckOf
    <2>2. fetched' \in Seq(Row) BY <2>1, EndFacts
    <2>3. UNCHANGED <<iq, batch, inbox, depth, received, drift>> BY <1>16 DEF PumpAck
    <2> QED BY <1>0, <2>1, <2>2, <2>3 DEF QueueSide
<1>17. CASE Receive
    <2>1. /\ inbox # <<>> /\ inbox' = Tail(inbox) /\ inbox \in Seq(Letters)
          /\ received' = [received EXCEPT ![Head(inbox)] = @ + 1] /\ depth' = Minus(depth, 1)
          /\ UNCHANGED <<iq, batch, table, fetched, gone, drift>>
        BY <1>0, <1>17 DEF Receive, QueueSide
    <2>2. inbox' \in Seq(Letters) /\ Head(inbox) \in Letters BY <2>1, EndFacts
    <2>3. received' \in [Letters -> Nat] BY <1>0, <2>1, <2>2 DEF QueueSide
    <2>4. depth' \in 0..(Word - 1) BY <1>2, <2>1, WordFacts
    <2> QED BY <1>0, <2>1, <2>2, <2>3, <2>4 DEF QueueSide
<1>18. CASE ActorStops
    <2>1. inbox' = <<>> /\ gone' = gone \union ToSet(inbox) /\ drift' \subseteq drift \union {"vanished"}
          /\ UNCHANGED <<iq, batch, table, fetched, depth, received>>
        BY <1>18 DEF ActorStops
    <2>2. ToSet(inbox) \subseteq Letters
        <3>1. inbox \in Seq(Letters) BY <1>0 DEF QueueSide
        <3> QED BY <3>1, LenProperties DEF ToSet
    <2> QED BY <1>0, <1>1, <2>1, <2>2 DEF QueueSide, MayDrift
<1>19. CASE Crash
    <2>1. /\ iq' = <<>> /\ batch' = <<>> /\ fetched' = <<>> /\ inbox' = <<>> /\ depth' = 0
          /\ gone' = gone \union (ToSet(iq) \union ToSet(batch) \union ToSet(inbox)
                                        \union ({sender[s].m : s \in Senders} \ {NoLetter}))
          /\ drift' \subseteq drift \union {"recovered"} /\ UNCHANGED <<table, received>>
        BY <1>19 DEF Crash, Built
    <2>2. ToSet(iq) \subseteq Letters /\ ToSet(batch) \subseteq Letters /\ ToSet(inbox) \subseteq Letters
        <3>1. iq \in Seq(Letters) /\ batch \in Seq(Letters) /\ inbox \in Seq(Letters) BY <1>0 DEF QueueSide
        <3> QED BY <3>1, LenProperties DEF ToSet
    <2>3. {sender[s].m : s \in Senders} \ {NoLetter} \subseteq Letters
        <3>1. sender \in [Senders -> SenderState] BY <1>0, MailFacts
        <3> QED BY <3>1 DEF SenderState
    <2>4. gone' \subseteq Letters BY <1>0, <2>1, <2>2, <2>3 DEF QueueSide
    <2> QED BY <1>0, <1>1, <1>2, <2>1, <2>4 DEF QueueSide, MayDrift
<1>20. CASE PumpAckFails
    <2>1. /\ fetched # <<>> /\ fetched' = Tail(fetched) /\ fetched \in Seq(Row) /\ drift' = drift \union {"repeated"}
          /\ UNCHANGED <<iq, batch, inbox, depth, received, table, gone>>
        BY <1>0, <1>20, AckFailsFacts, QuietFacts DEF QueueSide, GivenAgain, NextFetched
    <2>2. fetched' \in Seq(Row) BY <2>1, EndFacts
    <2> QED BY <1>0, <2>1, <2>2 DEF QueueSide, MayDrift
<1>21. CASE Processed
    <2>1. table' \in Seq(Row) /\ gone' \subseteq Letters /\ UNCHANGED <<iq, batch, inbox, depth, received, fetched, drift>>
        BY <1>0, <1>21, ProcessedFacts, QuietFacts DEF QueueSide, AckOf
    <2> QED BY <1>0, <2>1 DEF QueueSide
<1>22. CASE Nacked
    <2>1. /\ table' \in Seq(Row) /\ drift' \subseteq drift \union {"repeated"}
          /\ UNCHANGED <<iq, batch, inbox, depth, received, fetched, gone>>
        BY <1>0, <1>22, NackFacts, QuietFacts DEF QueueSide, TakenBack, GivenAgain
    <2> QED BY <1>0, <2>1 DEF QueueSide, MayDrift
<1> QED BY <1>3, <1>4, <1>5, <1>6, <1>7, <1>8, <1>9, <1>10, <1>11, <1>12, <1>13, <1>14, <1>15, <1>16, <1>17,
           <1>18, <1>19, <1>20, <1>21, <1>22
        DEF MailNext, EnqueueSteps, ProcessorStep, PumpStep, ActorStep

\* The tasks keep their types.
LEMMA TaskSideStep ==
    ASSUME MailSteps, MailNext
    PROVE  TaskSide'
<1>0. MailTypeOK /\ TaskSide BY MailSides DEF MailSteps
<1>1. waiting \in Seq({"processor", "pump"}) BY <1>0 DEF TaskSide
<1>2. Append(waiting, "processor") \in Seq({"processor", "pump"}) /\ Append(waiting, "pump") \in Seq({"processor", "pump"})
    BY <1>1, AppendFacts
<1>3. ASSUME UNCHANGED <<processor, pump, permit, waiting, mode, alive>> PROVE TaskSide'
    BY <1>0, <1>3 DEF TaskSide
<1>4. ASSUME NEW s \in Senders, NEW m \in Letters,
             \/ EnqueueRefused(s, m) \/ EnqueuePlain(s, m) \/ EnqueueFirstSeen(s, m) \/ EnqueueDuplicate(s, m)
             \/ EnqueueOverwrite(s, m)
      PROVE  TaskSide'
    <2>1. UNCHANGED <<processor, pump, permit, waiting, mode, alive>>
        BY <1>4 DEF EnqueueRefused, EnqueuePlain, EnqueueFirstSeen, EnqueueDuplicate, EnqueueOverwrite, AfterBegin
    <2> QED BY <1>3, <2>1
<1>5. ASSUME NEW s \in Senders, FastLoad(s) \/ FastTrySend(s) \/ Push(s) PROVE TaskSide'
    <2>1. UNCHANGED <<processor, pump, permit, waiting, mode, alive>>
        BY <1>5 DEF FastLoad, FastTrySend, Push, AfterPush
    <2> QED BY <1>3, <2>1
<1>6. ASSUME NEW s \in Senders, Count(s) \/ Complete(s) PROVE TaskSide'
    <2>1. UNCHANGED <<mode, alive>> /\ (NotifyOne \/ UNCHANGED <<permit, waiting, processor, pump>>)
        BY <1>6 DEF Count, Complete, Finish, AfterCount
    <2> QED BY <1>0, <2>1, NotifyTypes DEF TaskSide
<1>7. ASSUME NEW k \in Keys, Evict(k) PROVE TaskSide'
    BY <1>0, <1>7 DEF Evict, TaskSide
<1>8. CASE ProcessorCheck \/ ProcessorAwait \/ ProcessorDrain
    <2>1. UNCHANGED <<pump, mode, alive>> BY <1>8 DEF ProcessorCheck, ProcessorAwait, ProcessorDrain
    <2>2. processor' \in {"check", "await", "waiting", "drain", "send", "exited"}
        BY <1>8 DEF ProcessorCheck, ProcessorAwait, ProcessorDrain
    <2>3. permit' \in BOOLEAN /\ waiting' \in Seq({"processor", "pump"})
        BY <1>0, <1>2, <1>8 DEF ProcessorCheck, ProcessorAwait, ProcessorDrain, TaskSide
    <2> QED BY <1>0, <2>1, <2>2, <2>3 DEF TaskSide
<1>9. CASE ProcessorSend
    <2>1. UNCHANGED <<pump, permit, waiting, mode, alive>> /\ processor' \in {"check", "send", "exited"}
        BY <1>9, SendFacts DEF ProcessorRest, SentToActor, SentToTable, SentNowhere, ProcessorEnds, SentOn
    <2> QED BY <1>0, <2>1 DEF TaskSide
<1>10. CASE PumpStep
    <2>1. UNCHANGED <<processor, mode, alive>>
        BY <1>10 DEF PumpStep, PumpReceive, PumpAwait, PumpForward, PumpAck, PumpAckFails, NextFetched
    <2>2. pump' \in {"receive", "await", "waiting", "forward", "ack", "exited"}
        BY <1>10 DEF PumpStep, PumpReceive, PumpAwait, PumpForward, PumpAck, PumpAckFails, NextFetched
    <2>3. permit' \in BOOLEAN /\ waiting' \in Seq({"processor", "pump"})
        BY <1>0, <1>2, <1>10 DEF PumpStep, PumpReceive, PumpAwait, PumpForward, PumpAck, PumpAckFails, NextFetched, TaskSide
    <2> QED BY <1>0, <2>1, <2>2, <2>3 DEF TaskSide
<1>11. CASE ActorStep \/ ActorStops \/ BeginShutdown \/ CloseChannel
    <2>1. UNCHANGED <<processor, pump, permit, waiting>> /\ alive' \in BOOLEAN /\ mode' \in {"open", "closing", "closed"}
        BY <1>0, <1>11 DEF ActorStep, Receive, Processed, Nacked, ActorStops, BeginShutdown, CloseChannel, TaskSide
    <2> QED BY <1>0, <2>1 DEF TaskSide
<1>12. CASE Crash
    <2>1. <<>> \in Seq({"processor", "pump"}) OBVIOUS
    <2>2. processor' \in {"check", "exited"} /\ pump' \in {"receive", "exited"}
          /\ permit' = FALSE /\ waiting' = <<>> /\ mode' = "open" /\ alive' = TRUE
        BY <1>12 DEF Crash, Built
    <2> QED BY <2>1, <2>2 DEF TaskSide
<1> QED BY <1>4, <1>5, <1>6, <1>7, <1>8, <1>9, <1>10, <1>11, <1>12
        DEF MailNext, EnqueueSteps, ProcessorStep

\* Most steps leave the messages of the rows alone.
LEMMA RowVarsStay ==
    ASSUME MailNext, ~PumpForward, ~PumpAck, ~Receive, ~Processed, ~Nacked, ~ActorStops, ~Crash
    PROVE  UNCHANGED <<ids, working, acked, tries>>
<1>1. ASSUME NEW s \in Senders, NEW m \in Letters,
             \/ EnqueueRefused(s, m) \/ EnqueuePlain(s, m) \/ EnqueueFirstSeen(s, m) \/ EnqueueDuplicate(s, m)
             \/ EnqueueOverwrite(s, m)
      PROVE  UNCHANGED <<ids, working, acked, tries>>
    BY <1>1 DEF EnqueueRefused, EnqueuePlain, EnqueueFirstSeen, EnqueueDuplicate, EnqueueOverwrite, AfterBegin, RowVars
<1>2. ASSUME NEW s \in Senders, FastLoad(s) \/ FastTrySend(s) \/ Push(s) \/ Count(s) \/ Complete(s)
      PROVE  UNCHANGED <<ids, working, acked, tries>>
    BY <1>2 DEF FastLoad, FastTrySend, Push, Count, Complete, AfterPush, AfterCount, RowVars
<1>3. ASSUME NEW k \in Keys, Evict(k) PROVE UNCHANGED <<ids, working, acked, tries>>
    BY <1>3 DEF Evict, RowVars
<1>4. CASE ProcessorStep \/ PumpReceive \/ PumpAwait \/ PumpAckFails \/ BeginShutdown \/ CloseChannel
    BY <1>4 DEF ProcessorStep, ProcessorCheck, ProcessorAwait, ProcessorDrain, ProcessorSend, PumpReceive, PumpAwait,
          PumpAckFails, BeginShutdown, CloseChannel, RowVars
<1> QED BY <1>1, <1>2, <1>3, <1>4 DEF MailNext, EnqueueSteps, PumpStep, ActorStep

\* The messages of the rows keep their types.
LEMMA RowSideStep ==
    ASSUME MailSteps, MailNext
    PROVE  RowSide'
<1>0. MailTypeOK /\ RowSide BY MailSides DEF MailSteps
<1>1. <<>> \in Seq(Letters) OBVIOUS
<1>2. CASE ~PumpForward /\ ~PumpAck /\ ~Receive /\ ~Processed /\ ~Nacked /\ ~ActorStops /\ ~Crash
    BY <1>0, <1>2, RowVarsStay DEF RowSide
<1>3. CASE PumpForward
    <2>1. fetched # <<>> /\ fetched \in Seq(Row) /\ ids \in Seq(Letters)
        BY <1>0, <1>3 DEF PumpForward, MailSteps, TasksInStep, MailTypeOK
    <2>2. Head(fetched).id \in Letters BY <1>0, <2>1, EndFacts, MailFacts
    <2>3. Append(ids, Head(fetched).id) \in Seq(Letters) BY <2>1, <2>2, AppendFacts
    <2>4. ids' = ids \/ ids' = Append(ids, Head(fetched).id) BY <1>3 DEF PumpForward
    <2>5. ids' \in Seq(Letters) BY <2>1, <2>3, <2>4
    <2> QED BY <1>0, <1>3, <2>5 DEF PumpForward, RowSide
<1>4. CASE PumpAck
    <2>1. acked' \subseteq Row /\ UNCHANGED <<ids, working, tries>> BY <1>4, PumpAckFacts DEF AckOf, PumpAck
    <2> QED BY <1>0, <2>1 DEF RowSide
<1>5. CASE Receive
    <2>1. inbox # <<>> /\ inbox \in Seq(Letters) /\ ids \in Seq(Letters) BY <1>0, <1>5 DEF Receive, MailTypeOK
    <2>2. Head(inbox) \in Letters BY <2>1, EndFacts
    <2>3. CASE Running("durable")
        <3>1. working' = [id |-> Head(ids), body |-> Head(inbox)] /\ ids' = Tail(ids) /\ UNCHANGED <<acked, tries>>
            BY <1>5, <2>3 DEF Receive
        <3>2. ids # <<>>
            <4>1. Len(ids) = Len(inbox) BY <2>3 DEF MailSteps, HandedOver
            <4> QED BY <2>1, <4>1, NoneSet
        <3>3. Head(ids) \in Letters /\ Tail(ids) \in Seq(Letters) BY <2>1, <3>2, EndFacts
        <3>4. working' \in Row BY <2>2, <3>1, <3>3 DEF Row
        <3> QED BY <1>0, <3>1, <3>3, <3>4 DEF RowSide
    <2>4. CASE ~Running("durable")
        BY <1>0, <1>5, <2>4 DEF Receive, RowSide
    <2> QED BY <2>3, <2>4
<1>6. CASE Processed
    <2>1. acked' \subseteq Row /\ working' = NoRow /\ UNCHANGED <<ids, tries>>
        BY <1>0, <1>6, ProcessedFacts, QuietFacts DEF AckOf, RowSide
    <2> QED BY <1>0, <2>1 DEF RowSide
<1>7. CASE Nacked
    <2>1. /\ acked' \subseteq Row /\ working' = NoRow /\ UNCHANGED ids
          /\ tries' = [tries EXCEPT ![working.id] = @ + 1] /\ tries[working.id] < MaxRedeliveries
        BY <1>0, <1>7, NackFacts, QuietFacts DEF TakenBack, RowSide
    <2>2. tries' \in [Letters -> 0..MaxRedeliveries]
        <3>1. working.id \in Letters BY <1>7, NackFacts DEF Row
        <3>2. tries \in [Letters -> 0..MaxRedeliveries] /\ MaxRedeliveries \in Nat
            BY <1>0, MailboxAssumption DEF RowSide
        <3>3. tries[working.id] + 1 \in 0..MaxRedeliveries BY <2>1, <3>1, <3>2
        <3> QED BY <2>1, <3>1, <3>2, <3>3
    <2> QED BY <1>0, <2>1, <2>2 DEF RowSide
<1>8. CASE ActorStops
    BY <1>0, <1>1, <1>8 DEF ActorStops, RowSide
<1>9. CASE Crash
    BY <1>0, <1>1, <1>9 DEF Crash, Built, RowSide
<1> QED BY <1>2, <1>3, <1>4, <1>5, <1>6, <1>7, <1>8, <1>9

\* Every step keeps the types.
LEMMA MailTypeStep ==
    ASSUME MailSteps, MailNext
    PROVE  MailTypeOK'
<1>1. SenderSide' /\ QueueSide' /\ TaskSide' /\ RowSide'
    BY SenderSideStep, QueueSideStep, TaskSideStep, RowSideStep
<1> QED BY <1>1 DEF MailTypeOK, SenderSide, QueueSide, TaskSide, RowSide, MayDrift, SenderState, SenderAt

\* No step changes the configuration or takes back a reason for drift.
LEMMA DriftGrows ==
    ASSUME MailSteps, MailNext
    PROVE  drift \subseteq drift' /\ UNCHANGED config
<1>1. ASSUME NEW s \in Senders, NEW m \in Letters,
             \/ EnqueueRefused(s, m) \/ EnqueuePlain(s, m) \/ EnqueueFirstSeen(s, m) \/ EnqueueDuplicate(s, m)
             \/ EnqueueOverwrite(s, m)
      PROVE  UNCHANGED <<drift, config>>
    BY <1>1, OverwriteFacts DEF EnqueueRefused, EnqueuePlain, EnqueueFirstSeen, EnqueueDuplicate, AfterBegin
<1>2. ASSUME NEW s \in Senders, FastLoad(s) \/ FastTrySend(s) \/ Count(s) \/ Complete(s)
      PROVE  UNCHANGED <<drift, config>>
    BY <1>2 DEF FastLoad, FastTrySend, Count, Complete, AfterPush, AfterCount
<1>3. ASSUME NEW s \in Senders, Push(s) PROVE drift \subseteq drift' /\ UNCHANGED config
    BY <1>3, PushFacts DEF Pushed, AfterPush
<1>4. ASSUME NEW k \in Keys, Evict(k) PROVE UNCHANGED <<drift, config>>
    BY <1>4 DEF Evict
<1>5. CASE ProcessorSend
    BY <1>5, SendFacts DEF ProcessorRest, SenderVars, SentToActor, SentToTable, SentNowhere, ProcessorEnds
<1>6. CASE ActorStops \/ Crash
    BY <1>6 DEF ActorStops, Crash, SenderVars
<1>7. CASE \/ ProcessorCheck \/ ProcessorAwait \/ ProcessorDrain \/ PumpReceive \/ PumpAwait \/ PumpForward \/ PumpAck
           \/ Receive \/ Processed \/ BeginShutdown \/ CloseChannel
    BY <1>7 DEF ProcessorCheck, ProcessorAwait, ProcessorDrain, PumpReceive, PumpAwait, PumpForward, PumpAck, Receive,
          Processed, BeginShutdown, CloseChannel, SenderVars
<1>8. CASE PumpAckFails
    BY <1>8, AckFailsFacts, QuietFacts DEF GivenAgain
<1>9. CASE Nacked
    BY <1>9, NackFacts, QuietFacts DEF GivenAgain, TakenBack
<1> QED BY <1>1, <1>2, <1>3, <1>4, <1>5, <1>6, <1>7, <1>8, <1>9
        DEF MailNext, EnqueueSteps, ProcessorStep, PumpStep, ActorStep

\* ... nor a key that may come twice.
LEMMA RepeatsGrow ==
    ASSUME MailSteps, MailNext
    PROVE  repeats \subseteq repeats'
<1>1. ASSUME NEW s \in Senders, NEW m \in Letters,
             \/ EnqueueRefused(s, m) \/ EnqueuePlain(s, m) \/ EnqueueFirstSeen(s, m) \/ EnqueueDuplicate(s, m)
             \/ EnqueueOverwrite(s, m)
      PROVE  repeats \subseteq repeats'
    BY <1>1, OverwriteFacts DEF EnqueueRefused, EnqueuePlain, EnqueueFirstSeen, EnqueueDuplicate
<1>2. ASSUME NEW s \in Senders, FastLoad(s) \/ FastTrySend(s) \/ Push(s) \/ Count(s) \/ Complete(s)
      PROVE  UNCHANGED repeats
    BY <1>2 DEF FastLoad, FastTrySend, Push, Count, Complete, AfterPush, AfterCount
<1>3. ASSUME NEW k \in Keys, Evict(k) PROVE repeats \subseteq repeats'
    BY <1>3 DEF Evict
<1>4. CASE Crash
    BY <1>4 DEF Crash, MailSteps, MailTypeOK
<1>5. CASE \/ ProcessorStep \/ PumpReceive \/ PumpAwait \/ PumpForward \/ PumpAck \/ Receive \/ Processed
           \/ ActorStops \/ BeginShutdown \/ CloseChannel
    BY <1>5 DEF ProcessorStep, ProcessorCheck, ProcessorAwait, ProcessorDrain, ProcessorSend, PumpReceive, PumpAwait,
          PumpForward, PumpAck, Receive, Processed, ActorStops, BeginShutdown, CloseChannel, SenderVars
<1>6. CASE PumpAckFails
    BY <1>6, AckFailsFacts DEF GivenAgain
<1>7. CASE Nacked
    BY <1>7, NackFacts DEF GivenAgain, TakenBack
<1> QED BY <1>1, <1>2, <1>3, <1>4, <1>5, <1>6, <1>7 DEF MailNext, EnqueueSteps, PumpStep, ActorStep

-----------------------------------------------------------------------------
(* The mailbox: the paths and the tasks.                                   *)

\* A sender between two steps of its call is at a place of its path.
OnPath(s) == sender[s].at # "idle" => sender[s].at \notin (IF Queued THEN {"load", "try"} ELSE {"push"})

\* No call leaves its path.
LEMMA SendersApart ==
    ASSUME MailSteps, MailNext
    PROVE  \A t \in Senders : OnPath(t)'
<1>0. MailTypeOK /\ (\A t \in Senders : OnPath(t)) BY DEF MailSteps, PathsApart, OnPath
<1>1. UNCHANGED config /\ Queued' = Queued
    <2>1. UNCHANGED config BY DriftGrows
    <2> QED BY <2>1, SamePath
<1>2. ASSUME UNCHANGED sender PROVE \A t \in Senders : OnPath(t)'
    BY <1>0, <1>1, <1>2 DEF OnPath
<1>3. ASSUME NEW s \in Senders, \A t \in Senders \ {s} : sender'[t] = sender[t], OnPath(s)'
      PROVE  \A t \in Senders : OnPath(t)'
    BY <1>0, <1>1, <1>3 DEF OnPath
<1>4. ASSUME NEW s \in Senders, NEW m \in Letters, NEW record \in BOOLEAN, ToQueue(s, m, record)
      PROVE  \A t \in Senders : OnPath(t)'
    <2>1. /\ sender'[s].at = (IF Queued THEN "push" ELSE "load")
          /\ \A t \in Senders \ {s} : sender'[t] = sender[t]
        BY <1>0, <1>4, SenderMoves
    <2>2. OnPath(s)' BY <1>1, <2>1 DEF OnPath
    <2> QED BY <1>3, <2>1, <2>2
<1>5. ASSUME NEW s \in Senders, Return(s) PROVE \A t \in Senders : OnPath(t)'
    <2>1. sender'[s].at = "idle" /\ \A t \in Senders \ {s} : sender'[t] = sender[t]
        BY <1>0, <1>5, SenderMoves DEF Idle
    <2>2. OnPath(s)' BY <2>1 DEF OnPath
    <2> QED BY <1>3, <2>1, <2>2
<1>6. ASSUME NEW s \in Senders, NEW at \in {"count", "complete"}, Go(s, at) PROVE \A t \in Senders : OnPath(t)'
    <2>1. sender'[s].at = at /\ \A t \in Senders \ {s} : sender'[t] = sender[t]
        BY <1>0, <1>6, SenderMoves DEF SenderAt
    <2>2. OnPath(s)' BY <2>1 DEF OnPath
    <2> QED BY <1>3, <2>1, <2>2
<1>7. ASSUME NEW s \in Senders, NEW m \in Letters,
             \/ EnqueueRefused(s, m) \/ EnqueuePlain(s, m) \/ EnqueueFirstSeen(s, m) \/ EnqueueDuplicate(s, m)
             \/ EnqueueOverwrite(s, m)
      PROVE  \A t \in Senders : OnPath(t)'
    <2>1. UNCHANGED sender \/ ToQueue(s, m, TRUE) \/ ToQueue(s, m, FALSE)
        BY <1>7, OverwriteFacts DEF EnqueueRefused, EnqueuePlain, EnqueueFirstSeen, EnqueueDuplicate
    <2> QED BY <1>2, <1>4, <2>1
<1>8. ASSUME NEW s \in Senders, FastLoad(s) PROVE \A t \in Senders : OnPath(t)'
    <2>1. sender[s].at = "load" /\ (Return(s) \/ Go(s, "try"))
        BY <1>8 DEF FastLoad, AnswerFull, AnswerDropped
    <2>2. ASSUME Go(s, "try") PROVE \A t \in Senders : OnPath(t)'
        <3>1. sender'[s].at = "try" /\ \A t \in Senders \ {s} : sender'[t] = sender[t]
            BY <1>0, <2>2, SenderMoves DEF SenderAt
        <3>2. OnPath(s)' BY <1>0, <1>1, <2>1, <3>1 DEF OnPath
        <3> QED BY <1>3, <3>1, <3>2
    <2> QED BY <1>5, <2>1, <2>2
<1>9. ASSUME NEW s \in Senders, FastTrySend(s) \/ Push(s) \/ Count(s) \/ Complete(s)
      PROVE  \A t \in Senders : OnPath(t)'
    <2>1. Return(s) \/ Go(s, "count") \/ Go(s, "complete")
        <3>1. CASE FastTrySend(s) BY <3>1, TrySendFacts DEF AnswerFull, AnswerDropped
        <3>2. CASE Push(s) BY <3>2, PushFacts DEF AnswerFull, AnswerDropped, Pushed
        <3>3. CASE Count(s) \/ Complete(s) BY <3>3 DEF Count, Complete, Finish
        <3> QED BY <1>9, <3>1, <3>2, <3>3
    <2> QED BY <1>5, <1>6, <2>1
<1>10. ASSUME NEW k \in Keys, Evict(k) PROVE \A t \in Senders : OnPath(t)'
    BY <1>2, <1>10 DEF Evict
<1>11. CASE ProcessorStep \/ PumpStep \/ ActorStep \/ ActorStops \/ BeginShutdown \/ CloseChannel
    <2>1. UNCHANGED sender
        BY <1>11 DEF ProcessorStep, PumpStep, ProcessorCheck, ProcessorAwait, ProcessorDrain, ProcessorSend,
              PumpReceive, PumpAwait, PumpForward, PumpAck, PumpAckFails, ActorStep, Receive, Processed, Nacked, ActorStops,
              BeginShutdown, CloseChannel, SenderVars
    <2> QED BY <1>2, <2>1
<1>12. CASE Crash
    <2>1. \A t \in Senders : sender'[t].at = "idle" BY <1>12 DEF Crash, Built, Idle
    <2> QED BY <2>1 DEF OnPath
<1> QED BY <1>7, <1>8, <1>9, <1>10, <1>11, <1>12 DEF MailNext, EnqueueSteps

\* The list of the tasks that wait on the Notify.
WaitersWait(list, prc, pmp) ==
    /\ \A i \in 1..Len(list) : list[i] = "processor" => prc = "waiting"
    /\ \A i \in 1..Len(list) : list[i] = "pump" => pmp = "waiting"
    /\ \A i, j \in 1..Len(list) : list[i] = list[j] => i = j

\* notify_one() moves nobody but the first that waits.
LEMMA NotifyFacts ==
    ASSUME MailSteps, NotifyOne
    PROVE  /\ processor' = processor \/ (processor = "waiting" /\ processor' = "drain")
           /\ pump' = pump \/ (pump = "waiting" /\ pump' = "receive")
           /\ WaitersWait(waiting, processor, pump)'
<1>0. MailTypeOK /\ WaitersWait(waiting, processor, pump) BY DEF MailSteps, TasksInStep, WaitersWait
<1>1. CASE waiting = <<>>
    BY <1>0, <1>1 DEF NotifyOne, WaitersWait
<1>2. CASE waiting # <<>>
    <2>1. waiting \in Seq({"processor", "pump"}) BY <1>0 DEF MailTypeOK
    <2>2. PICK rest : rest = Tail(waiting) OBVIOUS
    <2>3. /\ Len(waiting) \in Nat \ {0} /\ Head(waiting) = waiting[1] /\ Len(rest) = Len(waiting) - 1
          /\ \A i \in 1..Len(waiting) - 1 : rest[i] = waiting[i + 1]
          /\ Head(waiting) \in {"processor", "pump"}
        BY <1>2, <2>1, <2>2, EndFacts
    <2>4. 1 \in 1..Len(waiting) /\ \A i \in 1..Len(rest) : i + 1 \in 1..Len(waiting) /\ i + 1 # 1 /\ rest[i] = waiting[i + 1]
        BY <2>3
    <2>5. /\ \A i \in 1..Len(rest) : rest[i] # Head(waiting)
          /\ \A i, j \in 1..Len(rest) : rest[i] = rest[j] => i = j
        <3>1. \A i \in 1..Len(rest) : rest[i] # Head(waiting) BY <1>0, <2>3, <2>4 DEF WaitersWait
        <3>2. ASSUME NEW i \in 1..Len(rest), NEW j \in 1..Len(rest), rest[i] = rest[j] PROVE i = j
            <4>1. i + 1 = j + 1 BY <1>0, <2>4, <3>2 DEF WaitersWait
            <4> QED BY <2>3, <4>1
        <3> QED BY <3>1, <3>2
    <2>6. waiting' = rest BY <1>2, <2>2 DEF NotifyOne
    <2>7. CASE Head(waiting) = "processor"
        <3>1. processor = "waiting" /\ processor' = "drain" /\ pump' = pump
            BY <1>0, <1>2, <2>3, <2>4, <2>7 DEF NotifyOne, WaitersWait
        <3> QED BY <1>0, <2>4, <2>5, <2>6, <2>7, <3>1 DEF WaitersWait
    <2>8. CASE Head(waiting) = "pump"
        <3>1. pump = "waiting" /\ pump' = "receive" /\ processor' = processor
            BY <1>0, <1>2, <2>3, <2>4, <2>8 DEF NotifyOne, WaitersWait
        <3> QED BY <1>0, <2>4, <2>5, <2>6, <2>8, <3>1 DEF WaitersWait
    <2> QED BY <2>3, <2>7, <2>8
<1> QED BY <1>1, <1>2

\* The end of a call wakes a task and moves no message.
LEMMA FinishFacts ==
    ASSUME MailSteps, NEW s \in Senders, Count(s) \/ Complete(s)
    PROVE  /\ processor' = processor \/ (processor = "waiting" /\ processor' = "drain")
           /\ pump' = pump \/ (pump = "waiting" /\ pump' = "receive")
           /\ WaitersWait(waiting, processor, pump)'
           /\ UNCHANGED <<config, iq, batch, table, fetched, inbox, received, gone, drift, refused, repeats>>
<1>0. WaitersWait(waiting, processor, pump) BY DEF MailSteps, TasksInStep, WaitersWait
<1>1. /\ NotifyOne \/ UNCHANGED <<permit, waiting, processor, pump>>
      /\ UNCHANGED <<config, iq, batch, table, fetched, inbox, received, gone, drift, refused, repeats>>
    BY DEF Count, Complete, Finish, AfterCount
<1>2. CASE NotifyOne BY <1>1, <1>2, NotifyFacts
<1>3. CASE UNCHANGED <<permit, waiting, processor, pump>> BY <1>0, <1>1, <1>3 DEF WaitersWait
<1> QED BY <1>1, <1>2, <1>3

\* A path never uses the queues of another.
LEMMA PathsStep ==
    ASSUME MailSteps, MailNext
    PROVE  PathsApart'
<1> DEFINE Apart == /\ ~Queued => iq = <<>> /\ processor = "exited"
                    /\ ~Running("durable") => table = <<>> /\ fetched = <<>> /\ pump = "exited"
           Rows == ~Running("durable") => ids = <<>> /\ working = NoRow
<1>0. MailTypeOK /\ Apart /\ Rows BY DEF MailSteps, PathsApart
<1>1. \A s \in Senders : OnPath(s) BY DEF MailSteps, PathsApart, OnPath
<1>13. Rows'
    <2>1. UNCHANGED config BY DriftGrows
    <2>2. CASE Running("durable") BY <2>1, <2>2 DEF Running
    <2>3. CASE ~Running("durable")
        <3>1. ids = <<>> /\ working = NoRow /\ pump = "exited" BY <1>0, <2>3
        <3>2. ~PumpForward /\ ~PumpAck /\ ~Processed /\ ~Nacked
            BY <3>1 DEF PumpForward, PumpAck, Processed, Nacked
        <3>3. ~PumpForward /\ ~PumpAck /\ ~Processed /\ ~Nacked /\ ~Receive /\ ~ActorStops /\ ~Crash
                => UNCHANGED <<ids, working>>
            BY RowVarsStay
        <3>4. Receive => UNCHANGED <<ids, working>> BY <2>3 DEF Receive
        <3>5. ActorStops \/ Crash => ids' = <<>> /\ working' = NoRow BY DEF ActorStops, Crash, Built
        <3> QED BY <3>1, <3>2, <3>3, <3>4, <3>5
    <2> QED BY <2>2, <2>3
<1> SUFFICES Apart'
    BY <1>13, SendersApart DEF PathsApart, OnPath
<1>2. ASSUME UNCHANGED <<config, iq, processor, table, fetched, pump>> PROVE Apart'
    BY <1>0, <1>2 DEF Queued, Running
<1>3. ASSUME NEW s \in Senders, NEW m \in Letters,
             EnqueueRefused(s, m) \/ EnqueuePlain(s, m) \/ EnqueueFirstSeen(s, m) \/ EnqueueDuplicate(s, m)
      PROVE  Apart'
    <2>1. UNCHANGED <<config, iq, processor, table, fetched, pump>>
        BY <1>3 DEF EnqueueRefused, EnqueuePlain, EnqueueFirstSeen, EnqueueDuplicate, AfterBegin
    <2> QED BY <1>2, <2>1
<1>4. ASSUME NEW s \in Senders, NEW m \in Letters, EnqueueOverwrite(s, m) PROVE Apart'
    <2>1. iq' \in Seq(Letters) /\ Len(iq') \in 0..Len(iq) /\ UNCHANGED <<config, processor, table, fetched, pump>>
        BY <1>4, OverwriteFacts DEF AfterBegin
    <2>2. iq = <<>> => iq' = <<>>
        <3>1. iq = <<>> => Len(iq) = 0 OBVIOUS
        <3>2. Len(iq') = 0 => iq' = <<>> BY <2>1, NoneSet
        <3> QED BY <2>1, <3>1, <3>2
    <2> QED BY <1>0, <2>1, <2>2 DEF Queued, Running
<1>5. ASSUME NEW s \in Senders, FastLoad(s) \/ FastTrySend(s) PROVE Apart'
    <2>1. UNCHANGED <<config, iq, processor, table, fetched, pump>>
        BY <1>5 DEF FastLoad, FastTrySend, AfterPush
    <2> QED BY <1>2, <2>1
<1>6. ASSUME NEW s \in Senders, Push(s) PROVE Apart'
    <2>1. Queued /\ UNCHANGED <<config, processor, table, fetched, pump>>
        BY <1>1, <1>6 DEF Push, AfterPush, OnPath
    <2> QED BY <1>0, <2>1 DEF Queued, Running
<1>7. ASSUME NEW s \in Senders, Count(s) \/ Complete(s) PROVE Apart'
    <2>1. /\ processor' = processor \/ processor = "waiting"
          /\ pump' = pump \/ pump = "waiting"
          /\ UNCHANGED <<config, iq, table, fetched>>
        BY <1>7, FinishFacts
    <2> QED BY <1>0, <2>1 DEF Queued, Running
<1>8. ASSUME NEW k \in Keys, Evict(k) PROVE Apart'
    BY <1>2, <1>8 DEF Evict
<1>9. CASE ProcessorStep
    <2>1. /\ processor # "exited" /\ UNCHANGED <<config, fetched, pump>>
          /\ UNCHANGED table \/ Running("durable")
        <3>1. CASE ProcessorSend
            BY <3>1, SendFacts DEF ProcessorRest, SenderVars, SentToActor, SentToTable, SentNowhere, ProcessorEnds
        <3> QED BY <1>9, <3>1 DEF ProcessorStep, ProcessorCheck, ProcessorAwait, ProcessorDrain, SenderVars
    <2> QED BY <1>0, <2>1 DEF Queued, Running
<1>10. CASE PumpStep
    <2>1. pump # "exited" /\ UNCHANGED <<config, iq, processor>>
        BY <1>10 DEF PumpStep, PumpReceive, PumpAwait, PumpForward, PumpAck, PumpAckFails, SenderVars
    <2> QED BY <1>0, <2>1 DEF Queued, Running
<1>11. CASE Receive \/ ActorStops \/ BeginShutdown \/ CloseChannel
    <2>1. UNCHANGED <<config, iq, processor, table, fetched, pump>>
        BY <1>11 DEF Receive, ActorStops, BeginShutdown, CloseChannel, SenderVars
    <2> QED BY <1>2, <2>1
<1>14. CASE Processed \/ Nacked
    <2>1. Running("durable") BY <1>0, <1>14 DEF Processed, Nacked
    <2>2. UNCHANGED <<config, iq, processor>> BY <1>14, QuietFacts
    <2> QED BY <1>0, <2>1, <2>2 DEF Queued, Running
<1>12. CASE Crash
    BY <1>12 DEF Crash, Queued, Running
<1> QED BY <1>3, <1>4, <1>5, <1>6, <1>7, <1>8, <1>9, <1>10, <1>11, <1>12, <1>14 DEF MailNext, EnqueueSteps, ActorStep

\* A task keeps what it has in hand until it is done with it.
LEMMA TasksStep ==
    ASSUME MailSteps, MailNext
    PROVE  TasksInStep'
<1> DEFINE Hands == /\ processor = "send" <=> batch # <<>>
                    /\ pump \in {"forward", "ack"} => fetched # <<>>
           Wait == WaitersWait(waiting, processor, pump)
<1>0. MailTypeOK /\ Hands /\ Wait BY DEF MailSteps, TasksInStep, WaitersWait
<1> SUFFICES Hands' /\ Wait'
    BY DEF TasksInStep, WaitersWait
<1>1. waiting \in Seq({"processor", "pump"}) /\ Len(waiting) \in Nat BY <1>0, MailFacts DEF MailTypeOK
<1>2. ASSUME UNCHANGED <<processor, batch, pump, fetched, waiting>> PROVE Hands' /\ Wait'
    BY <1>0, <1>2 DEF WaitersWait
<1>3. ASSUME NEW s \in Senders, NEW m \in Letters,
             \/ EnqueueRefused(s, m) \/ EnqueuePlain(s, m) \/ EnqueueFirstSeen(s, m) \/ EnqueueDuplicate(s, m)
             \/ EnqueueOverwrite(s, m)
      PROVE  Hands' /\ Wait'
    <2>1. UNCHANGED <<processor, batch, pump, fetched, waiting>>
        BY <1>3 DEF EnqueueRefused, EnqueuePlain, EnqueueFirstSeen, EnqueueDuplicate, EnqueueOverwrite, AfterBegin
    <2> QED BY <1>2, <2>1
<1>4. ASSUME NEW s \in Senders, FastLoad(s) \/ FastTrySend(s) \/ Push(s) PROVE Hands' /\ Wait'
    <2>1. UNCHANGED <<processor, batch, pump, fetched, waiting>>
        BY <1>4 DEF FastLoad, FastTrySend, Push, AfterPush
    <2> QED BY <1>2, <2>1
<1>5. ASSUME NEW s \in Senders, Count(s) \/ Complete(s) PROVE Hands' /\ Wait'
    <2>1. /\ processor' = processor \/ (processor = "waiting" /\ processor' = "drain")
          /\ pump' = pump \/ (pump = "waiting" /\ pump' = "receive")
          /\ Wait' /\ UNCHANGED <<batch, fetched>>
        BY <1>5, FinishFacts
    <2> QED BY <1>0, <2>1
<1>6. ASSUME NEW k \in Keys, Evict(k) PROVE Hands' /\ Wait'
    BY <1>2, <1>6 DEF Evict
<1>7. ASSUME processor # "waiting", pump' = pump, UNCHANGED waiting PROVE Wait'
    BY <1>0, <1>7 DEF WaitersWait
<1>8. ASSUME pump # "waiting", processor' = processor, UNCHANGED waiting PROVE Wait'
    BY <1>0, <1>8 DEF WaitersWait
<1>9. CASE ProcessorCheck
    <2>1. /\ processor = "check" /\ processor' \in {"await", "drain"}
          /\ UNCHANGED <<batch, pump, fetched, waiting>>
        BY <1>9 DEF ProcessorCheck
    <2> QED BY <1>0, <1>7, <2>1
<1>10. CASE ProcessorAwait
    <2>1. /\ processor = "await" /\ UNCHANGED <<batch, pump, fetched>>
          /\ \/ processor' = "drain" /\ UNCHANGED waiting
             \/ processor' = "waiting" /\ waiting' = Append(waiting, "processor")
        BY <1>10 DEF ProcessorAwait
    <2>2. ASSUME processor' = "waiting", waiting' = Append(waiting, "processor") PROVE Wait'
        <3>1. /\ Len(waiting') = Len(waiting) + 1 /\ waiting'[Len(waiting) + 1] = "processor"
              /\ \A i \in 1..Len(waiting) : waiting'[i] = waiting[i]
            BY <1>1, <2>2, AppendFacts
        <3>2. \A i \in 1..Len(waiting) : waiting[i] # "processor" BY <1>0, <2>1 DEF WaitersWait
        <3> QED BY <1>0, <1>1, <2>1, <2>2, <3>1, <3>2 DEF WaitersWait
    <2> QED BY <1>0, <1>7, <2>1, <2>2
<1>11. CASE ProcessorDrain
    <2>1. /\ processor = "drain" /\ batch' = iq /\ processor' = (IF iq = <<>> THEN "check" ELSE "send")
          /\ UNCHANGED <<pump, fetched, waiting>>
        BY <1>11 DEF ProcessorDrain
    <2> QED BY <1>0, <1>7, <2>1
<1>12. CASE ProcessorSend
    <2>1. /\ processor = "send" /\ batch # <<>> /\ UNCHANGED <<pump, fetched, waiting>>
          /\ \/ batch' = Tail(batch) /\ processor' = (IF Len(batch) = 1 THEN "check" ELSE "send")
             \/ batch' = <<>> /\ processor' = "exited"
        BY <1>12, SendFacts DEF ProcessorRest, SentToActor, SentToTable, SentNowhere, ProcessorEnds, SentOn
    <2>2. batch \in Seq(Letters) BY <1>0 DEF MailTypeOK
    <2>3. Tail(batch) \in Seq(Letters) /\ Len(Tail(batch)) = Len(batch) - 1 /\ Len(batch) \in Nat \ {0}
        BY <2>1, <2>2, EndFacts
    <2>4. Tail(batch) # <<>> <=> Len(batch) # 1
        <3>1. Tail(batch) # <<>> <=> Len(Tail(batch)) > 0 BY <2>3, NoneSet
        <3> QED BY <2>3, <3>1
    <2> QED BY <1>0, <1>7, <2>1, <2>4
<1>13. CASE PumpReceive
    <2>1. /\ pump = "receive" /\ fetched' = table /\ pump' = (IF table = <<>> THEN "await" ELSE "forward")
          /\ UNCHANGED <<processor, batch, waiting>>
        BY <1>13 DEF PumpReceive
    <2> QED BY <1>0, <1>8, <2>1
<1>14. CASE PumpAwait
    <2>1. /\ pump = "await" /\ UNCHANGED <<batch, processor, fetched>>
          /\ \/ pump' = "receive" /\ UNCHANGED waiting
             \/ pump' = "waiting" /\ waiting' = Append(waiting, "pump")
        BY <1>14 DEF PumpAwait
    <2>2. ASSUME pump' = "waiting", waiting' = Append(waiting, "pump") PROVE Wait'
        <3>1. /\ Len(waiting') = Len(waiting) + 1 /\ waiting'[Len(waiting) + 1] = "pump"
              /\ \A i \in 1..Len(waiting) : waiting'[i] = waiting[i]
            BY <1>1, <2>2, AppendFacts
        <3>2. \A i \in 1..Len(waiting) : waiting[i] # "pump" BY <1>0, <2>1 DEF WaitersWait
        <3> QED BY <1>0, <1>1, <2>1, <2>2, <3>1, <3>2 DEF WaitersWait
    <2> QED BY <1>0, <1>8, <2>1, <2>2
<1>15. CASE PumpForward
    <2>1. pump = "forward" /\ pump' \in {"ack", "exited"} /\ UNCHANGED <<fetched, processor, batch, waiting>>
        BY <1>15 DEF PumpForward
    <2> QED BY <1>0, <1>8, <2>1
<1>16. CASE PumpAck \/ PumpAckFails
    <2>1. /\ pump = "ack" /\ fetched' = Tail(fetched) /\ pump' = (IF Len(fetched) = 1 THEN "receive" ELSE "forward")
          /\ UNCHANGED <<processor, batch, waiting>>
        BY <1>16 DEF PumpAck, PumpAckFails, NextFetched
    <2>2. fetched \in Seq(Row) /\ fetched # <<>> BY <1>0, <2>1 DEF MailTypeOK
    <2>3. Tail(fetched) \in Seq(Row) /\ Len(Tail(fetched)) = Len(fetched) - 1 /\ Len(fetched) \in Nat \ {0}
        BY <2>2, EndFacts
    <2>4. Tail(fetched) # <<>> <=> Len(fetched) # 1
        <3>1. Tail(fetched) # <<>> <=> Len(Tail(fetched)) > 0 BY <2>3, NoneSet
        <3> QED BY <2>3, <3>1
    <2> QED BY <1>0, <1>8, <2>1, <2>4
<1>17. CASE ActorStep \/ ActorStops \/ BeginShutdown \/ CloseChannel
    <2>1. UNCHANGED <<processor, batch, pump, fetched, waiting>>
        BY <1>17 DEF ActorStep, Receive, Processed, Nacked, ActorStops, BeginShutdown, CloseChannel
    <2> QED BY <1>2, <2>1
<1>18. CASE Crash
    <2>1. /\ batch' = <<>> /\ processor' \in {"check", "exited"} /\ pump' \in {"receive", "exited"} /\ waiting' = <<>>
        BY <1>18 DEF Crash, Built
    <2>2. Wait' BY <2>1 DEF WaitersWait
    <2> QED BY <2>1, <2>2
<1> QED
    BY <1>3, <1>4, <1>5, <1>6, <1>9, <1>10, <1>11, <1>12, <1>13, <1>14, <1>15, <1>16, <1>17, <1>18
       DEF MailNext, EnqueueSteps, ProcessorStep, PumpStep

-----------------------------------------------------------------------------
(* The mailbox: the rows of the durable channel.                           *)

TableSound == /\ \A i, j \in 1..Len(table) : table[i].id = table[j].id => i = j
              /\ \A i \in 1..Len(table) : OwnRow(table[i])

AckedSound == \A r \in acked : OwnRow(r) /\ ~Unacked(r.id) /\ \A q \in acked : q.id = r.id => q = r

\* Row i of those that the pump has: it is in the table, or acked, or known to come again.
StillThere(i) == \/ Unacked(fetched[i].id)
                 \/ (i = 1 /\ pump = "ack")
                 \/ Repeated(fetched[i].id)

FetchedSound == pump \in {"forward", "ack"} =>
                   /\ \A i, j \in 1..Len(fetched) : fetched[i].id = fetched[j].id => i = j
                   /\ \A i \in 1..Len(fetched) : OwnRow(fetched[i]) /\ Known(fetched[i].id) /\ StillThere(i)

LEMMA RowsParts == RowsSound <=> TableSound /\ AckedSound /\ FetchedSound
BY DEF RowsSound, TableSound, AckedSound, FetchedSound, StillThere

\* Steps that leave the rows and the place of the pump alone.
LEMMA RowsStay ==
    ASSUME MailSteps, MailNext, ~ProcessorSend, ~PumpReceive, ~PumpForward, ~PumpAck, ~PumpAckFails, ~Processed, ~Nacked
    PROVE  /\ UNCHANGED <<table, acked>>
           /\ UNCHANGED <<fetched, pump>> \/ pump' \notin {"forward", "ack"}
           /\ UNCHANGED <<fetched, pump>> \/ pump \notin {"forward", "ack"} \/ Crash
<1>1. ASSUME NEW s \in Senders, NEW m \in Letters,
             \/ EnqueueRefused(s, m) \/ EnqueuePlain(s, m) \/ EnqueueFirstSeen(s, m) \/ EnqueueDuplicate(s, m)
             \/ EnqueueOverwrite(s, m)
      PROVE  UNCHANGED <<table, acked, fetched, pump>>
    BY <1>1 DEF EnqueueRefused, EnqueuePlain, EnqueueFirstSeen, EnqueueDuplicate, EnqueueOverwrite, AfterBegin, RowVars
<1>2. ASSUME NEW s \in Senders, FastLoad(s) \/ FastTrySend(s) \/ Push(s) PROVE UNCHANGED <<table, acked, fetched, pump>>
    BY <1>2 DEF FastLoad, FastTrySend, Push, AfterPush, RowVars
<1>3. ASSUME NEW s \in Senders, Count(s) \/ Complete(s)
      PROVE  UNCHANGED <<table, acked, fetched>> /\ (UNCHANGED pump \/ (pump = "waiting" /\ pump' = "receive"))
    BY <1>3, FinishFacts DEF Count, Complete, AfterCount, RowVars
<1>4. ASSUME NEW k \in Keys, Evict(k) PROVE UNCHANGED <<table, acked, fetched, pump>>
    BY <1>4 DEF Evict, RowVars
<1>5. CASE ProcessorCheck \/ ProcessorAwait \/ ProcessorDrain \/ Receive \/ ActorStops \/ BeginShutdown \/ CloseChannel
    BY <1>5 DEF ProcessorCheck, ProcessorAwait, ProcessorDrain, Receive, ActorStops, BeginShutdown, CloseChannel, RowVars
<1>6. CASE PumpAwait
    BY <1>6 DEF PumpAwait, RowVars
<1>7. CASE Crash
    BY <1>7 DEF Crash, Built
<1> QED BY <1>1, <1>2, <1>3, <1>4, <1>5, <1>6, <1>7 DEF MailNext, EnqueueSteps, ProcessorStep, PumpStep, ActorStep

\* A new row, with an id that the channel has not had.
Appended(r) == r \in Row /\ r.body = r.id /\ table' = Append(table, r) /\ ~Known(r.id)

\* The ways the rows change.
LEMMA TableMoves ==
    ASSUME MailSteps, MailNext
    PROVE  \/ UNCHANGED <<table, acked>>
           \/ ProcessorSend /\ UNCHANGED acked /\ \E m \in Letters : Overwritten(table, table', m)
           \/ ProcessorSend /\ UNCHANGED acked /\ \E r \in Row : Appended(r)
           \/ PumpAck /\ AckOf(Head(fetched))
           \/ Processed /\ AckOf(working)
           \/ Nacked /\ \E r \in acked : TakenBack(r)
<1>0. MailTypeOK BY DEF MailSteps
<1>1. CASE ProcessorSend
    <2>1. UNCHANGED acked /\ batch # <<>> /\ batch \in Seq(Letters)
        BY <1>0, <1>1, SendFacts DEF ProcessorRest, MailTypeOK
    <2>2. PICK m \in Letters : m = Head(batch) BY <2>1, EndFacts
    <2>3. CASE SentToTable
        <3>1. PICK r : r = [id |-> m, body |-> m] OBVIOUS
        <3>2. r \in Row /\ r.id = m /\ r.body = m BY <3>1 DEF Row
        <3>3. Overwritten(table, table', m) \/ (table' = Append(table, r) /\ ~Known(m))
            BY <2>2, <2>3, <3>1 DEF SentToTable
        <3>4. Overwritten(table, table', m) \/ Appended(r) BY <3>2, <3>3 DEF Appended
        <3> QED BY <1>1, <2>1, <3>2, <3>4
    <2> QED BY <1>1, <2>1, <2>3, SendFacts DEF SentToActor, SentNowhere, ProcessorEnds
<1>2. CASE PumpAck BY <1>2, PumpAckFacts
<1>3. CASE Processed BY <1>3, ProcessedFacts
<1>4. CASE Nacked BY <1>4, NackFacts
<1>5. CASE PumpAckFails BY <1>5, QuietFacts
<1>6. CASE PumpReceive \/ PumpForward BY <1>6 DEF PumpReceive, PumpForward, RowVars
<1> QED BY <1>1, <1>2, <1>3, <1>4, <1>5, <1>6, RowsStay

\* The ids in the table after each of them.
LEMMA OverwrittenIds ==
    ASSUME NEW m, Overwritten(table, table', m)
    PROVE  /\ Len(table') = Len(table) /\ \A i \in 1..Len(table) : table'[i].id = table[i].id
           /\ \A id : Unacked(id)' <=> Unacked(id)
BY DEF Overwritten, Unacked

LEMMA AppendedIds ==
    ASSUME table \in Seq(Row), NEW r \in Row, table' = Append(table, r)
    PROVE  /\ Len(table') = Len(table) + 1 /\ Len(table) \in Nat /\ table'[Len(table) + 1] = r
           /\ \A i \in 1..Len(table) : i \in 1..Len(table') /\ table'[i] = table[i]
           /\ \A i \in 1..Len(table') : i \in 1..Len(table) \/ i = Len(table) + 1
           /\ \A id : Unacked(id)' <=> Unacked(id) \/ id = r.id
<1>1. /\ Len(table') = Len(table) + 1 /\ Len(table) \in Nat /\ table'[Len(table) + 1] = r
      /\ \A i \in 1..Len(table) : table'[i] = table[i]
    BY AppendFacts
<1>2. /\ \A i \in 1..Len(table) : i \in 1..Len(table')
      /\ \A i \in 1..Len(table') : i \in 1..Len(table) \/ i = Len(table) + 1
      /\ Len(table) + 1 \in 1..Len(table')
    BY <1>1
<1> QED BY <1>1, <1>2 DEF Unacked

LEMMA AckedIds ==
    ASSUME NEW h, AckOf(h)
    PROVE  \A id : Unacked(id)' <=> Unacked(id) /\ id # h.id
<1>1. PICK f \in [1..Len(table') -> 1..Len(table)] : \A k \in 1..Len(table') : table'[k] = table[f[k]]
    BY DEF AckOf, Shortened
<1>2. \A k \in 1..Len(table') : f[k] \in 1..Len(table) OBVIOUS
<1>3. ASSUME NEW id, Unacked(id)' PROVE Unacked(id) /\ id # h.id
    <2>1. PICK k \in 1..Len(table') : table'[k].id = id BY <1>3 DEF Unacked
    <2> QED BY <1>1, <1>2, <2>1 DEF Unacked, AckOf
<1>4. ASSUME NEW id, Unacked(id), id # h.id PROVE Unacked(id)'
    BY <1>4 DEF Unacked, AckOf
<1> QED BY <1>3, <1>4

LEMMA TakenBackIds ==
    ASSUME table \in Seq(Row), NEW r, TakenBack(r)
    PROVE  \A id : Unacked(id)' <=> Unacked(id) \/ id = r.id
<1>1. /\ Len(table) \in Nat /\ Len(table') = Len(table) + 1
    BY LenProperties DEF TakenBack, Inserted
<1>2. PICK p \in 1..Len(table') : /\ table'[p] = r
                                  /\ \A j \in 1..Len(table') : /\ j < p => table'[j] = table[j]
                                                               /\ j > p => table'[j] = table[j - 1]
    BY DEF TakenBack, Inserted
<1>3. ASSUME NEW j \in 1..Len(table') PROVE j = p \/ \E i \in 1..Len(table) : table'[j] = table[i]
    <2>1. CASE j < p
        <3>1. j \in 1..Len(table) BY <1>1, <2>1
        <3> QED BY <1>2, <2>1, <3>1
    <2>2. CASE j > p
        <3>1. j - 1 \in 1..Len(table) BY <1>1, <2>2
        <3> QED BY <1>2, <2>2, <3>1
    <2> QED BY <1>1, <2>1, <2>2
<1>4. ASSUME NEW i \in 1..Len(table) PROVE \E j \in 1..Len(table') : table'[j] = table[i]
    <2>1. CASE i < p
        <3>1. i \in 1..Len(table') BY <1>1
        <3> QED BY <1>2, <2>1, <3>1
    <2>2. CASE i >= p
        <3>1. i + 1 \in 1..Len(table') /\ i + 1 > p /\ (i + 1) - 1 = i BY <1>1, <2>2
        <3>2. table'[i + 1] = table[i] BY <1>2, <3>1
        <3> QED BY <3>1, <3>2
    <2> QED BY <1>1, <2>1, <2>2
<1>5. ASSUME NEW id, Unacked(id)' PROVE Unacked(id) \/ id = r.id
    <2>1. PICK j \in 1..Len(table') : table'[j].id = id BY <1>5 DEF Unacked
    <2> QED BY <1>2, <1>3, <2>1 DEF Unacked
<1>6. ASSUME NEW id, Unacked(id) PROVE Unacked(id)'
    <2>1. PICK i \in 1..Len(table) : table[i].id = id BY <1>6 DEF Unacked
    <2>2. PICK j \in 1..Len(table') : table'[j] = table[i] BY <1>4
    <2> QED BY <2>1, <2>2 DEF Unacked
<1>7. Unacked(r.id)' BY <1>2 DEF Unacked
<1> QED BY <1>5, <1>6, <1>7

\* The channel forgets no id, and a row known to come again stays known for it.
LEMMA KnownStays ==
    ASSUME MailSteps, MailNext, NEW id
    PROVE  /\ Known(id) => Known(id)'
           /\ Repeated(id) => Repeated(id)'
<1>0. table \in Seq(Row) BY DEF MailSteps, MailTypeOK
<1>1. Repeated(id) => Repeated(id)' BY DriftGrows, RepeatsGrow DEF Repeated
<1>2. ASSUME Known(id) PROVE Known(id)'
    <2>1. CASE UNCHANGED <<table, acked>> BY <1>2, <2>1 DEF Known, Unacked
    <2>2. ASSUME UNCHANGED acked, NEW m \in Letters, Overwritten(table, table', m) PROVE Known(id)'
        BY <1>2, <2>2, OverwrittenIds DEF Known
    <2>3. ASSUME UNCHANGED acked, NEW r \in Row, Appended(r) PROVE Known(id)'
        BY <1>0, <1>2, <2>3, AppendedIds DEF Known, Appended
    <2>4. ASSUME NEW h, AckOf(h) PROVE Known(id)'
        <3>1. CASE Unacked(id) /\ id # h.id BY <2>4, <3>1, AckedIds DEF Known
        <3>2. CASE Unacked(id) /\ id = h.id
            <4>1. PICK i \in 1..Len(table) : table[i].id = id BY <3>2 DEF Unacked
            <4>2. table[i] \in acked' BY <2>4, <3>2, <4>1 DEF AckOf
            <4> QED BY <4>1, <4>2 DEF Known
        <3>3. CASE \E x \in acked : x.id = id BY <2>4, <3>3 DEF AckOf, Known
        <3> QED BY <1>2, <3>1, <3>2, <3>3 DEF Known
    <2>5. ASSUME NEW r \in acked, TakenBack(r) PROVE Known(id)'
        <3>1. CASE Unacked(id) \/ id = r.id BY <1>0, <2>5, <3>1, TakenBackIds DEF Known
        <3>2. CASE \E x \in acked : x.id = id /\ x # r BY <2>5, <3>2 DEF TakenBack, Known
        <3> QED BY <1>2, <3>1, <3>2 DEF Known
    <2> QED BY <2>1, <2>2, <2>3, <2>4, <2>5, TableMoves
<1> QED BY <1>1, <1>2

\* The rows stay sound through inserts, overwrites, acks and nacks: those in the table ...
LEMMA TableStep ==
    ASSUME MailSteps, MailNext
    PROVE  TableSound'
<1>0. TableSound /\ AckedSound /\ table \in Seq(Row) BY RowsParts DEF MailSteps, MailTypeOK
<1>1. CASE UNCHANGED <<table, acked>> BY <1>0, <1>1 DEF TableSound, OwnRow
<1>2. ASSUME NEW m \in Letters, Overwritten(table, table', m) PROVE TableSound'
    <2>1. /\ Len(table') = Len(table)
          /\ \A i \in 1..Len(table) : table'[i].id = table[i].id
          /\ \A i \in 1..Len(table) : table'[i] = table[i] \/
                (table'[i].body = m /\ m \in Overwrites /\ KeyOf[table[i].body] = KeyOf[m])
        BY <1>2 DEF Overwritten
    <2>2. \A i \in 1..Len(table') : OwnRow(table[i]) /\ OwnRow(table'[i])
        BY <1>0, <2>1 DEF TableSound, OwnRow
    <2> QED BY <1>0, <2>1, <2>2 DEF TableSound, OwnRow
<1>3. ASSUME NEW r \in Row, Appended(r) PROVE TableSound'
    <2>1. /\ table'[Len(table) + 1] = r /\ \A i \in 1..Len(table) : table'[i] = table[i]
          /\ \A i \in 1..Len(table') : i \in 1..Len(table) \/ i = Len(table) + 1
        BY <1>0, <1>3, AppendedIds DEF Appended
    <2>2. OwnRow(r) /\ \A i \in 1..Len(table) : table[i].id # r.id BY <1>3 DEF Appended, OwnRow, Known, Unacked
    <2>3. \A i \in 1..Len(table') : OwnRow(table'[i]) BY <1>0, <2>1, <2>2 DEF TableSound
    <2>4. \A i, j \in 1..Len(table') : table'[i].id = table'[j].id => i = j BY <1>0, <2>1, <2>2 DEF TableSound
    <2> QED BY <2>3, <2>4 DEF TableSound, OwnRow
<1>4. ASSUME NEW h, AckOf(h) PROVE TableSound'
    <2>1. PICK f \in [1..Len(table') -> 1..Len(table)] :
             /\ \A k \in 1..Len(table') : table'[k] = table[f[k]]
             /\ \A j, k \in 1..Len(table') : f[j] = f[k] => j = k
        BY <1>4 DEF AckOf, Shortened
    <2>2. \A k \in 1..Len(table') : f[k] \in 1..Len(table) OBVIOUS
    <2>3. \A k \in 1..Len(table') : OwnRow(table'[k]) BY <1>0, <2>1, <2>2 DEF TableSound
    <2>4. \A j, k \in 1..Len(table') : table'[j].id = table'[k].id => j = k BY <1>0, <2>1, <2>2 DEF TableSound
    <2> QED BY <2>3, <2>4 DEF TableSound, OwnRow
<1>5. ASSUME NEW r \in acked, TakenBack(r) PROVE TableSound'
    <2>1. Len(table) \in Nat /\ Len(table') = Len(table) + 1 BY <1>0, <1>5, LenProperties DEF TakenBack, Inserted
    <2>2. PICK p \in 1..Len(table') : /\ table'[p] = r
                                      /\ \A j \in 1..Len(table') : /\ j < p => table'[j] = table[j]
                                                                   /\ j > p => table'[j] = table[j - 1]
        BY <1>5 DEF TakenBack, Inserted
    <2>3. PICK f : f = [j \in 1..Len(table') |-> IF j < p THEN j ELSE j - 1] OBVIOUS
    <2>4. \A j \in 1..Len(table') : j # p => f[j] \in 1..Len(table) /\ table'[j] = table[f[j]]
        BY <2>1, <2>2, <2>3
    <2>5. \A j, k \in 1..Len(table') : j # p /\ k # p /\ f[j] = f[k] => j = k
        BY <2>1, <2>3
    <2>6. OwnRow(r) /\ \A i \in 1..Len(table) : table[i].id # r.id BY <1>0 DEF AckedSound, Unacked
    <2>7. \A j \in 1..Len(table') : OwnRow(table'[j]) BY <1>0, <2>2, <2>4, <2>6 DEF TableSound
    <2>8. ASSUME NEW j \in 1..Len(table'), NEW k \in 1..Len(table'), table'[j].id = table'[k].id PROVE j = k
        <3>1. CASE j # p /\ k # p
            <4>1. f[j] \in 1..Len(table) /\ f[k] \in 1..Len(table) /\ table[f[j]].id = table[f[k]].id BY <2>4, <2>8, <3>1
            <4> QED BY <1>0, <2>5, <3>1, <4>1 DEF TableSound
        <3>2. CASE j = p /\ k # p BY <2>2, <2>4, <2>6, <2>8, <3>2
        <3>3. CASE j # p /\ k = p BY <2>2, <2>4, <2>6, <2>8, <3>3
        <3> QED BY <3>1, <3>2, <3>3
    <2> QED BY <2>7, <2>8 DEF TableSound, OwnRow
<1> QED BY <1>1, <1>2, <1>3, <1>4, <1>5, TableMoves

\* ... those that are acked ...
LEMMA AckedStep ==
    ASSUME MailSteps, MailNext
    PROVE  AckedSound'
<1>0. TableSound /\ AckedSound /\ table \in Seq(Row) BY RowsParts DEF MailSteps, MailTypeOK
<1>1. CASE UNCHANGED <<table, acked>> BY <1>0, <1>1 DEF AckedSound, OwnRow, Unacked
<1>2. ASSUME UNCHANGED acked, \A r \in acked : Unacked(r.id)' => Unacked(r.id) PROVE AckedSound'
    BY <1>0, <1>2 DEF AckedSound, OwnRow
<1>3. ASSUME UNCHANGED acked, NEW m \in Letters, Overwritten(table, table', m) PROVE AckedSound'
    BY <1>2, <1>3, OverwrittenIds
<1>4. ASSUME UNCHANGED acked, NEW r \in Row, Appended(r) PROVE AckedSound'
    <2>1. \A x \in acked : x.id # r.id BY <1>4 DEF Appended, Known
    <2>2. \A id : Unacked(id)' => Unacked(id) \/ id = r.id BY <1>0, <1>4, AppendedIds DEF Appended
    <2> QED BY <1>2, <1>4, <2>1, <2>2
<1>5. ASSUME NEW h, AckOf(h) PROVE AckedSound'
    <2>1. \A x \in acked' : x \in acked \/ (x.id = h.id /\ \E i \in 1..Len(table) : table[i] = x) BY <1>5 DEF AckOf
    <2>2. \A id : Unacked(id)' => Unacked(id) /\ id # h.id BY <1>5, AckedIds
    <2>3. ASSUME NEW x \in acked' PROVE OwnRow(x) /\ ~Unacked(x.id)'
        BY <1>0, <2>1, <2>2, <2>3 DEF AckedSound, TableSound
    <2>4. ASSUME NEW x \in acked', NEW q \in acked', q.id = x.id PROVE q = x
        <3>1. CASE x \in acked /\ q \in acked BY <1>0, <2>4, <3>1 DEF AckedSound
        <3>2. CASE (x \in acked /\ q \notin acked) \/ (x \notin acked /\ q \in acked)
            <4>1. Unacked(x.id) BY <2>1, <2>4, <3>2 DEF Unacked
            <4> QED BY <1>0, <2>4, <3>2, <4>1 DEF AckedSound
        <3>3. CASE x \notin acked /\ q \notin acked
            <4>1. PICK i \in 1..Len(table) : table[i] = x BY <2>1, <3>3
            <4>2. PICK j \in 1..Len(table) : table[j] = q BY <2>1, <3>3
            <4> QED BY <1>0, <2>4, <4>1, <4>2 DEF TableSound
        <3> QED BY <3>1, <3>2, <3>3
    <2> QED BY <2>3, <2>4 DEF AckedSound, OwnRow
<1>6. ASSUME NEW r \in acked, TakenBack(r) PROVE AckedSound'
    <2>1. acked' = acked \ {r} BY <1>6 DEF TakenBack
    <2>2. \A id : Unacked(id)' => Unacked(id) \/ id = r.id BY <1>0, <1>6, TakenBackIds
    <2>3. \A x \in acked' : x \in acked /\ x.id # r.id BY <1>0, <2>1 DEF AckedSound
    <2> QED BY <1>0, <2>2, <2>3 DEF AckedSound, OwnRow
<1> QED BY <1>1, <1>3, <1>4, <1>5, <1>6, TableMoves

\* The rest of what the pump has.
LEMMA NextFacts ==
    ASSUME MailSteps, pump = "ack", NextFetched
    PROVE  /\ 1 \in 1..Len(fetched) /\ fetched[1] = Head(fetched) /\ Len(fetched) \in Nat
           /\ \A i \in 1..Len(fetched') : i + 1 \in 1..Len(fetched) /\ i + 1 # 1 /\ fetched'[i] = fetched[i + 1]
           /\ pump' # "ack"
<1>1. fetched # <<>> /\ fetched \in Seq(Row) /\ fetched' = Tail(fetched) /\ pump' # "ack"
    BY DEF MailSteps, MailTypeOK, TasksInStep, NextFetched
<1>2. /\ Head(fetched) = fetched[1] /\ Len(fetched) \in Nat \ {0} /\ Len(fetched') = Len(fetched) - 1
      /\ \A i \in 1..Len(fetched) - 1 : fetched'[i] = fetched[i + 1]
    BY <1>1, EndFacts
<1> QED BY <1>1, <1>2

\* ... and those that the pump has.
LEMMA FetchedStep ==
    ASSUME MailSteps, MailNext
    PROVE  FetchedSound'
<1>0. TableSound /\ AckedSound /\ FetchedSound BY RowsParts DEF MailSteps
<1>1. CASE PumpReceive
    <2>1. fetched' = table /\ UNCHANGED <<table, acked>> BY <1>1 DEF PumpReceive, RowVars
    <2>2. ASSUME NEW i \in 1..Len(fetched') PROVE OwnRow(fetched[i])' /\ Known(fetched[i].id)' /\ StillThere(i)'
        <3>1. i \in 1..Len(table) /\ fetched'[i] = table[i] /\ table' = table BY <2>1
        <3>2. OwnRow(table[i]) BY <1>0, <3>1 DEF TableSound
        <3>3. Unacked(fetched[i].id)' BY <3>1 DEF Unacked
        <3> QED BY <3>1, <3>2, <3>3 DEF Known, StillThere, OwnRow
    <2>3. \A i, j \in 1..Len(fetched') : fetched'[i].id = fetched'[j].id => i = j BY <1>0, <2>1 DEF TableSound
    <2> QED BY <2>2, <2>3 DEF FetchedSound
<1>2. CASE PumpForward
    <2>1. pump = "forward" /\ UNCHANGED <<table, fetched, acked, drift, repeats>> BY <1>2 DEF PumpForward, SenderVars
    <2>2. \A id : (Known(id) => Known(id)') /\ (Repeated(id) => Repeated(id)') /\ (Unacked(id) => Unacked(id)')
        BY <2>1 DEF Known, Repeated, Unacked
    <2> QED BY <1>0, <2>1, <2>2 DEF FetchedSound, OwnRow, StillThere
<1>3. CASE PumpAck \/ PumpAckFails
    <2>0. pump = "ack" /\ NextFetched BY <1>3 DEF PumpAck, PumpAckFails
    <2>1. /\ 1 \in 1..Len(fetched) /\ fetched[1] = Head(fetched)
          /\ \A i \in 1..Len(fetched') : i + 1 \in 1..Len(fetched) /\ i + 1 # 1 /\ fetched'[i] = fetched[i + 1]
        BY <2>0, NextFacts
    <2>2. \A i \in 1..Len(fetched') : fetched'[i].id # Head(fetched).id
        BY <1>0, <2>0, <2>1 DEF FetchedSound
    <2>3. ASSUME NEW i \in 1..Len(fetched') PROVE OwnRow(fetched[i])' /\ Known(fetched[i].id)' /\ StillThere(i)'
        <3>1. OwnRow(fetched'[i]) /\ Known(fetched'[i].id) /\ (Unacked(fetched'[i].id) \/ Repeated(fetched'[i].id))
            BY <1>0, <2>0, <2>1 DEF FetchedSound, StillThere
        <3>2. PICK id : id = fetched'[i].id OBVIOUS
        <3>3. Known(id)' /\ (Repeated(id) => Repeated(id)') BY <3>1, <3>2, KnownStays
        <3>4. Unacked(id) => Unacked(id)'
            <4>1. CASE PumpAck
                <5>1. AckOf(Head(fetched)) BY <4>1, PumpAckFacts
                <5> QED BY <2>2, <3>2, <5>1, AckedIds
            <4>2. CASE PumpAckFails BY <4>2, QuietFacts DEF Unacked
            <4> QED BY <1>3, <4>1, <4>2
        <3>5. Known(fetched[i].id)' BY <3>2, <3>3 DEF Known, Unacked
        <3>6. Unacked(fetched[i].id)' \/ Repeated(fetched[i].id)' BY <3>1, <3>2, <3>3, <3>4 DEF Unacked, Repeated
        <3>7. OwnRow(fetched[i])' BY <3>1 DEF OwnRow
        <3> QED BY <3>5, <3>6, <3>7 DEF StillThere
    <2>4. ASSUME NEW i \in 1..Len(fetched'), NEW j \in 1..Len(fetched'), fetched'[i].id = fetched'[j].id PROVE i = j
        <3>1. i + 1 = j + 1 BY <1>0, <2>0, <2>1, <2>4 DEF FetchedSound
        <3>2. i \in Nat /\ j \in Nat BY <2>0, NextFacts
        <3> QED BY <3>1, <3>2
    <2> QED BY <2>3, <2>4 DEF FetchedSound
<1>4. CASE UNCHANGED <<fetched, pump>> /\ pump' \in {"forward", "ack"} /\ ~PumpAck
    <2>1. ASSUME NEW i \in 1..Len(fetched) PROVE Known(fetched[i].id)' /\ StillThere(i)'
        <3>1. PICK id : id = fetched[i].id OBVIOUS
        <3>2. Known(id) /\ (Unacked(id) \/ (i = 1 /\ pump = "ack") \/ Repeated(id))
            BY <1>0, <1>4, <3>1 DEF FetchedSound, StillThere
        <3>3. Known(id)' /\ (Repeated(id) => Repeated(id)') BY <3>2, KnownStays
        <3>4. Unacked(id) => Unacked(id)' \/ (i = 1 /\ pump = "ack") \/ Repeated(id)
            <4> HAVE Unacked(id)
            <4>1. CASE UNCHANGED table BY <4>1 DEF Unacked
            <4>2. ASSUME NEW m \in Letters, Overwritten(table, table', m) PROVE Unacked(id)'
                BY <4>2, OverwrittenIds
            <4>3. ASSUME NEW r \in Row, Appended(r) PROVE Unacked(id)'
                BY <4>3, AppendedIds DEF Appended, MailSteps, MailTypeOK
            <4>4. ASSUME NEW r \in acked, TakenBack(r) PROVE Unacked(id)'
                BY <4>4, TakenBackIds DEF MailSteps, MailTypeOK
            <4>5. ASSUME Processed, AckOf(working), id = working.id PROVE (i = 1 /\ pump = "ack") \/ Repeated(id)
                <5>1. id \in Letters /\ WithActor(id) BY <4>5, ProcessedFacts DEF Row, WithActor
                <5>2. (pump = "ack" /\ Head(fetched).id = id) \/ Repeated(id) BY <5>1 DEF MailSteps, HandedOver
                <5>3. ASSUME pump = "ack", Head(fetched).id = id PROVE i = 1
                    <6>1. fetched # <<>> /\ fetched \in Seq(Row) BY <5>3 DEF MailSteps, MailTypeOK, TasksInStep
                    <6>2. Head(fetched) = fetched[1] /\ 1 \in 1..Len(fetched) BY <6>1, EndFacts
                    <6> QED BY <1>0, <3>1, <5>3, <6>2 DEF FetchedSound
                <5> QED BY <5>2, <5>3
            <4>6. ASSUME Processed, AckOf(working), id # working.id PROVE Unacked(id)'
                BY <4>6, AckedIds
            <4> QED BY <1>4, <4>1, <4>2, <4>3, <4>4, <4>5, <4>6, TableMoves
        <3> QED BY <1>4, <3>1, <3>2, <3>3, <3>4 DEF StillThere
    <2> QED BY <1>0, <1>4, <2>1 DEF FetchedSound, OwnRow
<1>5. CASE pump' \notin {"forward", "ack"} BY <1>5 DEF FetchedSound
<1>6. ASSUME ProcessorSend \/ Processed \/ Nacked PROVE UNCHANGED <<fetched, pump>>
    BY <1>6, SendFacts, QuietFacts DEF ProcessorRest
<1> QED BY <1>1, <1>2, <1>3, <1>4, <1>5, <1>6, RowsStay

LEMMA RowsStep ==
    ASSUME MailSteps, MailNext
    PROVE  RowsSound'
BY TableStep, AckedStep, FetchedStep DEF RowsSound, TableSound, AckedSound, FetchedSound, StillThere

\* Only the pump gives the actor a row.
LEMMA ActorHas ==
    ASSUME MailSteps, MailNext, NEW id \in Letters, WithActor(id)'
    PROVE  ~Crash /\ (WithActor(id) \/ (PumpForward /\ pump' = "ack" /\ id = Head(fetched).id))
<1>0. MailTypeOK /\ MailTypeOK' BY MailTypeStep DEF MailSteps
<1>1. ids \in Seq(Letters) /\ Len(ids) \in Nat BY <1>0, LenProperties DEF MailTypeOK
<1>2. id # NoRow.id /\ id # NoLetter BY MailboxAssumption DEF NoRow
<1>3. ASSUME UNCHANGED ids, UNCHANGED working \/ working' = NoRow PROVE WithActor(id)
    BY <1>2, <1>3 DEF WithActor
<1>4. ASSUME ids' = <<>>, working' = NoRow PROVE FALSE
    BY <1>2, <1>4, NoneSet DEF WithActor
<1>10. ~Crash /\ ~ActorStops
    BY <1>4 DEF ActorStops, Crash, Built
<1>5. CASE ~PumpForward /\ ~PumpAck /\ ~Receive /\ ~Processed /\ ~Nacked
    BY <1>3, <1>5, <1>10, RowVarsStay
<1>6. CASE PumpAck BY <1>3, <1>6, <1>10 DEF PumpAck
<1>7. CASE PumpForward
    <2>1. UNCHANGED working /\ (UNCHANGED ids \/ (pump' = "ack" /\ ids' = Append(ids, Head(fetched).id)))
        BY <1>7 DEF PumpForward
    <2>2. fetched # <<>> /\ fetched \in Seq(Row) BY <1>0, <1>7 DEF PumpForward, MailSteps, TasksInStep, MailTypeOK
    <2>3. Head(fetched).id \in Letters BY <1>0, <2>2, EndFacts, MailFacts
    <2>5. ASSUME pump' = "ack", ids' = Append(ids, Head(fetched).id) PROVE WithActor(id) \/ id = Head(fetched).id
        <3>1. /\ Len(ids') = Len(ids) + 1 /\ ids'[Len(ids) + 1] = Head(fetched).id
              /\ \A i \in 1..Len(ids) : ids'[i] = ids[i]
            BY <1>1, <2>3, <2>5, AppendFacts
        <3>2. \A i \in 1..Len(ids') : i \in 1..Len(ids) \/ i = Len(ids) + 1 BY <1>1, <3>1
        <3> QED BY <2>1, <3>1, <3>2 DEF WithActor
    <2> QED BY <1>3, <1>7, <1>10, <2>1, <2>5
<1>8. CASE Receive
    <2>2. CASE ~Running("durable") BY <1>3, <1>8, <1>10, <2>2 DEF Receive
    <2>3. CASE Running("durable")
        <3>1. working' = [id |-> Head(ids), body |-> Head(inbox)] /\ ids' = Tail(ids) /\ inbox # <<>>
            BY <1>8, <2>3 DEF Receive
        <3>2. ids # <<>>
            <4>1. Len(ids) = Len(inbox) /\ inbox \in Seq(Letters) BY <2>3 DEF MailSteps, HandedOver, MailTypeOK
            <4> QED BY <1>1, <3>1, <4>1, NoneSet
        <3>3. /\ Head(ids) = ids[1] /\ Len(ids') = Len(ids) - 1 /\ Len(ids) \in Nat \ {0}
              /\ \A i \in 1..Len(ids) - 1 : ids'[i] = ids[i + 1]
            BY <1>1, <3>1, <3>2, EndFacts
        <3>4. 1 \in 1..Len(ids) /\ \A i \in 1..Len(ids') : i + 1 \in 1..Len(ids) /\ ids'[i] = ids[i + 1] BY <3>3
        <3>5. working'.id = ids[1] BY <3>1, <3>3
        <3> QED BY <1>10, <3>4, <3>5 DEF WithActor
    <2> QED BY <2>2, <2>3
<1>9. CASE Processed \/ Nacked
    BY <1>3, <1>9, <1>10, QuietFacts
<1> QED BY <1>5, <1>6, <1>7, <1>8, <1>9

\* As many ids as messages wait for the actor.
LEMMA IdsStep ==
    ASSUME MailSteps, MailNext, Running("durable")'
    PROVE  Len(ids') = Len(inbox')
<1>0. MailTypeOK /\ UNCHANGED config BY DriftGrows DEF MailSteps
<1>1. Running("durable") BY <1>0 DEF Running
<1>2. Len(ids) = Len(inbox) BY <1>1 DEF MailSteps, HandedOver
<1>3. ids \in Seq(Letters) /\ inbox \in Seq(Letters) BY <1>0 DEF MailTypeOK
<1>4. CASE PumpForward
    <2>1. fetched # <<>> /\ fetched \in Seq(Row) BY <1>0, <1>4 DEF PumpForward, MailSteps, TasksInStep, MailTypeOK
    <2>2. Head(fetched).id \in Letters /\ Head(fetched).body \in Letters BY <1>0, <2>1, EndFacts, MailFacts
    <2>3. Len(Append(ids, Head(fetched).id)) = Len(ids) + 1 /\ Len(Append(inbox, Head(fetched).body)) = Len(inbox) + 1
        BY <1>3, <2>2, AppendFacts
    <2> QED BY <1>2, <1>4, <2>3 DEF PumpForward
<1>5. CASE Receive
    <2>1. inbox # <<>> /\ inbox' = Tail(inbox) /\ ids' = Tail(ids) BY <1>1, <1>5 DEF Receive
    <2>2. ids # <<>> BY <1>2, <1>3, <2>1, NoneSet
    <2> QED BY <1>2, <1>3, <2>1, <2>2, EndFacts
<1>6. CASE ActorStops \/ Crash
    BY <1>6 DEF ActorStops, Crash, Built
<1>7. CASE PumpAck \/ Processed \/ Nacked
    BY <1>2, <1>7, QuietFacts DEF PumpAck
<1>8. CASE ~PumpForward /\ ~Receive /\ ~ActorStops /\ ~Crash /\ ~PumpAck /\ ~Processed /\ ~Nacked
    <2>1. UNCHANGED ids BY <1>8, RowVarsStay
    <2>2. UNCHANGED inbox
        <3>1. ASSUME NEW s \in Senders, NEW m \in Letters,
                     \/ EnqueueRefused(s, m) \/ EnqueuePlain(s, m) \/ EnqueueFirstSeen(s, m) \/ EnqueueDuplicate(s, m)
                     \/ EnqueueOverwrite(s, m)
              PROVE  UNCHANGED inbox
            BY <3>1 DEF EnqueueRefused, EnqueuePlain, EnqueueFirstSeen, EnqueueDuplicate, EnqueueOverwrite, AfterBegin
        <3>2. ASSUME NEW s \in Senders, FastLoad(s) \/ Push(s) \/ Count(s) \/ Complete(s) PROVE UNCHANGED inbox
            BY <3>2 DEF FastLoad, Push, Count, Complete, AfterCount
        <3>3. ASSUME NEW s \in Senders, FastTrySend(s) PROVE FALSE
            <4>1. sender[s].at = "try" BY <3>3 DEF FastTrySend
            <4>2. ~Queued BY <4>1 DEF MailSteps, PathsApart
            <4> QED BY <1>1, <4>2 DEF Queued, Running
        <3>4. ASSUME NEW k \in Keys, Evict(k) PROVE UNCHANGED inbox BY <3>4 DEF Evict
        <3>5. CASE ProcessorSend
            BY <1>1, <3>5, SendFacts DEF SentToActor, SentToTable, SentNowhere, ProcessorEnds, Running
        <3>6. CASE \/ ProcessorCheck \/ ProcessorAwait \/ ProcessorDrain \/ PumpReceive \/ PumpAwait \/ PumpAckFails
                   \/ BeginShutdown \/ CloseChannel
            BY <3>6 DEF ProcessorCheck, ProcessorAwait, ProcessorDrain, PumpReceive, PumpAwait, PumpAckFails,
                  BeginShutdown, CloseChannel
        <3> QED BY <1>8, <3>1, <3>2, <3>3, <3>4, <3>5, <3>6 DEF MailNext, EnqueueSteps, ProcessorStep, PumpStep, ActorStep
    <2> QED BY <1>2, <2>1, <2>2
<1> QED BY <1>4, <1>5, <1>6, <1>7, <1>8

(***************************************************************************)
(* The channel knows the row of every message that the actor has; and when *)
(* the pump has acked it, it is out of the table until it comes again.     *)
(***************************************************************************)
LEMMA HandedStep ==
    ASSUME MailSteps, MailNext
    PROVE  HandedOver'
<1>0. TableSound /\ AckedSound /\ FetchedSound /\ table \in Seq(Row) BY RowsParts DEF MailSteps, MailTypeOK
<1>1. ASSUME NEW id \in Letters, WithActor(id)' PROVE Known(id)'
    <2>1. CASE WithActor(id) BY <2>1, KnownStays DEF MailSteps, HandedOver
    <2>2. CASE PumpForward /\ id = Head(fetched).id
        <3>1. pump = "forward" /\ fetched # <<>> /\ fetched \in Seq(Row)
            BY <2>2 DEF PumpForward, MailSteps, TasksInStep, MailTypeOK
        <3>2. Head(fetched) = fetched[1] /\ 1 \in 1..Len(fetched) BY <3>1, EndFacts
        <3>3. Known(id) BY <1>0, <2>2, <3>1, <3>2 DEF FetchedSound
        <3> QED BY <3>3, KnownStays
    <2> QED BY <1>1, <2>1, <2>2, ActorHas
<1>2. ASSUME NEW id \in Letters, WithActor(id)', Unacked(id)'
      PROVE  (pump' = "ack" /\ Head(fetched').id = id) \/ Repeated(id)'
    <2>1. CASE PumpForward /\ pump' = "ack" /\ id = Head(fetched).id BY <2>1 DEF PumpForward
    <2>2. CASE WithActor(id) /\ ~Crash
        <3>0. Known(id) BY <2>2 DEF MailSteps, HandedOver
        <3>1. CASE Unacked(id)
            <4>1. (pump = "ack" /\ Head(fetched).id = id) \/ Repeated(id) BY <2>2, <3>1 DEF MailSteps, HandedOver
            <4>2. ASSUME pump = "ack", Head(fetched).id = id
                  PROVE  (pump' = "ack" /\ Head(fetched').id = id) \/ Repeated(id)'
                <5>1. CASE UNCHANGED <<pump, fetched>> BY <4>2, <5>1
                <5>2. CASE PumpAck
                    <6>1. AckOf(Head(fetched)) BY <5>2, PumpAckFacts
                    <6> QED BY <1>2, <4>2, <6>1, AckedIds
                <5>3. CASE PumpAckFails
                    <6>1. GivenAgain(id) BY <4>2, <5>3, AckFailsFacts
                    <6> QED BY <6>1, AgainFacts DEF Repeated
                <5>4. ASSUME ProcessorSend \/ Processed \/ Nacked PROVE UNCHANGED <<fetched, pump>>
                    BY <5>4, SendFacts, QuietFacts DEF ProcessorRest
                <5>5. ~PumpReceive /\ ~PumpForward BY <4>2 DEF PumpReceive, PumpForward
                <5> QED BY <2>2, <4>2, <5>1, <5>2, <5>3, <5>4, <5>5, RowsStay
            <4> QED BY <4>1, <4>2, KnownStays
        <3>2. CASE ~Unacked(id)
            <4>1. ~(UNCHANGED <<table, acked>>) BY <1>2, <3>2 DEF Unacked
            <4>2. ASSUME NEW m \in Letters, Overwritten(table, table', m) PROVE FALSE
                BY <1>2, <3>2, <4>2, OverwrittenIds
            <4>3. ASSUME NEW r \in Row, Appended(r) PROVE FALSE
                BY <1>0, <1>2, <3>0, <3>2, <4>3, AppendedIds DEF Appended
            <4>4. ASSUME NEW h, AckOf(h) PROVE FALSE
                BY <1>2, <3>2, <4>4, AckedIds
            <4>5. ASSUME NEW r \in acked, TakenBack(r) PROVE Repeated(id)'
                <5>1. id = r.id BY <1>0, <1>2, <3>2, <4>5, TakenBackIds
                <5>2. GivenAgain(id) BY <4>5, <5>1 DEF TakenBack
                <5> QED BY <5>2, AgainFacts DEF Repeated
            <4> QED BY <4>1, <4>2, <4>3, <4>4, <4>5, TableMoves
        <3> QED BY <3>1, <3>2
    <2> QED BY <1>2, <2>1, <2>2, ActorHas
<1> QED BY <1>1, <1>2, IdsStep DEF HandedOver

-----------------------------------------------------------------------------
(* The mailbox: what was taken stays in hand until it is given up.         *)

\* Membership by place.
LEMMA InSet ==
    ASSUME NEW T, NEW s \in Seq(T), NEW x
    PROVE  x \in ToSet(s) <=> \E i \in 1..Len(s) : s[i] = x
<1>1. DOMAIN s = 1..Len(s) BY LenProperties
<1> QED BY <1>1 DEF ToSet

\* The same for the body of a row.
LEMMA BodyIn ==
    ASSUME NEW t \in Seq(Row), NEW m
    PROVE  (\E r \in ToSet(t) : r.body = m) <=> \E i \in 1..Len(t) : t[i].body = m
<1>1. \A x : x \in ToSet(t) <=> \E i \in 1..Len(t) : t[i] = x BY InSet
<1> QED BY <1>1

(***************************************************************************)
(* A message that has left its sender is on its way, has arrived or is     *)
(* known to be gone, from then on.                                         *)
(***************************************************************************)
LEMMA SettledStays ==
    ASSUME MailSteps, MailNext, NEW m \in Letters, Settled(m)
    PROVE  Settled(m)'
<1>0. MailTypeOK /\ MailTypeOK' BY MailTypeStep DEF MailSteps
<1>1. /\ iq \in Seq(Letters) /\ batch \in Seq(Letters) /\ inbox \in Seq(Letters) /\ table \in Seq(Row)
      /\ received \in [Letters -> Nat]
    BY <1>0 DEF MailTypeOK
<1>2. ASSUME ToSet(iq) \subseteq ToSet(iq') \union gone', gone \subseteq gone', ToSet(inbox) \subseteq ToSet(inbox'),
             UNCHANGED <<batch, table, received>>
      PROVE  Settled(m)'
    BY <1>2 DEF Settled
<1>3. ASSUME NEW s \in Senders, NEW x \in Letters,
             EnqueueRefused(s, x) \/ EnqueuePlain(s, x) \/ EnqueueFirstSeen(s, x) \/ EnqueueDuplicate(s, x)
      PROVE  Settled(m)'
    <2>1. UNCHANGED <<iq, batch, inbox, table, received, gone>>
        BY <1>3 DEF EnqueueRefused, EnqueuePlain, EnqueueFirstSeen, EnqueueDuplicate, AfterBegin
    <2> QED BY <1>2, <2>1
<1>4. ASSUME NEW s \in Senders, NEW x \in Letters, EnqueueOverwrite(s, x) PROVE Settled(m)'
    <2>1. /\ ToSet(iq) \subseteq ToSet(iq') \union gone' /\ gone \subseteq gone'
          /\ UNCHANGED <<batch, inbox, table, received>>
        BY <1>4, OverwriteFacts DEF AfterBegin
    <2> QED BY <1>2, <2>1
<1>5. ASSUME NEW s \in Senders, FastLoad(s) PROVE Settled(m)'
    <2>1. /\ sender[s].at # "idle" /\ UNCHANGED <<iq, batch, inbox, table, received>>
          /\ AnswerFull(s) \/ AnswerDropped(s) \/ UNCHANGED gone
        BY <1>5 DEF FastLoad, AfterPush
    <2>2. gone \subseteq gone' BY <2>1, AnswerFacts
    <2> QED BY <1>2, <2>1, <2>2
<1>6. ASSUME NEW s \in Senders, FastTrySend(s) PROVE Settled(m)'
    <2>1. /\ sender[s].at # "idle" /\ UNCHANGED <<iq, batch, table, received>>
          /\ \/ inbox' = Append(inbox, sender[s].m) /\ UNCHANGED gone
             \/ (AnswerFull(s) \/ AnswerDropped(s) \/ gone' = gone \union {sender[s].m}) /\ UNCHANGED inbox
        BY <1>6, TrySendFacts DEF AfterPush
    <2>2. sender[s].m \in Letters BY <2>1, SenderFacts
    <2>3. ToSet(Append(inbox, sender[s].m)) = ToSet(inbox) \cup {sender[s].m} BY <1>1, <2>2, AppendFacts
    <2>4. gone \subseteq gone' BY <2>1, AnswerFacts
    <2>5. ToSet(inbox) \subseteq ToSet(inbox') BY <2>1, <2>3
    <2> QED BY <1>2, <2>1, <2>4, <2>5
<1>7. ASSUME NEW s \in Senders, Push(s) PROVE Settled(m)'
    <2>1. sender[s].at # "idle" /\ UNCHANGED <<batch, inbox, table, received>>
        BY <1>7, PushFacts DEF AfterPush
    <2>2. CASE \E rest \in Seq(Letters) : Pushed(s, rest)
        <3>1. ToSet(iq) \subseteq ToSet(iq') \union gone' /\ gone \subseteq gone' BY <2>2 DEF Pushed
        <3> QED BY <1>2, <2>1, <3>1
    <2>3. CASE (AnswerFull(s) \/ AnswerDropped(s)) /\ UNCHANGED <<iq, depth, drift>>
        <3>1. gone \subseteq gone' BY <2>1, <2>3, AnswerFacts
        <3> QED BY <1>2, <2>1, <2>3, <3>1
    <2> QED BY <1>7, <2>2, <2>3, PushFacts
<1>8. ASSUME NEW s \in Senders, Count(s) \/ Complete(s) PROVE Settled(m)'
    <2>1. UNCHANGED <<iq, batch, inbox, table, received, gone>> BY <1>8, FinishFacts
    <2> QED BY <1>2, <2>1
<1>9. ASSUME NEW k \in Keys, Evict(k) PROVE Settled(m)'
    <2>1. UNCHANGED <<iq, batch, inbox, table, received, gone>> BY <1>9 DEF Evict
    <2> QED BY <1>2, <2>1
<1>10. CASE ProcessorCheck \/ ProcessorAwait \/ PumpReceive \/ PumpAwait \/ BeginShutdown \/ CloseChannel
    <2>1. UNCHANGED <<iq, batch, inbox, table, received, gone>>
        BY <1>10 DEF ProcessorCheck, ProcessorAwait, PumpReceive, PumpAwait, BeginShutdown, CloseChannel
    <2> QED BY <1>2, <2>1
<1>11. CASE ProcessorDrain
    <2>1. processor = "drain" /\ batch' = iq /\ iq' = <<>> /\ UNCHANGED <<inbox, table, received, gone>>
        BY <1>11 DEF ProcessorDrain
    <2>2. ToSet(batch) = {}
        <3>1. batch = <<>> BY <2>1 DEF MailSteps, TasksInStep
        <3> QED BY <3>1, NoneSet
    <2> QED BY <2>1, <2>2 DEF Settled
<1>12. CASE ProcessorSend
    <2>0. batch # <<>> /\ UNCHANGED <<iq, received>> BY <1>12, SendFacts DEF ProcessorRest
    <2>1. PICK h : h = Head(batch) OBVIOUS
    <2>2. h \in Letters /\ ToSet(batch) = {h} \cup ToSet(Tail(batch)) BY <1>1, <2>0, <2>1, EndFacts
    <2>3. CASE SentToActor
        <3>1. batch' = Tail(batch) /\ inbox' = Append(inbox, h) /\ gone \subseteq gone' /\ UNCHANGED table
            BY <2>1, <2>3 DEF SentToActor, SentOn
        <3>2. ToSet(inbox') = ToSet(inbox) \cup {h} BY <1>1, <2>2, <3>1, AppendFacts
        <3> QED BY <2>0, <2>2, <3>1, <3>2 DEF Settled
    <2>4. CASE SentNowhere \/ ProcessorEnds
        <3>1. /\ ToSet(batch) \subseteq ToSet(batch') \union gone' /\ gone \subseteq gone' /\ UNCHANGED <<table, inbox>>
            BY <2>1, <2>2, <2>4 DEF SentNowhere, SentOn, ProcessorEnds
        <3> QED BY <2>0, <3>1 DEF Settled
    <2>5. CASE SentToTable
        <3>1. /\ batch' = Tail(batch) /\ gone \subseteq gone' /\ UNCHANGED inbox /\ table' \in Seq(Row)
              /\ \A i \in 1..Len(table) : table'[i] = table[i] \/ table[i].body \in gone'
            BY <2>5 DEF SentToTable, SentOn
        <3>2. Len(table) \in Nat BY <1>1, LenProperties
        <3>3. (\E i \in 1..Len(table') : table'[i].body = h) /\ 1..Len(table) \subseteq 1..Len(table')
            <4>1. CASE Overwritten(table, table', h) BY <4>1 DEF Overwritten
            <4>2. CASE ~Overwritten(table, table', h)
                <5>1. PICK r : r = [id |-> h, body |-> h] OBVIOUS
                <5>2. r \in Row /\ r.body = h BY <2>2, <5>1 DEF Row
                <5>3. table' = Append(table, r) BY <2>1, <2>5, <4>2, <5>1 DEF SentToTable
                <5>4. Len(table') = Len(table) + 1 /\ table'[Len(table) + 1] = r BY <1>1, <5>2, <5>3, AppendFacts
                <5>5. Len(table) + 1 \in 1..Len(table') BY <3>2, <5>4
                <5> QED BY <3>2, <5>2, <5>4, <5>5
            <4> QED BY <4>1, <4>2
        <3>4. \A x : (\E r \in ToSet(table) : r.body = x) => x \in gone' \/ \E r \in ToSet(table') : r.body = x
            <4> TAKE x
            <4> HAVE \E r \in ToSet(table) : r.body = x
            <4>1. PICK i \in 1..Len(table) : table[i].body = x BY <1>1, BodyIn
            <4>2. x \in gone' \/ table'[i].body = x BY <3>1, <4>1
            <4>3. i \in 1..Len(table') BY <3>3
            <4> QED BY <3>1, <4>2, <4>3, BodyIn
        <3>5. \E r \in ToSet(table') : r.body = h BY <3>1, <3>3, BodyIn
        <3> QED BY <2>0, <2>2, <3>1, <3>4, <3>5 DEF Settled
    <2> QED BY <1>12, <2>3, <2>4, <2>5, SendFacts
<1>13. CASE PumpForward
    <2>1. UNCHANGED <<iq, batch, table, received, gone>> /\ fetched # <<>> /\ fetched \in Seq(Row)
          /\ (UNCHANGED inbox \/ inbox' = Append(inbox, Head(fetched).body))
        BY <1>0, <1>13 DEF PumpForward, MailSteps, TasksInStep, MailTypeOK
    <2>2. Head(fetched).body \in Letters BY <1>0, <2>1, EndFacts, MailFacts
    <2>3. ToSet(Append(inbox, Head(fetched).body)) = ToSet(inbox) \cup {Head(fetched).body} BY <1>1, <2>2, AppendFacts
    <2>4. ToSet(inbox) \subseteq ToSet(inbox') BY <2>1, <2>3
    <2> QED BY <1>2, <2>1, <2>4
<1>18. ASSUME NEW h, AckOf(h), UNCHANGED <<iq, batch, inbox, received>>,
              h.body \in ToSet(inbox) \union gone \/ received[h.body] > 0
       PROVE  Settled(m)'
    <2>2. /\ table' \in Seq(Row) /\ gone \subseteq gone'
          /\ \A i \in 1..Len(table) : table[i].id # h.id => \E k \in 1..Len(table') : table'[k] = table[i]
          /\ \A i \in 1..Len(table) : table[i].id = h.id => table[i].body \in gone' \/ table[i].body = h.body
        BY <1>18 DEF AckOf
    <2>4. (\E r \in ToSet(table) : r.body = m) => m \in gone' \/ m = h.body \/ \E r \in ToSet(table') : r.body = m
        <3> HAVE \E r \in ToSet(table) : r.body = m
        <3>1. PICK i \in 1..Len(table) : table[i].body = m BY <1>1, BodyIn
        <3>2. CASE table[i].id = h.id BY <2>2, <3>1, <3>2
        <3>3. CASE table[i].id # h.id
            <4>1. \E k \in 1..Len(table') : table'[k].body = m BY <2>2, <3>1, <3>3
            <4> QED BY <2>2, <4>1, BodyIn
        <3> QED BY <3>2, <3>3
    <2> QED BY <1>18, <2>2, <2>4 DEF Settled
<1>14. CASE PumpAck
    <2>1. AckOf(Head(fetched)) /\ pump = "ack" /\ UNCHANGED <<iq, batch, inbox, received>>
        BY <1>14, PumpAckFacts DEF PumpAck
    <2>2. Head(fetched).body \in ToSet(inbox) \union gone \/ received[Head(fetched).body] > 0
        BY <2>1 DEF MailSteps, PromisesKept
    <2> QED BY <1>18, <2>1, <2>2
<1>19. CASE Processed
    <2>1. received[working.body] > 0 BY <1>19 DEF Processed, MailSteps, PromisesKept
    <2>2. UNCHANGED <<iq, batch, inbox, received>> BY <1>19, QuietFacts
    <2>3. CASE AckOf(working) BY <1>18, <2>1, <2>2, <2>3
    <2>4. CASE UNCHANGED <<table, acked, gone>> BY <1>2, <2>2, <2>4
    <2> QED BY <1>19, <2>3, <2>4, ProcessedFacts
<1>20. CASE Nacked
    <2>1. UNCHANGED <<iq, batch, inbox, received, gone>> BY <1>20, QuietFacts
    <2>2. ASSUME NEW r \in acked, TakenBack(r) PROVE Settled(m)'
        <3>1. r \in Row /\ table' \in Seq(Row) /\ Inserted(table, r, table') BY <2>2 DEF TakenBack
        <3>2. ToSet(table') = ToSet(table) \cup {r} BY <1>1, <3>1, InsertedSet
        <3> QED BY <2>1, <3>2 DEF Settled
    <2>3. CASE UNCHANGED <<table, acked, drift, repeats>> BY <1>2, <2>1, <2>3
    <2> QED BY <1>20, <2>2, <2>3, NackFacts
<1>21. CASE PumpAckFails
    BY <1>2, <1>21, QuietFacts
<1>15. CASE Receive
    <2>1. /\ inbox # <<>> /\ inbox' = Tail(inbox) /\ UNCHANGED <<iq, batch, table, gone>>
          /\ received' = [received EXCEPT ![Head(inbox)] = @ + 1]
        BY <1>15 DEF Receive
    <2>2. Head(inbox) \in Letters /\ ToSet(inbox) = {Head(inbox)} \cup ToSet(Tail(inbox)) BY <1>1, <2>1, EndFacts
    <2>3. received[m] \in Nat /\ received'[m] = (IF m = Head(inbox) THEN received[m] + 1 ELSE received[m])
        BY <1>1, <2>1
    <2>4. (m = Head(inbox) \/ received[m] > 0) => received'[m] > 0 BY <2>3
    <2> QED BY <2>1, <2>2, <2>4 DEF Settled
<1>16. CASE ActorStops
    <2>1. inbox' = <<>> /\ gone' = gone \union ToSet(inbox) /\ UNCHANGED <<iq, batch, table, received>>
        BY <1>16 DEF ActorStops
    <2> QED BY <2>1 DEF Settled
<1>17. CASE Crash
    <2>1. ToSet(iq) \union ToSet(batch) \union ToSet(inbox) \union gone \subseteq gone' /\ UNCHANGED <<table, received>>
        BY <1>17 DEF Crash
    <2> QED BY <2>1 DEF Settled
<1> QED BY <1>3, <1>4, <1>5, <1>6, <1>7, <1>8, <1>9, <1>10, <1>11, <1>12, <1>13, <1>14, <1>15, <1>16, <1>17,
           <1>19, <1>20, <1>21
        DEF MailNext, EnqueueSteps, ProcessorStep, PumpStep, ActorStep

\* The ways the call of a sender goes on.
SettlesOf(s) == \A m \in Letters : m = sender[s].m => Settled(m)'

CallBegins(s) == /\ sender[s].at = "idle" /\ sender'[s].at \in {"push", "load"} /\ sender'[s].m \in Letters
                 /\ sender'[s].record => KeyOf[sender'[s].m] # NoKey
CallGoesOn(s) == /\ sender[s].at # "idle" /\ sender'[s].at # "idle"
                 /\ sender'[s].m = sender[s].m /\ sender'[s].record = sender[s].record
                 /\ sender'[s].at \in {"count", "complete"} => SettlesOf(s)
CallEnds(s) == /\ sender[s].at # "idle" /\ sender'[s] = Idle
               /\ SettlesOf(s) \/ ~sender[s].record \/ KeyOf[sender[s].m] \in refused'

\* Every step leaves a call alone, begins it, goes on with it or ends it.
LEMMA CallsMove ==
    ASSUME MailSteps, MailNext, ~Crash, NEW t \in Senders
    PROVE  sender'[t] = sender[t] \/ CallBegins(t) \/ CallGoesOn(t) \/ CallEnds(t)
<1>0. MailTypeOK BY DEF MailSteps
<1>1. ASSUME NEW s \in Senders, NEW m \in Letters,
             \/ EnqueueRefused(s, m) \/ EnqueuePlain(s, m) \/ EnqueueFirstSeen(s, m) \/ EnqueueDuplicate(s, m)
             \/ EnqueueOverwrite(s, m)
      PROVE  sender'[t] = sender[t] \/ CallBegins(t)
    <2>1. /\ sender[s].at = "idle"
          /\ UNCHANGED sender \/ ToQueue(s, m, FALSE) \/ (ToQueue(s, m, TRUE) /\ KeyOf[m] # NoKey)
        BY <1>1, OverwriteFacts DEF EnqueueRefused, EnqueuePlain, EnqueueFirstSeen, EnqueueDuplicate, Begin
    <2>2. ASSUME NEW record \in BOOLEAN, ToQueue(s, m, record), record => KeyOf[m] # NoKey
          PROVE  sender'[t] = sender[t] \/ CallBegins(t)
        <3>1. /\ sender'[s].at \in {"push", "load"} /\ sender'[s].m = m /\ sender'[s].record = record
              /\ t # s => sender'[t] = sender[t]
            BY <1>0, <2>2, SenderMoves
        <3> QED BY <2>1, <2>2, <3>1 DEF CallBegins
    <2> QED BY <2>1, <2>2
<1>2. ASSUME NEW s \in Senders, sender[s].at # "idle", AnswerFull(s) \/ AnswerDropped(s)
      PROVE  sender'[t] = sender[t] \/ CallEnds(t)
    <2>1. /\ sender'[s] = Idle /\ (t # s => sender'[t] = sender[t])
          /\ (sender[s].record /\ KeyOf[sender[s].m] \in refused') \/ sender[s].m \in gone' \/ ~sender[s].record
        BY <1>2, AnswerFacts
    <2> QED BY <1>2, <2>1 DEF CallEnds, SettlesOf, Settled
<1>3. ASSUME NEW s \in Senders, sender[s].at # "idle", NEW at \in {"try", "count", "complete"}, Go(s, at),
             at # "try" => SettlesOf(s)
      PROVE  sender'[t] = sender[t] \/ CallGoesOn(t)
    <2>1. /\ sender'[s].at = at /\ sender'[s].m = sender[s].m /\ sender'[s].record = sender[s].record
          /\ t # s => sender'[t] = sender[t]
        BY <1>0, <1>3, SenderMoves DEF SenderAt
    <2> QED BY <1>3, <2>1 DEF CallGoesOn
<1>4. ASSUME NEW s \in Senders, FastLoad(s)
      PROVE  sender'[t] = sender[t] \/ CallGoesOn(t) \/ CallEnds(t)
    <2>1. sender[s].at # "idle" /\ (AnswerFull(s) \/ AnswerDropped(s) \/ Go(s, "try")) BY <1>4 DEF FastLoad
    <2> QED BY <1>2, <1>3, <2>1
<1>5. ASSUME NEW s \in Senders, FastTrySend(s)
      PROVE  sender'[t] = sender[t] \/ CallGoesOn(t) \/ CallEnds(t)
    <2>1. sender[s].at # "idle" /\ sender[s].m \in Letters BY <1>5, TrySendFacts, SenderFacts
    <2>2. CASE AnswerFull(s) \/ AnswerDropped(s) BY <1>2, <2>1, <2>2
    <2>3. ASSUME Go(s, "complete"), gone' = gone \union {sender[s].m} PROVE sender'[t] = sender[t] \/ CallGoesOn(t)
        <3>1. SettlesOf(s) BY <2>3 DEF SettlesOf, Settled
        <3> QED BY <1>3, <2>1, <2>3, <3>1
    <2>4. ASSUME Go(s, "count"), inbox' = Append(inbox, sender[s].m) PROVE sender'[t] = sender[t] \/ CallGoesOn(t)
        <3>1. inbox \in Seq(Letters) BY <1>0 DEF MailTypeOK
        <3>2. sender[s].m \in ToSet(inbox') BY <2>1, <2>4, <3>1, AppendFacts
        <3>3. SettlesOf(s) BY <3>2 DEF SettlesOf, Settled
        <3> QED BY <1>3, <2>1, <2>4, <3>3
    <2> QED BY <1>5, <2>2, <2>3, <2>4, TrySendFacts
<1>6. ASSUME NEW s \in Senders, Push(s)
      PROVE  sender'[t] = sender[t] \/ CallGoesOn(t) \/ CallEnds(t)
    <2>1. sender[s].at # "idle" BY <1>6, PushFacts
    <2>2. CASE AnswerFull(s) \/ AnswerDropped(s) BY <1>2, <2>1, <2>2
    <2>3. ASSUME NEW rest \in Seq(Letters), Pushed(s, rest) PROVE sender'[t] = sender[t] \/ CallGoesOn(t)
        <3>1. Go(s, "count") /\ sender[s].m \in ToSet(iq') BY <2>3 DEF Pushed
        <3>2. SettlesOf(s) BY <3>1 DEF SettlesOf, Settled
        <3> QED BY <1>3, <2>1, <3>1, <3>2
    <2> QED BY <1>6, <2>2, <2>3, PushFacts
<1>7. ASSUME NEW s \in Senders, Count(s) \/ Complete(s)
      PROVE  sender'[t] = sender[t] \/ CallGoesOn(t) \/ CallEnds(t)
    <2>1. /\ sender[s].at \in {"count", "complete"} /\ (Go(s, "complete") \/ Return(s))
        BY <1>7 DEF Count, Complete, Finish
    <2>2. sender[s].at # "idle" /\ sender[s].m \in Letters BY <2>1, SenderFacts
    <2>3. Settled(sender[s].m) BY <2>1, <2>2 DEF MailSteps, PromisesKept
    <2>4. SettlesOf(s) BY <2>2, <2>3, SettledStays DEF SettlesOf
    <2>5. CASE Go(s, "complete") BY <1>3, <2>2, <2>4, <2>5
    <2>6. CASE Return(s)
        <3>1. sender'[s] = Idle /\ (t # s => sender'[t] = sender[t]) BY <1>0, <2>6, SenderMoves
        <3> QED BY <2>2, <2>4, <3>1 DEF CallEnds
    <2> QED BY <2>1, <2>5, <2>6
<1>8. ASSUME NEW k \in Keys, Evict(k) PROVE sender'[t] = sender[t]
    BY <1>8 DEF Evict
<1>9. CASE ProcessorStep \/ PumpStep \/ ActorStep \/ ActorStops \/ BeginShutdown \/ CloseChannel
    <2>1. UNCHANGED sender
        BY <1>9 DEF ProcessorStep, PumpStep, ProcessorCheck, ProcessorAwait, ProcessorDrain, ProcessorSend,
              PumpReceive, PumpAwait, PumpForward, PumpAck, PumpAckFails, ActorStep, Receive, Processed, Nacked, ActorStops,
              BeginShutdown, CloseChannel, SenderVars
    <2> QED BY <2>1
<1> QED BY <1>1, <1>4, <1>5, <1>6, <1>7, <1>8, <1>9 DEF MailNext, EnqueueSteps

(***************************************************************************)
(* What is promised stays promised, unless the key is refused; and keys    *)
(* stay refused.                                                           *)
(***************************************************************************)
LEMMA RefusedStays ==
    ASSUME MailSteps, MailNext
    PROVE  refused \subseteq refused'
<1>1. ASSUME NEW s \in Senders, NEW m \in Letters,
             \/ EnqueueRefused(s, m) \/ EnqueuePlain(s, m) \/ EnqueueFirstSeen(s, m) \/ EnqueueDuplicate(s, m)
             \/ EnqueueOverwrite(s, m)
      PROVE  UNCHANGED refused
    BY <1>1 DEF EnqueueRefused, EnqueuePlain, EnqueueFirstSeen, EnqueueDuplicate, EnqueueOverwrite, AfterBegin
<1>2. ASSUME NEW s \in Senders, FastLoad(s) \/ FastTrySend(s) \/ Push(s) PROVE refused \subseteq refused'
    <2>1. AnswerFull(s) \/ UNCHANGED refused
        <3>1. CASE FastLoad(s) BY <3>1 DEF FastLoad, AnswerDropped
        <3>2. CASE FastTrySend(s) BY <3>2, TrySendFacts DEF AnswerDropped
        <3>3. CASE Push(s) BY <3>3, PushFacts DEF AnswerDropped, Pushed
        <3> QED BY <1>2, <3>1, <3>2, <3>3
    <2> QED BY <2>1 DEF AnswerFull
<1>3. ASSUME NEW s \in Senders, Count(s) \/ Complete(s) PROVE UNCHANGED refused
    BY <1>3, FinishFacts
<1>4. ASSUME NEW k \in Keys, Evict(k) PROVE UNCHANGED refused
    BY <1>4 DEF Evict
<1>5. CASE ProcessorStep \/ PumpStep \/ ActorStep \/ ActorStops \/ BeginShutdown \/ CloseChannel
    <2>1. UNCHANGED refused
        BY <1>5 DEF ProcessorStep, PumpStep, ProcessorCheck, ProcessorAwait, ProcessorDrain, ProcessorSend,
              PumpReceive, PumpAwait, PumpForward, PumpAck, PumpAckFails, ActorStep, Receive, Processed, Nacked, ActorStops,
              BeginShutdown, CloseChannel, SenderVars
    <2> QED BY <2>1
<1>6. CASE Crash BY <1>6 DEF Crash
<1> QED BY <1>1, <1>2, <1>3, <1>4, <1>5, <1>6 DEF MailNext, EnqueueSteps

\* A promise is kept, or its key is refused.
LEMMA PromisedStays ==
    ASSUME MailSteps, MailNext, NEW m \in Letters, Promised(m)
    PROVE  Promised(m)' \/ KeyOf[m] \in refused'
<1>1. CASE Settled(m)
    <2>1. Settled(m)' BY <1>1, SettledStays
    <2> QED BY <2>1 DEF Promised
<1>2. ASSUME NEW s \in Senders, sender[s].m = m, sender[s].record PROVE Promised(m)' \/ KeyOf[m] \in refused'
    <2>1. sender[s].at # "idle" BY <1>2 DEF MailSteps, PromisesKept
    <2>2. CASE Crash
        <3>1. m # NoLetter BY MailboxAssumption
        <3>2. m \in gone' BY <1>2, <2>2, <3>1 DEF Crash
        <3> QED BY <3>2 DEF Promised, Settled
    <2>3. CASE ~Crash
        <3>1. sender'[s] = sender[s] \/ CallGoesOn(s) \/ CallEnds(s)
            BY <2>1, <2>3, CallsMove DEF CallBegins
        <3>2. CASE sender'[s] = sender[s] BY <1>2, <3>2 DEF Promised
        <3>3. CASE CallGoesOn(s) BY <1>2, <3>3 DEF Promised, CallGoesOn
        <3>4. CASE CallEnds(s) BY <1>2, <3>4 DEF Promised, CallEnds, SettlesOf
        <3> QED BY <3>1, <3>2, <3>3, <3>4
    <2> QED BY <2>2, <2>3
<1> QED BY <1>1, <1>2 DEF Promised

\* A new answer: for a message that has left its sender, or for a key that is known.
LEMMA AnswersMove ==
    ASSUME MailSteps, MailNext, NEW m \in answered', m \notin answered
    PROVE  m \in Letters /\ (Settled(m)' \/ (KeyOf[m] \in Keys /\ seen[KeyOf[m]] # "none"))
<1>0. MailTypeOK BY DEF MailSteps
<1>1. ASSUME NEW s \in Senders, NEW x \in Letters,
             EnqueueRefused(s, x) \/ EnqueuePlain(s, x) \/ EnqueueFirstSeen(s, x)
      PROVE  FALSE
    <2>1. UNCHANGED answered BY <1>1 DEF EnqueueRefused, EnqueuePlain, EnqueueFirstSeen, AfterBegin
    <2> QED BY <2>1
<1>2. ASSUME NEW s \in Senders, NEW x \in Letters, EnqueueDuplicate(s, x)
      PROVE  m \in Letters /\ KeyOf[m] \in Keys /\ seen[KeyOf[m]] # "none"
    BY <1>2, MailboxAssumption DEF EnqueueDuplicate, Keys
<1>3. ASSUME NEW s \in Senders, NEW x \in Letters, EnqueueOverwrite(s, x) PROVE m \in Letters /\ Settled(m)'
    <2>1. m = x /\ x \in gone' BY <1>3, OverwriteFacts
    <2> QED BY <2>1 DEF Settled
<1>4. ASSUME NEW s \in Senders, sender[s].at # "idle", AnswerFull(s) \/ AnswerDropped(s)
      PROVE  m \in Letters /\ Settled(m)'
    <2>1. m = sender[s].m /\ m \in gone' /\ m \in Letters BY <1>4, AnswerFacts
    <2> QED BY <2>1 DEF Settled
<1>5. ASSUME NEW s \in Senders, FastLoad(s) \/ FastTrySend(s) \/ Push(s) PROVE m \in Letters /\ Settled(m)'
    <2>1. sender[s].at # "idle" /\ (AnswerFull(s) \/ AnswerDropped(s))
        <3>1. CASE FastLoad(s) BY <3>1 DEF FastLoad
        <3>2. CASE FastTrySend(s) BY <3>2, TrySendFacts
        <3>3. CASE Push(s) BY <3>3, PushFacts DEF Pushed
        <3> QED BY <1>5, <3>1, <3>2, <3>3
    <2> QED BY <1>4, <2>1
<1>6. ASSUME NEW s \in Senders, Count(s) \/ Complete(s) PROVE m \in Letters /\ Settled(m)'
    <2>1. sender[s].at \in {"count", "complete"} /\ m = sender[s].m
        BY <1>6 DEF Count, Complete, Finish
    <2>2. m \in Letters BY <2>1, SenderFacts
    <2>3. Settled(m) BY <2>1 DEF MailSteps, PromisesKept
    <2> QED BY <2>2, <2>3, SettledStays
<1>7. ASSUME NEW k \in Keys, Evict(k) PROVE FALSE
    BY <1>7 DEF Evict
<1>8. CASE ProcessorStep \/ PumpStep \/ ActorStep \/ ActorStops \/ BeginShutdown \/ CloseChannel \/ Crash
    <2>1. UNCHANGED answered
        BY <1>8 DEF ProcessorStep, PumpStep, ProcessorCheck, ProcessorAwait, ProcessorDrain, ProcessorSend,
              PumpReceive, PumpAwait, PumpForward, PumpAck, PumpAckFails, ActorStep, Receive, Processed, Nacked, ActorStops,
              BeginShutdown, CloseChannel, Crash, SenderVars
    <2> QED BY <2>1
<1> QED BY <1>1, <1>2, <1>3, <1>5, <1>6, <1>7, <1>8 DEF MailNext, EnqueueSteps

\* A new entry of the store belongs to a sender that will refuse it or deliver.
LEMMA KeysMove ==
    ASSUME MailSteps, MailNext, NEW k \in Keys, seen[k] = "none", seen'[k] # "none"
    PROVE  \E s \in Senders, m \in Letters : sender'[s].m = m /\ sender'[s].record /\ KeyOf[m] = k
<1>0. MailTypeOK /\ seen \in [Keys -> {"none", "in_flight", "complete"}] BY DEF MailSteps, MailTypeOK
<1>1. ASSUME NEW s \in Senders, NEW m \in Letters,
             EnqueueRefused(s, m) \/ EnqueuePlain(s, m) \/ EnqueueDuplicate(s, m) \/ EnqueueOverwrite(s, m)
      PROVE  FALSE
    <2>1. UNCHANGED seen BY <1>1 DEF EnqueueRefused, EnqueuePlain, EnqueueDuplicate, EnqueueOverwrite, AfterBegin
    <2> QED BY <2>1
<1>2. ASSUME NEW s \in Senders, NEW m \in Letters, EnqueueFirstSeen(s, m)
      PROVE  sender'[s].m = m /\ sender'[s].record /\ KeyOf[m] = k
    <2>1. ToQueue(s, m, TRUE) /\ seen' = [seen EXCEPT ![KeyOf[m]] = "in_flight"]
        BY <1>2 DEF EnqueueFirstSeen
    <2>2. KeyOf[m] = k BY <1>0, <2>1
    <2>3. sender'[s].m = m /\ sender'[s].record = TRUE BY <1>0, <2>1, SenderMoves
    <2> QED BY <2>2, <2>3
<1>3. ASSUME NEW s \in Senders, FastLoad(s) \/ FastTrySend(s) \/ Push(s) \/ Count(s) PROVE FALSE
    <2>1. UNCHANGED seen BY <1>3 DEF FastLoad, FastTrySend, Push, AfterPush, Count
    <2> QED BY <2>1
<1>4. ASSUME NEW s \in Senders, Complete(s) PROVE FALSE
    BY <1>0, <1>4 DEF Complete
<1>5. ASSUME NEW j \in Keys, Evict(j) PROVE FALSE
    BY <1>0, <1>5 DEF Evict
<1>6. CASE ProcessorStep \/ PumpStep \/ ActorStep \/ ActorStops \/ BeginShutdown \/ CloseChannel
    <2>1. UNCHANGED seen
        BY <1>6 DEF ProcessorStep, PumpStep, ProcessorCheck, ProcessorAwait, ProcessorDrain, ProcessorSend,
              PumpReceive, PumpAwait, PumpForward, PumpAck, PumpAckFails, ActorStep, Receive, Processed, Nacked, ActorStops,
              BeginShutdown, CloseChannel, SenderVars
    <2> QED BY <2>1
<1>7. CASE Crash BY <1>7 DEF Crash
<1> QED BY <1>1, <1>2, <1>3, <1>4, <1>5, <1>6, <1>7 DEF MailNext, EnqueueSteps

\* What the pump forwarded and is about to ack: it has reached the actor or is gone.
Forwarded(m) == m \in ToSet(inbox) \union gone \/ received[m] > 0

\* The row that the pump acks next has been forwarded.
LEMMA ForwardedStays ==
    ASSUME MailSteps, MailNext, pump' = "ack"
    PROVE  \E m \in Letters : fetched' # <<>> /\ Head(fetched').body = m /\ Forwarded(m)'
<1>0. MailTypeOK /\ MailTypeOK' BY MailTypeStep DEF MailSteps
<1>1. inbox \in Seq(Letters) /\ received \in [Letters -> Nat] /\ fetched \in Seq(Row) BY <1>0 DEF MailTypeOK
<1>2. CASE PumpForward
    <2>1. inbox' = Append(inbox, Head(fetched).body) /\ UNCHANGED fetched BY <1>2 DEF PumpForward
    <2>2. fetched # <<>> BY <1>2 DEF PumpForward, MailSteps, TasksInStep
    <2>3. Head(fetched).body \in Letters BY <1>0, <1>1, <2>2, EndFacts, MailFacts
    <2>4. PICK b \in Letters : b = Head(fetched).body BY <2>3
    <2>5. b \in ToSet(inbox') BY <1>1, <2>1, <2>4, AppendFacts
    <2> QED BY <2>1, <2>2, <2>4, <2>5 DEF Forwarded
<1>3. CASE ~PumpForward
    <2>1. pump = "ack" /\ UNCHANGED fetched
        <3>1. ~PumpReceive /\ ~PumpAck /\ ~PumpAckFails BY DEF PumpReceive, PumpAck, PumpAckFails, NextFetched
        <3>2. ASSUME ProcessorSend \/ Processed \/ Nacked PROVE UNCHANGED <<fetched, pump>>
            BY <3>2, SendFacts, QuietFacts DEF ProcessorRest
        <3> QED BY <1>3, <3>1, <3>2, RowsStay
    <2>2. fetched # <<>> BY <2>1 DEF MailSteps, TasksInStep
    <2>3. Head(fetched).body \in Letters BY <1>0, <1>1, <2>2, EndFacts, MailFacts
    <2>4. PICK b \in Letters : b = Head(fetched).body BY <2>3
    <2>5. Forwarded(b) BY <2>1, <2>4 DEF MailSteps, PromisesKept, Forwarded
    <2> SUFFICES Forwarded(b)' BY <2>1, <2>2, <2>4
    <2>6. ASSUME ToSet(inbox) \subseteq ToSet(inbox') \union gone', gone \subseteq gone', UNCHANGED received
          PROVE  Forwarded(b)'
        BY <2>5, <2>6 DEF Forwarded
    <2>7. ASSUME NEW s \in Senders, NEW m \in Letters,
                 \/ EnqueueRefused(s, m) \/ EnqueuePlain(s, m) \/ EnqueueFirstSeen(s, m) \/ EnqueueDuplicate(s, m)
                 \/ EnqueueOverwrite(s, m)
          PROVE  Forwarded(b)'
        <3>1. UNCHANGED <<inbox, received>> /\ gone \subseteq gone'
            BY <2>7, OverwriteFacts DEF EnqueueRefused, EnqueuePlain, EnqueueFirstSeen, EnqueueDuplicate, AfterBegin
        <3> QED BY <2>6, <3>1
    <2>8. ASSUME NEW s \in Senders, FastLoad(s) \/ Push(s) PROVE Forwarded(b)'
        <3>1. /\ sender[s].at # "idle" /\ UNCHANGED <<inbox, received>>
              /\ AnswerFull(s) \/ AnswerDropped(s) \/ gone \subseteq gone'
            <4>1. CASE FastLoad(s) BY <4>1 DEF FastLoad, AfterPush
            <4>2. CASE Push(s) BY <4>2, PushFacts DEF Pushed, AfterPush
            <4> QED BY <2>8, <4>1, <4>2
        <3>2. gone \subseteq gone' BY <3>1, AnswerFacts
        <3> QED BY <2>6, <3>1, <3>2
    <2>9. ASSUME NEW s \in Senders, FastTrySend(s) PROVE Forwarded(b)'
        <3>1. /\ sender[s].at # "idle" /\ UNCHANGED received
              /\ \/ inbox' = Append(inbox, sender[s].m) /\ UNCHANGED gone
                 \/ (AnswerFull(s) \/ AnswerDropped(s) \/ gone' = gone \union {sender[s].m}) /\ UNCHANGED inbox
            BY <2>9, TrySendFacts DEF AfterPush
        <3>2. sender[s].m \in Letters BY <3>1, SenderFacts
        <3>3. ToSet(Append(inbox, sender[s].m)) = ToSet(inbox) \cup {sender[s].m} BY <1>1, <3>2, AppendFacts
        <3>4. gone \subseteq gone' BY <3>1, AnswerFacts
        <3>5. ToSet(inbox) \subseteq ToSet(inbox') BY <3>1, <3>3
        <3> QED BY <2>6, <3>1, <3>4, <3>5
    <2>10. ASSUME NEW s \in Senders, Count(s) \/ Complete(s) PROVE Forwarded(b)'
        BY <2>6, <2>10, FinishFacts
    <2>11. ASSUME NEW k \in Keys, Evict(k) PROVE Forwarded(b)'
        BY <2>6, <2>11 DEF Evict
    <2>12. CASE ProcessorCheck \/ ProcessorAwait \/ ProcessorDrain \/ BeginShutdown \/ CloseChannel
        <3>1. UNCHANGED <<inbox, gone, received>>
            BY <2>12 DEF ProcessorCheck, ProcessorAwait, ProcessorDrain, BeginShutdown, CloseChannel
        <3> QED BY <2>6, <3>1
    <2>13. CASE ProcessorSend
        <3>1. /\ batch # <<>> /\ UNCHANGED received /\ gone \subseteq gone' /\ batch \in Seq(Letters)
              /\ inbox' = Append(inbox, Head(batch)) \/ UNCHANGED inbox
            BY <1>0, <2>13, SendFacts
               DEF ProcessorRest, SentToActor, SentToTable, SentNowhere, ProcessorEnds, SentOn, MailTypeOK
        <3>2. Head(batch) \in Letters BY <3>1, EndFacts
        <3>3. ToSet(Append(inbox, Head(batch))) = ToSet(inbox) \cup {Head(batch)} BY <1>1, <3>2, AppendFacts
        <3>4. ToSet(inbox) \subseteq ToSet(inbox') BY <3>1, <3>3
        <3> QED BY <2>6, <3>1, <3>4
    <2>14. CASE PumpStep
        <3>1. FALSE BY <1>3, <2>1, <2>14 DEF PumpStep, PumpReceive, PumpAwait, PumpAck, PumpAckFails, NextFetched
        <3> QED BY <3>1
    <2>15. CASE Receive
        <3>1. /\ inbox # <<>> /\ inbox' = Tail(inbox) /\ UNCHANGED gone
              /\ received' = [received EXCEPT ![Head(inbox)] = @ + 1]
            BY <2>15 DEF Receive
        <3>2. Head(inbox) \in Letters /\ ToSet(inbox) = {Head(inbox)} \cup ToSet(Tail(inbox)) BY <1>1, <3>1, EndFacts
        <3>3. received[b] \in Nat /\ received'[b] = (IF b = Head(inbox) THEN received[b] + 1 ELSE received[b])
            BY <1>1, <3>1
        <3>4. (b = Head(inbox) \/ received[b] > 0) => received'[b] > 0 BY <3>3
        <3> QED BY <2>5, <3>1, <3>2, <3>4 DEF Forwarded
    <2>16. CASE ActorStops
        <3>1. gone' = gone \union ToSet(inbox) /\ UNCHANGED received BY <2>16 DEF ActorStops
        <3> QED BY <2>6, <3>1
    <2>17. CASE Crash
        BY <2>17 DEF Crash, Built
    <2>18. CASE Processed \/ Nacked
        <3>1. UNCHANGED <<inbox, received>> BY <2>18, QuietFacts
        <3>2. gone \subseteq gone' BY <2>18, ProcessedFacts, QuietFacts DEF AckOf
        <3> QED BY <2>6, <3>1, <3>2
    <2> QED BY <2>7, <2>8, <2>9, <2>10, <2>11, <2>12, <2>13, <2>14, <2>15, <2>16, <2>17, <2>18
            DEF MailNext, EnqueueSteps, ProcessorStep, ActorStep
<1> QED BY <1>2, <1>3

\* Only the actor receives.
LEMMA ReceivedStays ==
    ASSUME MailSteps, MailNext, ~Receive
    PROVE  UNCHANGED received
<1>1. ASSUME NEW s \in Senders, NEW m \in Letters,
             \/ EnqueueRefused(s, m) \/ EnqueuePlain(s, m) \/ EnqueueFirstSeen(s, m) \/ EnqueueDuplicate(s, m)
             \/ EnqueueOverwrite(s, m)
      PROVE  UNCHANGED received
    BY <1>1 DEF EnqueueRefused, EnqueuePlain, EnqueueFirstSeen, EnqueueDuplicate, EnqueueOverwrite, AfterBegin
<1>2. ASSUME NEW s \in Senders, FastLoad(s) \/ FastTrySend(s) \/ Push(s) \/ Count(s) \/ Complete(s)
      PROVE  UNCHANGED received
    BY <1>2 DEF FastLoad, FastTrySend, Push, Count, Complete, AfterPush, AfterCount
<1>3. ASSUME NEW k \in Keys, Evict(k) PROVE UNCHANGED received
    BY <1>3 DEF Evict
<1>4. CASE ProcessorStep \/ PumpStep \/ Processed \/ Nacked \/ ActorStops \/ BeginShutdown \/ CloseChannel \/ Crash
    BY <1>4 DEF ProcessorStep, PumpStep, ProcessorCheck, ProcessorAwait, ProcessorDrain, ProcessorSend,
          PumpReceive, PumpAwait, PumpForward, PumpAck, PumpAckFails, Processed, Nacked, ActorStops,
          BeginShutdown, CloseChannel, Crash
<1> QED BY <1>1, <1>2, <1>3, <1>4 DEF MailNext, EnqueueSteps, ActorStep

\* Every promise to a caller is kept through every step.
LEMMA PromisesStep ==
    ASSUME MailSteps, MailNext
    PROVE  PromisesKept'
<1>0. MailTypeOK /\ MailTypeOK' /\ PromisesKept BY MailTypeStep DEF MailSteps
<1>1. ASSUME NEW t \in Senders
      PROVE  /\ sender'[t].at = "idle" => ~sender'[t].record
             /\ sender'[t].at # "idle" =>
                  /\ sender'[t].m \in Letters
                  /\ sender'[t].record => KeyOf[sender'[t].m] # NoKey
                  /\ sender'[t].at \in {"count", "complete"} => Settled(sender[t].m)'
    <2>1. CASE Crash
        <3>1. sender'[t] = Idle BY <2>1 DEF Crash, Built
        <3> QED BY <3>1 DEF Idle
    <2>2. CASE ~Crash /\ sender'[t] = sender[t]
        <3>1. \A m \in Letters : m = sender[t].m /\ Settled(m) => Settled(m)' BY SettledStays
        <3>2. sender'[t].at \in {"count", "complete"} => Settled(sender[t].m)'
            <4> HAVE sender'[t].at \in {"count", "complete"}
            <4>1. PICK m \in Letters : m = sender[t].m /\ Settled(m) BY <1>0, <2>2 DEF PromisesKept
            <4>2. Settled(m)' /\ sender'[t].m = m BY <2>2, <3>1, <4>1
            <4> QED BY <4>2
        <3> QED BY <1>0, <2>2, <3>2 DEF PromisesKept
    <2>3. CASE CallBegins(t)
        BY <2>3 DEF CallBegins
    <2>4. CASE CallGoesOn(t)
        <3>1. sender'[t].at \in {"count", "complete"} => Settled(sender[t].m)'
            <4> HAVE sender'[t].at \in {"count", "complete"}
            <4>1. PICK m \in Letters : m = sender[t].m BY <1>0, <2>4 DEF PromisesKept, CallGoesOn
            <4>2. Settled(m)' /\ sender'[t].m = m BY <2>4, <4>1 DEF CallGoesOn, SettlesOf
            <4> QED BY <4>2
        <3> QED BY <1>0, <2>4, <3>1 DEF PromisesKept, CallGoesOn
    <2>5. CASE CallEnds(t)
        BY <2>5 DEF CallEnds, Idle
    <2> QED BY <2>1, <2>2, <2>3, <2>4, <2>5, CallsMove
<1>2. answered \subseteq Letters BY <1>0 DEF MailTypeOK
<1>3. \A x \in Letters : Promised(x) => Promised(x)' \/ KeyOf[x] \in refused' BY PromisedStays
<1>4. refused \subseteq refused' BY RefusedStays
<1>5. ASSUME NEW k \in Keys, seen[k] # "none"
      PROVE  k \in refused' \/ \E x \in Letters : KeyOf[x] = k /\ Promised(x)'
    <2>1. k \in refused \/ \E x \in Letters : KeyOf[x] = k /\ Promised(x) BY <1>0, <1>5 DEF PromisesKept
    <2> QED BY <1>3, <1>4, <2>1
<1>6. ASSUME NEW m \in answered' PROVE KeyOf[m] \in refused' \/ \E x \in SameAs(m) : Promised(x)'
    <2>1. CASE m \in answered
        <3>1. KeyOf[m] \in refused \/ \E x \in SameAs(m) : Promised(x) BY <1>0, <2>1 DEF PromisesKept
        <3>2. \A x \in SameAs(m) : x \in Letters /\ KeyOf[x] = KeyOf[m] BY DEF SameAs
        <3> QED BY <1>3, <1>4, <3>1, <3>2
    <2>2. CASE m \notin answered
        <3>1. m \in Letters /\ (Settled(m)' \/ (KeyOf[m] \in Keys /\ seen[KeyOf[m]] # "none"))
            BY <2>2, AnswersMove
        <3>2. CASE Settled(m)'
            <4>1. Promised(m)' BY <3>2 DEF Promised
            <4>2. m \in SameAs(m) BY <3>1 DEF SameAs
            <4> QED BY <4>1, <4>2
        <3>3. CASE KeyOf[m] \in Keys /\ seen[KeyOf[m]] # "none"
            <4>1. KeyOf[m] \in refused' \/ \E x \in Letters : KeyOf[x] = KeyOf[m] /\ Promised(x)' BY <1>5, <3>3
            <4>2. KeyOf[m] # NoKey BY <3>3 DEF Keys
            <4>3. \A x \in Letters : KeyOf[x] = KeyOf[m] => x \in SameAs(m) BY <4>2 DEF SameAs
            <4> QED BY <4>1, <4>3
        <3> QED BY <3>1, <3>2, <3>3
    <2> QED BY <2>1, <2>2
<1>7. ASSUME NEW k \in Keys, seen'[k] # "none"
      PROVE  k \in refused' \/ \E x \in Letters : KeyOf[x] = k /\ Promised(x)'
    <2>1. CASE seen[k] # "none" BY <1>5, <2>1
    <2>2. CASE seen[k] = "none"
        <3>1. PICK s \in Senders, m \in Letters : sender'[s].m = m /\ sender'[s].record /\ KeyOf[m] = k
            BY <1>7, <2>2, KeysMove
        <3>2. Promised(m)' BY <3>1 DEF Promised
        <3> QED BY <3>1, <3>2
    <2> QED BY <2>1, <2>2
<1>8. ASSUME pump' = "ack" PROVE \/ Head(fetched').body \in ToSet(inbox') \union gone'
                                 \/ received'[Head(fetched').body] > 0
    BY <1>8, ForwardedStays DEF Forwarded
<1>9. ASSUME working' # NoRow PROVE received'[working'.body] > 0
    <2>1. CASE Receive
        <3>1. PICK h : h = Head(inbox) OBVIOUS
        <3>2. inbox # <<>> /\ inbox \in Seq(Letters) /\ received \in [Letters -> Nat]
            BY <1>0, <2>1 DEF Receive, MailTypeOK
        <3>3. h \in Letters BY <3>1, <3>2, EndFacts
        <3>4. working'.body = h
            BY <1>9, <2>1, <3>1 DEF Receive
        <3>5. received' = [received EXCEPT ![h] = @ + 1] BY <2>1, <3>1 DEF Receive
        <3>6. received'[h] > 0 BY <3>2, <3>3, <3>5
        <3> QED BY <3>4, <3>6
    <2>2. CASE ~Receive
        <3>1. ~ActorStops /\ ~Crash /\ ~Processed /\ ~Nacked BY <1>9, QuietFacts DEF ActorStops, Crash, Built
        <3>2. UNCHANGED working
            <4>1. CASE PumpForward \/ PumpAck BY <4>1 DEF PumpForward, PumpAck
            <4> QED BY <2>2, <3>1, <4>1, RowVarsStay
        <3>3. working # NoRow /\ received[working.body] > 0 BY <1>0, <1>9, <3>2 DEF PromisesKept
        <3>4. UNCHANGED received BY <2>2, ReceivedStays
        <3> QED BY <3>2, <3>3, <3>4
    <2> QED BY <2>1, <2>2
<1> QED BY <1>1, <1>6, <1>7, <1>8, <1>9 DEF PromisesKept, SameAs

-----------------------------------------------------------------------------
(* The mailbox: the depth and the bound.                                   *)

\* The depth d, with p messages on their way and n senders about to count.
Follows(d, p, n) == d = IF p >= n THEN p - n ELSE Word + p - n

\* fetch_add and fetch_sub, wrapped around or not, follow.
LEMMA DepthMath ==
    ASSUME NEW d \in 0..(Word - 1), NEW p \in 0..(Word - 1), NEW n \in 0..(Word - 1), Follows(d, p, n)
    PROVE  /\ p > 0 => Follows(Minus(d, 1), p - 1, n)
           /\ n + 1 < Word => Follows(Minus(d, 1), p, n + 1)
           /\ Follows(d, p + 1, n + 1)
           /\ n > 0 => Follows(Plus(d, 1), p, n - 1)
           /\ \A r \in 0..p : Follows(Minus(d, r), p - r, n)
<1>1. Word \in Nat /\ Word >= 2 /\ d \in Nat /\ p \in Nat /\ n \in Nat /\ 1 \in 0..(Word - 1)
    BY WordFacts
<1>2. /\ Minus(d, 1) = (IF d >= 1 THEN d - 1 ELSE d + Word - 1)
      /\ Plus(d, 1) = (IF d + 1 < Word THEN d + 1 ELSE d + 1 - Word)
    BY <1>1, Wrap
<1>3. p > 0 => Follows(Minus(d, 1), p - 1, n) BY <1>1, <1>2 DEF Follows
<1>4. n + 1 < Word => Follows(Minus(d, 1), p, n + 1) BY <1>1, <1>2 DEF Follows
<1>5. Follows(d, p + 1, n + 1) BY <1>1 DEF Follows
<1>6. n > 0 => Follows(Plus(d, 1), p, n - 1) BY <1>1, <1>2 DEF Follows
<1>7. ASSUME NEW r \in 0..p PROVE Follows(Minus(d, r), p - r, n)
    <2>1. r \in Nat /\ r \in 0..(Word - 1) BY <1>1
    <2>2. Minus(d, r) = (IF d >= r THEN d - r ELSE d + Word - r) BY <2>1, Wrap
    <2> QED BY <1>1, <2>1, <2>2 DEF Follows
<1> QED BY <1>3, <1>4, <1>5, <1>6, <1>7

Bound == IF Queued THEN MaxCapacity + Cardinality(Senders) - 1 ELSE MaxCapacity

\* What is on its way and who is about to count are within a usize.
LEMMA PipeFacts ==
    ASSUME MailSteps
    PROVE  /\ InPipe \in Nat /\ Len(iq) <= InPipe /\ Len(inbox) <= InPipe
           /\ IsFiniteSet(Counting) /\ Cardinality(Counting) \in Nat
           /\ Cardinality(Senders) \in Nat /\ Cardinality(Counting) <= Cardinality(Senders)
           /\ Cardinality(Senders) < Word /\ Bound < Word /\ Bound \in Nat
           /\ drift = {} => InPipe <= Bound /\ Follows(depth, InPipe, Cardinality(Counting))
<1>0. MailTypeOK BY DEF MailSteps
<1>1. /\ Len(iq) \in Nat /\ Len(batch) \in Nat /\ Len(inbox) \in Nat /\ Len(table) \in Nat /\ Len(fetched) \in Nat
    BY <1>0, MailFacts
<1>2. Twice => Len(table) > 0
    BY <1>1 DEF Twice, Unacked
<1>3. InPipe \in Nat /\ Len(iq) <= InPipe /\ Len(inbox) <= InPipe
    BY <1>1, <1>2 DEF InPipe
<1>4. IsFiniteSet(Senders) /\ Cardinality(Senders) \in Nat BY WordAssumption, FS_CardinalityType
<1>5. Counting \in SUBSET Senders BY DEF Counting
<1>6. IsFiniteSet(Counting) /\ Cardinality(Counting) \in Nat /\ Cardinality(Counting) <= Cardinality(Senders)
    BY <1>4, <1>5, FS_Subset, FS_CardinalityType
<1>7. Cardinality(Senders) < Word /\ Bound < Word /\ Bound \in Nat
    BY <1>4, WordAssumption DEF Bound
<1>8. drift = {} => InPipe <= Bound /\ Follows(depth, InPipe, Cardinality(Counting))
    BY DEF MailSteps, CapacityBound, DepthFollows, Bound, Follows
<1> QED BY <1>3, <1>4, <1>6, <1>7, <1>8

\* Who is about to count.
LEMMA CountersMove ==
    ASSUME MailSteps, NEW s \in Senders, \A t \in Senders \ {s} : sender'[t] = sender[t]
    PROVE  /\ sender[s].at # "count" /\ sender'[s].at = "count" =>
                Cardinality(Counting') = Cardinality(Counting) + 1
           /\ sender[s].at = "count" /\ sender'[s].at # "count" =>
                Cardinality(Counting') = Cardinality(Counting) - 1
           /\ sender[s].at # "count" /\ sender'[s].at # "count" => Counting' = Counting
           /\ sender[s].at = "count" => Cardinality(Counting) > 0
           /\ sender[s].at # "count" => Cardinality(Counting) < Cardinality(Senders)
<1>1. IsFiniteSet(Counting) /\ Cardinality(Counting) \in Nat BY PipeFacts
<1>2. sender[s].at # "count" /\ sender'[s].at = "count" => Counting' = Counting \cup {s} /\ s \notin Counting
    BY DEF Counting
<1>3. sender[s].at = "count" /\ sender'[s].at # "count" => Counting' = Counting \ {s} /\ s \in Counting
    BY DEF Counting
<1>4. sender[s].at # "count" /\ sender'[s].at # "count" => Counting' = Counting
    BY DEF Counting
<1>5. /\ Cardinality(Counting \cup {s}) = IF s \in Counting THEN Cardinality(Counting) ELSE Cardinality(Counting) + 1
      /\ Cardinality(Counting \ {s}) = IF s \in Counting THEN Cardinality(Counting) - 1 ELSE Cardinality(Counting)
    BY <1>1, FS_AddElement, FS_RemoveElement
<1>6. sender[s].at = "count" => Cardinality(Counting) > 0
    <2> HAVE sender[s].at = "count"
    <2>1. Counting # {} BY DEF Counting
    <2> QED BY <1>1, <2>1, FS_EmptySet
<1>7. sender[s].at # "count" => Cardinality(Counting) < Cardinality(Senders)
    <2> HAVE sender[s].at # "count"
    <2>1. Counting \in SUBSET Senders /\ Counting # Senders BY DEF Counting
    <2>2. IsFiniteSet(Senders) BY WordAssumption
    <2>3. Cardinality(Counting) <= Cardinality(Senders) /\ Cardinality(Counting) # Cardinality(Senders)
        BY <2>1, <2>2, FS_Subset
    <2> QED BY <1>1, <2>3, PipeFacts
<1> QED BY <1>2, <1>3, <1>4, <1>5, <1>6, <1>7

(***************************************************************************)
(* data_queue_size follows what is on its way through every step, and the  *)
(* bound stands: a sender that finds room is not among those that count.   *)
(***************************************************************************)
LEMMA DepthStep ==
    ASSUME MailSteps, MailNext
    PROVE  DepthFollows' /\ CapacityBound'
<1> DEFINE p == InPipe
           n == Cardinality(Counting)
           Good == p <= Bound /\ Follows(depth, p, n)
           ack == IF Twice THEN 1 ELSE 0
<1>0. MailTypeOK /\ MailTypeOK' BY MailTypeStep DEF MailSteps
<1>1. drift \subseteq drift' /\ Bound' = Bound
    BY DriftGrows, SamePath DEF Bound
<1> SUFFICES ASSUME drift' = {} PROVE Good'
    BY <1>1, SamePath, DriftGrows DEF DepthFollows, CapacityBound, Follows, Bound
<1>2. drift = {} BY <1>1
<1>3. /\ p \in Nat /\ n \in Nat /\ Good /\ p \in 0..(Word - 1) /\ n \in 0..(Word - 1)
      /\ depth \in 0..(Word - 1) /\ Bound \in Nat
      /\ Cardinality(Senders) \in Nat /\ Word \in Nat /\ Cardinality(Senders) < Word
    BY <1>0, <1>2, PipeFacts, MailFacts
<1>4. /\ Len(iq) \in Nat /\ Len(batch) \in Nat /\ Len(inbox) \in Nat /\ Len(table) \in Nat /\ ack \in {0, 1}
      /\ p = Len(iq) + Len(batch) + Len(inbox) + Len(table) - ack
      /\ p' = Len(iq') + Len(batch') + Len(inbox') + Len(table') - ack'
      /\ Len(iq') \in Nat /\ Len(batch') \in Nat /\ Len(inbox') \in Nat /\ Len(table') \in Nat
    <2>1. Len(iq') \in Nat /\ Len(batch') \in Nat /\ Len(inbox') \in Nat /\ Len(table') \in Nat
        BY <1>0, LenProperties DEF MailTypeOK
    <2> QED BY <1>0, <2>1, MailFacts DEF InPipe
<1>5. /\ iq \in Seq(Letters) /\ batch \in Seq(Letters) /\ inbox \in Seq(Letters) /\ table \in Seq(Row)
      /\ fetched \in Seq(Row)
    BY <1>0 DEF MailTypeOK
<1>6. /\ p > 0 => Follows(Minus(depth, 1), p - 1, n)
      /\ n + 1 < Word => Follows(Minus(depth, 1), p, n + 1)
      /\ Follows(depth, p + 1, n + 1)
      /\ n > 0 => Follows(Plus(depth, 1), p, n - 1)
      /\ \A r \in 0..p : Follows(Minus(depth, r), p - r, n)
    <2> HIDE DEF p, n
    <2>1. Follows(depth, p, n) BY <1>3 DEF p, n
    <2> QED BY <1>3, <2>1, DepthMath
<1>31. ASSUME UNCHANGED table, UNCHANGED <<pump, fetched>> \/ (pump # "ack" /\ pump' # "ack") PROVE ack' = ack
    BY <1>31 DEF Twice, Unacked
<1>32. pump' # "ack" => ack' = 0
    BY DEF Twice
<1>33. \A id : ~Repeated(id)
    BY <1>2 DEF Repeated
<1> HIDE DEF ack, p
<1>7. ASSUME p' = p, Counting' = Counting, depth' = depth PROVE Good'
    BY <1>1, <1>3, <1>7
<1>8. ASSUME UNCHANGED <<iq, batch, inbox, table, depth>>, ack' = ack, Counting' = Counting PROVE Good'
    BY <1>4, <1>7, <1>8
<1>9. ASSUME NEW s \in Senders, NEW m \in Letters,
             \/ EnqueueRefused(s, m) \/ EnqueuePlain(s, m) \/ EnqueueFirstSeen(s, m) \/ EnqueueDuplicate(s, m)
             \/ EnqueueOverwrite(s, m)
      PROVE  Counting' = Counting
    <2>1. /\ sender[s].at = "idle"
          /\ UNCHANGED sender \/ ToQueue(s, m, FALSE) \/ ToQueue(s, m, TRUE)
        BY <1>9, OverwriteFacts DEF EnqueueRefused, EnqueuePlain, EnqueueFirstSeen, EnqueueDuplicate, Begin
    <2>2. CASE UNCHANGED sender BY <2>2 DEF Counting
    <2>3. ASSUME NEW record \in BOOLEAN, ToQueue(s, m, record) PROVE Counting' = Counting
        <3>1. sender'[s].at # "count" /\ \A t \in Senders \ {s} : sender'[t] = sender[t]
            BY <1>0, <2>3, SenderMoves
        <3> QED BY <2>1, <3>1, CountersMove
    <2> QED BY <2>1, <2>2, <2>3
<1>10. ASSUME NEW s \in Senders, NEW m \in Letters,
              EnqueueRefused(s, m) \/ EnqueuePlain(s, m) \/ EnqueueFirstSeen(s, m) \/ EnqueueDuplicate(s, m)
       PROVE  Good'
    <2>1. UNCHANGED <<iq, batch, inbox, table, depth, pump, fetched>>
        BY <1>10 DEF EnqueueRefused, EnqueuePlain, EnqueueFirstSeen, EnqueueDuplicate, AfterBegin
    <2> QED BY <1>8, <1>9, <1>10, <2>1, <1>31
<1>11. ASSUME NEW s \in Senders, NEW m \in Letters, EnqueueOverwrite(s, m) PROVE Good'
    <2>1. /\ Len(iq') \in 0..Len(iq) /\ depth' = Minus(depth, Len(iq) - Len(iq'))
          /\ UNCHANGED <<batch, inbox, table, pump, fetched>>
        BY <1>11, OverwriteFacts DEF AfterBegin
    <2>2. PICK r : r = Len(iq) - Len(iq') OBVIOUS
    <2>3. r \in 0..p /\ p' = p - r
        <3>1. Len(iq) <= p BY PipeFacts DEF p
        <3>2. r \in 0..p
            <4>1. Len(iq) \in Nat /\ p \in Nat BY <1>3, <1>4
            <4> HIDE DEF p
            <4> QED BY <2>1, <2>2, <3>1, <4>1
        <3>3. p' = p - r BY <1>4, <2>1, <2>2, <1>31
        <3> QED BY <3>2, <3>3
    <2>4. Counting' = Counting BY <1>9, <1>11
    <2>5. Follows(Minus(depth, r), p - r, n) BY <1>6, <2>3
    <2> QED BY <1>1, <1>3, <2>1, <2>2, <2>3, <2>4, <2>5
<1>12. ASSUME NEW s \in Senders, sender[s].at \notin {"idle", "count"}, AnswerFull(s) \/ AnswerDropped(s)
       PROVE  Counting' = Counting
    <2>1. sender'[s] = Idle /\ \A t \in Senders \ {s} : sender'[t] = sender[t] BY <1>12, AnswerFacts
    <2>2. sender'[s].at # "count" BY <2>1 DEF Idle
    <2> QED BY <1>12, <2>1, <2>2, CountersMove
<1>13. ASSUME NEW s \in Senders, sender[s].at # "count", NEW at \in SenderAt \ {"count"}, Go(s, at)
       PROVE  Counting' = Counting
    <2>1. sender'[s].at = at /\ \A t \in Senders \ {s} : sender'[t] = sender[t]
        BY <1>0, <1>13, SenderMoves
    <2> QED BY <1>13, <2>1, CountersMove
<1>14. ASSUME NEW s \in Senders, sender[s].at # "count", Go(s, "count")
       PROVE  n' = n + 1 /\ n < Cardinality(Senders) /\ n + 1 < Word
    <2>1. sender'[s].at = "count" /\ \A t \in Senders \ {s} : sender'[t] = sender[t]
        BY <1>0, <1>14, SenderMoves DEF SenderAt
    <2>2. n' = n + 1 /\ n < Cardinality(Senders) BY <1>14, <2>1, CountersMove
    <2> QED BY <1>3, <2>2
<1>15. ASSUME NEW s \in Senders, FastLoad(s) PROVE Good'
    <2>1. /\ sender[s].at = "load" /\ UNCHANGED <<iq, batch, inbox, table, depth, pump, fetched>>
          /\ AnswerFull(s) \/ AnswerDropped(s) \/ Go(s, "try")
        BY <1>15 DEF FastLoad, AfterPush
    <2>2. Counting' = Counting BY <1>12, <1>13, <2>1 DEF SenderAt
    <2> QED BY <1>8, <2>1, <2>2, <1>31
<1>16. ASSUME NEW s \in Senders, FastTrySend(s) PROVE Good'
    <2>1. /\ sender[s].at = "try" /\ UNCHANGED <<iq, batch, table, depth, pump, fetched>>
        BY <1>16, TrySendFacts DEF AfterPush
    <2>2. CASE (AnswerFull(s) \/ AnswerDropped(s)) /\ UNCHANGED inbox
        <3>1. Counting' = Counting BY <1>12, <2>1, <2>2
        <3> QED BY <1>8, <2>1, <2>2, <3>1, <1>31
    <2>3. CASE Go(s, "complete") /\ UNCHANGED inbox
        <3>1. Counting' = Counting BY <1>13, <2>1, <2>3 DEF SenderAt
        <3> QED BY <1>8, <2>1, <2>3, <3>1, <1>31
    <2>4. CASE Len(inbox) < MaxCapacity /\ inbox' = Append(inbox, sender[s].m) /\ Go(s, "count")
        <3>1. ~Queued BY <2>1 DEF MailSteps, PathsApart
        <3>2. iq = <<>> /\ table = <<>> /\ pump = "exited" /\ processor = "exited"
            BY <3>1 DEF MailSteps, PathsApart, Queued, Running
        <3>3. batch = <<>> BY <3>2 DEF MailSteps, TasksInStep
        <3>9. ack = 0 BY <3>2 DEF ack, Twice
        <3>4. p = Len(inbox) BY <1>4, <3>2, <3>3, <3>9, NoneSet
        <3>5. sender[s].m \in Letters BY <2>1, SenderFacts
        <3>6. p' = p + 1
            <4>1. Len(inbox') = Len(inbox) + 1 BY <1>5, <2>4, <3>5, AppendFacts
            <4> QED BY <1>4, <2>1, <4>1, <1>31
        <3>7. p' <= Bound BY <1>4, <2>4, <3>1, <3>4, <3>6, WordAssumption DEF Bound
        <3>8. n' = n + 1 BY <1>14, <2>1, <2>4
        <3> QED BY <1>1, <1>6, <2>1, <3>6, <3>7, <3>8
    <2> QED BY <1>16, <2>2, <2>3, <2>4, TrySendFacts
<1>17. ASSUME NEW s \in Senders, Push(s) PROVE Good'
    <2>1. sender[s].at = "push" /\ UNCHANGED <<batch, inbox, table, pump, fetched>>
        BY <1>17, PushFacts DEF AfterPush
    <2>2. CASE (AnswerFull(s) \/ AnswerDropped(s)) /\ UNCHANGED <<iq, depth, drift>>
        <3>1. Counting' = Counting BY <1>12, <2>1, <2>2
        <3> QED BY <1>8, <2>1, <2>2, <3>1, <1>31
    <2>3. ASSUME NEW rest \in Seq(Letters), Pushed(s, rest) PROVE Good'
        <3>1. n' = n + 1 /\ n < Cardinality(Senders) /\ n + 1 < Word BY <1>14, <2>1, <2>3 DEF Pushed
        <3>2. Len(iq') = Len(rest) + 1 BY <2>3 DEF Pushed, Inserted
        <3>3. Queued BY <2>1 DEF MailSteps, PathsApart
        <3>4. CASE rest = iq /\ depth < MaxCapacity /\ UNCHANGED depth
            <4>1. p' = p + 1 BY <1>4, <2>1, <3>2, <3>4, <1>31
            <4>2. p <= MaxCapacity + Cardinality(Senders) - 2
                <5>1. depth = IF p >= n THEN p - n ELSE Word + p - n BY <1>3 DEF Follows
                <5>2. MaxCapacity \in Nat \ {0} BY WordAssumption
                <5> HIDE DEF p, n
                <5> QED BY <1>3, <3>1, <3>4, <5>1, <5>2
            <4>3. p' <= Bound BY <1>3, <3>3, <4>1, <4>2, WordAssumption DEF Bound
            <4> QED BY <1>1, <1>6, <3>1, <3>4, <4>1, <4>3
        <3>5. CASE Len(rest) = Len(iq) - 1 /\ depth' = Minus(depth, 1)
            <4>1. p' = p BY <1>4, <2>1, <3>2, <3>5, <1>31
            <4> QED BY <1>1, <1>3, <1>6, <3>1, <3>5, <4>1
        <3>6. drift' # drift \union {"oldest"} OBVIOUS
        <3> QED BY <2>3, <3>4, <3>5, <3>6 DEF Pushed
    <2> QED BY <1>17, <2>2, <2>3, PushFacts
<1>18. ASSUME NEW s \in Senders, Count(s) PROVE Good'
    <2>1. /\ sender[s].at = "count" /\ depth' = Plus(depth, 1) /\ (Go(s, "complete") \/ Return(s))
          /\ UNCHANGED <<iq, batch, inbox, table, fetched>>
          /\ pump' = pump \/ (pump = "waiting" /\ pump' = "receive")
        BY <1>18, FinishFacts DEF Count, Finish
    <2>2. sender'[s].at # "count" /\ \A t \in Senders \ {s} : sender'[t] = sender[t]
        BY <1>0, <2>1, SenderMoves DEF SenderAt, Idle
    <2>3. n' = n - 1 /\ n > 0 BY <2>1, <2>2, CountersMove
    <2>4. p' = p BY <1>4, <2>1, <1>31
    <2> QED BY <1>1, <1>3, <1>6, <2>1, <2>3, <2>4
<1>19. ASSUME NEW s \in Senders, Complete(s) PROVE Good'
    <2>1. /\ sender[s].at = "complete" /\ depth' = depth /\ Return(s)
          /\ UNCHANGED <<iq, batch, inbox, table, fetched>>
          /\ pump' = pump \/ (pump = "waiting" /\ pump' = "receive")
        BY <1>19, FinishFacts DEF Complete, Finish
    <2>2. sender'[s].at # "count" /\ \A t \in Senders \ {s} : sender'[t] = sender[t]
        BY <1>0, <2>1, SenderMoves DEF Idle
    <2>3. Counting' = Counting BY <2>1, <2>2, CountersMove
    <2> QED BY <1>8, <2>1, <2>3, <1>31
<1>20. ASSUME UNCHANGED <<sender, iq, batch, inbox, table, depth>>, ack' = ack PROVE Good'
    <2>1. Counting' = Counting BY <1>20 DEF Counting
    <2> QED BY <1>8, <1>20, <2>1
<1>21. ASSUME NEW k \in Keys, Evict(k) PROVE Good'
    BY <1>20, <1>21, <1>31 DEF Evict
<1>22. CASE ProcessorCheck \/ ProcessorAwait \/ PumpReceive \/ PumpAwait \/ BeginShutdown \/ CloseChannel
    BY <1>20, <1>22, <1>31 DEF ProcessorCheck, ProcessorAwait, PumpReceive, PumpAwait, BeginShutdown, CloseChannel,
                        SenderVars
<1>23. ASSUME UNCHANGED <<sender, depth>>, p' = p PROVE Good'
    <2>1. Counting' = Counting BY <1>23 DEF Counting
    <2> QED BY <1>7, <1>23, <2>1
<1>24. CASE ProcessorDrain
    <2>1. /\ processor = "drain" /\ batch' = iq /\ iq' = <<>> /\ UNCHANGED <<sender, depth, inbox, table, pump, fetched>>
        BY <1>24 DEF ProcessorDrain, SenderVars
    <2>2. batch = <<>> BY <2>1 DEF MailSteps, TasksInStep
    <2>3. p' = p BY <1>4, <2>1, <2>2, <1>31, NoneSet
    <2> QED BY <1>23, <2>1, <2>3
<1>25. CASE ProcessorSend
    <2>1. batch # <<>> /\ UNCHANGED <<sender, iq, depth, pump, fetched>> BY <1>25, SendFacts DEF ProcessorRest, SenderVars
    <2>2. Len(Tail(batch)) = Len(batch) - 1 /\ Head(batch) \in Letters BY <1>5, <2>1, EndFacts
    <2>3. CASE SentToActor
        <3>1. batch' = Tail(batch) /\ inbox' = Append(inbox, Head(batch)) /\ UNCHANGED table
            BY <2>3 DEF SentToActor, SentOn
        <3>2. Len(inbox') = Len(inbox) + 1 BY <1>5, <2>2, <3>1, AppendFacts
        <3>3. p' = p BY <1>4, <2>1, <2>2, <3>1, <3>2, <1>31
        <3> QED BY <1>23, <2>1, <3>3
    <2>4. CASE SentToTable
        <3>1. /\ batch' = Tail(batch) /\ UNCHANGED inbox
              /\ table' = Append(table, [id |-> Head(batch), body |-> Head(batch)])
            BY <2>4 DEF SentToTable, SentOn
        <3>2. [id |-> Head(batch), body |-> Head(batch)] \in Row BY <2>2 DEF Row
        <3>3. Len(table') = Len(table) + 1 BY <1>5, <3>1, <3>2, AppendFacts
        <3>5. \A id : Unacked(id)' <=> Unacked(id) \/ id = Head(batch) BY <1>5, <3>1, <3>2, AppendedIds
        <3>6. ~Known(Head(batch)) BY <1>2, <2>4 DEF SentToTable
        <3>7. pump = "ack" => Head(fetched).id # Head(batch)
            <4> HAVE pump = "ack"
            <4>1. fetched # <<>> BY DEF MailSteps, TasksInStep
            <4>2. Head(fetched) = fetched[1] /\ 1 \in 1..Len(fetched) BY <1>5, <4>1, EndFacts
            <4>3. Known(Head(fetched).id) BY <4>2 DEF MailSteps, RowsSound
            <4> QED BY <3>6, <4>3
        <3>8. ack' = ack BY <2>1, <3>5, <3>7 DEF ack, Twice
        <3>4. p' = p BY <1>4, <2>1, <2>2, <3>1, <3>3, <3>8
        <3> QED BY <1>23, <2>1, <3>4
    <2>5. ~SentNowhere /\ ~ProcessorEnds BY DEF SentNowhere, ProcessorEnds
    <2> QED BY <1>25, <2>3, <2>4, <2>5, SendFacts
<1>26. CASE PumpForward
    <2>1. /\ pump = "forward" /\ UNCHANGED <<sender, iq, batch, table, fetched, depth>>
          /\ \/ (pump' = "ack" /\ inbox' = Append(inbox, Head(fetched).body))
             \/ (pump' = "exited" /\ UNCHANGED inbox)
        BY <1>26 DEF PumpForward, SenderVars
    <2>2. fetched # <<>> BY <2>1 DEF MailSteps, TasksInStep
    <2>3. Head(fetched) \in Row BY <1>5, <2>2, EndFacts
    <2>4. Head(fetched).body \in Letters BY <2>3 DEF Row
    <2>5. p' = p
        <3>1. Len(Append(inbox, Head(fetched).body)) = Len(inbox) + 1 BY <1>5, <2>4, AppendFacts
        <3>2. Head(fetched) = fetched[1] /\ 1 \in 1..Len(fetched) BY <1>5, <2>2, EndFacts
        <3>3. Unacked(Head(fetched).id) BY <1>33, <2>1, <3>2 DEF MailSteps, RowsSound
        <3>4. ack = 0 /\ (pump' = "ack" => ack' = 1) /\ (pump' = "exited" => ack' = 0)
            BY <2>1, <3>3 DEF ack, Twice, Unacked
        <3> QED BY <1>4, <2>1, <3>1, <3>4
    <2> QED BY <1>23, <2>1, <2>5
<1>27. CASE PumpAck
    <2>1. /\ pump = "ack" /\ pump' # "ack" /\ UNCHANGED <<sender, iq, batch, inbox, depth>>
          /\ Len(table') = IF Unacked(Head(fetched).id) THEN Len(table) - 1 ELSE Len(table)
        BY <1>27, PumpAckFacts DEF PumpAck, SenderVars, AckOf
    <2>3. ack' = 0 /\ ack = IF Unacked(Head(fetched).id) THEN 1 ELSE 0 BY <2>1 DEF ack, Twice
    <2>2. p' = p
        <3>1. CASE Unacked(Head(fetched).id) BY <1>4, <2>1, <2>3, <3>1
        <3>2. CASE ~Unacked(Head(fetched).id) BY <1>4, <2>1, <2>3, <3>2
        <3> QED BY <3>1, <3>2
    <2> QED BY <1>23, <2>1, <2>2
<1>28. CASE Receive
    <2>1. /\ inbox # <<>> /\ inbox' = Tail(inbox) /\ depth' = Minus(depth, 1)
          /\ UNCHANGED <<sender, iq, batch, table, pump, fetched>>
        BY <1>28 DEF Receive, SenderVars
    <2>2. Len(Tail(inbox)) = Len(inbox) - 1 /\ Len(inbox) > 0 BY <1>5, <2>1, EndFacts
    <2>3. p' = p - 1 BY <1>4, <2>1, <2>2, <1>31
    <2>4. p > 0
        <3>1. Len(inbox) <= p BY PipeFacts DEF p
        <3>2. p \in Nat /\ Len(inbox) \in Nat BY <1>3, <1>4
        <3> QED BY <2>2, <3>1, <3>2
    <2>5. Counting' = Counting BY <2>1 DEF Counting
    <2> QED BY <1>1, <1>3, <1>6, <2>1, <2>3, <2>4, <2>5
<1>34. CASE PumpAckFails
    BY <1>34, AckFailsFacts DEF GivenAgain
<1>35. CASE Nacked
    <2>1. UNCHANGED <<sender, iq, batch, inbox, depth, pump, fetched>> BY <1>35, QuietFacts
    <2>2. UNCHANGED table BY <1>35, NackFacts DEF TakenBack, GivenAgain
    <2> QED BY <1>20, <1>31, <2>1, <2>2
<1>36. CASE Processed
    <2>1. UNCHANGED <<sender, iq, batch, inbox, depth, pump, fetched>> BY <1>36, QuietFacts
    <2>2. CASE UNCHANGED <<table, acked, gone>> BY <1>20, <1>31, <2>1, <2>2
    <2>3. CASE AckOf(working)
        <3>0. Len(table') = IF Unacked(working.id) THEN Len(table) - 1 ELSE Len(table) BY <2>3 DEF AckOf
        <3>1. \A id : Unacked(id)' <=> Unacked(id) /\ id # working.id BY <2>3, AckedIds
        <3>2. CASE Unacked(working.id)
            <4>1. working.id \in Letters /\ WithActor(working.id) BY <1>36, ProcessedFacts DEF Row, WithActor
            <4>2. pump = "ack" /\ Head(fetched).id = working.id BY <1>33, <3>2, <4>1 DEF MailSteps, HandedOver
            <4>3. ack = 1 /\ ack' = 0 BY <2>1, <3>1, <3>2, <4>2 DEF ack, Twice
            <4>4. p' = p BY <1>4, <2>1, <3>0, <3>2, <4>3
            <4> QED BY <1>23, <2>1, <4>4
        <3>3. CASE ~Unacked(working.id)
            <4>1. \A id : Unacked(id)' <=> Unacked(id) BY <3>1, <3>3
            <4>2. ack' = ack BY <2>1, <4>1 DEF ack, Twice
            <4>3. p' = p BY <1>4, <2>1, <3>0, <3>3, <4>2
            <4> QED BY <1>23, <2>1, <4>3
        <3> QED BY <3>2, <3>3
    <2> QED BY <1>36, <2>2, <2>3, ProcessedFacts
<1>29. CASE ActorStops
    <2>1. /\ inbox = <<>> /\ inbox' = <<>> /\ UNCHANGED <<sender, iq, batch, table, pump, fetched, depth>>
        BY <1>29 DEF ActorStops, SenderVars
    <2> QED BY <1>20, <2>1, <1>31
<1>30. CASE Crash
    <2>1. /\ table = <<>> /\ table' = <<>> /\ iq' = <<>> /\ batch' = <<>> /\ inbox' = <<>> /\ pump' # "ack"
          /\ depth' = 0 /\ sender' = [s \in Senders |-> Idle]
        BY <1>30 DEF Crash, Built
    <2>2. Counting' = {} BY <2>1 DEF Counting, Idle
    <2>3. n' = 0 BY <2>2, FS_EmptySet
    <2>4. p' = 0 BY <1>4, <1>32, <2>1, NoneSet
    <2>5. Follows(depth', p', n') BY <2>1, <2>3, <2>4 DEF Follows
    <2> QED BY <1>1, <1>3, <2>4, <2>5
<1> QED BY <1>10, <1>11, <1>15, <1>16, <1>17, <1>18, <1>19, <1>21, <1>22, <1>24, <1>25, <1>26, <1>27, <1>28, <1>29, <1>30,
           <1>34, <1>35, <1>36
        DEF MailNext, EnqueueSteps, ProcessorStep, PumpStep, ActorStep

-----------------------------------------------------------------------------
(* The mailbox: one copy of what the store checks.                         *)

\* A queue that becomes p holds no more of key k than it did.
NoMoreIn(q, p, k) == /\ NoneIn(q, k) => NoneIn(p, k)
                     /\ OnceIn(q, k) => OnceIn(p, k)

\* Losing elements brings none.
LEMMA ShortenedCopies ==
    ASSUME NEW q, NEW p, NEW k, Shortened(q, p)
    PROVE  NoMoreIn(q, p, k)
<1>1. PICK f \in [1..Len(p) -> 1..Len(q)] : /\ \A i \in 1..Len(p) : p[i] = q[f[i]]
                                            /\ \A i, j \in 1..Len(p) : f[i] = f[j] => i = j
    BY DEF Shortened
<1>2. \A i \in 1..Len(p) : f[i] \in 1..Len(q) BY <1>1
<1>3. NoneIn(q, k) => NoneIn(p, k) BY <1>1, <1>2 DEF NoneIn
<1>4. OnceIn(q, k) => OnceIn(p, k) BY <1>1, <1>2 DEF OnceIn
<1> QED BY <1>3, <1>4 DEF NoMoreIn

\* Getting an element brings that element and no other.
LEMMA InsertedCopies ==
    ASSUME NEW T, NEW q \in Seq(T), NEW e, NEW p, NEW k, Inserted(q, e, p)
    PROVE  /\ e \notin Checked(k) => NoMoreIn(q, p, k)
           /\ NoneIn(q, k) => OnceIn(p, k)
<1> DEFINE C == Checked(k)
<1> HIDE DEF C
<1>1. Len(q) \in Nat /\ Len(p) = Len(q) + 1 BY LenProperties DEF Inserted
<1>2. PICK i \in 1..Len(p) : /\ p[i] = e
                             /\ \A j \in 1..Len(p) : /\ j < i => p[j] = q[j]
                                                     /\ j > i => p[j] = q[j - 1]
    BY DEF Inserted
<1>3. \A j \in 1..Len(p) : j # i => \E x \in 1..Len(q) : p[j] = q[x] /\ x = IF j < i THEN j ELSE j - 1
    <2> TAKE j \in 1..Len(p)
    <2> HAVE j # i
    <2>1. CASE j < i
        <3>1. j \in 1..Len(q) BY <1>1, <2>1
        <3> QED BY <1>2, <2>1, <3>1
    <2>2. CASE j > i
        <3>1. j - 1 \in 1..Len(q) /\ ~(j < i) BY <1>1, <2>2
        <3> QED BY <1>2, <2>2, <3>1
    <2> QED BY <1>1, <2>1, <2>2
<1>4. NoneIn(q, k) => OnceIn(p, k)
    BY <1>3 DEF NoneIn, OnceIn
<1>5. ASSUME e \notin C, NoneIn(q, k) PROVE NoneIn(p, k)
    BY <1>2, <1>3, <1>5 DEF NoneIn, C
<1>6. ASSUME e \notin C, OnceIn(q, k) PROVE OnceIn(p, k)
    <2> SUFFICES ASSUME NEW a \in 1..Len(p), NEW b \in 1..Len(p), p[a] \in C, p[b] \in C PROVE a = b
        BY DEF OnceIn, C
    <2>1. a # i /\ b # i BY <1>2, <1>6
    <2>2. PICK x \in 1..Len(q) : p[a] = q[x] /\ x = IF a < i THEN a ELSE a - 1 BY <1>3, <2>1
    <2>3. PICK y \in 1..Len(q) : p[b] = q[y] /\ y = IF b < i THEN b ELSE b - 1 BY <1>3, <2>1
    <2>4. x = y BY <1>6, <2>2, <2>3 DEF OnceIn, C
    <2> QED BY <1>1, <2>1, <2>2, <2>3, <2>4
<1> QED BY <1>4, <1>5, <1>6 DEF NoMoreIn, C

\* The first of a queue that has it once: the rest has none.
LEMMA TailCopies ==
    ASSUME NEW T, NEW q \in Seq(T), q # <<>>, NEW k
    PROVE  /\ NoMoreIn(q, Tail(q), k)
           /\ Head(q) \in Checked(k) => ~NoneIn(q, k) /\ (OnceIn(q, k) => NoneIn(Tail(q), k))
<1>1. PICK r : r = Tail(q) OBVIOUS
<1>2. /\ Len(q) \in Nat \ {0} /\ Len(r) = Len(q) - 1 /\ Head(q) = q[1] /\ Shortened(q, r)
      /\ \A i \in 1..Len(q) - 1 : r[i] = q[i + 1]
    BY <1>1, EndFacts
<1>3. 1 \in 1..Len(q) /\ \A i \in 1..Len(r) : i + 1 \in 1..Len(q) /\ i + 1 # 1 /\ r[i] = q[i + 1]
    BY <1>2
<1>4. NoMoreIn(q, r, k) BY <1>2, ShortenedCopies
<1>5. ASSUME Head(q) \in Checked(k) PROVE ~NoneIn(q, k) /\ (OnceIn(q, k) => NoneIn(r, k))
    <2>1. ~NoneIn(q, k) BY <1>2, <1>3, <1>5 DEF NoneIn
    <2>2. OnceIn(q, k) => NoneIn(r, k) BY <1>2, <1>3, <1>5 DEF NoneIn, OnceIn
    <2> QED BY <2>1, <2>2
<1> QED BY <1>1, <1>4, <1>5

\* An empty queue has none.
LEMMA EmptyCopies == \A k : NoneIn(<<>>, k) /\ OnceIn(<<>>, k) /\ \A q : NoMoreIn(q, <<>>, k)
BY NoneSet DEF NoneIn, OnceIn, NoMoreIn

Places == {"sender", "queue", "batch", "table", "inbox", "actor"}

\* No place gets what it had not.
SendersKeep(k) == Bringing(k)' \subseteq Bringing(k)
TableKeeps(k) == Unforwarded(k)' \subseteq Unforwarded(k)
QueuesKeep(k) == NoMoreIn(iq, iq', k) /\ NoMoreIn(batch, batch', k) /\ NoMoreIn(inbox, inbox', k)

\* The messages of key k stay where they are, or go all together.
Together(k) == /\ OnlyAt(k, "nowhere") => OnlyAt(k, "nowhere")'
               /\ \A w \in Places : OnlyAt(k, w) => \E v \in Places : OnlyAt(k, v)'

\* When no place gets anything, they stay where they are.
LEMMA AllKeep ==
    ASSUME NEW k, SendersKeep(k), TableKeeps(k), QueuesKeep(k), UNCHANGED received
    PROVE  Together(k)
<1>1. ASSUME NEW w, OnlyAt(k, w) PROVE OnlyAt(k, w)'
    <2>1. IF w = "sender" THEN \A s, t \in Bringing(k)' : s = t ELSE Bringing(k)' = {}
        BY <1>1 DEF OnlyAt, SendersKeep
    <2>2. IF w = "queue" THEN OnceIn(iq', k) ELSE NoneIn(iq', k)
        BY <1>1 DEF OnlyAt, QueuesKeep, NoMoreIn
    <2>3. IF w = "batch" THEN OnceIn(batch', k) ELSE NoneIn(batch', k)
        BY <1>1 DEF OnlyAt, QueuesKeep, NoMoreIn
    <2>4. IF w = "table" THEN \A m, x \in Unforwarded(k)' : m = x ELSE Unforwarded(k)' = {}
        BY <1>1 DEF OnlyAt, TableKeeps
    <2>5. IF w = "inbox" THEN OnceIn(inbox', k) ELSE NoneIn(inbox', k)
        BY <1>1 DEF OnlyAt, QueuesKeep, NoMoreIn
    <2>6. IF w = "actor"
          THEN \A m, x \in Checked(k) : received'[m] > 0 /\ received'[x] > 0 => m = x /\ received'[m] = 1
          ELSE \A m \in Checked(k) : received'[m] = 0
        BY <1>1 DEF OnlyAt
    <2> QED BY <2>1, <2>2, <2>3, <2>4, <2>5, <2>6 DEF OnlyAt, OnceIn, NoneIn, Checked
<1> QED BY <1>1 DEF Together

\* What is nowhere else.
LEMMA Alone ==
    ASSUME NEW k, NEW w, OnlyAt(k, w)
    PROVE  /\ w # "sender" => Bringing(k) = {}
           /\ w # "queue" => NoneIn(iq, k)
           /\ w # "batch" => NoneIn(batch, k)
           /\ w # "table" => Unforwarded(k) = {}
           /\ w # "inbox" => NoneIn(inbox, k)
           /\ w # "actor" => \A m \in Checked(k) : received[m] = 0
           /\ w = "sender" => \A s, t \in Bringing(k) : s = t
           /\ w = "queue" => OnceIn(iq, k)
           /\ w = "batch" => OnceIn(batch, k)
           /\ w = "table" => \A m, x \in Unforwarded(k) : m = x
           /\ w = "inbox" => OnceIn(inbox, k)
BY DEF OnlyAt

\* Where they are after a step.
LEMMA ThereNow ==
    ASSUME NEW k, NEW v,
           Bringing(k)' = {} \/ (v = "sender" /\ \A s, t \in Bringing(k)' : s = t),
           NoneIn(iq', k) \/ (v = "queue" /\ OnceIn(iq', k)),
           NoneIn(batch', k) \/ (v = "batch" /\ OnceIn(batch', k)),
           Unforwarded(k)' = {} \/ (v = "table" /\ \A m, x \in Unforwarded(k)' : m = x),
           NoneIn(inbox', k) \/ (v = "inbox" /\ OnceIn(inbox', k)),
           \/ \A m \in Checked(k) : received'[m] = 0
           \/ /\ v = "actor"
              /\ \A m, x \in Checked(k) : received'[m] > 0 /\ received'[x] > 0 => m = x /\ received'[m] = 1
    PROVE  OnlyAt(k, v)'
<1>1. \A q : NoneIn(q, k) => OnceIn(q, k) BY DEF NoneIn, OnceIn
<1>2. IF v = "sender" THEN \A s, t \in Bringing(k)' : s = t ELSE Bringing(k)' = {} OBVIOUS
<1>3. /\ IF v = "queue" THEN OnceIn(iq', k) ELSE NoneIn(iq', k)
      /\ IF v = "batch" THEN OnceIn(batch', k) ELSE NoneIn(batch', k)
      /\ IF v = "inbox" THEN OnceIn(inbox', k) ELSE NoneIn(inbox', k)
    BY <1>1
<1>4. IF v = "table" THEN \A m, x \in Unforwarded(k)' : m = x ELSE Unforwarded(k)' = {} OBVIOUS
<1>5. IF v = "actor"
      THEN \A m, x \in Checked(k) : received'[m] > 0 /\ received'[x] > 0 => m = x /\ received'[m] = 1
      ELSE \A m \in Checked(k) : received'[m] = 0
    OBVIOUS
<1> QED BY <1>2, <1>3, <1>4, <1>5 DEF OnlyAt, OnceIn, NoneIn, Checked

\* The table as long as nobody forwards: its ids are what they were.
LEMMA RowsKeep ==
    ASSUME NEW k, UNCHANGED table, UNCHANGED <<pump, fetched>> \/ pump # "ack"
    PROVE  TableKeeps(k)
<1>1. ASSUME NEW m \in Unforwarded(k)' PROVE m \in Unforwarded(k)
    <2>1. /\ m \in Checked(k) /\ \E i \in 1..Len(table) : table[i].id = m
          /\ ~(pump' = "ack" /\ Head(fetched').id = m)
        BY <1>1 DEF Unforwarded, Checked
    <2> QED BY <2>1 DEF Unforwarded
<1> QED BY <1>1 DEF TableKeeps

\* A sender that does not begin with a checked message of the key brings nothing.
LEMMA SendersStay ==
    ASSUME MailSteps, NEW k, NEW s \in Senders, \A t \in Senders \ {s} : sender'[t] = sender[t],
           \/ sender'[s].at \notin {"load", "try", "push"}
           \/ sender'[s].m \notin Checked(k)
           \/ sender[s].at \in {"load", "try", "push"} /\ sender'[s].m = sender[s].m
    PROVE  /\ SendersKeep(k)
           /\ sender'[s].at \notin {"load", "try", "push"} => s \notin Bringing(k)'
<1>1. ASSUME NEW t \in Bringing(k)' PROVE t \in Bringing(k)
    <2>1. t \in Senders /\ sender'[t].at \in {"load", "try", "push"} /\ sender'[t].m \in Checked(k)
        BY <1>1 DEF Bringing, Checked
    <2> QED BY <2>1 DEF Bringing
<1>2. sender'[s].at \notin {"load", "try", "push"} => s \notin Bringing(k)' BY DEF Bringing
<1> QED BY <1>1, <1>2 DEF SendersKeep

\* Nothing but a sender moves.
LEMMA QueuesStay ==
    ASSUME NEW k, UNCHANGED <<iq, batch, inbox>>
    PROVE  QueuesKeep(k)
BY DEF QueuesKeep, NoMoreIn

\* The sender hands its message over, to a queue that becomes p.
LEMMA HandsOver ==
    ASSUME MailSteps, NEW k, NEW s \in Senders, sender[s].at \in {"load", "try", "push"}, Go(s, "count")
    PROVE  /\ SendersKeep(k)
           /\ sender[s].m \in Checked(k) =>
                 /\ ~OnlyAt(k, "nowhere")
                 /\ \A w : OnlyAt(k, w) => w = "sender" /\ Bringing(k)' = {}
<1>0. MailTypeOK BY DEF MailSteps
<1>1. sender'[s].at = "count" /\ \A t \in Senders \ {s} : sender'[t] = sender[t]
    BY <1>0, SenderMoves DEF SenderAt
<1>2. SendersKeep(k) /\ s \notin Bringing(k)' BY <1>1, SendersStay
<1>3. ASSUME sender[s].m \in Checked(k), NEW w, OnlyAt(k, w) PROVE w = "sender" /\ Bringing(k)' = {}
    <2>1. s \in Bringing(k) BY <1>3 DEF Bringing
    <2>2. w = "sender" /\ \A t \in Bringing(k) : t = s BY <1>3, <2>1, Alone
    <2> QED BY <1>2, <2>2 DEF SendersKeep
<1>4. "nowhere" # "sender" OBVIOUS
<1> QED BY <1>2, <1>3, <1>4

\* A call brings the first of a key, or hands on the one it brought.
LEMMA SendersCopies ==
    ASSUME MailSteps, MailNext, NEW k \in Keys \ repeats', NEW s \in Senders, EnqueueSteps(s)
    PROVE  \/ Together(k)
           \/ OnlyAt(k, "nowhere") /\ seen'[k] # "none" /\ OnlyAt(k, "sender")'
<1>0. MailTypeOK BY DEF MailSteps
<1>1. iq \in Seq(Letters) /\ inbox \in Seq(Letters) BY <1>0 DEF MailTypeOK
<1>2. ASSUME NEW m \in Letters, EnqueueRefused(s, m) \/ EnqueueDuplicate(s, m) PROVE Together(k)
    <2>1. UNCHANGED <<sender, iq, batch, inbox, table, pump, fetched, received>>
        BY <1>2 DEF EnqueueRefused, EnqueueDuplicate, AfterBegin
    <2>2. SendersKeep(k) BY <2>1 DEF SendersKeep, Bringing, Checked
    <2> QED BY <2>1, <2>2, RowsKeep, QueuesStay, AllKeep
<1>3. ASSUME NEW m \in Letters, EnqueuePlain(s, m) PROVE Together(k)
    <2>1. /\ ToQueue(s, m, FALSE) /\ repeats' = repeats \union ({KeyOf[m]} \ {NoKey})
          /\ UNCHANGED <<iq, batch, inbox, table, pump, fetched, received>>
        BY <1>3 DEF EnqueuePlain, AfterBegin
    <2>2. m \notin Checked(k) BY <2>1 DEF Checked, Keys
    <2>3. sender'[s].m = m /\ \A t \in Senders \ {s} : sender'[t] = sender[t] BY <1>0, <2>1, SenderMoves
    <2>4. SendersKeep(k) BY <2>2, <2>3, SendersStay
    <2> QED BY <2>1, <2>4, RowsKeep, QueuesStay, AllKeep
<1>4. ASSUME NEW m \in Letters, EnqueueFirstSeen(s, m)
      PROVE  Together(k) \/ (OnlyAt(k, "nowhere") /\ seen'[k] # "none" /\ OnlyAt(k, "sender")')
    <2>1. /\ ToQueue(s, m, TRUE) /\ sender[s].at = "idle" /\ seen[KeyOf[m]] = "none" /\ KeyOf[m] # NoKey
          /\ seen' = [seen EXCEPT ![KeyOf[m]] = "in_flight"]
          /\ UNCHANGED <<iq, batch, inbox, table, pump, fetched, received, repeats>>
        BY <1>4 DEF EnqueueFirstSeen, AfterBegin, Begin
    <2>2. sender'[s].m = m /\ \A t \in Senders \ {s} : sender'[t] = sender[t] BY <1>0, <2>1, SenderMoves
    <2>3. CASE m \notin Checked(k)
        <3>1. SendersKeep(k) BY <2>2, <2>3, SendersStay
        <3> QED BY <2>1, <3>1, RowsKeep, QueuesStay, AllKeep
    <2>4. CASE m \in Checked(k)
        <3>1. KeyOf[m] = k BY <2>4 DEF Checked
        <3>2. OnlyAt(k, "nowhere") BY <2>1, <3>1 DEF MailSteps, OneCopy
        <3>3. seen'[k] # "none"
            <4>1. seen \in [Keys -> {"none", "in_flight", "complete"}] BY <1>0 DEF MailTypeOK
            <4> QED BY <2>1, <3>1, <4>1
        <3>4. /\ Bringing(k) = {} /\ NoneIn(iq, k) /\ NoneIn(batch, k) /\ Unforwarded(k) = {} /\ NoneIn(inbox, k)
              /\ \A x \in Checked(k) : received[x] = 0
            BY <3>2, Alone
        <3>5. \A t \in Bringing(k)' : t = s
            <4> SUFFICES ASSUME NEW t \in Bringing(k)', t # s PROVE FALSE OBVIOUS
            <4>1. t \in Bringing(k) BY <2>2 DEF Bringing, Checked
            <4> QED BY <3>4, <4>1
        <3>6. Unforwarded(k)' = {} BY <2>1, <3>4, RowsKeep DEF TableKeeps
        <3>7. NoneIn(iq', k) /\ NoneIn(batch', k) /\ NoneIn(inbox', k) /\ \A x \in Checked(k) : received'[x] = 0
            BY <2>1, <3>4
        <3>8. OnlyAt(k, "sender")' BY <3>5, <3>6, <3>7, ThereNow
        <3> QED BY <3>2, <3>3, <3>8
    <2> QED BY <2>3, <2>4
<1>5. ASSUME NEW m \in Letters, EnqueueOverwrite(s, m) PROVE Together(k)
    <2>1. /\ Shortened(iq, iq') /\ m \in Overwrites /\ UNCHANGED <<batch, inbox, table, pump, fetched, received>>
          /\ UNCHANGED sender \/ ToQueue(s, m, FALSE)
        BY <1>5, OverwriteFacts DEF AfterBegin
    <2>2. m \notin Checked(k) BY <2>1 DEF Checked
    <2>3. SendersKeep(k)
        <3>1. CASE UNCHANGED sender BY <3>1 DEF SendersKeep, Bringing, Checked
        <3>2. CASE ToQueue(s, m, FALSE)
            <4>1. sender'[s].m = m /\ \A t \in Senders \ {s} : sender'[t] = sender[t] BY <1>0, <3>2, SenderMoves
            <4> QED BY <2>2, <4>1, SendersStay
        <3> QED BY <2>1, <3>1, <3>2
    <2>4. QueuesKeep(k)
        <3>1. NoMoreIn(iq, iq', k) BY <2>1, ShortenedCopies
        <3> QED BY <2>1, <3>1 DEF QueuesKeep, NoMoreIn
    <2> QED BY <2>1, <2>3, <2>4, RowsKeep, AllKeep
<1>6. ASSUME sender[s].at # "idle", AnswerFull(s) \/ AnswerDropped(s) PROVE SendersKeep(k)
    <2>1. sender'[s] = Idle /\ \A t \in Senders \ {s} : sender'[t] = sender[t] BY <1>6, AnswerFacts
    <2>2. sender'[s].at \notin {"load", "try", "push"} BY <2>1 DEF Idle
    <2> QED BY <2>1, <2>2, SendersStay
<1>7. CASE FastLoad(s)
    <2>1. /\ sender[s].at = "load" /\ UNCHANGED <<iq, batch, inbox, table, pump, fetched, received>>
          /\ AnswerFull(s) \/ AnswerDropped(s) \/ Go(s, "try")
        BY <1>7 DEF FastLoad, AfterPush
    <2>2. SendersKeep(k)
        <3>1. CASE Go(s, "try")
            <4>1. sender'[s].m = sender[s].m /\ \A t \in Senders \ {s} : sender'[t] = sender[t]
                BY <1>0, <3>1, SenderMoves DEF SenderAt
            <4> QED BY <2>1, <4>1, SendersStay
        <3> QED BY <1>6, <2>1, <3>1
    <2> QED BY <2>1, <2>2, RowsKeep, QueuesStay, AllKeep
<1>8. CASE FastTrySend(s)
    <2>1. sender[s].at = "try" /\ UNCHANGED <<iq, batch, table, pump, fetched, received>>
        BY <1>8, TrySendFacts DEF AfterPush
    <2>2. CASE UNCHANGED inbox /\ (AnswerFull(s) \/ AnswerDropped(s) \/ Go(s, "complete"))
        <3>1. SendersKeep(k)
            <4>1. CASE Go(s, "complete")
                <5>1. sender'[s].at = "complete" /\ \A t \in Senders \ {s} : sender'[t] = sender[t]
                    BY <1>0, <4>1, SenderMoves DEF SenderAt
                <5> QED BY <5>1, SendersStay
            <4> QED BY <1>6, <2>1, <2>2, <4>1
        <3> QED BY <2>1, <2>2, <3>1, RowsKeep, QueuesStay, AllKeep
    <2>3. CASE inbox' = Append(inbox, sender[s].m) /\ Go(s, "count")
        <3>1. sender[s].m \in Letters BY <2>1, SenderFacts
        <3>2. Inserted(inbox, sender[s].m, inbox') BY <1>1, <2>3, <3>1, AppendFacts
        <3>3. /\ sender[s].m \notin Checked(k) => NoMoreIn(inbox, inbox', k)
              /\ NoneIn(inbox, k) => OnceIn(inbox', k)
            BY <1>1, <3>2, InsertedCopies
        <3>4. CASE sender[s].m \notin Checked(k)
            <4>1. SendersKeep(k) BY <2>1, <2>3, HandsOver
            <4>2. QueuesKeep(k) BY <2>1, <3>3, <3>4 DEF QueuesKeep, NoMoreIn
            <4> QED BY <2>1, <4>1, <4>2, RowsKeep, AllKeep
        <3>5. CASE sender[s].m \in Checked(k)
            <4>1. ~OnlyAt(k, "nowhere") /\ \A w : OnlyAt(k, w) => w = "sender" /\ Bringing(k)' = {}
                BY <2>1, <2>3, <3>5, HandsOver
            <4>2. ASSUME NEW w \in Places, OnlyAt(k, w) PROVE OnlyAt(k, "inbox")'
                <5>1. w = "sender" /\ Bringing(k)' = {} BY <4>1, <4>2
                <5>2. /\ NoneIn(iq, k) /\ NoneIn(batch, k) /\ Unforwarded(k) = {} /\ NoneIn(inbox, k)
                      /\ \A x \in Checked(k) : received[x] = 0
                    BY <4>2, <5>1, Alone
                <5>3. Unforwarded(k)' = {} BY <2>1, <5>2, RowsKeep DEF TableKeeps
                <5>4. NoneIn(iq', k) /\ NoneIn(batch', k) /\ OnceIn(inbox', k) /\ \A x \in Checked(k) : received'[x] = 0
                    BY <2>1, <3>3, <5>2
                <5> QED BY <5>1, <5>3, <5>4, ThereNow
            <4> QED BY <4>1, <4>2 DEF Together, Places
        <3> QED BY <3>4, <3>5
    <2> QED BY <1>8, <2>2, <2>3, TrySendFacts
<1>9. CASE Push(s)
    <2>1. sender[s].at = "push" /\ UNCHANGED <<inbox, batch, table, pump, fetched, received>>
        BY <1>9, PushFacts DEF AfterPush
    <2>2. CASE UNCHANGED iq /\ (AnswerFull(s) \/ AnswerDropped(s))
        <3>1. SendersKeep(k) BY <1>6, <2>1, <2>2
        <3> QED BY <2>1, <2>2, <3>1, RowsKeep, QueuesStay, AllKeep
    <2>3. ASSUME NEW rest \in Seq(Letters), Pushed(s, rest) PROVE Together(k)
        <3>1. Shortened(iq, rest) /\ Inserted(rest, sender[s].m, iq') /\ Go(s, "count") BY <2>3 DEF Pushed
        <3>2. NoMoreIn(iq, rest, k) BY <3>1, ShortenedCopies
        <3>3. /\ sender[s].m \notin Checked(k) => NoMoreIn(rest, iq', k)
              /\ NoneIn(rest, k) => OnceIn(iq', k)
            BY <2>3, <3>1, InsertedCopies
        <3>4. CASE sender[s].m \notin Checked(k)
            <4>1. SendersKeep(k) BY <2>1, <3>1, HandsOver
            <4>2. QueuesKeep(k) BY <2>1, <3>2, <3>3, <3>4 DEF QueuesKeep, NoMoreIn
            <4> QED BY <2>1, <4>1, <4>2, RowsKeep, AllKeep
        <3>5. CASE sender[s].m \in Checked(k)
            <4>1. ~OnlyAt(k, "nowhere") /\ \A w : OnlyAt(k, w) => w = "sender" /\ Bringing(k)' = {}
                BY <2>1, <3>1, <3>5, HandsOver
            <4>2. ASSUME NEW w \in Places, OnlyAt(k, w) PROVE OnlyAt(k, "queue")'
                <5>1. w = "sender" /\ Bringing(k)' = {} BY <4>1, <4>2
                <5>2. /\ NoneIn(iq, k) /\ NoneIn(batch, k) /\ Unforwarded(k) = {} /\ NoneIn(inbox, k)
                      /\ \A x \in Checked(k) : received[x] = 0
                    BY <4>2, <5>1, Alone
                <5>3. Unforwarded(k)' = {} BY <2>1, <5>2, RowsKeep DEF TableKeeps
                <5>4. OnceIn(iq', k) /\ NoneIn(batch', k) /\ NoneIn(inbox', k) /\ \A x \in Checked(k) : received'[x] = 0
                    BY <2>1, <3>2, <3>3, <5>2 DEF NoMoreIn
                <5> QED BY <5>1, <5>3, <5>4, ThereNow
            <4> QED BY <4>1, <4>2 DEF Together, Places
        <3> QED BY <3>4, <3>5
    <2> QED BY <1>9, <2>2, <2>3, PushFacts
<1>10. CASE Count(s) \/ Complete(s)
    <2>1. /\ Go(s, "complete") \/ Return(s)
          /\ UNCHANGED <<iq, batch, inbox, table, fetched, received>>
          /\ pump' = pump \/ (pump = "waiting" /\ pump' = "receive")
        BY <1>10, FinishFacts DEF Count, Complete, Finish
    <2>2. sender'[s].at \notin {"load", "try", "push"} /\ \A t \in Senders \ {s} : sender'[t] = sender[t]
        BY <1>0, <2>1, SenderMoves DEF SenderAt, Idle
    <2>3. SendersKeep(k) BY <2>2, SendersStay
    <2>4. TableKeeps(k)
        <3>1. UNCHANGED <<pump, fetched>> \/ pump # "ack" BY <2>1
        <3> QED BY <2>1, <3>1, RowsKeep
    <2> QED BY <2>1, <2>3, <2>4, QueuesStay, AllKeep
<1> QED BY <1>2, <1>3, <1>4, <1>5, <1>7, <1>8, <1>9, <1>10 DEF EnqueueSteps

\* The processor, the pump and the actor carry them on.
LEMMA DrainCopies ==
    ASSUME MailSteps, NEW k \in Keys, ProcessorDrain
    PROVE  Together(k)
<1>1. /\ processor = "drain" /\ batch' = iq /\ iq' = <<>> /\ UNCHANGED <<sender, inbox, table, pump, fetched, received>>
    BY DEF ProcessorDrain, SenderVars
<1>2. batch = <<>> BY <1>1 DEF MailSteps, TasksInStep
<1>3. SendersKeep(k) BY <1>1 DEF SendersKeep, Bringing, Checked
<1>4. TableKeeps(k) BY <1>1, RowsKeep
<1>5. NoneIn(iq', k) BY <1>1, EmptyCopies
<1>6. ASSUME NoneIn(iq, k) PROVE Together(k)
    <2>1. NoMoreIn(iq, iq', k) BY <1>1, EmptyCopies
    <2>2. NoneIn(batch', k) /\ OnceIn(batch', k) BY <1>1, <1>6 DEF NoneIn, OnceIn
    <2>3. QueuesKeep(k) BY <1>1, <2>1, <2>2 DEF QueuesKeep, NoMoreIn
    <2> QED BY <1>1, <1>3, <1>4, <2>3, AllKeep
<1>7. ASSUME ~NoneIn(iq, k) PROVE Together(k)
    <2>1. \A w : OnlyAt(k, w) => w = "queue" BY <1>7, Alone
    <2>2. ASSUME OnlyAt(k, "queue") PROVE OnlyAt(k, "batch")'
        <3>1. /\ Bringing(k) = {} /\ OnceIn(iq, k) /\ Unforwarded(k) = {} /\ NoneIn(inbox, k)
              /\ \A x \in Checked(k) : received[x] = 0
            BY <2>2, Alone
        <3>2. Bringing(k)' = {} /\ Unforwarded(k)' = {} BY <1>3, <1>4, <3>1 DEF SendersKeep, TableKeeps
        <3>3. OnceIn(batch', k) /\ NoneIn(inbox', k) /\ \A x \in Checked(k) : received'[x] = 0 BY <1>1, <3>1
        <3> QED BY <1>5, <3>2, <3>3, ThereNow
    <2> QED BY <2>1, <2>2 DEF Together, Places
<1> QED BY <1>6, <1>7

\* The first of the batch goes to the actor or to the table.
LEMMA SendCopies ==
    ASSUME MailSteps, NEW k \in Keys, ProcessorSend
    PROVE  Together(k)
<1>0. MailTypeOK BY DEF MailSteps
<1>1. batch \in Seq(Letters) /\ inbox \in Seq(Letters) /\ table \in Seq(Row) BY <1>0 DEF MailTypeOK
<1>2. batch # <<>> /\ UNCHANGED <<sender, iq, pump, fetched, received>> BY SendFacts DEF ProcessorRest, SenderVars
<1>3. PICK e : e = Head(batch) OBVIOUS
<1>4. /\ e \in Letters /\ NoMoreIn(batch, Tail(batch), k)
      /\ e \in Checked(k) => ~NoneIn(batch, k) /\ (OnceIn(batch, k) => NoneIn(Tail(batch), k))
    BY <1>1, <1>2, <1>3, EndFacts, TailCopies
<1>5. SendersKeep(k) BY <1>2 DEF SendersKeep, Bringing, Checked
<1>6. CASE SentToActor
    <2>1. batch' = Tail(batch) /\ inbox' = Append(inbox, e) /\ UNCHANGED table
        BY <1>3, <1>6 DEF SentToActor, SentOn
    <2>2. Inserted(inbox, e, inbox') BY <1>1, <1>4, <2>1, AppendFacts
    <2>3. (e \notin Checked(k) => NoMoreIn(inbox, inbox', k)) /\ (NoneIn(inbox, k) => OnceIn(inbox', k))
        BY <1>1, <2>2, InsertedCopies
    <2>4. TableKeeps(k) BY <1>2, <2>1, RowsKeep
    <2>5. CASE e \notin Checked(k)
        <3>1. QueuesKeep(k) BY <1>2, <1>4, <2>1, <2>3, <2>5 DEF QueuesKeep, NoMoreIn
        <3> QED BY <1>2, <1>5, <2>4, <3>1, AllKeep
    <2>6. CASE e \in Checked(k)
        <3>1. \A w : OnlyAt(k, w) => w = "batch" BY <1>4, <2>6, Alone
        <3>2. ASSUME OnlyAt(k, "batch") PROVE OnlyAt(k, "inbox")'
            <4>1. /\ Bringing(k) = {} /\ NoneIn(iq, k) /\ OnceIn(batch, k) /\ Unforwarded(k) = {} /\ NoneIn(inbox, k)
                  /\ \A x \in Checked(k) : received[x] = 0
                BY <3>2, Alone
            <4>2. Bringing(k)' = {} /\ Unforwarded(k)' = {} BY <1>5, <2>4, <4>1 DEF SendersKeep, TableKeeps
            <4>3. /\ NoneIn(iq', k) /\ NoneIn(batch', k) /\ OnceIn(inbox', k)
                  /\ \A x \in Checked(k) : received'[x] = 0
                BY <1>2, <1>4, <2>1, <2>3, <2>6, <4>1
            <4> QED BY <4>2, <4>3, ThereNow
        <3> QED BY <3>1, <3>2 DEF Together, Places
    <2> QED BY <2>5, <2>6
<1>7. CASE SentToTable
    <2>1. batch' = Tail(batch) /\ UNCHANGED inbox /\ table' \in Seq(Row) BY <1>7 DEF SentToTable, SentOn
    <2>2. QueuesKeep(k) BY <1>2, <1>4, <2>1 DEF QueuesKeep, NoMoreIn
    <2>3. ASSUME NEW D, \A i \in 1..Len(table') : table'[i].id \in D \/ \E j \in 1..Len(table) : table[j].id = table'[i].id
          PROVE  Unforwarded(k)' \subseteq Unforwarded(k) \union (D \intersect Checked(k))
        <3> SUFFICES ASSUME NEW m \in Unforwarded(k)' PROVE m \in Unforwarded(k) \/ (m \in D /\ m \in Checked(k))
            OBVIOUS
        <3>1. /\ m \in Checked(k) /\ \E i \in 1..Len(table') : table'[i].id = m
              /\ ~(pump = "ack" /\ Head(fetched).id = m)
            BY <1>2 DEF Unforwarded, Checked
        <3>2. m \in D \/ \E j \in 1..Len(table) : table[j].id = m BY <2>3, <3>1
        <3> QED BY <3>1, <3>2 DEF Unforwarded
    <2>4. CASE Overwritten(table, table', e)
        <3>1. \A i \in 1..Len(table') : table'[i].id \in {} \/ \E j \in 1..Len(table) : table[j].id = table'[i].id
            BY <2>4 DEF Overwritten
        <3>2. TableKeeps(k) BY <2>3, <3>1 DEF TableKeeps
        <3> QED BY <1>2, <1>5, <2>2, <3>2, AllKeep
    <2>5. CASE table' = Append(table, [id |-> e, body |-> e])
        <3>1. PICK r : r = [id |-> e, body |-> e] OBVIOUS
        <3>2. r \in Row /\ r.id = e BY <1>4, <3>1 DEF Row
        <3>3. /\ Len(table) \in Nat /\ Len(table') = Len(table) + 1 /\ table'[Len(table) + 1] = r
              /\ \A i \in 1..Len(table) : table'[i] = table[i]
            BY <1>1, <2>5, <3>1, <3>2, AppendFacts
        <3>4. \A i \in 1..Len(table') : table'[i].id \in {e} \/ \E j \in 1..Len(table) : table[j].id = table'[i].id
            <4> TAKE i \in 1..Len(table')
            <4>1. i \in 1..Len(table) \/ i = Len(table) + 1 BY <3>3
            <4> QED BY <3>2, <3>3, <4>1
        <3>5. Unforwarded(k)' \subseteq Unforwarded(k) \union ({e} \intersect Checked(k)) BY <2>3, <3>4
        <3>6. CASE e \notin Checked(k)
            <4>1. TableKeeps(k) BY <3>5, <3>6 DEF TableKeeps
            <4> QED BY <1>2, <1>5, <2>2, <4>1, AllKeep
        <3>7. CASE e \in Checked(k)
            <4>1. \A w : OnlyAt(k, w) => w = "batch" BY <1>4, <3>7, Alone
            <4>2. ASSUME OnlyAt(k, "batch") PROVE OnlyAt(k, "table")'
                <5>1. /\ Bringing(k) = {} /\ NoneIn(iq, k) /\ OnceIn(batch, k) /\ Unforwarded(k) = {} /\ NoneIn(inbox, k)
                      /\ \A x \in Checked(k) : received[x] = 0
                    BY <4>2, Alone
                <5>2. Bringing(k)' = {} /\ \A m, x \in Unforwarded(k)' : m = x BY <1>5, <3>5, <5>1 DEF SendersKeep
                <5>3. /\ NoneIn(iq', k) /\ NoneIn(batch', k) /\ NoneIn(inbox', k)
                      /\ \A x \in Checked(k) : received'[x] = 0
                    BY <1>2, <1>4, <2>1, <3>7, <5>1
                <5> QED BY <5>2, <5>3, ThereNow
            <4> QED BY <4>1, <4>2 DEF Together, Places
        <3> QED BY <3>6, <3>7
    <2> QED BY <1>3, <1>7, <2>4, <2>5 DEF SentToTable
<1>8. CASE SentNowhere \/ ProcessorEnds
    <2>1. UNCHANGED <<table, inbox>> /\ (batch' = Tail(batch) \/ batch' = <<>>)
        BY <1>8 DEF SentNowhere, ProcessorEnds, SentOn
    <2>2. NoMoreIn(batch, batch', k) BY <1>4, <2>1, EmptyCopies
    <2>3. QueuesKeep(k) BY <1>2, <2>1, <2>2 DEF QueuesKeep, NoMoreIn
    <2>4. TableKeeps(k) BY <1>2, <2>1, RowsKeep
    <2> QED BY <1>2, <1>5, <2>3, <2>4, AllKeep
<1> QED BY <1>6, <1>7, <1>8, SendFacts

\* A row that is forwarded is one that was not, and holds its own message if
\* the store checks it.
LEMMA ForwardCopies ==
    ASSUME MailSteps, NEW k \in Keys \ repeats, PumpForward
    PROVE  Together(k)
<1>0. MailTypeOK BY DEF MailSteps
<1>1. inbox \in Seq(Letters) /\ fetched \in Seq(Row) BY <1>0 DEF MailTypeOK
<1>2. pump = "forward" /\ UNCHANGED <<sender, iq, batch, table, fetched, received>>
    BY DEF PumpForward, SenderVars
<1>3. SendersKeep(k) BY <1>2 DEF SendersKeep, Bringing, Checked
<1>4. TableKeeps(k) BY <1>2, RowsKeep
<1>5. CASE pump' = "exited" /\ UNCHANGED inbox
    BY <1>2, <1>3, <1>4, <1>5, QueuesStay, AllKeep
<1>6. CASE pump' = "ack" /\ inbox' = Append(inbox, Head(fetched).body)
    <2>1. PICK h : h = Head(fetched) OBVIOUS
    <2>2. fetched # <<>> BY <1>2 DEF MailSteps, TasksInStep
    <2>3. h \in Row /\ 1 \in 1..Len(fetched) /\ h = fetched[1] BY <1>1, <2>1, <2>2, EndFacts
    <2>4. h.body \in Letters /\ h.id \in Letters BY <2>3 DEF Row
    <2>5. OwnRow(h) /\ (Unacked(h.id) \/ Repeated(h.id))
        BY <1>2, <2>3 DEF MailSteps, RowsSound
    <2>6. Inserted(inbox, h.body, inbox') BY <1>1, <1>6, <2>1, <2>4, AppendFacts
    <2>7. (h.body \notin Checked(k) => NoMoreIn(inbox, inbox', k)) /\ (NoneIn(inbox, k) => OnceIn(inbox', k))
        BY <1>1, <2>6, InsertedCopies
    <2>8. CASE h.body \notin Checked(k)
        <3>1. QueuesKeep(k) BY <1>2, <2>7, <2>8 DEF QueuesKeep, NoMoreIn
        <3> QED BY <1>2, <1>3, <1>4, <3>1, AllKeep
    <2>9. CASE h.body \in Checked(k)
        <3>1. h.id = h.body BY <2>5, <2>9 DEF OwnRow, Checked
        <3>5. KeyOf[h.id] = k /\ k # NoKey BY <2>9, <3>1 DEF Checked, Keys
        <3>6. Unacked(h.id) BY <2>5, <3>5 DEF Repeated
        <3>2. h.id \in Unforwarded(k) BY <1>2, <2>9, <3>1, <3>6 DEF Unforwarded, Unacked
        <3>3. \A w : OnlyAt(k, w) => w = "table" BY <3>2, Alone
        <3>4. ASSUME OnlyAt(k, "table") PROVE OnlyAt(k, "inbox")'
            <4>1. /\ Bringing(k) = {} /\ NoneIn(iq, k) /\ NoneIn(batch, k) /\ NoneIn(inbox, k)
                  /\ \A m, x \in Unforwarded(k) : m = x
                  /\ \A x \in Checked(k) : received[x] = 0
                BY <3>4, Alone
            <4>2. h.id \notin Unforwarded(k)' BY <1>2, <1>6, <2>1 DEF Unforwarded
            <4>3. Bringing(k)' = {} /\ Unforwarded(k)' = {}
                BY <1>3, <1>4, <3>2, <4>1, <4>2 DEF SendersKeep, TableKeeps
            <4>4. /\ NoneIn(iq', k) /\ NoneIn(batch', k) /\ OnceIn(inbox', k)
                  /\ \A x \in Checked(k) : received'[x] = 0
                BY <1>2, <2>7, <4>1
            <4> QED BY <4>3, <4>4, ThereNow
        <3> QED BY <3>3, <3>4 DEF Together, Places
    <2> QED BY <2>8, <2>9
<1> QED BY <1>5, <1>6 DEF PumpForward

\* An ack takes a row that was forwarded.
LEMMA AckCopies ==
    ASSUME MailSteps, NEW k \in Keys, PumpAck
    PROVE  Together(k)
<1>1. pump = "ack" /\ UNCHANGED <<sender, iq, batch, inbox, received>> BY DEF PumpAck, SenderVars
<1>2. \A id : Unacked(id)' <=> Unacked(id) /\ id # Head(fetched).id BY PumpAckFacts, AckedIds
<1>3. SendersKeep(k) BY <1>1 DEF SendersKeep, Bringing, Checked
<1>4. ASSUME NEW m \in Unforwarded(k)' PROVE m \in Unforwarded(k)
    <2>1. m \in Checked(k) /\ Unacked(m)' BY <1>4 DEF Unforwarded, Checked, Unacked
    <2>2. m # Head(fetched).id /\ Unacked(m) BY <1>2, <2>1
    <2> QED BY <2>1, <2>2 DEF Unforwarded, Unacked
<1>5. TableKeeps(k) BY <1>4 DEF TableKeeps
<1> QED BY <1>1, <1>3, <1>5, QueuesStay, AllKeep

\* A row that comes again is of a key that the store no longer answers for.
LEMMA AgainCopies ==
    ASSUME MailSteps, NEW k \in Keys \ repeats', NEW id \in Letters, GivenAgain(id)
    PROVE  id \notin Checked(k)
<1>1. SUFFICES ASSUME id \in Checked(k) PROVE FALSE OBVIOUS
<1>2. KeyOf[id] = k /\ k # NoKey BY <1>1 DEF Checked, Keys
<1>3. k \in repeats' BY <1>2, AgainFacts
<1> QED BY <1>3

\* So the end of the processing, a nack and an ack that fails bring no message
\* of a key that is not.
LEMMA EndCopies ==
    ASSUME MailSteps, NEW k \in Keys \ repeats', PumpAckFails \/ Processed \/ Nacked
    PROVE  Together(k) /\ UNCHANGED seen
<1>0. table \in Seq(Row) BY DEF MailSteps, MailTypeOK
<1>1. UNCHANGED <<sender, seen, iq, batch, inbox, received>> BY QuietFacts
<1>2. SendersKeep(k) BY <1>1 DEF SendersKeep, Bringing, Checked
<1>3. CASE PumpAckFails
    <2>1. pump = "ack" /\ UNCHANGED table /\ Head(fetched).id \notin Checked(k)
        BY <1>3, AckFailsFacts, QuietFacts, AgainCopies
    <2>2. ASSUME NEW m \in Unforwarded(k)' PROVE m \in Unforwarded(k)
        <3>1. m \in Checked(k) /\ \E i \in 1..Len(table) : table[i].id = m BY <2>1, <2>2 DEF Unforwarded, Checked
        <3>2. m # Head(fetched).id BY <2>1, <3>1
        <3> QED BY <3>1, <3>2 DEF Unforwarded
    <2>3. TableKeeps(k) BY <2>2 DEF TableKeeps
    <2> QED BY <1>1, <1>2, <2>3, QueuesStay, AllKeep
<1>4. ASSUME UNCHANGED <<pump, fetched>>, NEW r, r \notin Checked(k), \A id : Unacked(id)' => Unacked(id) \/ id = r
      PROVE  Together(k) /\ UNCHANGED seen
    <2>2. ASSUME NEW m \in Unforwarded(k)' PROVE m \in Unforwarded(k)
        <3>1. m \in Checked(k) /\ Unacked(m)' /\ ~(pump = "ack" /\ Head(fetched).id = m)
            BY <1>4, <2>2 DEF Unforwarded, Checked, Unacked
        <3>2. Unacked(m) BY <1>4, <3>1
        <3> QED BY <3>1, <3>2 DEF Unforwarded, Unacked
    <2>3. TableKeeps(k) BY <2>2 DEF TableKeeps
    <2> QED BY <1>1, <1>2, <2>3, QueuesStay, AllKeep
<1>5. CASE Processed
    <2>1. UNCHANGED <<pump, fetched>> BY <1>5, QuietFacts
    <2>2. NoLetter \notin Checked(k) BY MailboxAssumption DEF Checked
    <2>3. \A id : Unacked(id)' => Unacked(id)
        <3>1. CASE AckOf(working) BY <3>1, AckedIds
        <3>2. CASE UNCHANGED table BY <3>2 DEF Unacked
        <3> QED BY <1>5, <3>1, <3>2, ProcessedFacts
    <2> QED BY <1>4, <2>1, <2>2, <2>3
<1>6. CASE Nacked
    <2>1. UNCHANGED <<pump, fetched>> BY <1>6, QuietFacts
    <2>2. ASSUME NEW r \in acked, TakenBack(r) PROVE Together(k) /\ UNCHANGED seen
        <3>1. \A id : Unacked(id)' => Unacked(id) \/ id = r.id BY <1>0, <2>2, TakenBackIds
        <3>2. r.id \notin Checked(k) BY <2>2, AgainCopies DEF TakenBack
        <3> QED BY <1>4, <2>1, <3>1, <3>2
    <2>3. CASE UNCHANGED table
        <3>1. TableKeeps(k) BY <2>1, <2>3, RowsKeep
        <3> QED BY <1>1, <1>2, <3>1, QueuesStay, AllKeep
    <2> QED BY <1>6, <2>2, <2>3, NackFacts
<1> QED BY <1>3, <1>5, <1>6

\* The actor takes the one that was in its inbox.
LEMMA ReceiveCopies ==
    ASSUME MailSteps, NEW k \in Keys, Receive
    PROVE  Together(k)
<1>0. MailTypeOK BY DEF MailSteps
<1>1. inbox \in Seq(Letters) /\ received \in [Letters -> Nat] BY <1>0 DEF MailTypeOK
<1>2. PICK e : e = Head(inbox) OBVIOUS
<1>3. /\ inbox # <<>> /\ inbox' = Tail(inbox) /\ received' = [received EXCEPT ![e] = @ + 1]
      /\ UNCHANGED <<sender, iq, batch, table, pump, fetched>>
    BY <1>2 DEF Receive, SenderVars
<1>4. /\ e \in Letters /\ NoMoreIn(inbox, inbox', k)
      /\ e \in Checked(k) => ~NoneIn(inbox, k) /\ (OnceIn(inbox, k) => NoneIn(inbox', k))
    BY <1>1, <1>2, <1>3, EndFacts, TailCopies
<1>5. SendersKeep(k) /\ TableKeeps(k) BY <1>3, RowsKeep DEF SendersKeep, Bringing, Checked
<1>6. Checked(k) \subseteq Letters BY DEF Checked
<1>7. ASSUME e \notin Checked(k), NEW w, OnlyAt(k, w) PROVE OnlyAt(k, w)'
    <2>1. \A x \in Checked(k) : received'[x] = received[x] BY <1>1, <1>3, <1>6, <1>7
    <2>2. Bringing(k)' = {} \/ (w = "sender" /\ \A s, t \in Bringing(k)' : s = t)
        BY <1>5, <1>7, Alone DEF SendersKeep
    <2>3. Unforwarded(k)' = {} \/ (w = "table" /\ \A m, x \in Unforwarded(k)' : m = x)
        BY <1>5, <1>7, Alone DEF TableKeeps
    <2>4. /\ NoneIn(iq', k) \/ (w = "queue" /\ OnceIn(iq', k))
          /\ NoneIn(batch', k) \/ (w = "batch" /\ OnceIn(batch', k))
          /\ NoneIn(inbox', k) \/ (w = "inbox" /\ OnceIn(inbox', k))
        BY <1>3, <1>4, <1>7, Alone DEF NoMoreIn
    <2>5. \/ \A m \in Checked(k) : received'[m] = 0
          \/ /\ w = "actor"
             /\ \A m, x \in Checked(k) : received'[m] > 0 /\ received'[x] > 0 => m = x /\ received'[m] = 1
        BY <1>7, <2>1 DEF OnlyAt
    <2> QED BY <2>2, <2>3, <2>4, <2>5, ThereNow
<1>8. CASE e \notin Checked(k)
    BY <1>7, <1>8 DEF Together
<1>9. CASE e \in Checked(k)
    <2>1. \A w : OnlyAt(k, w) => w = "inbox" BY <1>4, <1>9, Alone
    <2>2. ASSUME OnlyAt(k, "inbox") PROVE OnlyAt(k, "actor")'
        <3>1. /\ Bringing(k) = {} /\ NoneIn(iq, k) /\ NoneIn(batch, k) /\ Unforwarded(k) = {} /\ OnceIn(inbox, k)
              /\ \A x \in Checked(k) : received[x] = 0
            BY <2>2, Alone
        <3>2. Bringing(k)' = {} /\ Unforwarded(k)' = {} BY <1>5, <3>1 DEF SendersKeep, TableKeeps
        <3>3. NoneIn(iq', k) /\ NoneIn(batch', k) /\ NoneIn(inbox', k) BY <1>3, <1>4, <1>9, <3>1
        <3>4. \A x \in Checked(k) : received'[x] = IF x = e THEN 1 ELSE 0 BY <1>1, <1>3, <1>6, <1>9, <3>1
        <3>5. \A m, x \in Checked(k) : received'[m] > 0 /\ received'[x] > 0 => m = x /\ received'[m] = 1
            BY <3>4
        <3> QED BY <3>2, <3>3, <3>5, ThereNow
    <2> QED BY <2>1, <2>2 DEF Together, Places
<1> QED BY <1>8, <1>9

(***************************************************************************)
(* Deduplication: the messages of a key that the store checks stay         *)
(* together, from the sender to the actor.                                 *)
(***************************************************************************)
LEMMA CopiesStep ==
    ASSUME MailSteps, MailNext
    PROVE  OneCopy'
<1>0. MailTypeOK /\ OneCopy BY DEF MailSteps
<1>1. seen \in [Keys -> {"none", "in_flight", "complete"}] BY <1>0 DEF MailTypeOK
<1> SUFFICES ASSUME NEW k \in Keys \ repeats'
             PROVE  /\ seen'[k] = "none" => OnlyAt(k, "nowhere")'
                    /\ \E v \in Places : OnlyAt(k, v)'
    BY DEF OneCopy, Places, Keys
<1>2. ~Crash BY DEF Crash
<1>3. ASSUME k \notin repeats, seen'[k] = "none" => seen[k] = "none", Together(k)
      PROVE  /\ seen'[k] = "none" => OnlyAt(k, "nowhere")'
             /\ \E v \in Places : OnlyAt(k, v)'
    <2>1. (seen[k] = "none" => OnlyAt(k, "nowhere")) /\ \E w \in Places : OnlyAt(k, w)
        BY <1>0, <1>3 DEF OneCopy, Places
    <2> QED BY <1>3, <2>1 DEF Together
<1>4. ASSUME NEW s \in Senders, EnqueueSteps(s)
      PROVE  k \notin repeats /\ (seen'[k] = "none" => seen[k] = "none")
    <2>1. ASSUME NEW m \in Letters,
                 \/ EnqueueRefused(s, m) \/ EnqueuePlain(s, m) \/ EnqueueDuplicate(s, m) \/ EnqueueOverwrite(s, m)
          PROVE  k \notin repeats /\ seen' = seen
        BY <2>1, OverwriteFacts DEF EnqueueRefused, EnqueuePlain, EnqueueDuplicate
    <2>2. ASSUME NEW m \in Letters, EnqueueFirstSeen(s, m)
          PROVE  k \notin repeats /\ (seen'[k] = "none" => seen[k] = "none")
        BY <1>1, <2>2 DEF EnqueueFirstSeen
    <2>3. CASE FastLoad(s) \/ FastTrySend(s) \/ Push(s) \/ Count(s)
        BY <2>3 DEF FastLoad, FastTrySend, Push, Count, AfterPush, AfterCount
    <2>4. CASE Complete(s)
        <3>1. PICK x : x = KeyOf[sender[s].m] OBVIOUS
        <3>2. seen' = [seen EXCEPT ![x] = IF @ = "none" THEN @ ELSE "complete"] /\ UNCHANGED repeats
            BY <2>4, <3>1 DEF Complete, AfterCount
        <3> QED BY <1>1, <3>2
    <2> QED BY <1>4, <2>1, <2>2, <2>3, <2>4 DEF EnqueueSteps
<1>5. ASSUME NEW s \in Senders, EnqueueSteps(s)
      PROVE  /\ seen'[k] = "none" => OnlyAt(k, "nowhere")'
             /\ \E v \in Places : OnlyAt(k, v)'
    <2>1. \/ Together(k)
          \/ OnlyAt(k, "nowhere") /\ seen'[k] # "none" /\ OnlyAt(k, "sender")'
        BY <1>5, SendersCopies
    <2> QED BY <1>3, <1>4, <1>5, <2>1 DEF Places
<1>6. ASSUME NEW x \in Keys, Evict(x) PROVE k \notin repeats /\ (seen'[k] = "none" => seen[k] = "none") /\ Together(k)
    <2>1. /\ seen' = [seen EXCEPT ![x] = "none"] /\ repeats' = repeats \union {x}
          /\ UNCHANGED <<sender, iq, batch, inbox, table, pump, fetched, received>>
        BY <1>6 DEF Evict
    <2>2. SendersKeep(k) BY <2>1 DEF SendersKeep, Bringing, Checked
    <2>3. Together(k) BY <2>1, <2>2, RowsKeep, QueuesStay, AllKeep
    <2> QED BY <1>1, <2>1, <2>3
<1>7. ASSUME \/ ProcessorStep \/ PumpReceive \/ PumpAwait \/ PumpForward \/ PumpAck \/ Receive
             \/ ActorStops \/ BeginShutdown \/ CloseChannel
      PROVE  Together(k) /\ UNCHANGED <<seen, repeats>>
    <2>1. UNCHANGED <<sender, seen, repeats>>
        BY <1>7 DEF ProcessorStep, ProcessorCheck, ProcessorAwait, ProcessorDrain, ProcessorSend, PumpReceive,
              PumpAwait, PumpForward, PumpAck, Receive, ActorStops, BeginShutdown, CloseChannel, SenderVars
    <2>5. k \in Keys \ repeats BY <2>1
    <2>2. SendersKeep(k) BY <2>1 DEF SendersKeep, Bringing, Checked
    <2>3. CASE ProcessorCheck \/ ProcessorAwait \/ PumpReceive \/ PumpAwait \/ BeginShutdown \/ CloseChannel
        <3>1. /\ UNCHANGED <<iq, batch, inbox, table, received>>
              /\ UNCHANGED <<pump, fetched>> \/ pump # "ack"
            BY <2>3 DEF ProcessorCheck, ProcessorAwait, PumpReceive, PumpAwait, BeginShutdown, CloseChannel
        <3> QED BY <2>1, <2>2, <3>1, RowsKeep, QueuesStay, AllKeep
    <2>4. CASE ActorStops
        <3>1. inbox' = <<>> /\ UNCHANGED <<iq, batch, table, pump, fetched, received>> BY <2>4 DEF ActorStops
        <3>2. NoMoreIn(inbox, inbox', k) BY <3>1, EmptyCopies
        <3>3. QueuesKeep(k) BY <3>1, <3>2 DEF QueuesKeep, NoMoreIn
        <3> QED BY <2>1, <2>2, <3>1, <3>3, RowsKeep, AllKeep
    <2> QED BY <1>7, <2>1, <2>3, <2>4, <2>5, DrainCopies, SendCopies, ForwardCopies, AckCopies, ReceiveCopies
            DEF ProcessorStep
<1>8. ASSUME PumpAckFails \/ Processed \/ Nacked PROVE k \notin repeats /\ Together(k) /\ UNCHANGED seen
    BY <1>8, EndCopies, RepeatsGrow
<1> QED BY <1>2, <1>3, <1>5, <1>6, <1>7, <1>8 DEF MailNext, PumpStep, ActorStep

-----------------------------------------------------------------------------
(* The mailbox: the theorem.                                               *)

\* A mailbox just built keeps the inductive invariant.
LEMMA MailStart ==
    ASSUME MailInit
    PROVE  MailSteps
<1>1. /\ iq = <<>> /\ batch = <<>> /\ inbox = <<>> /\ table = <<>> /\ fetched = <<>> /\ waiting = <<>>
      /\ sender = [s \in Senders |-> Idle] /\ received = [m \in Letters |-> 0]
      /\ answered = {} /\ gone = {} /\ refused = {} /\ repeats = {} /\ drift = {}
      /\ pump \notin {"forward", "ack"} /\ processor # "send" /\ depth = 0
      /\ seen = [k \in Keys |-> "none"]
      /\ ids = <<>> /\ working = NoRow /\ acked = {} /\ tries = [m \in Letters |-> 0]
    BY DEF MailInit
<1>2. \A s \in Senders : sender[s] = Idle BY <1>1
<1>3. Idle.at = "idle" /\ ~Idle.record /\ Idle.m = NoLetter BY DEF Idle
<1>4. \A T : <<>> \in Seq(T) OBVIOUS
<1>5. MailTypeOK
    <2>1. SenderSide
        <3>1. config.path \in {"fast", "memory", "durable"} BY MailboxAssumption DEF MailInit
        <3>2. Idle \in SenderState BY DEF Idle, SenderState, SenderAt
        <3>3. 0 \in 0..MaxCalls[config.path] /\ 0 \in 0..MaxMailFaults BY <3>1, MailboxAssumption
        <3> QED BY <1>1, <3>2, <3>3 DEF MailInit, SenderSide
    <2>2. QueueSide
        <3>1. 0 \in 0..(Word - 1) BY WordAssumption
        <3> QED BY <1>1, <1>4, <3>1 DEF QueueSide
    <2>3. TaskSide BY <1>1, <1>4 DEF MailInit, TaskSide
    <2>4. RowSide
        <3>1. 0 \in 0..MaxRedeliveries BY MailboxAssumption
        <3> QED BY <1>1, <1>4, <3>1 DEF RowSide
    <2> QED BY <2>1, <2>2, <2>3, <2>4, MailSides
<1>6. PathsApart
    BY <1>1, <1>2, <1>3 DEF MailInit, PathsApart
<1>7. TasksInStep
    BY <1>1, NoneSet DEF TasksInStep
<1>14. RowsSound
    BY <1>1, NoneSet, RowsParts DEF TableSound, AckedSound, FetchedSound
<1>15. HandedOver
    <2>1. \A id \in Letters : ~WithActor(id)
        BY <1>1, NoneSet, MailboxAssumption DEF WithActor, NoRow
    <2> QED BY <1>1, <2>1 DEF HandedOver
<1>8. PromisesKept
    BY <1>1, <1>2, <1>3 DEF PromisesKept
<1>9. Counting = {} BY <1>2, <1>3 DEF Counting
<1>10. InPipe = 0 /\ Cardinality(Counting) = 0 BY <1>1, <1>9, NoneSet, FS_EmptySet DEF InPipe, Twice
<1>11. DepthFollows BY <1>1, <1>10 DEF DepthFollows
<1>12. CapacityBound
    <2>1. Cardinality(Senders) \in Nat BY WordAssumption, FS_CardinalityType
    <2> QED BY <1>10, <2>1, WordAssumption DEF CapacityBound
<1>13. OneCopy
    <2> SUFFICES ASSUME NEW k \in Keys, NEW w \in Places \union {"nowhere"} PROVE OnlyAt(k, w)
        BY DEF OneCopy, Places
    <2>1. Bringing(k) = {} /\ Unforwarded(k) = {} BY <1>1, <1>2, <1>3, NoneSet DEF Bringing, Unforwarded
    <2>2. NoneIn(<<>>, k) /\ OnceIn(<<>>, k) BY EmptyCopies
    <2>3. \A m \in Checked(k) : received[m] = 0 BY <1>1 DEF Checked
    <2> QED BY <1>1, <2>1, <2>2, <2>3 DEF OnlyAt
<1> QED BY <1>5, <1>6, <1>7, <1>8, <1>11, <1>12, <1>13, <1>14, <1>15 DEF MailSteps

\* Every step, and every pause, keeps it.
LEMMA MailStep ==
    ASSUME MailSteps, MailNext \/ UNCHANGED mailVars
    PROVE  MailSteps'
<1>1. CASE MailNext
    BY <1>1, MailTypeStep, PathsStep, TasksStep, RowsStep, HandedStep, PromisesStep, DepthStep, CopiesStep DEF MailSteps
<1>2. CASE UNCHANGED mailVars
    <2>1. UNCHANGED <<config, sender, calls, seen, iq, processor, batch, table, pump, fetched, inbox, depth, permit,
                      waiting, mode, received, answered, gone, refused, repeats, alive, drift, mailFaults,
                      ids, working, acked, tries>>
        BY <1>2 DEF mailVars, RowVars
    <2>2. MailTypeOK' BY <2>1 DEF MailSteps, MailTypeOK
    <2>3. PathsApart' /\ TasksInStep'
        BY <2>1 DEF MailSteps, PathsApart, TasksInStep, Queued, Running
    <2>9. RowsSound'
        BY <2>1 DEF MailSteps, RowsSound, OwnRow, Known, Unacked, Repeated
    <2>10. HandedOver'
        BY <2>1 DEF MailSteps, HandedOver, WithActor, Known, Unacked, Repeated, Running
    <2>4. \A m : (Settled(m)' <=> Settled(m)) /\ (Promised(m)' <=> Promised(m)) BY <2>1 DEF Settled, Promised
    <2>5. PromisesKept'
        <3>1. \A s \in Senders : Settled(sender[s].m)' <=> Settled(sender[s].m) BY <2>1 DEF Settled
        <3> QED BY <2>1, <2>4, <3>1 DEF MailSteps, PromisesKept, SameAs, Keys
    <2>6. DepthFollows' /\ CapacityBound'
        BY <2>1 DEF MailSteps, DepthFollows, CapacityBound, InPipe, Twice, Unacked, Counting, Queued, Running
    <2>7. \A k, w : OnlyAt(k, w)' <=> OnlyAt(k, w)
        BY <2>1 DEF OnlyAt, Bringing, Unforwarded, OnceIn, NoneIn, Checked
    <2>8. OneCopy' BY <2>1, <2>7 DEF MailSteps, OneCopy, Keys
    <2> QED BY <2>2, <2>3, <2>5, <2>6, <2>8, <2>9, <2>10 DEF MailSteps
<1> QED BY <1>1, <1>2

\* It implies what a run checks.
LEMMA MailMeans ==
    ASSUME MailSteps
    PROVE  MailInv
<1>1. AcceptedAccounted
    <2> SUFFICES ASSUME NEW m \in answered, KeyOf[m] \notin refused PROVE \E x \in SameAs(m) : Accounted(x)
        BY DEF AcceptedAccounted
    <2>1. PICK x \in SameAs(m) : Promised(x) BY DEF MailSteps, PromisesKept
    <2>2. Accounted(x) BY <2>1 DEF Promised, Settled, Accounted, InHand
    <2> QED BY <2>1, <2>2
<1>2. DepthSettles
    <2> SUFFICES ASSUME Counting = {}, drift = {} PROVE depth = InPipe
        BY DEF DepthSettles
    <2>1. Cardinality(Counting) = 0 BY FS_EmptySet
    <2>2. InPipe \in Nat /\ Follows(depth, InPipe, Cardinality(Counting)) BY PipeFacts
    <2> QED BY <2>1, <2>2 DEF Follows
<1>3. OncePerKey
    <2>0. received \in [Letters -> Nat] BY DEF MailSteps, MailTypeOK
    <2> SUFFICES ASSUME NEW k \in Keys \ repeats, NEW m \in Letters \ Overwrites, NEW x \in Letters \ Overwrites,
                        KeyOf[m] = k, KeyOf[x] = k, received[m] > 0, received[x] > 0
                 PROVE  m = x /\ received[m] = 1
        BY DEF OncePerKey
    <2>1. m \in Checked(k) /\ x \in Checked(k) BY DEF Checked
    <2>2. PICK w \in Places : OnlyAt(k, w) BY DEF MailSteps, OneCopy, Places
    <2>3. w = "actor"
        <3> SUFFICES ASSUME w # "actor" PROVE FALSE OBVIOUS
        <3>1. received[m] = 0 BY <2>1, <2>2, Alone
        <3> QED BY <3>1
    <2> QED BY <2>1, <2>2, <2>3 DEF OnlyAt
<1> QED BY <1>1, <1>2, <1>3 DEF MailInv

(***************************************************************************)
(* The mailbox keeps MailInv with any number of senders, messages and keys *)
(* and any capacity: an accepted message stays accounted for,              *)
(* data_queue_size settles on what is on its way, the bound is kept, and   *)
(* of the messages with one key the actor receives at most one.            *)
(***************************************************************************)
THEOREM MailHolds == MailSpec => []MailInv
<1>1. MailInit => MailSteps BY MailStart
<1>2. MailSteps /\ [MailNext]_mailVars => MailSteps' BY MailStep
<1>3. MailSteps => MailInv BY MailMeans
<1> QED BY <1>1, <1>2, <1>3, PTL DEF MailSpec
-----------------------------------------------------------------------------
(* The two queues together.                                                *)

(***************************************************************************)
(* The outbox keeps its invariant beside the mailboxes its relay serves.   *)
(***************************************************************************)
THEOREM MessagingOutboxHolds == MessagingSpec => []OutboxInv
<1>1. MessagingInit => OutboxInv
    BY OutboxStart DEF MessagingInit
<1>2. OutboxInv /\ [MessagingNext]_messagingVars => OutboxInv'
    <2> SUFFICES ASSUME OutboxInv, [MessagingNext]_messagingVars PROVE OutboxInv'
        OBVIOUS
    <2>1. OutboxNext \/ UNCHANGED outboxVars
        BY DEF MessagingNext, messagingVars
    <2> QED BY <2>1, OutboxStep
<1> QED BY <1>1, <1>2, PTL DEF MessagingSpec

(***************************************************************************)
(* The mailbox keeps its invariant beside the outbox.                      *)
(***************************************************************************)
THEOREM MessagingMailHolds == MessagingSpec => []MailInv
<1>1. MessagingInit => MailSteps
    BY MailStart DEF MessagingInit
<1>2. MailSteps /\ [MessagingNext]_messagingVars => MailSteps'
    <2> SUFFICES ASSUME MailSteps, [MessagingNext]_messagingVars PROVE MailSteps'
        OBVIOUS
    <2>1. MailNext \/ UNCHANGED mailVars
        BY DEF MessagingNext, messagingVars
    <2> QED BY <2>1, MailStep
<1>3. MailSteps => MailInv
    BY MailMeans
<1> QED BY <1>1, <1>2, <1>3, PTL DEF MessagingSpec
=============================================================================
