----------------------------- MODULE MCMessaging -----------------------------
(* Mailbox: two senders, two messages with one key, the second of which    *)
(* overwrites.  Outbox: two messages, the relay and one dispatch.          *)
EXTENDS Messaging, TLC

CONSTANTS s1, s2, m1, m2, k1, o1, o2, d1

MCKeyOf == [m \in Letters |-> k1]
MCSeqNo == (m1 :> 0) @@ (m2 :> 1)
MCRank  == (m1 :> 1) @@ (m2 :> 2)

MailConfig(p, o, q) == [path |-> p, ordering |-> o, policy |-> q]
MCMailConfigs ==
    {MailConfig("fast", "fifo", "error"), MailConfig("fast", "fifo", "drop_newest"),
     MailConfig("memory", "priority", "error"), MailConfig("memory", "lifo", "drop_oldest"),
     MailConfig("durable", "fifo", "error")}

MCMaxCalls == [p \in {"fast", "memory", "durable"} |-> IF p = "durable" THEN 2 ELSE 3]
MCMaxAtOnce == [p \in {"fast", "memory", "durable"} |-> IF p = "durable" THEN 1 ELSE 2]
==============================================================================
