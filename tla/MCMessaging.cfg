SPECIFICATION MessagingSpec
CONSTANTS
    s1 = s1
    s2 = s2
    m1 = m1
    m2 = m2
    k1 = k1
    o1 = o1
    o2 = o2
    d1 = d1
    NoKey = NoKey
    NoLetter = NoLetter
    Senders = {s1, s2}
    Letters = {m1, m2}
    KeyOf <- MCKeyOf
    Overwrites = {m2}
    SeqNo <- MCSeqNo
    Rank <- MCRank
    MailConfigs <- MCMailConfigs
    MaxCapacity = 1
    Word = 5
    MaxCalls <- MCMaxCalls
    MaxAtOnce <- MCMaxAtOnce
    MaxRedeliveries = 1
    MaxMailFaults = 1
    Parcels = {o1, o2}
    Dispatchers = {d1}
    Batch = 2
    MinLimit = 1
    InitialLimit = 2
    MaxLimit = 2
    MaxTries = 2
    ChannelRetries = 2
    MaxOutboxFaults = 1
INVARIANTS MailInv OutboxInv
PROPERTIES MailDelivered OutboxDrains
CHECK_DEADLOCK FALSE
