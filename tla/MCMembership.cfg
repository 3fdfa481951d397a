SPECIFICATION MembershipSpec
CONSTANTS
    Nodes = {n1, n2}
    Seeds = {s1}
    AnsweredBy <- Answers
    Observers = {n1}
    Subjects = {n2}
    MaxInc = 1
    MaxPiggyback = 1
    BroadcastLimit = 1
    MaxPending = 1
INVARIANT MembershipInv
PROPERTIES DeadUntilReaped CrashDetected TableNeverGoesBack
