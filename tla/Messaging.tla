------------------------------ MODULE Messaging ------------------------------
(***************************************************************************)
(* The two queues a message may wait in: the mailbox of its actor and the  *)
(* outbox.  The relay hands messages to mailboxes and sees nothing of them *)
(* but an answer, so that each is followed on its own.                     *)
(***************************************************************************)
EXTENDS Mailbox, Outbox

VARIABLE queue   \* the queue that is followed

messagingVars == <<queue, mailVars, outboxVars>>

\* The configuration of the queue that is not followed does not matter.
MessagingInit ==
    /\ queue \in {"mailbox", "outbox"} /\ MailInit /\ OutboxInit
    /\ queue = "mailbox" => store = "memory"
    /\ queue = "outbox" => config = CHOOSE c \in MailConfigs : TRUE

MessagingNext ==
    \/ queue = "mailbox" /\ MailNext /\ UNCHANGED <<queue, outboxVars>>
    \/ queue = "outbox" /\ OutboxNext /\ UNCHANGED <<queue, mailVars>>

\* As long as a task can take a step, some task takes one.  The calls of
\* enqueue(), the attempts and the crashes are finite in number, so that no
\* task is starved by the others for ever.
MessagingGoesOn ==
    \/ queue = "mailbox" /\ MailGoesOn /\ UNCHANGED <<queue, outboxVars>>
    \/ queue = "outbox" /\ OutboxGoesOn /\ UNCHANGED <<queue, mailVars>>

MessagingSpec == /\ MessagingInit /\ [][MessagingNext]_messagingVars
                 /\ WF_messagingVars(MessagingGoesOn)
=============================================================================
