------------------------------ MODULE EmailChannel ------------------------------
(***************************************************************************)
(* The polling of the mailbox by the email channel                         *)
(* (channels/plugins/builtin/email.py): a poll runs in a thread, takes the *)
(* unseen mails one after another and marks them as it takes them; what it *)
(* has collected is published when it returns.  A stop of the channel, at  *)
(* the end of the gateway, cancels the task that waits for the thread and  *)
(* not the thread.                                                         *)
(*                                                                         *)
(* Only mails that the channel may take are modelled: no answer to a fetch *)
(* without a body, no sender that is missing or refused, and every answer  *)
(* has its uid.                                                            *)
(***************************************************************************)
EXTENDS Naturals, FiniteSets

CONSTANTS
    Mails,
    MaxProcessed,   \* _MAX_PROCESSED_UIDS
    MailSteps       \* bound: starts of the gateway and polls

ASSUME MailAssumption == MaxProcessed \in Nat /\ MailSteps \in Nat

VARIABLES
    markSeen,       \* mark_seen of the configuration
    mailbox,        \* what the IMAP server has
    uids,           \* _processed_uids
    poll,           \* the poll: the mails it has yet to fetch and those it has got
    mailSteps,
    (* history *)
    published,      \* how often a mail was handed to the bus
    forgotten,      \* how often the uid of an unseen mail was dropped
    mislaid         \* mails collected by a poll that failed or was abandoned

mailVars == <<markSeen, mailbox, uids, poll, mailSteps, published, forgotten, mislaid>>

MailTypeOK ==
    /\ markSeen \in BOOLEAN /\ mailSteps \in 0..MailSteps
    /\ mailbox \in [Mails -> {"absent", "unseen", "seen"}]
    /\ uids \subseteq Mails /\ Cardinality(uids) <= MaxProcessed
    /\ poll \in [at: {"down", "asleep", "fetching", "abandoned"},
                 todo: SUBSET Mails, got: SUBSET Mails]
    /\ {published, forgotten} \subseteq [Mails -> Nat]
    /\ mislaid \subseteq Mails

NoPoll(at) == [at |-> at, todo |-> {}, got |-> {}]

MailInit ==
    /\ markSeen \in BOOLEAN /\ mailSteps = 0
    /\ mailbox = [m \in Mails |-> "absent"]
    /\ uids = {} /\ poll = NoPoll("down")
    /\ published = [m \in Mails |-> 0] /\ forgotten = published /\ mislaid = {}

MailArrives(m) ==
    /\ mailbox[m] = "absent"
    /\ mailbox' = [mailbox EXCEPT ![m] = "unseen"]
    /\ UNCHANGED <<markSeen, uids, poll, mailSteps, published, forgotten, mislaid>>

\* The uids in `dropped` are forgotten, which matters while the mail is unseen.
Forget(dropped) ==
    forgotten' = [m \in Mails |->
        forgotten[m] + (IF m \in dropped /\ mailbox'[m] = "unseen" THEN 1 ELSE 0)]

StartEmail ==
    /\ poll.at = "down" /\ mailSteps < MailSteps
    /\ mailSteps' = mailSteps + 1
    /\ poll' = NoPoll("asleep")
    /\ UNCHANGED <<markSeen, mailbox, published, mislaid>>
    /\ uids' = {} /\ Forget(uids)

BeginPoll ==
    /\ poll.at = "asleep" /\ mailSteps < MailSteps
    /\ mailSteps' = mailSteps + 1
    /\ poll' = [at |-> "fetching", todo |-> {m \in Mails : mailbox[m] = "unseen"}, got |-> {}]
    /\ UNCHANGED <<markSeen, mailbox, uids, published, forgotten, mislaid>>

Fetching == poll.at \in {"fetching", "abandoned"}

Skip(m) == poll' = [poll EXCEPT !.todo = @ \ {m}]

\* Mutant: every mail counts as new.
KnownUid_MutFresh(m) == FALSE

KnownUid(m) == m \in uids

FetchKnown(m) ==
    /\ Fetching /\ m \in poll.todo /\ KnownUid(m)
    /\ Skip(m)
    /\ UNCHANGED <<markSeen, mailbox, uids, mailSteps, published, forgotten, mislaid>>

\* The set of uids is emptied when it grows past its limit; the server may
\* refuse the flag, which nothing looks at.
FetchNew(m) ==
    /\ Fetching /\ m \in poll.todo /\ ~KnownUid(m)
    /\ poll' = [poll EXCEPT !.todo = @ \ {m}, !.got = @ \cup {m}]
    /\ \E flag \in {"unseen", IF markSeen THEN "seen" ELSE "unseen"} :
          mailbox' = [mailbox EXCEPT ![m] = flag]
    /\ LET all == uids \cup {m} IN
          IF Cardinality(all) > MaxProcessed
          THEN uids' = {} /\ Forget(all)
          ELSE uids' = all /\ UNCHANGED forgotten
    /\ UNCHANGED <<markSeen, mailSteps, published, mislaid>>

\* An exception leaves the thread with what it has collected.
PollFails ==
    /\ Fetching
    /\ poll' = NoPoll(IF poll.at = "fetching" THEN "asleep" ELSE "down")
    /\ mislaid' = mislaid \cup poll.got
    /\ UNCHANGED <<markSeen, mailbox, uids, mailSteps, published, forgotten>>

PollReturns ==
    /\ poll.at = "fetching" /\ poll.todo = {}
    /\ published' = [m \in Mails |-> published[m] + (IF m \in poll.got THEN 1 ELSE 0)]
    /\ poll' = NoPoll("asleep")
    /\ UNCHANGED <<markSeen, mailbox, uids, mailSteps, forgotten, mislaid>>

\* Nobody waits for the result.
AbandonedReturns ==
    /\ poll.at = "abandoned" /\ poll.todo = {}
    /\ mislaid' = mislaid \cup poll.got
    /\ poll' = NoPoll("down")
    /\ UNCHANGED <<markSeen, mailbox, uids, mailSteps, published, forgotten>>

StopEmail ==
    /\ poll.at \in {"asleep", "fetching"}
    /\ poll' = IF poll.at = "asleep" THEN NoPoll("down") ELSE [poll EXCEPT !.at = "abandoned"]
    /\ UNCHANGED <<markSeen, mailbox, uids, mailSteps, published, forgotten, mislaid>>

EmailDies ==
    /\ poll.at /= "down"
    /\ mislaid' = mislaid \cup poll.got
    /\ poll' = NoPoll("down")
    /\ UNCHANGED <<markSeen, mailbox, uids, mailSteps, published, forgotten>>

MailNext ==
    \/ \E m \in Mails : MailArrives(m) \/ FetchKnown(m) \/ FetchNew(m)
    \/ StartEmail \/ BeginPoll \/ PollFails \/ PollReturns \/ AbandonedReturns
    \/ StopEmail \/ EmailDies

MailSpec == MailInit /\ [][MailNext]_mailVars

---------------------------------------------------------------------------
(* Properties *)

\* A mail is handed to the bus once, and once more only after its uid was
\* dropped while the server had it as unseen: by the limit of the set, or by
\* a restart.  A mail that no later poll would publish, being seen or known,
\* has been published, is about to be, or was with a poll that failed or was
\* abandoned: the flags and the set change before the poll is known to succeed.
MailIsReadOnce ==
    \A m \in Mails :
        /\ published[m] <= 1 + forgotten[m]
        /\ (mailbox[m] = "seen" \/ KnownUid(m)) =>
              published[m] > 0 \/ m \in poll.got \cup mislaid
================================================================================
