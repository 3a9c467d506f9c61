---------------------------- MODULE Records_proofs ----------------------------
(***************************************************************************)
(* What the records of the gateway guarantee for every value of the        *)
(* constants: the mailbox, the wallets, the configuration, the knowledge   *)
(* index, the alerts and their history, the table of connections and the   *)
(* presence list, the plugins' hooks and services.                         *)
(***************************************************************************)
EXTENDS EmailChannel, Wallets, ConfigStore, PluginRuntime, KnowledgePipeline,
    ConnectionTable, Alerts, Selection_proofs, FiniteSetTheorems, TLAPS

-------------------------------------------------------------------------------
(* The mailbox.                                                               *)

\* A mail that no poll will take again counts as known.
Known(m) == mailbox[m] = "seen" \/ KnownUid(m)

MailTypes ==
  /\ mailbox \in [Mails -> {"absent", "unseen", "seen"}]
  /\ uids \subseteq Mails /\ markSeen \in BOOLEAN
  /\ poll \in [at: {"down", "asleep", "fetching", "abandoned"},
               todo: SUBSET Mails, got: SUBSET Mails]
  /\ published \in [Mails -> Nat] /\ forgotten \in [Mails -> Nat]
  /\ mislaid \subseteq Mails

\* A poll that does not run has nothing; one that runs has yet to fetch unseen mails only;
\* and the uids are those of mails that came.
PollIsOne ==
  /\ ~Fetching => poll.todo = {} /\ poll.got = {}
  /\ \A m \in poll.todo : m \notin poll.got /\ mailbox[m] = "unseen"
  /\ \A m \in uids : mailbox[m] # "absent"

\* Every mail in hand or handed over is known, or has been forgotten once for it.
ReadPerUid ==
  \A m \in Mails :
    published[m] + (IF m \in poll.got THEN 1 ELSE 0) <= forgotten[m] + (IF Known(m) THEN 1 ELSE 0)

KnownIsAccounted ==
  \A m \in Mails : Known(m) => published[m] > 0 \/ m \in poll.got \cup mislaid

MailInv == MailTypes /\ PollIsOne /\ ReadPerUid /\ KnownIsAccounted

LEMMA MailInitial ==
  ASSUME MailAssumption, MailInit
  PROVE  MailInv
BY DEF MailInit, MailInv, MailTypes, PollIsOne, ReadPerUid, KnownIsAccounted, NoPoll, Fetching,
       Known, KnownUid

LEMMA ForgetCounts ==
  ASSUME MailInv, NEW dropped \in SUBSET Mails, Forget(dropped)
  PROVE  /\ forgotten' \in [Mails -> Nat]
         /\ \A m \in Mails : /\ forgotten'[m] >= forgotten[m]
                             /\ m \in dropped /\ mailbox'[m] = "unseen" => forgotten'[m] = forgotten[m] + 1
BY DEF MailInv, MailTypes, Forget

\* The steps between which the poll ends, with what it has got published or not.
LEMMA PollEndsKeeps ==
  ASSUME MailInv, NEW at \in {"down", "asleep"}, poll' = NoPoll(at),
         UNCHANGED <<markSeen, mailbox, uids, published, forgotten>>,
         mislaid' = mislaid \cup poll.got
  PROVE  MailInv'
<1>1. MailTypes' /\ PollIsOne'
  BY DEF MailInv, MailTypes, PollIsOne, NoPoll, Fetching
<1>2. ReadPerUid'
  BY DEF MailInv, MailTypes, ReadPerUid, NoPoll, Known, KnownUid
<1>3. KnownIsAccounted'
  BY DEF MailInv, MailTypes, KnownIsAccounted, NoPoll, Known, KnownUid
<1> QED BY <1>1, <1>2, <1>3 DEF MailInv

LEMMA MailNextKeeps ==
  ASSUME MailAssumption, MailInv, [MailNext]_mailVars
  PROVE  MailInv'
<1>0. MailTypes /\ PollIsOne /\ ReadPerUid /\ KnownIsAccounted
  BY DEF MailInv
<1>1. ASSUME NEW m \in Mails, MailArrives(m) PROVE MailInv'
  <2>1. MailTypes'
    BY <1>0, <1>1 DEF MailArrives, MailTypes
  <2>2. \A x \in Mails : Known(x)' <=> Known(x)
    BY <1>0, <1>1 DEF MailArrives, MailTypes, Known, KnownUid
  <2>3. PollIsOne'
    BY <1>0, <1>1 DEF MailArrives, MailTypes, PollIsOne, Fetching
  <2>4. ReadPerUid' /\ KnownIsAccounted'
    BY <1>0, <1>1, <2>2 DEF MailArrives, ReadPerUid, KnownIsAccounted
  <2> QED BY <2>1, <2>3, <2>4 DEF MailInv
<1>2. ASSUME NEW m \in Mails, FetchKnown(m) PROVE MailInv'
  <2>1. poll'.at = poll.at /\ poll'.todo = poll.todo \ {m} /\ poll'.got = poll.got
        /\ poll' \in [at: {"down", "asleep", "fetching", "abandoned"},
                      todo: SUBSET Mails, got: SUBSET Mails]
        /\ UNCHANGED <<markSeen, mailbox, uids, published, forgotten, mislaid>>
    BY <1>0, <1>2 DEF FetchKnown, Skip, MailTypes
  <2> QED BY <1>0, <2>1 DEF MailInv, MailTypes, PollIsOne, ReadPerUid, KnownIsAccounted, Fetching,
                           Known, KnownUid
<1>3. ASSUME NEW m \in Mails, FetchNew(m) PROVE MailInv'
  <2>1. /\ poll'.at = poll.at /\ poll'.todo = poll.todo \ {m} /\ poll'.got = poll.got \cup {m}
        /\ poll' \in [at: {"down", "asleep", "fetching", "abandoned"},
                      todo: SUBSET Mails, got: SUBSET Mails]
        /\ m \in poll.todo /\ m \notin uids /\ m \notin poll.got /\ mailbox[m] = "unseen"
        /\ Fetching /\ Fetching'
        /\ UNCHANGED <<markSeen, published, mislaid>>
    BY <1>0, <1>3 DEF FetchNew, MailTypes, PollIsOne, KnownUid, Fetching
  <2>2. /\ mailbox' \in [Mails -> {"absent", "unseen", "seen"}]
        /\ \A x \in Mails \ {m} : mailbox'[x] = mailbox[x]
        /\ mailbox'[m] \in {"unseen", "seen"}
    BY <1>0, <1>3 DEF FetchNew, MailTypes
  <2>3. CASE uids' = uids \cup {m} /\ UNCHANGED forgotten
    BY <1>0, <2>1, <2>2, <2>3 DEF MailInv, MailTypes, PollIsOne, ReadPerUid, KnownIsAccounted, Fetching,
                           Known, KnownUid
  <2>4. CASE uids' = {} /\ Forget(uids \cup {m})
    <3>1. /\ forgotten' \in [Mails -> Nat]
          /\ \A x \in Mails : /\ forgotten'[x] >= forgotten[x]
                              /\ x \in uids \cup {m} /\ mailbox'[x] = "unseen" => forgotten'[x] = forgotten[x] + 1
      BY <1>0, <2>4, ForgetCounts DEF MailInv, MailTypes
    <3>2. MailTypes' /\ PollIsOne'
      BY <1>0, <2>1, <2>2, <2>4, <3>1 DEF MailTypes, PollIsOne
    <3>3. ReadPerUid'
      <4> SUFFICES ASSUME NEW x \in Mails
                   PROVE  published[x] + (IF x \in poll.got \cup {m} THEN 1 ELSE 0)
                             <= forgotten'[x] + (IF mailbox'[x] = "seen" THEN 1 ELSE 0)
        BY <2>1, <2>4 DEF ReadPerUid, Known, KnownUid
      <4>1. published[x] + (IF x \in poll.got THEN 1 ELSE 0)
               <= forgotten[x] + (IF mailbox[x] = "seen" \/ x \in uids THEN 1 ELSE 0)
        BY <1>0 DEF ReadPerUid, Known, KnownUid
      <4>2. /\ published[x] \in Nat /\ forgotten[x] \in Nat /\ forgotten'[x] \in Nat
            /\ x \in uids => mailbox[x] \in {"unseen", "seen"}
        BY <1>0, <3>1 DEF MailTypes, PollIsOne
      <4>3. CASE x = m
        BY <2>1, <2>2, <3>1, <4>1, <4>2, <4>3
      <4>4. CASE x # m
        <5>1. mailbox'[x] = mailbox[x] /\ (x \in poll.got \cup {m} <=> x \in poll.got)
              /\ (x \in uids \cup {m} <=> x \in uids)
          BY <2>2, <4>4
        <5> QED BY <3>1, <4>1, <4>2, <5>1
      <4> QED BY <4>3, <4>4
    <3>4. KnownIsAccounted'
      BY <1>0, <2>1, <2>2, <2>4 DEF MailTypes, KnownIsAccounted, Known, KnownUid
    <3> QED BY <3>2, <3>3, <3>4 DEF MailInv
  <2> QED BY <1>3, <2>3, <2>4 DEF FetchNew
<1>4. CASE StartEmail
  <2>1. /\ poll' = NoPoll("asleep") /\ uids' = {} /\ UNCHANGED <<markSeen, mailbox, published, mislaid>>
        /\ poll.got = {}
    BY <1>0, <1>4 DEF StartEmail, PollIsOne, Fetching
  <2>2. /\ forgotten' \in [Mails -> Nat]
        /\ \A x \in Mails : /\ forgotten'[x] >= forgotten[x]
                            /\ x \in uids /\ mailbox'[x] = "unseen" => forgotten'[x] = forgotten[x] + 1
    BY <1>0, <1>4, ForgetCounts DEF StartEmail, MailInv, MailTypes
  <2>3. MailTypes' /\ PollIsOne'
    BY <1>0, <2>1, <2>2 DEF MailTypes, PollIsOne, NoPoll, Fetching
  <2>4. ReadPerUid'
    <3> SUFFICES ASSUME NEW x \in Mails
                 PROVE  published[x] <= forgotten'[x] + (IF mailbox[x] = "seen" THEN 1 ELSE 0)
      BY <1>0, <2>1 DEF MailTypes, ReadPerUid, Known, KnownUid, NoPoll
    <3>1. published[x] <= forgotten[x] + (IF mailbox[x] = "seen" \/ x \in uids THEN 1 ELSE 0)
      BY <1>0, <2>1 DEF ReadPerUid, MailTypes, Known, KnownUid
    <3>2. /\ published[x] \in Nat /\ forgotten[x] \in Nat /\ forgotten'[x] \in Nat
          /\ x \in uids => mailbox[x] \in {"unseen", "seen"}
          /\ mailbox'[x] = mailbox[x]
      BY <1>0, <2>1, <2>2 DEF MailTypes, PollIsOne
    <3> QED BY <2>2, <3>1, <3>2
  <2>5. KnownIsAccounted'
    BY <1>0, <2>1, <2>2 DEF MailTypes, KnownIsAccounted, Known, KnownUid, NoPoll
  <2> QED BY <2>3, <2>4, <2>5 DEF MailInv
<1>5. CASE BeginPoll
  <2>1. ~Fetching /\ poll.got = {}
    BY <1>0, <1>5 DEF BeginPoll, Fetching, PollIsOne
  <2> QED BY <1>0, <1>5, <2>1 DEF BeginPoll, MailInv, MailTypes, PollIsOne, ReadPerUid,
                                  KnownIsAccounted, Fetching, Known, KnownUid
<1>6. CASE PollFails
  BY <1>6, PollEndsKeeps DEF PollFails
<1>7. CASE PollReturns
  <2>1. /\ poll' = NoPoll("asleep") /\ UNCHANGED <<markSeen, mailbox, uids, forgotten, mislaid>>
        /\ published' \in [Mails -> Nat]
        /\ \A x \in Mails : published'[x] = published[x] + (IF x \in poll.got THEN 1 ELSE 0)
    BY <1>0, <1>7 DEF PollReturns, MailTypes
  <2>2. MailTypes' /\ PollIsOne'
    BY <1>0, <2>1 DEF MailTypes, PollIsOne, NoPoll, Fetching
  <2>3. ReadPerUid' /\ KnownIsAccounted'
    BY <1>0, <2>1 DEF MailTypes, ReadPerUid, KnownIsAccounted, Known, KnownUid, NoPoll
  <2> QED BY <2>2, <2>3 DEF MailInv
<1>8. CASE AbandonedReturns
  BY <1>8, PollEndsKeeps DEF AbandonedReturns
<1>9. CASE StopEmail
  <2>1. CASE poll.at = "asleep"
    BY <1>0, <1>9, <2>1 DEF StopEmail, MailInv, MailTypes, PollIsOne, ReadPerUid, KnownIsAccounted,
                            Fetching, Known, KnownUid, NoPoll
  <2>2. CASE poll.at = "fetching"
    <3>1. poll' \in [at: {"down", "asleep", "fetching", "abandoned"}, todo: SUBSET Mails, got: SUBSET Mails]
          /\ poll'.at = "abandoned" /\ poll'.todo = poll.todo /\ poll'.got = poll.got
      BY <1>0, <1>9, <2>2 DEF StopEmail, MailTypes
    <3> QED BY <1>0, <1>9, <3>1 DEF StopEmail, MailInv, MailTypes, PollIsOne, ReadPerUid,
                                    KnownIsAccounted, Fetching, Known, KnownUid
  <2> QED BY <1>9, <2>1, <2>2 DEF StopEmail
<1>10. CASE EmailDies
  BY <1>10, PollEndsKeeps DEF EmailDies
<1>11. CASE UNCHANGED mailVars
  BY <1>0, <1>11 DEF mailVars, MailInv, MailTypes, PollIsOne, ReadPerUid, KnownIsAccounted, Fetching,
                     Known, KnownUid
<1> QED BY <1>1, <1>2, <1>3, <1>4, <1>5, <1>6, <1>7, <1>8, <1>9, <1>10, <1>11 DEF MailNext

LEMMA MailPromises ==
  ASSUME MailInv
  PROVE  MailIsReadOnce
BY DEF MailInv, MailTypes, ReadPerUid, KnownIsAccounted, MailIsReadOnce, Known, KnownUid

\* Any mails, whichever limit the set of uids has, whatever fails, restarts or is abandoned: a
\* mail is published once for every time its uid is forgotten, and one that will not be
\* taken again has been published or is mislaid (email.py).
THEOREM MailsAreReadOnce == MailSpec => []MailIsReadOnce
<1>1. MailInit => MailInv
  BY MailAssumption, MailInitial
<1>2. MailInv /\ [MailNext]_mailVars => MailInv'
  BY MailAssumption, MailNextKeeps
<1>3. MailInv => MailIsReadOnce
  BY MailPromises
<1> QED BY <1>1, <1>2, <1>3, PTL DEF MailSpec

-------------------------------------------------------------------------------
(* The wallets.                                                               *)

WalletRow == [address: PrivateKeys, key: PrivateKeys, password: Passwords, default: BOOLEAN]

WalletTypes ==
  /\ wsteps \in Nat
  /\ WalletIds \subseteq 1..wsteps /\ \A i \in WalletIds : rows[i] \in WalletRow
  /\ legacy \in PrivateKeys \cup {NoKey}
  /\ erasing \subseteq [by: {"init", "update"}, key: PrivateKeys \cup {NoKey}]
  /\ changing = NoChange \/ changing \in [id: 1..wsteps, key: PrivateKeys, new: Passwords]
  /\ moved \in BOOLEAN

\* Every row has a key of its own, which nobody deleted and no file holds.
KeysApart ==
  /\ deleted \subseteq made /\ {legacy} \ {NoKey} \subseteq made
  /\ \A i \in WalletIds :
        /\ rows[i].key = rows[i].address
        /\ rows[i].key \in made \ (deleted \cup {legacy})
        /\ \A j \in WalletIds : rows[i].key = rows[j].key => i = j

KeysKept == made \subseteq {rows[i].key : i \in WalletIds} \cup {legacy} \cup deleted

\* A change of a password that is running has the key of its wallet, for no id is given twice.
ChangeKnows ==
  changing # NoChange /\ changing.id \in WalletIds => changing.key = rows[changing.id].address

\* The session holds the address of the default wallet, or of one that was.
SessionKnows ==
  /\ unlocking # NoKey => unlocked = Locked /\ (~moved => unlocking = Address(rows))
  /\ unlocked.key # unlocked.address => moved

WalletInv == WalletTypes /\ KeysApart /\ KeysKept /\ ChangeKnows /\ SessionKnows

\* The default wallet is one of the table.
LEMMA DefaultInTable ==
  ASSUME NEW tab, DOMAIN tab \subseteq Nat \ {0}
  PROVE  DefaultId(tab) \in DOMAIN tab \cup {0}
<1>1. \A T : T \subseteq Nat /\ T # {} => Min(T) \in T
  BY LeastNat DEF Min
<1> DEFINE chosen == {i \in DOMAIN tab : tab[i].default}
<1>2. CASE DOMAIN tab = {}
  BY <1>2 DEF DefaultId
<1>3. CASE DOMAIN tab # {} /\ chosen # {}
  BY <1>1, <1>3 DEF DefaultId
<1>4. CASE DOMAIN tab # {} /\ chosen = {}
  BY <1>1, <1>4 DEF DefaultId
<1> QED BY <1>2, <1>3, <1>4

\* Two tables with the same ids, addresses and defaults have the same default wallet.
LEMMA SameDefault ==
  ASSUME NEW a, NEW b, DOMAIN a = DOMAIN b, DOMAIN a \subseteq Nat \ {0},
         \A i \in DOMAIN a : a[i].default = b[i].default /\ a[i].address = b[i].address
  PROVE  Address(a) = Address(b)
<1>1. {i \in DOMAIN a : a[i].default} = {i \in DOMAIN b : b[i].default}
  OBVIOUS
<1>2. DefaultId(a) = DefaultId(b)
  BY <1>1 DEF DefaultId
<1>3. DefaultId(a) \in DOMAIN a \cup {0}
  BY DefaultInTable
<1> QED BY <1>2, <1>3 DEF Address

LEMMA WalletInitial ==
  ASSUME WalletAssumption, WalletInit
  PROVE  WalletInv
<1>1. WalletIds = {}
  BY DEF WalletInit, WalletIds
<1> QED BY <1>1 DEF WalletInit, WalletInv, WalletTypes, KeysApart, KeysKept, ChangeKnows, SessionKnows, Locked

\* A step that leaves the table alone, and what the files and the histories say of it.
LEMMA TableStays ==
  ASSUME WalletInv, UNCHANGED walletTable, wsteps' \in Nat, wsteps' >= wsteps
  PROVE  /\ KeysApart' /\ KeysKept'
         /\ WalletIds' \subseteq 1..wsteps' /\ \A i \in WalletIds' : rows'[i] \in WalletRow
         /\ legacy' \in PrivateKeys \cup {NoKey} /\ Address(rows)' = Address(rows)
         /\ erasing' \subseteq [by: {"init", "update"}, key: PrivateKeys \cup {NoKey}]
BY DEF WalletInv, WalletTypes, walletTable, KeysApart, KeysKept, WalletIds

\* A step that stores a table, with the session as it is.
LEMMA SetRowsKnows ==
  ASSUME WalletInv, NEW tab, SetRows(tab), UNCHANGED <<unlocked, unlocking>>
  PROVE  SessionKnows' /\ moved' \in BOOLEAN /\ rows' = tab
BY DEF SetRows, WalletInv, SessionKnows, WalletTypes

LEMMA CreateKeeps ==
  ASSUME WalletAssumption, WalletInv, NEW k \in PrivateKeys, NEW p \in Passwords, NEW default \in BOOLEAN,
         NEW by \in {"init", "update"}, Create(by, k, p, default), wsteps' = wsteps + 1,
         UNCHANGED <<legacy, deleted, changing, unlocked, unlocking>>
  PROVE  WalletInv'
<1>0. WalletTypes /\ KeysApart /\ KeysKept /\ ChangeKnows
  BY DEF WalletInv
<1>1. SessionKnows' /\ moved' \in BOOLEAN /\ rows' = AddWallet(k, p, default)
  BY SetRowsKnows DEF Create
<1>2. /\ k \notin made /\ made' = made \cup {k} /\ UNCHANGED <<legacy, deleted>>
      /\ erasing' = erasing \cup {[by |-> by, key |-> k]}
  BY DEF Create
<1>3. NewId \notin WalletIds /\ NewId \in 1..wsteps'
  BY <1>0 DEF WalletTypes, NewId
<1>4. WalletIds' = WalletIds \cup {NewId}
  BY <1>1 DEF AddWallet, WalletIds
<1>5. rows'[NewId] = [address |-> k, key |-> k, password |-> p, default |-> default]
  BY <1>1, <1>3 DEF AddWallet
<1>6. ASSUME NEW i \in WalletIds
      PROVE  rows'[i] \in WalletRow /\ rows'[i].key = rows[i].key /\ rows'[i].address = rows[i].address
  <2>1. rows'[i] = IF default THEN Undefault(rows)[i] ELSE rows[i]
    BY <1>1, <1>6 DEF AddWallet
  <2>2. Undefault(rows)[i] = [rows[i] EXCEPT !.default = FALSE]
    BY <1>6 DEF Undefault, WalletIds
  <2>3. rows[i] \in WalletRow
    BY <1>0, <1>6 DEF WalletTypes
  <2> QED BY <2>1, <2>2, <2>3 DEF WalletRow
<1>7. WalletTypes'
  <2>1. \A i \in WalletIds' : rows'[i] \in WalletRow
    BY <1>4, <1>5, <1>6 DEF WalletRow
  <2>2. WalletIds' \subseteq 1..wsteps' /\ wsteps' \in Nat
    BY <1>0, <1>3, <1>4 DEF WalletTypes
  <2>3. changing' = NoChange \/ changing' \in [id: 1..wsteps', key: PrivateKeys, new: Passwords]
    BY <1>0 DEF WalletTypes
  <2>4. erasing' \subseteq [by: {"init", "update"}, key: PrivateKeys \cup {NoKey}]
    BY <1>0, <1>2 DEF WalletTypes
  <2> QED BY <1>0, <1>1, <1>2, <2>1, <2>2, <2>3, <2>4 DEF WalletTypes
<1>8. KeysApart'
  <2>1. \A i \in WalletIds : rows[i].key \in made \ (deleted \cup {legacy}) /\ rows[i].key = rows[i].address
    BY <1>0 DEF KeysApart
  <2>2. rows'[NewId].key = k /\ rows'[NewId].address = k /\ k \notin deleted' /\ k # legacy
    BY <1>0, <1>2, <1>5, WalletAssumption DEF KeysApart
  <2>3. deleted' \subseteq made' /\ {legacy'} \ {NoKey} \subseteq made'
    BY <1>0, <1>2 DEF KeysApart
  <2>4. \A i \in WalletIds' : rows'[i].key = rows'[i].address /\ rows'[i].key \in made' \ (deleted' \cup {legacy'})
    BY <1>2, <1>4, <1>6, <2>1, <2>2
  <2>5. \A i, j \in WalletIds' : rows'[i].key = rows'[j].key => i = j
    BY <1>0, <1>2, <1>4, <1>6, <2>1, <2>2 DEF KeysApart
  <2> QED BY <1>2, <2>3, <2>4, <2>5 DEF KeysApart
<1>9. KeysKept'
  <2>1. \A i \in WalletIds : rows[i].key \in {rows'[j].key : j \in WalletIds'}
    BY <1>4, <1>6
  <2>2. k \in {rows'[j].key : j \in WalletIds'}
    BY <1>4, <1>5
  <2> QED BY <1>0, <1>2, <2>1, <2>2 DEF KeysKept
<1>10. ChangeKnows'
  BY <1>0, <1>3, <1>4, <1>6 DEF ChangeKnows, WalletTypes, NewId
<1> QED BY <1>1, <1>7, <1>8, <1>9, <1>10 DEF WalletInv

\* A step that gives the rows it leaves no other address or key.
LEMMA RowsStay ==
  ASSUME WalletInv, NEW ids \in SUBSET WalletIds, WalletIds' = ids,
         \A i \in ids : rows'[i] \in WalletRow /\ rows'[i].key = rows[i].key /\ rows'[i].address = rows[i].address,
         made' = made, deleted' \subseteq made', deleted \subseteq deleted', legacy' \in {legacy, NoKey},
         {legacy} \ {legacy'} \subseteq deleted' \cup {NoKey},
         \A i \in ids : rows[i].key \notin deleted',
         \A i \in WalletIds \ ids : rows[i].key \in deleted', NoKey \notin PrivateKeys
  PROVE  KeysApart' /\ KeysKept'
<1>0. WalletTypes /\ KeysApart /\ KeysKept
  BY DEF WalletInv
<1>1. \A i \in ids : rows[i].key # NoKey
  BY <1>0 DEF WalletTypes, WalletRow
<1>2. KeysApart'
  BY <1>0, <1>1 DEF KeysApart
<1>3. KeysKept'
  <2> SUFFICES ASSUME NEW k \in made PROVE k \in {rows'[i].key : i \in ids} \cup {legacy'} \cup deleted'
    BY DEF KeysKept
  <2>1. CASE k \in {rows[i].key : i \in WalletIds}
    BY <2>1
  <2>2. CASE k = legacy
    BY <1>0, <2>2 DEF KeysApart
  <2> QED BY <1>0, <2>1, <2>2 DEF KeysKept
<1> QED BY <1>2, <1>3

LEMMA DisableKeeps ==
  ASSUME WalletAssumption, WalletInv, DisableWallet
  PROVE  WalletInv'
<1>0. WalletTypes /\ KeysApart /\ KeysKept /\ ChangeKnows
  BY DEF WalletInv
<1> DEFINE id == DefaultId(rows)
           ids == WalletIds \ {id}
<1>1. /\ SessionKnows' /\ moved' \in BOOLEAN /\ rows' = [i \in ids |-> rows[i]]
      /\ deleted' = deleted \cup {rows[i].key : i \in WalletIds \cap {id}}
      /\ erasing' = erasing \cup {[by |-> "update", key |-> NoKey]}
      /\ UNCHANGED <<legacy, made, changing>> /\ wsteps' = wsteps + 1
  BY SetRowsKnows DEF DisableWallet, WalletStep
<1>2. WalletIds' = ids /\ \A i \in ids : rows'[i] = rows[i]
  BY <1>1 DEF WalletIds
<1>3. WalletTypes'
  <2>1. WalletIds' \subseteq 1..wsteps' /\ wsteps' \in Nat /\ \A i \in WalletIds' : rows'[i] \in WalletRow
    <3>1. WalletIds' \subseteq WalletIds /\ \A i \in WalletIds' : rows'[i] = rows[i]  BY <1>2
    <3>2. /\ WalletIds \subseteq 1..wsteps /\ wsteps \in Nat
          /\ \A i \in WalletIds : rows[i] \in WalletRow
      BY <1>0 DEF WalletTypes
    <3>3. wsteps' \in Nat /\ 1..wsteps \subseteq 1..wsteps'  BY <1>1, <3>2
    <3> QED  BY <3>1, <3>2, <3>3
  <2>2. changing' = NoChange \/ changing' \in [id: 1..wsteps', key: PrivateKeys, new: Passwords]
    BY <1>0, <1>1 DEF WalletTypes
  <2>3. erasing' \subseteq [by: {"init", "update"}, key: PrivateKeys \cup {NoKey}]
    BY <1>0, <1>1 DEF WalletTypes
  <2> QED BY <1>0, <1>1, <2>1, <2>2, <2>3 DEF WalletTypes
<1>4. \A i \in ids : rows[i].key \notin deleted'
  BY <1>0, <1>1 DEF KeysApart
<1>5. deleted' \subseteq made' /\ deleted \subseteq deleted' /\ {legacy} \ {legacy'} \subseteq deleted' \cup {NoKey}
  BY <1>0, <1>1 DEF KeysApart
<1>6. \A i \in WalletIds \ ids : rows[i].key \in deleted'
  BY <1>1
<1>7. KeysApart' /\ KeysKept'
  <2>1. \A i \in ids : rows'[i] \in WalletRow
    BY <1>0, <1>2 DEF WalletTypes
  <2>2. legacy' \in {legacy, NoKey} /\ NoKey \notin PrivateKeys
    BY <1>1, WalletAssumption
  <2> HIDE DEF ids
  <2>3. ids \in SUBSET WalletIds
    BY DEF ids
  <2> QED BY <1>1, <1>2, <1>4, <1>5, <1>6, <2>1, <2>2, <2>3, RowsStay
<1>8. ChangeKnows'
  BY <1>0, <1>1, <1>2 DEF ChangeKnows
<1> QED BY <1>1, <1>3, <1>7, <1>8 DEF WalletInv

\* The file is removed, or is not.
LEMMA EraseKeeps ==
  ASSUME WalletAssumption, WalletInv, NEW e \in erasing, EraseFile(e) \/ EraseFails(e)
  PROVE  WalletInv'
<1>0. WalletTypes /\ KeysApart /\ KeysKept /\ ChangeKnows /\ SessionKnows
  BY DEF WalletInv
<1>1. /\ UNCHANGED <<rows, made, walletSession, changing, wsteps>> /\ erasing' = erasing \ {e}
      /\ \/ UNCHANGED <<legacy, deleted>>
         \/ legacy' = NoKey /\ deleted' = deleted \cup ({legacy} \ {NoKey})
  BY DEF EraseFile, EraseFails
<1>2. WalletIds' = WalletIds /\ Address(rows') = Address(rows)
  BY <1>1 DEF WalletIds
<1>3. WalletTypes' /\ ChangeKnows' /\ SessionKnows'
  BY <1>0, <1>1, <1>2 DEF WalletTypes, ChangeKnows, SessionKnows, walletSession
<1>4. KeysApart' /\ KeysKept'
  <2>1. /\ \A i \in WalletIds : /\ rows'[i] \in WalletRow /\ rows'[i].key = rows[i].key
                               /\ rows'[i].address = rows[i].address
        /\ legacy' \in {legacy, NoKey} /\ {legacy} \ {legacy'} \subseteq deleted' \cup {NoKey}
        /\ deleted' \subseteq made' /\ deleted \subseteq deleted'
        /\ \A i \in WalletIds : rows[i].key \notin deleted'
    BY <1>0, <1>1 DEF WalletTypes, KeysApart
  <2> QED BY <1>1, <1>2, <2>1, WalletAssumption, RowsStay
<1> QED BY <1>3, <1>4 DEF WalletInv

LEMMA WalletNextKeeps ==
  ASSUME WalletAssumption, WalletInv, [WalletNext]_walletVars
  PROVE  WalletInv'
<1>0. WalletTypes /\ KeysApart /\ KeysKept /\ ChangeKnows /\ SessionKnows /\ wsteps \in Nat /\ NoKey \notin PrivateKeys
  BY WalletAssumption DEF WalletInv, WalletTypes
<1>1. ASSUME NEW k \in PrivateKeys, NEW p \in Passwords, NEW default \in BOOLEAN,
             WalletCommandInit(k, p, default)
      PROVE  WalletInv'
  BY <1>1, CreateKeeps DEF WalletCommandInit, WalletStep
<1>2. ASSUME NEW k \in PrivateKeys, NEW p \in Passwords, EnableWallet(k, p) PROVE WalletInv'
  BY <1>2, CreateKeeps DEF EnableWallet, WalletStep
<1>3. CASE DisableWallet
  BY <1>3, DisableKeeps
<1>14. ASSUME NEW e \in erasing, EraseFile(e) \/ EraseFails(e) PROVE WalletInv'
  BY <1>14, EraseKeeps
<1>4. ASSUME NEW id \in 1..wsteps, SetDefault(id) PROVE WalletInv'
  <2>1. /\ SessionKnows' /\ moved' \in BOOLEAN
        /\ rows' = [i \in WalletIds |-> [rows[i] EXCEPT !.default = (i = id)]]
        /\ UNCHANGED <<legacy, erasing, made, deleted, changing>> /\ wsteps' = wsteps + 1
    BY <1>4, SetRowsKnows DEF SetDefault, WalletStep
  <2>2. WalletIds' = WalletIds
    BY <2>1 DEF WalletIds
  <2>3. \A i \in WalletIds : /\ rows'[i] \in WalletRow
                             /\ rows'[i].key = rows[i].key /\ rows'[i].address = rows[i].address
    <3> SUFFICES ASSUME NEW i \in WalletIds
                 PROVE  /\ rows'[i] \in WalletRow
                        /\ rows'[i].key = rows[i].key /\ rows'[i].address = rows[i].address
      OBVIOUS
    <3>1. rows[i] \in WalletRow /\ rows'[i] = [rows[i] EXCEPT !.default = (i = id)]
      BY <1>0, <2>1 DEF WalletTypes
    <3> QED BY <3>1 DEF WalletRow
  <2>4. WalletTypes'
    BY <1>0, <2>1, <2>2, <2>3 DEF WalletTypes
  <2>5. KeysApart' /\ KeysKept'
    <3>1. deleted \subseteq made /\ \A i \in WalletIds : rows[i].key \notin deleted
      BY <1>0 DEF KeysApart
    <3> QED BY <1>0, <2>1, <2>2, <2>3, <3>1, RowsStay
  <2>6. ChangeKnows'
    BY <1>0, <2>1, <2>2, <2>3 DEF ChangeKnows
  <2> QED BY <2>1, <2>4, <2>5, <2>6 DEF WalletInv
<1>5. ASSUME NEW id \in WalletIds, NEW old \in Passwords, NEW new \in Passwords, ChangeReads(id, old, new)
      PROVE  WalletInv'
  <2>1. /\ changing' = [id |-> id, key |-> rows[id].key, new |-> new]
        /\ UNCHANGED <<walletTable, walletSession>> /\ wsteps' = wsteps + 1
    BY <1>5 DEF ChangeReads, WalletStep
  <2>2. /\ KeysApart' /\ KeysKept'
        /\ WalletIds' \subseteq 1..wsteps' /\ \A i \in WalletIds' : rows'[i] \in WalletRow
        /\ legacy' \in PrivateKeys \cup {NoKey} /\ Address(rows)' = Address(rows)
        /\ erasing' \subseteq [by: {"init", "update"}, key: PrivateKeys \cup {NoKey}]
    BY <1>0, <2>1, TableStays
  <2>3. id \in 1..wsteps' /\ rows[id].key \in PrivateKeys /\ rows[id].key = rows[id].address
    BY <1>0, <1>5, <2>1 DEF WalletTypes, WalletRow, KeysApart
  <2>4. WalletTypes'
    BY <1>0, <2>1, <2>2, <2>3 DEF WalletTypes, walletSession
  <2>5. ChangeKnows' /\ SessionKnows'
    BY <1>0, <2>1, <2>2, <2>3 DEF ChangeKnows, SessionKnows, walletSession, walletTable
  <2> QED BY <2>2, <2>4, <2>5 DEF WalletInv
<1>6. CASE ChangeWrites
  <2>1. /\ changing # NoChange /\ changing' = NoChange
        /\ rows' = [i \in WalletIds |->
                      IF i = changing.id
                      THEN [rows[i] EXCEPT !.key = changing.key, !.password = changing.new] ELSE rows[i]]
        /\ UNCHANGED <<legacy, erasing, made, deleted, walletSession, wsteps>>
    BY <1>6 DEF ChangeWrites
  <2>2. WalletIds' = WalletIds
    BY <2>1 DEF WalletIds
  <2>3. \A i \in WalletIds : /\ rows'[i] \in WalletRow /\ rows'[i].default = rows[i].default
                             /\ rows'[i].key = rows[i].key /\ rows'[i].address = rows[i].address
    <3> SUFFICES ASSUME NEW i \in WalletIds
                 PROVE  /\ rows'[i] \in WalletRow /\ rows'[i].default = rows[i].default
                        /\ rows'[i].key = rows[i].key /\ rows'[i].address = rows[i].address
      OBVIOUS
    <3>1. rows[i] \in WalletRow /\ rows[i].key = rows[i].address
      BY <1>0 DEF WalletTypes, KeysApart
    <3>2. CASE i = changing.id
      <4>1. changing.key = rows[i].address /\ changing.key \in PrivateKeys /\ changing.new \in Passwords
        BY <1>0, <2>1, <3>2 DEF WalletTypes, ChangeKnows
      <4>2. rows'[i] = [rows[i] EXCEPT !.key = changing.key, !.password = changing.new]
        BY <2>1, <3>2
      <4> QED BY <3>1, <4>1, <4>2 DEF WalletRow
    <3> QED BY <2>1, <3>1, <3>2
  <2>4. WalletTypes'
    BY <1>0, <2>1, <2>2, <2>3 DEF WalletTypes, walletSession
  <2>5. KeysApart' /\ KeysKept'
    <3>1. deleted \subseteq made /\ \A i \in WalletIds : rows[i].key \notin deleted
      BY <1>0 DEF KeysApart
    <3> QED BY <1>0, <2>1, <2>2, <2>3, <3>1, RowsStay
  <2>6. Address(rows') = Address(rows)
    <3>1. DOMAIN rows' = DOMAIN rows /\ DOMAIN rows \subseteq Nat \ {0}
      BY <1>0, <2>2 DEF WalletIds, WalletTypes
    <3> QED BY <2>3, <3>1, SameDefault DEF WalletIds
  <2>7. ChangeKnows' /\ SessionKnows'
    BY <1>0, <2>1, <2>6 DEF ChangeKnows, SessionKnows, walletSession
  <2> QED BY <2>4, <2>5, <2>7 DEF WalletInv
<1>7. ASSUME UNCHANGED <<walletTable, changing, wsteps>>, SessionKnows', moved' \in BOOLEAN
      PROVE  WalletInv'
  <2>1. /\ KeysApart' /\ KeysKept'
        /\ WalletIds' \subseteq 1..wsteps' /\ \A i \in WalletIds' : rows'[i] \in WalletRow
        /\ legacy' \in PrivateKeys \cup {NoKey}
        /\ erasing' \subseteq [by: {"init", "update"}, key: PrivateKeys \cup {NoKey}]
    BY <1>0, <1>7, TableStays
  <2>2. WalletTypes' /\ ChangeKnows'
    BY <1>0, <1>7, <2>1 DEF WalletTypes, ChangeKnows, walletTable, WalletIds
  <2> QED BY <1>7, <2>1, <2>2 DEF WalletInv
<1>8. CASE UnlockReads
  <2>1. SessionKnows' /\ moved' \in BOOLEAN
    BY <1>8 DEF UnlockReads, GatewayIsFree, SessionKnows, walletTable, Locked
  <2> QED BY <1>7, <1>8, <2>1 DEF UnlockReads
<1>9. CASE LockSession
  <2>1. SessionKnows' /\ moved' \in BOOLEAN
    BY <1>0, <1>9 DEF LockSession, SessionKnows, walletTable, Locked
  <2> QED BY <1>7, <1>9, <2>1 DEF LockSession
<1>10. ASSUME NEW p \in Passwords, UnlockDecrypts(p) PROVE WalletInv'
  <2> DEFINE id == DefaultId(rows)
  <2>1. unlocking' = NoKey /\ unlocking # NoKey
    BY <1>10 DEF UnlockDecrypts
  <2>2. CASE id # 0 /\ rows[id].password = p
    <3>1. id \in WalletIds
      <4>1. DOMAIN rows \subseteq Nat \ {0}
        BY <1>0 DEF WalletTypes, WalletIds
      <4> QED BY <2>2, <4>1, DefaultInTable DEF WalletIds
    <3>2. unlocked' = [address |-> unlocking, key |-> rows[id].key] /\ moved' = moved
      BY <1>10, <2>2 DEF UnlockDecrypts
    <3>3. rows[id].key = rows[id].address
      BY <1>0, <3>1 DEF KeysApart
    <3>4. ~moved => unlocking = rows[id].address
      BY <1>0, <2>1, <2>2 DEF SessionKnows, Address
    <3> QED BY <1>0, <1>7, <1>10, <2>1, <3>2, <3>3, <3>4 DEF UnlockDecrypts, SessionKnows, WalletTypes
  <2>3. CASE ~(id # 0 /\ rows[id].password = p)
    <3>1. unlocked' = Locked /\ moved' = FALSE
      BY <1>10, <2>3 DEF UnlockDecrypts
    <3> QED BY <1>7, <1>10, <2>1, <3>1 DEF UnlockDecrypts, SessionKnows, Locked
  <2> QED BY <2>2, <2>3
<1>11. ASSUME UNCHANGED <<walletTable, walletSession, changing, wsteps>> PROVE WalletInv'
  <2>1. SessionKnows' /\ moved' \in BOOLEAN
    BY <1>0, <1>11 DEF walletTable, walletSession, SessionKnows, WalletTypes
  <2> QED BY <1>7, <1>11, <2>1
<1>12. ASSUME NEW c \in PaidCalls,
              \/ \E price, own \in Prices : PayAsked(c, price, own)
              \/ \E covered \in BOOLEAN : PaySigns(c, covered)
              \/ \E settled, heard \in BOOLEAN : PayEnds(c, settled, heard)
       PROVE  WalletInv'
  BY <1>11, <1>12 DEF PayAsked, PaySigns, PayEnds
<1>13. CASE UNCHANGED walletVars
  BY <1>11, <1>13 DEF walletVars
<1> QED BY <1>1, <1>2, <1>3, <1>4, <1>5, <1>6, <1>8, <1>9, <1>10, <1>12, <1>13, <1>14 DEF WalletNext

\* Any number of wallets, keys and passwords, and any interleaving of the commands, the updates
\* and the session: no key is lost or given to another wallet (wallet_store.py).
THEOREM WalletKeysSurvive == WalletSpec => []KeysSurvive
<1>1. WalletInit => WalletInv
  BY WalletAssumption, WalletInitial
<1>2. WalletInv /\ [WalletNext]_walletVars => WalletInv'
  BY WalletAssumption, WalletNextKeeps
<1>3. WalletInv => KeysSurvive
  BY DEF WalletInv, KeysApart, KeysKept, SessionKnows, KeysSurvive
<1> QED BY <1>1, <1>2, <1>3, PTL DEF WalletSpec

-------------------------------------------------------------------------------
(* The configuration.                                                         *)

ConfigTypes ==
  /\ disk \in [kind: {"absent", "torn", "whole"}, content: Contents]
  /\ up \in BOOLEAN /\ envKey \in EnvKeys /\ app \in Contents
  /\ cache \in [some: BOOLEAN, content: Contents] /\ command \in [some: BOOLEAN, content: Contents]
  /\ saving \in [by: {"none", "gateway", "command"}, content: Contents,
                 next: {"nothing", "app", "reload", "raw"}]
  /\ halved \in BOOLEAN /\ outside \in BOOLEAN

NotRefused == "refused" \notin {disk.content.setting, app.setting, saving.content.setting}

\* A save of a command is that of another process; a save of the gateway that is followed by
\* a load of the file has the object that is served.
SavingKnows ==
  /\ saving.by = "command" => outside
  /\ saving.by = "gateway" /\ saving.next = "reload" => app = saving.content

\* Nobody has written the file since the gateway, which is not in the middle of an update.
FileIsOurs == up /\ saving = NotSaving /\ ~halved /\ ~outside

\* The environment has what the file puts into it: loading the file again changes nothing.
EnvSettled == EnvAfter(disk.content, envKey) = envKey

ServedIsFile == FileIsOurs => disk.content = Dumped(app) \/ (app = Fresh /\ EnvSettled)
CacheIsFile ==
  FileIsOurs /\ cache.some /\ cache.content.setting # "refused" => cache.content = Fresh /\ EnvSettled

ConfigInv == ConfigTypes /\ NotRefused /\ SavingKnows /\ ServedIsFile /\ CacheIsFile

LEMMA DefaultIsContent == Default \in Contents /\ Default.setting = "a"
BY DEF Default, Contents, EnvKeys

LEMMA EnvTypes ==
  ASSUME NEW c \in Contents, NEW env \in EnvKeys
  PROVE  EnvAfter(c, env) \in EnvKeys /\ EnvAfter(c, EnvAfter(c, env)) = EnvAfter(c, env)
BY DEF EnvAfter, Contents, EnvKeys

LEMMA DumpTypes ==
  ASSUME ConfigAssumption, NEW c \in Contents
  PROVE  Dumped(c) \in Contents /\ Dumped(c).setting = c.setting
<1>1. {SnakeToCamel[n] : n \in c.names} \in SUBSET Names
  BY DEF ConfigAssumption, Contents
<1> QED BY <1>1 DEF Dumped, Contents

\* What a load makes of a content, and that it makes it once.
LEMMA LoadTypes ==
  ASSUME ConfigAssumption, NEW c \in Contents, NEW env \in EnvKeys
  PROVE  /\ Loaded(c, env) \in Contents
         /\ c.setting # "refused" => Loaded(c, env).setting # "refused"
         /\ Loaded(c, EnvAfter(c, env)) = Loaded(c, env)
<1> DEFINE m == Migrated(c)
           d == Converted(m)
<1>1. /\ m \in Contents /\ m.key = c.key /\ m.var = c.var
      /\ c.setting # "refused" => m.setting # "refused"
  BY DEF Migrated, Contents
<1>2. d \in Contents /\ d.key = c.key /\ d.var = c.var /\ d.setting = m.setting
  <2>1. {CamelToSnake[n] : n \in m.names} \in SUBSET Names
    BY <1>1 DEF ConfigAssumption, Contents
  <2> HIDE DEF m
  <2> QED BY <1>1, <2>1 DEF Converted, Contents
<1> HIDE DEF d
<1>3. \A e \in EnvKeys : EnvAfter(d, e) = EnvAfter(c, e)
  BY <1>2 DEF EnvAfter
<1>4. Loaded(c, env) = [d EXCEPT !.key = IF @ = "none" THEN EnvAfter(d, env) ELSE @]
  BY DEF Loaded, Filled, d
<1>5. EnvAfter(c, env) \in EnvKeys /\ EnvAfter(c, EnvAfter(c, env)) = EnvAfter(c, env)
  BY EnvTypes
<1>6. Loaded(c, EnvAfter(c, env)) = [d EXCEPT !.key = IF @ = "none" THEN EnvAfter(d, EnvAfter(c, env)) ELSE @]
  BY DEF Loaded, Filled, d
<1>7. Loaded(c, EnvAfter(c, env)) = Loaded(c, env)
  BY <1>3, <1>4, <1>5, <1>6
<1>8. Loaded(c, env) \in Contents /\ Loaded(c, env).setting = d.setting
  <2>1. (IF d.key = "none" THEN EnvAfter(d, env) ELSE d.key) \in EnvKeys \cup {"typed"}
    BY <1>2, <1>3, <1>5 DEF Contents
  <2> QED BY <1>2, <1>4, <2>1 DEF Contents
<1> QED BY <1>1, <1>2, <1>7, <1>8

LEMMA ConfigInitial ==
  ASSUME ConfigInit
  PROVE  ConfigInv
<1>0. disk \in [kind: {"absent", "torn", "whole"}, content: Contents] /\ disk.content.setting # "refused"
  <2>1. CASE disk = NoFile
    BY <2>1, DefaultIsContent DEF NoFile
  <2>2. CASE disk # NoFile
    <3>1. PICK s \in {"unset", "a"}, f \in {"unset", "b"}, v \in {"none", "e1"} :
            disk = Whole([Default EXCEPT !.setting = s, !.foreign = f, !.var = v])
      BY <2>2 DEF ConfigInit
    <3> DEFINE c == [Default EXCEPT !.setting = s, !.foreign = f, !.var = v]
    <3>2. c \in Contents /\ c.setting = s
      BY DefaultIsContent DEF Contents, EnvKeys
    <3> HIDE DEF c
    <3> QED BY <3>1, <3>2 DEF Whole, c
  <2> QED BY <2>1, <2>2
<1>1. ConfigTypes
  BY <1>0, DefaultIsContent DEF ConfigInit, ConfigTypes, Nothing, NotSaving, EnvKeys
<1>2. NotRefused
  BY <1>0, DefaultIsContent DEF ConfigInit, NotRefused, NotSaving
<1> QED BY <1>1, <1>2 DEF ConfigInit, ConfigInv, SavingKnows, ServedIsFile, CacheIsFile, FileIsOurs, NotSaving

\* A save that begins.
LEMMA TruncateKeeps ==
  ASSUME ConfigInv, NEW process \in {"gateway", "command"}, NEW c \in Contents,
         NEW next \in {"nothing", "app", "reload", "raw"}, Truncate(process, c, next),
         c.setting # "refused", app' \in Contents, app'.setting # "refused",
         process = "command" => outside', process = "gateway" /\ next = "reload" => app' = c,
         up' = up, envKey' \in EnvKeys, cache' \in [some: BOOLEAN, content: Contents],
         command' \in [some: BOOLEAN, content: Contents], halved' \in BOOLEAN, outside' \in BOOLEAN
  PROVE  ConfigInv'
<1>1. disk' = Torn /\ saving' = [by |-> process, content |-> c, next |-> next] /\ saving' # NotSaving
  BY DEF Truncate, NotSaving
<1>2. Torn.content = Default /\ Torn \in [kind: {"absent", "torn", "whole"}, content: Contents]
  BY DefaultIsContent DEF Torn
<1>3. ConfigTypes' /\ NotRefused' /\ SavingKnows'
  BY <1>1, <1>2, DefaultIsContent DEF ConfigInv, ConfigTypes, NotRefused, SavingKnows
<1> QED BY <1>1, <1>3 DEF ConfigInv, ServedIsFile, CacheIsFile, FileIsOurs

\* A load of the file into the cache, which is the only thing that changes.
LEMMA LoadKeeps ==
  ASSUME ConfigAssumption, ConfigInv, envKey' = EnvAfter(disk.content, envKey),
         NEW c \in Contents, cache' = Some(c), c.setting = "refused" \/ c = Fresh,
         UNCHANGED <<disk, up, app, saving, command, halved, outside>>
  PROVE  ConfigInv'
<1>0. ConfigTypes /\ NotRefused /\ SavingKnows /\ ServedIsFile /\ CacheIsFile /\ disk.content \in Contents
  BY DEF ConfigInv, ConfigTypes
<1>1. envKey' \in EnvKeys /\ EnvSettled' /\ Fresh' = Fresh
  BY <1>0, EnvTypes, LoadTypes DEF ConfigTypes, EnvSettled, Fresh
<1>2. ConfigTypes' /\ NotRefused' /\ SavingKnows'
  BY <1>0, <1>1 DEF ConfigTypes, NotRefused, SavingKnows, Some
<1>3. ServedIsFile' /\ CacheIsFile'
  BY <1>0, <1>1 DEF ServedIsFile, CacheIsFile, FileIsOurs, Some
<1> QED BY <1>2, <1>3 DEF ConfigInv

\* A step after which the gateway is down, or others have the file, or an update has failed.
LEMMA ElsewhereKeeps ==
  ASSUME ConfigInv, ConfigTypes', NotRefused', SavingKnows', ~FileIsOurs'
  PROVE  ConfigInv'
BY DEF ConfigInv, ServedIsFile, CacheIsFile

LEMMA StartsKeeps ==
  ASSUME ConfigAssumption, ConfigInv, NEW env \in EnvKeys, GatewayStarts(env)
  PROVE  ConfigInv'
<1>0. ConfigTypes /\ NotRefused
  BY DEF ConfigInv
<1>1. PICK c \in Contents :
        /\ Serve(c, env) /\ disk'.content = c /\ c.setting # "refused"
        /\ disk' \in [kind: {"absent", "torn", "whole"}, content: Contents]
  <2>1. CASE Loads /\ Serve(disk.content, env) /\ UNCHANGED disk
    BY <1>0, <2>1 DEF ConfigTypes, NotRefused
  <2>2. CASE disk.kind = "absent" /\ Serve(Default, env) /\ disk' = Whole(Default)
    BY <2>2, DefaultIsContent DEF Whole
  <2> QED BY <2>1, <2>2 DEF GatewayStarts
<1>2. /\ EnvAfter(c, env) \in EnvKeys /\ EnvAfter(c, EnvAfter(c, env)) = EnvAfter(c, env)
      /\ Loaded(c, env) \in Contents /\ Loaded(c, env).setting # "refused"
      /\ Loaded(c, EnvAfter(c, env)) = Loaded(c, env)
  BY <1>1, EnvTypes, LoadTypes
<1>3. /\ up' = TRUE /\ envKey' = EnvAfter(c, env) /\ cache' = Some(Loaded(c, env)) /\ app' = Loaded(c, env)
      /\ halved' = FALSE /\ outside' = FALSE /\ saving' = saving /\ command' = command /\ saving.by = "none"
  BY <1>1 DEF GatewayStarts, Serve, NotSaving
<1>4. ConfigTypes' /\ NotRefused' /\ SavingKnows'
  BY <1>0, <1>1, <1>2, <1>3 DEF ConfigTypes, NotRefused, SavingKnows, Some
<1>5. EnvSettled' /\ Fresh' = app' /\ cache'.content = app'
  BY <1>1, <1>2, <1>3 DEF EnvSettled, Fresh, Some
<1> QED BY <1>4, <1>5 DEF ConfigInv, ServedIsFile, CacheIsFile

\* An update, or a patch: it loads, changes what it has loaded, and begins to save it.
LEMMA UpdateKeeps ==
  ASSUME ConfigAssumption, ConfigInv, Reloads, NEW c \in Contents, c.setting # "refused",
         cache' = Some(c), Truncate("gateway", c, "app"), outside' = FALSE,
         UNCHANGED <<up, app, command, halved>>
  PROVE  ConfigInv'
<1>1. envKey' \in EnvKeys
  BY EnvTypes DEF Reloads, ConfigInv, ConfigTypes
<1>2. cache' \in [some: BOOLEAN, content: Contents]
  BY DEF Some
<1> QED BY <1>1, <1>2, TruncateKeeps DEF ConfigInv, ConfigTypes, NotRefused

\* A call that changes the object that is served and begins to save it.
LEMMA SaveKeeps ==
  ASSUME ConfigInv, NEW c \in Contents, c.setting # "refused", SaveChanged(c)
  PROVE  ConfigInv'
<1>1. /\ app' = c /\ cache' \in [some: BOOLEAN, content: Contents]
      /\ Truncate("gateway", c, "reload") /\ outside' = FALSE /\ UNCHANGED <<up, envKey, command, halved>>
  BY DEF SaveChanged, ChangeServed, Some, ConfigInv, ConfigTypes
<1> QED BY <1>1, TruncateKeeps DEF ConfigInv, ConfigTypes

LEMMA FinishKeeps ==
  ASSUME ConfigAssumption, ConfigInv, SavedToApp \/ SavedAndReloads \/ SavedRaw
  PROVE  ConfigInv'
<1>0. ConfigTypes /\ NotRefused /\ SavingKnows
  BY DEF ConfigInv
<1> DEFINE d == Dumped(saving.content)
<1>1. d \in Contents /\ d.setting = saving.content.setting /\ d.setting # "refused" /\ saving.content \in Contents
  BY <1>0, DumpTypes DEF ConfigTypes, NotRefused
<1>2. /\ disk' = Whole(d) /\ saving' = NotSaving /\ saving.by = "gateway"
      /\ UNCHANGED <<up, command, outside>> /\ halved' \in BOOLEAN
  BY <1>0 DEF SavedToApp, SavedAndReloads, SavedRaw, Finish, FileWritten, ConfigTypes
<1>3. disk' \in [kind: {"absent", "torn", "whole"}, content: Contents] /\ disk'.content = d
  BY <1>1, <1>2 DEF Whole
<1>4. NotSaving \in [by: {"none", "gateway", "command"}, content: Contents,
                     next: {"nothing", "app", "reload", "raw"}]
      /\ NotSaving.by = "none" /\ NotSaving.content.setting # "refused"
  BY DefaultIsContent DEF NotSaving
<1>5. EnvAfter(d, envKey) \in EnvKeys /\ EnvAfter(d, EnvAfter(d, envKey)) = EnvAfter(d, envKey)
  BY <1>0, <1>1, EnvTypes DEF ConfigTypes
<1>6. /\ Loaded(d, envKey) \in Contents /\ Loaded(d, envKey).setting # "refused"
      /\ Loaded(d, EnvAfter(d, envKey)) = Loaded(d, envKey)
  BY <1>0, <1>1, LoadTypes DEF ConfigTypes
<1> HIDE DEF d
<1>7. ASSUME app' \in Contents, app'.setting # "refused", envKey' \in EnvKeys,
             cache' \in [some: BOOLEAN, content: Contents],
             d = Dumped(app') \/ (app' = Fresh' /\ EnvSettled'),
             cache'.some => cache'.content = Fresh' /\ EnvSettled'
      PROVE  ConfigInv'
  <2>1. ConfigTypes' /\ NotRefused' /\ SavingKnows'
    BY <1>0, <1>1, <1>2, <1>3, <1>4, <1>7 DEF ConfigTypes, NotRefused, SavingKnows
  <2> QED BY <1>3, <1>7, <2>1 DEF ConfigInv, ServedIsFile, CacheIsFile
<1>8. CASE SavedToApp
  <2>1. cache' = Nothing /\ app' = saving.content /\ envKey' = envKey
    BY <1>8 DEF SavedToApp
  <2> QED BY <1>0, <1>1, <1>7, <2>1, DefaultIsContent DEF d, Nothing, ConfigTypes, NotRefused
<1>9. ASSUME Reloaded(d)
      PROVE  /\ envKey' \in EnvKeys /\ cache' \in [some: BOOLEAN, content: Contents]
             /\ EnvSettled' /\ Fresh' = Loaded(d, envKey)
             /\ cache'.some => cache'.content = Fresh'
  <2>1. envKey' = EnvAfter(d, envKey) /\ (cache' = Nothing \/ cache' = Some(Loaded(d, envKey)))
    BY <1>9 DEF Reloaded
  <2>2. EnvSettled' /\ Fresh' = Loaded(d, envKey)
    BY <1>3, <1>5, <1>6, <2>1 DEF EnvSettled, Fresh
  <2>3. CASE cache' = Nothing
    BY <1>5, <2>1, <2>2, <2>3, DefaultIsContent DEF Nothing
  <2>4. CASE cache' = Some(Loaded(d, envKey))
    BY <1>5, <1>6, <2>1, <2>2, <2>4 DEF Some
  <2> QED BY <2>1, <2>3, <2>4
<1>10. CASE SavedAndReloads
  <2>1. Reloaded(d)
    BY <1>10 DEF SavedAndReloads, d
  <2>2. CASE cache'.some
    <3>1. app' = cache'.content
      BY <1>10, <2>2 DEF SavedAndReloads
    <3> QED BY <1>6, <1>7, <1>9, <2>1, <2>2, <3>1
  <2>3. CASE ~cache'.some
    <3>1. app' = app /\ app = saving.content
      BY <1>0, <1>10, <2>3 DEF SavedAndReloads, Finish, SavingKnows
    <3> QED BY <1>0, <1>7, <1>9, <2>1, <2>3, <3>1 DEF ConfigTypes, NotRefused, d
  <2> QED BY <2>2, <2>3
<1>11. CASE SavedRaw
  <2>1. Reloaded(d) /\ app' = saving.content
    BY <1>11 DEF SavedRaw, d
  <2> QED BY <1>0, <1>1, <1>7, <1>9, <2>1 DEF NotRefused, d
<1> QED BY <1>8, <1>10, <1>11

LEMMA ConfigNextKeeps ==
  ASSUME ConfigAssumption, ConfigInv, [ConfigNext]_configVars
  PROVE  ConfigInv'
<1>0. /\ ConfigTypes /\ NotRefused /\ SavingKnows /\ ServedIsFile /\ CacheIsFile
      /\ disk.content \in Contents /\ disk.content.setting # "refused"
      /\ app \in Contents /\ app.setting # "refused"
  BY DEF ConfigInv, ConfigTypes, NotRefused
<1>1. Fresh \in Contents /\ Fresh.setting # "refused"
  BY <1>0, LoadTypes DEF ConfigTypes, Fresh
<1>2. \A c \in Contents : \A k \in {"none", "typed"} : [c EXCEPT !.key = k] \in Contents
                                                      /\ [c EXCEPT !.key = k].setting = c.setting
  BY DEF Contents, EnvKeys
<1>3. \A c \in Contents : \A s \in {"b", "bad", "refused", "half"} :
         [c EXCEPT !.setting = s] \in Contents /\ [c EXCEPT !.setting = s].setting = s
  BY DEF Contents
<1>4. ASSUME NEW env \in EnvKeys, GatewayStarts(env) PROVE ConfigInv'
  BY <1>4, StartsKeeps
<1>5. ASSUME NEW env \in EnvKeys, CommandLoads(env) PROVE ConfigInv'
  <2>1. command' \in [some: BOOLEAN, content: Contents] /\ UNCHANGED <<disk, processState, saving, halved, outside>>
    BY <1>0, <1>5, LoadTypes DEF CommandLoads, Some
  <2>2. ConfigTypes' /\ NotRefused' /\ SavingKnows'
    BY <1>0, <2>1 DEF ConfigTypes, NotRefused, SavingKnows, processState
  <2>3. ServedIsFile' /\ CacheIsFile'
    BY <1>0, <2>1 DEF ServedIsFile, CacheIsFile, FileIsOurs, EnvSettled, Fresh, processState
  <2> QED BY <2>2, <2>3 DEF ConfigInv
<1>6. CASE GatewayDies
  <2>1. saving' \in {NotSaving, saving} /\ NotSaving.content = Default /\ NotSaving.by = "none"
        /\ NotSaving \in [by: {"none", "gateway", "command"}, content: Contents,
                          next: {"nothing", "app", "reload", "raw"}]
    BY <1>6, DefaultIsContent DEF GatewayDies, NotSaving
  <2>2. ConfigTypes' /\ NotRefused' /\ SavingKnows' /\ ~up'
    BY <1>0, <1>6, <2>1, DefaultIsContent DEF GatewayDies, ConfigTypes, NotRefused, SavingKnows, Nothing
  <2> QED BY <2>2, ElsewhereKeeps DEF FileIsOurs
<1>7. CASE RemoveFile
  <2>1. disk' = NoFile /\ UNCHANGED <<processState, saving, command, halved, outside>> /\ ~up
    BY <1>7 DEF RemoveFile
  <2>2. ConfigTypes' /\ NotRefused' /\ SavingKnows' /\ ~up'
    BY <1>0, <2>1, DefaultIsContent DEF ConfigTypes, NotRefused, SavingKnows, NoFile, processState
  <2> QED BY <2>2, ElsewhereKeeps DEF FileIsOurs
<1>8. CASE ReadConfig
  BY <1>1, <1>8, LoadKeeps DEF ReadConfig
<1>9. CASE PutConfig
  <2>1. PICK c \in Update(Fresh) : cache' = Some(c) /\ Truncate("gateway", c, "app")
    BY <1>9 DEF PutConfig
  <2>2. c \in Contents /\ c.setting # "refused"
    <3>1. ASSUME NEW s \in {"b", "bad"}, c = [Fresh EXCEPT !.setting = s]
          PROVE  c \in Contents /\ c.setting # "refused"
      <4>1. c \in Contents /\ c.setting = s  BY <1>1, <1>3, <3>1
      <4> QED  BY <4>1
    <3>2. CASE c = [Fresh EXCEPT !.key = "typed"]
      BY <1>1, <1>2, <3>2
    <3>3. CASE \E n \in Names : c = [Fresh EXCEPT !.names = @ \cup {n}]
      BY <1>1, <3>3 DEF Contents
    <3> QED BY <2>1, <3>1, <3>2, <3>3 DEF Update
  <2> QED BY <1>9, <2>1, <2>2, UpdateKeeps DEF PutConfig
<1>10. CASE PutConfigRefused
  <2>1. [Fresh EXCEPT !.setting = "refused"] \in Contents /\ [Fresh EXCEPT !.setting = "refused"].setting = "refused"
    BY <1>1, <1>3
  <2> QED BY <1>10, <2>1, LoadKeeps DEF PutConfigRefused, Reloads
<1>11. CASE PatchEntry
  <2>1. [Fresh EXCEPT !.key = "typed"] \in Contents /\ [Fresh EXCEPT !.key = "typed"].setting # "refused"
    BY <1>1, <1>2
  <2> QED BY <1>11, <2>1, UpdateKeeps DEF PatchEntry
<1>12. CASE ApplyRaw
  <2>1. PICK k \in {"none", "typed"} :
          Truncate("gateway", [Default EXCEPT !.key = k, !.agents = app.agents], "raw")
    BY <1>12 DEF ApplyRaw
  <2> DEFINE c == [Default EXCEPT !.key = k, !.agents = app.agents]
  <2>2. c \in Contents /\ c.setting # "refused"
    <3>1. app.agents \in SUBSET AgentIds
      BY <1>0 DEF Contents
    <3> QED BY <3>1, DefaultIsContent DEF Contents, EnvKeys
  <2> HIDE DEF c
  <2> QED BY <1>0, <1>12, <2>1, <2>2, TruncateKeeps DEF ApplyRaw, ConfigTypes, processState, c
<1>13. ASSUME NEW a \in AgentIds, CreateAgent(a) \/ DeleteAgent(a) PROVE ConfigInv'
  <2> DEFINE more == [app EXCEPT !.agents = @ \cup {a}]
             less == [app EXCEPT !.agents = @ \ {a}]
  <2>1. more \in Contents /\ more.setting # "refused" /\ less \in Contents /\ less.setting # "refused"
    BY <1>0 DEF Contents
  <2>2. SaveChanged(more) \/ SaveChanged(less)
    BY <1>13 DEF CreateAgent, DeleteAgent
  <2> HIDE DEF more, less
  <2> QED BY <2>1, <2>2, SaveKeeps
<1>14. CASE UpdateAgent
  <2>1. [app EXCEPT !.setting = "b"] \in Contents /\ [app EXCEPT !.setting = "b"].setting # "refused"
    BY <1>0, <1>3
  <2> QED BY <1>14, <2>1, SaveKeeps DEF UpdateAgent
<1>15. CASE UpdateAgentFails
  <2>1. [app EXCEPT !.setting = "half"] \in Contents /\ [app EXCEPT !.setting = "half"].setting # "refused"
    BY <1>0, <1>3
  <2>2. /\ app' = [app EXCEPT !.setting = "half"] /\ saving = NotSaving /\ halved' = TRUE
        /\ cache' \in [some: BOOLEAN, content: Contents]
        /\ UNCHANGED <<disk, saving, outside, up, envKey, command>>
    BY <1>0, <1>15, <2>1 DEF UpdateAgentFails, ChangeServed, Some, ConfigTypes
  <2>3. ConfigTypes' /\ NotRefused' /\ SavingKnows'
    BY <1>0, <2>1, <2>2 DEF ConfigTypes, NotRefused, SavingKnows, NotSaving
  <2> QED BY <2>2, <2>3, ElsewhereKeeps DEF FileIsOurs
<1>16. CASE SavedToApp \/ SavedAndReloads \/ SavedRaw
  BY <1>16, FinishKeeps
<1>17. CASE CommandSaves
  <2> DEFINE c == [command.content EXCEPT !.setting = "b"]
  <2>1. c \in Contents /\ c.setting # "refused"
    BY <1>0, <1>3 DEF ConfigTypes
  <2>2. /\ Truncate("command", c, "nothing") /\ command' = Nothing /\ outside' = TRUE
        /\ UNCHANGED <<processState, halved>>
    BY <1>17 DEF CommandSaves
  <2>3. Nothing \in [some: BOOLEAN, content: Contents]
    BY DefaultIsContent DEF Nothing
  <2> HIDE DEF c
  <2> QED BY <1>0, <2>1, <2>2, <2>3, TruncateKeeps DEF processState, ConfigTypes
<1>18. CASE CommandWrites \/ CommandDies
  <2>1. /\ saving' = NotSaving /\ outside /\ disk' \in {disk, Whole(Dumped(saving.content))}
        /\ UNCHANGED <<processState, command, halved, outside>>
    BY <1>0, <1>18 DEF CommandWrites, CommandDies, FileWritten, SavingKnows
  <2>2. Dumped(saving.content) \in Contents /\ Dumped(saving.content).setting # "refused"
    BY <1>0, DumpTypes DEF ConfigTypes, NotRefused
  <2>3. disk' \in [kind: {"absent", "torn", "whole"}, content: Contents] /\ disk'.content.setting # "refused"
    BY <1>0, <2>1, <2>2 DEF Whole, ConfigTypes
  <2>4. ConfigTypes' /\ NotRefused' /\ SavingKnows'
    BY <1>0, <2>1, <2>3, DefaultIsContent DEF ConfigTypes, NotRefused, SavingKnows, NotSaving, processState
  <2> QED BY <2>1, <2>4, ElsewhereKeeps DEF FileIsOurs
<1>19. CASE UNCHANGED configVars
  BY <1>19 DEF configVars, processState, ConfigInv, ConfigTypes, NotRefused, SavingKnows, ServedIsFile,
               CacheIsFile, FileIsOurs, EnvSettled, Fresh
<1> QED BY <1>4, <1>5, <1>6, <1>7, <1>8, <1>9, <1>10, <1>11, <1>12, <1>13, <1>14, <1>15, <1>16, <1>17,
           <1>18, <1>19 DEF ConfigNext

LEMMA ConfigPromises ==
  ASSUME ConfigAssumption, ConfigInv
  PROVE  ConfigIsCoherent
<1>1. disk.content = Dumped(app) => AfterRestart(app) = Fresh
  BY DEF AfterRestart, Fresh
<1> QED BY <1>1 DEF ConfigInv, NotRefused, ServedIsFile, CacheIsFile, FileIsOurs, ConfigIsCoherent

\* Any agents, names and conversions of them: what the gateway serves and caches is what is in
\* the file, and what was refused is in neither (config/access.py, services/config).
THEOREM ConfigStaysCoherent == ConfigSpec => []ConfigIsCoherent
<1>1. ConfigInit => ConfigInv
  BY ConfigInitial
<1>2. ConfigInv /\ [ConfigNext]_configVars => ConfigInv'
  BY ConfigAssumption, ConfigNextKeeps
<1>3. ConfigInv => ConfigIsCoherent
  BY ConfigAssumption, ConfigPromises
<1> QED BY <1>1, <1>2, <1>3, PTL DEF ConfigSpec

-------------------------------------------------------------------------------
(* The knowledge pipeline.                                                    *)

\* A worker that is idle has no document, and only one that writes rows is past the first.
\* What the watcher noticed exists.
Stages ==
  /\ \A l \in AgentLoops :
        /\ piping[l].at = "idle" <=> piping[l].doc = NoDoc
        /\ piping[l].at # "cleared" => piping[l].next = 1
        /\ piping[l].next <= ChunkCount
  /\ \A l \in AgentLoops : \A d \in noticing[l] : source[d] # Blank

\* A document that was never in two hands is in one.
OneHolder ==
  \A d \in Docs \ crossing : \A k, l \in AgentLoops :
     piping[k].doc = d /\ piping[l].doc = d => k = l

\* The rows that a worker has written so far are all there are.
RowsOf(p, l) == Rows(l, p.text, p.next - 1)
RowsGrow ==
  \A l \in AgentLoops :
     piping[l].at = "cleared" /\ piping[l].doc \notin crossing =>
        indexed[piping[l].doc] = RowsOf(piping[l], l)

\* A document whose rows nobody writes has none, or all, or those that a pipeline left.
Writes(d) == \E l \in AgentLoops : piping[l].doc = d /\ piping[l].at = "cleared"
RowsWhole ==
  \A d \in Docs \ crossing : ~Writes(d) => indexed[d] = {} \/ broken[d] = "partial" \/ FoundWhole(d)

ConvertedFound == ~subprocess => ConvertedIsFound

PipelineInv == PipelineTypeOK /\ Stages /\ OneHolder /\ RowsGrow /\ RowsWhole /\ ConvertedFound

LEMMA DownTypes == ASSUME PipelineAssumption PROVE Down \in Worker
<1>1. <<>> \in Seq(Docs) /\ 0 \in 0..Versions /\ 1 \in 1..ChunkCount + 1
  BY DEF PipelineAssumption
<1> QED BY <1>1 DEF Down, Worker, Blank

LEMMA PipelineInitial ==
  ASSUME PipelineAssumption, PipelineInit
  PROVE  PipelineInv
<1>1. PipelineTypeOK
  BY DownTypes DEF PipelineAssumption, PipelineInit, PipelineTypeOK, Blank
<1>2. \A l \in AgentLoops : piping[l] = Down /\ noticing[l] = {}
  BY DEF PipelineInit
<1>3. Stages /\ OneHolder /\ RowsGrow
  BY <1>2 DEF Stages, OneHolder, RowsGrow, Down, PipelineAssumption
<1>4. RowsWhole /\ ConvertedFound
  BY DEF PipelineInit, RowsWhole, ConvertedFound, ConvertedIsFound
<1> QED BY <1>1, <1>3, <1>4 DEF PipelineInv

\* What a step of one worker says of the others.
LEMMA WorkerSteps ==
  ASSUME PipelineTypeOK, NEW l \in AgentLoops, NEW w \in Worker, piping' = [piping EXCEPT ![l] = w]
  PROVE  /\ piping' \in [AgentLoops -> Worker] /\ piping'[l] = w
         /\ \A k \in AgentLoops : k # l => piping'[k] = piping[k]
BY DEF PipelineTypeOK

\* A step that changes nothing about which documents are in hand, and how far.
LEMMA HandsStay ==
  ASSUME PipelineInv, PipelineTypeOK',
         \A l \in AgentLoops : /\ piping'[l].at = piping[l].at /\ piping'[l].doc = piping[l].doc
                               /\ piping'[l].next = piping[l].next
                               /\ piping[l].at = "cleared" => piping'[l].text = piping[l].text
                               /\ \A d \in noticing'[l] : source'[d] # Blank,
         UNCHANGED <<subprocess, processed, indexed, crossing, broken>>
  PROVE  PipelineInv'
<1>1. Stages' /\ OneHolder'
  BY DEF PipelineInv, Stages, OneHolder
<1>2. RowsGrow'
  BY DEF PipelineInv, RowsGrow, RowsOf
<1>3. \A d \in Docs : (Writes(d)' <=> Writes(d)) /\ (FoundWhole(d)' <=> FoundWhole(d)) /\ (InHand(d)' <=> InHand(d))
  BY DEF Writes, FoundWhole, InHand
<1>4. RowsWhole' /\ ConvertedFound'
  BY <1>3 DEF PipelineInv, RowsWhole, ConvertedFound, ConvertedIsFound
<1> QED BY <1>1, <1>2, <1>4 DEF PipelineInv

\* A worker takes a document in hand.
LEMMA TakeUpKeeps ==
  ASSUME PipelineAssumption, PipelineInv, NEW l \in AgentLoops, NEW d \in Docs, NEW w \in Worker,
         piping[l].at = "idle", w.at \in {"read", "loaded"}, w.doc = d, w.next = 1,
         piping' = [piping EXCEPT ![l] = w], TakeUp(l, d),
         UNCHANGED <<subprocess, files, indexed, noticing, loopStarts>>
  PROVE  PipelineInv'
<1>0. PipelineTypeOK /\ Stages /\ OneHolder /\ RowsGrow /\ RowsWhole /\ ConvertedFound /\ d # NoDoc
  BY DEF PipelineInv, PipelineAssumption
<1>1. /\ piping' \in [AgentLoops -> Worker] /\ piping'[l] = w
      /\ \A k \in AgentLoops : k # l => piping'[k] = piping[k]
  BY <1>0, WorkerSteps
<1>2. /\ crossing \subseteq crossing' /\ crossing' \subseteq crossing \cup {d}
      /\ d \notin crossing' => \A k \in AgentLoops \ {l} : piping[k].doc # d
  BY DEF TakeUp
<1>3. /\ broken' \in [Docs -> {"no", "unindexed", "partial"}]
      /\ \A x \in Docs : /\ x # d => broken'[x] = broken[x]
                         /\ broken[x] = "partial" => broken'[x] = "partial"
  BY <1>0 DEF TakeUp, PipelineTypeOK
<1>4. PipelineTypeOK'
  BY <1>0, <1>1, <1>2, <1>3 DEF PipelineTypeOK, files
<1>5. Stages'
  BY <1>0, <1>1 DEF Stages, files, PipelineAssumption
<1>6. OneHolder'
  BY <1>0, <1>1, <1>2 DEF OneHolder
<1>7. RowsGrow'
  <2> SUFFICES ASSUME NEW k \in AgentLoops, piping'[k].at = "cleared", piping'[k].doc \notin crossing'
               PROVE  indexed[piping'[k].doc] = RowsOf(piping'[k], k)
    BY DEF RowsGrow, RowsOf
  <2>1. k # l
    BY <1>1
  <2> QED BY <1>0, <1>1, <1>2, <2>1 DEF RowsGrow
<1>8. \A x \in Docs : Writes(x) => Writes(x)'
  <2> SUFFICES ASSUME NEW x \in Docs, NEW k \in AgentLoops, piping[k].doc = x, piping[k].at = "cleared"
               PROVE  Writes(x)'
    BY DEF Writes
  <2>1. k # l
    OBVIOUS
  <2> QED BY <1>1, <2>1 DEF Writes
<1>9. \A x \in Docs : (FoundWhole(x) => FoundWhole(x)') /\ (InHand(x) => InHand(x)') /\ InHand(d)'
  <2>1. \A x \in Docs : FoundWhole(x) => FoundWhole(x)'
    BY DEF FoundWhole
  <2>2. ASSUME NEW x \in Docs, NEW k \in AgentLoops, piping[k].doc = x PROVE InHand(x)'
    <3>1. k # l
      BY <1>0, <2>2 DEF Stages, PipelineAssumption
    <3> QED BY <1>1, <2>2, <3>1 DEF InHand
  <2>3. InHand(d)'
    BY <1>1 DEF InHand
  <2> QED BY <2>1, <2>2, <2>3 DEF InHand
<1>10. RowsWhole'
  BY <1>0, <1>2, <1>3, <1>8, <1>9 DEF RowsWhole
<1>11. ConvertedFound'
  BY <1>0, <1>3, <1>9 DEF ConvertedFound, ConvertedIsFound, files
<1> QED BY <1>4, <1>5, <1>6, <1>7, <1>10, <1>11 DEF PipelineInv

\* A worker lays down its document, whose rows are as it found them, or all of its own.
LaysDown(l, w, d) ==
  /\ piping[l].at # "idle" /\ d = piping[l].doc /\ w.at = "idle" /\ w.doc = NoDoc /\ w.next = 1
  /\ piping' = [piping EXCEPT ![l] = w]
  /\ indexed' \in [Docs -> SUBSET [by: AgentLoops, text: 0..Versions, chunk: 1..ChunkCount]]
  /\ broken' \in [Docs -> {"no", "unindexed", "partial"}]
  /\ \A x \in Docs : x # d => indexed'[x] = indexed[x] /\ broken'[x] = broken[x]
  /\ d \notin crossing => indexed'[d] = {} \/ broken'[d] = "partial" \/ FoundWhole(d)'
  /\ (~subprocess /\ processed[d].meta = "whole" /\ broken'[d] = "no") => indexed'[d] # {}
  /\ \A k \in AgentLoops : noticing'[k] \in {{}, noticing[k]}
  /\ noticing' \in [AgentLoops -> SUBSET Docs]
  /\ UNCHANGED <<subprocess, files, loopStarts, crossing>>

LEMMA RestKeeps ==
  ASSUME PipelineAssumption, PipelineInv, NEW l \in AgentLoops, NEW w \in Worker, NEW d, LaysDown(l, w, d)
  PROVE  PipelineInv'
<1>0. PipelineTypeOK /\ Stages /\ OneHolder /\ RowsGrow /\ RowsWhole /\ ConvertedFound /\ d \in Docs
  <2>1. piping[l].doc # NoDoc /\ piping[l] \in Worker
    BY DEF LaysDown, PipelineInv, Stages, PipelineTypeOK
  <2> QED BY <2>1 DEF LaysDown, PipelineInv, Worker
<1>h. /\ piping[l].at # "idle" /\ d = piping[l].doc /\ w.at = "idle" /\ w.doc = NoDoc /\ w.next = 1
      /\ piping' = [piping EXCEPT ![l] = w]
      /\ indexed' \in [Docs -> SUBSET [by: AgentLoops, text: 0..Versions, chunk: 1..ChunkCount]]
      /\ broken' \in [Docs -> {"no", "unindexed", "partial"}]
      /\ \A x \in Docs : x # d => indexed'[x] = indexed[x] /\ broken'[x] = broken[x]
      /\ d \notin crossing => indexed'[d] = {} \/ broken'[d] = "partial" \/ FoundWhole(d)'
      /\ (~subprocess /\ processed[d].meta = "whole" /\ broken'[d] = "no") => indexed'[d] # {}
      /\ \A k \in AgentLoops : noticing'[k] \in {{}, noticing[k]}
      /\ noticing' \in [AgentLoops -> SUBSET Docs]
      /\ UNCHANGED <<subprocess, files, loopStarts, crossing>>
  BY DEF LaysDown
<1>1. /\ piping' \in [AgentLoops -> Worker] /\ piping'[l] = w
      /\ \A k \in AgentLoops : k # l => piping'[k] = piping[k]
  BY <1>0, <1>h, WorkerSteps
<1>2. PipelineTypeOK'
  BY <1>0, <1>h, <1>1 DEF PipelineTypeOK, files
<1>3. Stages'
  BY <1>0, <1>h, <1>1 DEF Stages, files, PipelineAssumption
<1>4. OneHolder'
  BY <1>0, <1>h, <1>1 DEF OneHolder, PipelineAssumption
<1>5. RowsGrow'
  <2> SUFFICES ASSUME NEW k \in AgentLoops, piping'[k].at = "cleared", piping'[k].doc \notin crossing
               PROVE  indexed'[piping'[k].doc] = RowsOf(piping'[k], k)
    BY <1>h DEF RowsGrow, RowsOf
  <2>1. k # l /\ piping'[k] = piping[k]
    BY <1>1, <1>h
  <2>2. piping[k] \in Worker /\ piping[k].doc # NoDoc
    BY <1>0, <1>h, <2>1 DEF PipelineTypeOK, Stages
  <2>3. piping[k].doc \in Docs /\ piping[k].doc # d
    BY <1>0, <1>h, <2>1, <2>2 DEF OneHolder, Worker
  <2> QED BY <1>0, <1>h, <2>1, <2>3 DEF RowsGrow
<1>6. \A x \in Docs : x # d => (Writes(x) => Writes(x)') /\ (FoundWhole(x) => FoundWhole(x)') /\ (InHand(x) => InHand(x)')
  <2> SUFFICES ASSUME NEW x \in Docs, x # d
               PROVE  (Writes(x) => Writes(x)') /\ (FoundWhole(x) => FoundWhole(x)') /\ (InHand(x) => InHand(x)')
    OBVIOUS
  <2>1. \A k \in AgentLoops : piping[k].doc = x => k # l /\ piping'[k] = piping[k]
    BY <1>1, <1>h
  <2>2. FoundWhole(x) => FoundWhole(x)'
    BY <1>h DEF FoundWhole
  <2> QED BY <2>1, <2>2 DEF Writes, InHand
<1>7. RowsWhole'
  BY <1>0, <1>h, <1>6 DEF RowsWhole
<1>8. ConvertedFound'
  BY <1>0, <1>h, <1>6 DEF ConvertedFound, ConvertedIsFound, files
<1> QED BY <1>2, <1>3, <1>4, <1>5, <1>7, <1>8 DEF PipelineInv

\* A worker goes on with its document, and neither starts nor ends to write rows.
LEMMA GoesOnKeeps ==
  ASSUME PipelineAssumption, PipelineInv, NEW l \in AgentLoops, NEW w \in Worker, NEW d, d = piping[l].doc,
         piping[l].at \notin {"idle", "cleared"}, w.at \notin {"idle", "cleared"}, w.doc = d, w.next = 1,
         piping' = [piping EXCEPT ![l] = w],
         processed' \in [Docs -> [meta: {"none", "torn", "whole"}, text: 0..Versions]],
         \A x \in Docs : x # d => processed'[x] = processed[x],
         UNCHANGED <<subprocess, source, indexed, noticing, loopStarts, crossing, broken>>
  PROVE  PipelineInv'
<1>0. PipelineTypeOK /\ Stages /\ OneHolder /\ RowsGrow /\ RowsWhole /\ ConvertedFound /\ d # NoDoc
  BY DEF PipelineInv, Stages
<1>1. /\ piping' \in [AgentLoops -> Worker] /\ piping'[l] = w
      /\ \A k \in AgentLoops : k # l => piping'[k] = piping[k]
  BY <1>0, WorkerSteps
<1>2. PipelineTypeOK'
  BY <1>0, <1>1 DEF PipelineTypeOK
<1>3. Stages' /\ OneHolder'
  BY <1>0, <1>1 DEF Stages, OneHolder, PipelineAssumption
<1>4. RowsGrow'
  <2> SUFFICES ASSUME NEW k \in AgentLoops, piping'[k].at = "cleared", piping'[k].doc \notin crossing
               PROVE  indexed[piping'[k].doc] = RowsOf(piping'[k], k)
    BY DEF RowsGrow, RowsOf
  <2>1. piping'[k] = piping[k]
    BY <1>1
  <2> QED BY <1>0, <2>1 DEF RowsGrow
<1>5. \A x \in Docs : (Writes(x) => Writes(x)') /\ (FoundWhole(x) => FoundWhole(x)') /\ (InHand(x) <=> InHand(x)')
  <2> SUFFICES ASSUME NEW x \in Docs
               PROVE  (Writes(x) => Writes(x)') /\ (FoundWhole(x) => FoundWhole(x)') /\ (InHand(x) <=> InHand(x)')
    OBVIOUS
  <2>1. \A k \in AgentLoops : piping'[k].doc = piping[k].doc /\ (piping[k].at = "cleared" => piping'[k].at = "cleared")
    BY <1>1
  <2>2. FoundWhole(x) => FoundWhole(x)'
    BY DEF FoundWhole
  <2> QED BY <2>1, <2>2 DEF Writes, InHand
<1>6. RowsWhole'
  BY <1>0, <1>5 DEF RowsWhole
<1>7. ConvertedFound'
  <2>1. InHand(d)
    BY DEF InHand
  <2> QED BY <1>0, <1>5, <2>1 DEF ConvertedFound, ConvertedIsFound
<1> QED BY <1>2, <1>3, <1>4, <1>6, <1>7 DEF PipelineInv

\* A worker starts to write rows, or writes one that is not the last.
LEMMA WritesKeeps ==
  ASSUME PipelineAssumption, PipelineInv, NEW l \in AgentLoops, NEW w \in Worker, NEW d, d = piping[l].doc,
         piping[l].at # "idle", w.at = "cleared", w.doc = d, w.next <= ChunkCount,
         piping' = [piping EXCEPT ![l] = w],
         indexed' \in [Docs -> SUBSET [by: AgentLoops, text: 0..Versions, chunk: 1..ChunkCount]],
         \A x \in Docs : indexed[x] \subseteq indexed'[x] /\ (x # d => indexed'[x] = indexed[x]),
         d \notin crossing => indexed'[d] = RowsOf(w, l),
         UNCHANGED <<subprocess, files, noticing, loopStarts, crossing, broken>>
  PROVE  PipelineInv'
<1>0. /\ PipelineTypeOK /\ Stages /\ OneHolder /\ RowsGrow /\ RowsWhole /\ ConvertedFound
      /\ d # NoDoc /\ d \in Docs
  <2>1. piping[l].doc # NoDoc /\ piping[l] \in Worker
    BY DEF PipelineInv, Stages, PipelineTypeOK
  <2> QED BY <2>1 DEF PipelineInv, Worker
<1>1. /\ piping' \in [AgentLoops -> Worker] /\ piping'[l] = w
      /\ \A k \in AgentLoops : k # l => piping'[k] = piping[k]
  BY <1>0, WorkerSteps
<1>2. PipelineTypeOK'
  BY <1>0, <1>1 DEF PipelineTypeOK, files
<1>3. Stages' /\ OneHolder'
  BY <1>0, <1>1 DEF Stages, OneHolder, files
<1>4. RowsGrow'
  <2> SUFFICES ASSUME NEW k \in AgentLoops, piping'[k].at = "cleared", piping'[k].doc \notin crossing
               PROVE  indexed'[piping'[k].doc] = RowsOf(piping'[k], k)
    BY DEF RowsGrow, RowsOf
  <2>1. CASE k = l
    BY <1>1, <2>1
  <2>2. CASE k # l
    <3>1. piping'[k] = piping[k] /\ piping[k] \in Worker /\ piping[k].doc # NoDoc
      BY <1>0, <1>1, <2>2 DEF Stages, PipelineTypeOK
    <3>2. piping[k].doc \in Docs /\ piping[k].doc # d
      BY <1>0, <2>2, <3>1 DEF OneHolder, Worker
    <3> QED BY <1>0, <3>1, <3>2 DEF RowsGrow
  <2> QED BY <2>1, <2>2
<1>5. Writes(d)'
  BY <1>1 DEF Writes
<1>6. \A x \in Docs : x # d => (Writes(x) => Writes(x)') /\ (FoundWhole(x) => FoundWhole(x)')
  <2> SUFFICES ASSUME NEW x \in Docs, x # d
               PROVE  (Writes(x) => Writes(x)') /\ (FoundWhole(x) => FoundWhole(x)')
    OBVIOUS
  <2>1. \A k \in AgentLoops : piping[k].doc = x => k # l /\ piping'[k] = piping[k]
    BY <1>1
  <2>2. FoundWhole(x) => FoundWhole(x)'
    BY DEF FoundWhole
  <2> QED BY <2>1, <2>2 DEF Writes
<1>7. RowsWhole'
  BY <1>0, <1>5, <1>6 DEF RowsWhole
<1>8. \A x \in Docs : InHand(x) => InHand(x)'
  <2>1. \A k \in AgentLoops : piping'[k].doc = piping[k].doc
    BY <1>1
  <2> QED BY <2>1 DEF InHand
<1>9. ConvertedFound'
  BY <1>0, <1>8 DEF ConvertedFound, ConvertedIsFound, files
<1> QED BY <1>2, <1>3, <1>4, <1>7, <1>9 DEF PipelineInv

\* The rows of a document whose worker dies, or finds rows that it may not remove.
LEMMA RowsBefore ==
  ASSUME PipelineInv, NEW l \in AgentLoops, piping[l].at \notin {"idle", "cleared"},
         NEW d, d = piping[l].doc, d \notin crossing
  PROVE  indexed[d] = {} \/ broken[d] = "partial" \/ FoundWhole(d)
<1>1. d \in Docs
  BY DEF PipelineInv, Stages, PipelineTypeOK, Worker
<1>2. ~Writes(d)
  BY <1>1 DEF PipelineInv, OneHolder, Writes
<1> QED BY <1>1, <1>2 DEF PipelineInv, RowsWhole

\* A worker that lays down its document.
LEMMA RestTypes ==
  ASSUME PipelineAssumption, NEW p \in Worker, NEW w,
         w = [p EXCEPT !.at = "idle", !.doc = NoDoc, !.text = Blank, !.next = 1]
  PROVE  w \in Worker /\ w.at = "idle" /\ w.doc = NoDoc /\ w.next = 1
<1>1. 0 \in 0..Versions /\ 1 \in 1..ChunkCount + 1
  BY DEF PipelineAssumption
<1> QED BY <1>1 DEF Worker, Blank

\* What a pipeline leaves of the document in its hand.
LEMMA LeftKeeps ==
  ASSUME PipelineTypeOK, NEW l \in AgentLoops, LeavesBehind(l), NEW d, d = piping[l].doc
  PROVE  /\ broken' \in [Docs -> {"no", "unindexed", "partial"}]
         /\ \A x \in Docs :
              /\ x # d => broken'[x] = broken[x]
              /\ x = d /\ indexed[x] = {} => broken'[x] = "unindexed"
              /\ x = d /\ indexed[x] # {} /\ piping[l].at = "cleared" => broken'[x] = "partial"
              /\ x = d /\ indexed[x] # {} /\ piping[l].at # "cleared" => broken'[x] = broken[x]
BY DEF LeavesBehind, PipelineTypeOK

LEMMA LeftIsLaidDown ==
  ASSUME PipelineAssumption, PipelineInv, NEW l \in AgentLoops, piping[l].at # "idle", LeavesBehind(l),
         NEW w \in Worker, w.at = "idle", w.doc = NoDoc, w.next = 1,
         piping' = [piping EXCEPT ![l] = w],
         \A k \in AgentLoops : noticing'[k] \in {{}, noticing[k]},
         noticing' \in [AgentLoops -> SUBSET Docs],
         UNCHANGED <<subprocess, files, indexed, loopStarts, crossing>>,
         NEW d, d = piping[l].doc
  PROVE  LaysDown(l, w, d)
<1>1. PipelineTypeOK /\ Stages /\ RowsGrow /\ piping[l] \in Worker /\ d \in Docs
  BY DEF PipelineInv, PipelineTypeOK, Stages, Worker
<1>2. /\ broken' \in [Docs -> {"no", "unindexed", "partial"}]
      /\ \A x \in Docs : /\ x # d => broken'[x] = broken[x]
                         /\ x = d /\ indexed[x] = {} => broken'[x] = "unindexed"
                         /\ x = d /\ indexed[x] # {} /\ piping[l].at = "cleared" => broken'[x] = "partial"
                         /\ x = d /\ indexed[x] # {} /\ piping[l].at # "cleared" => broken'[x] = broken[x]
  BY <1>1, LeftKeeps
<1>3. d \notin crossing => indexed'[d] = {} \/ broken'[d] = "partial" \/ FoundWhole(d)'
  <2> SUFFICES ASSUME d \notin crossing, indexed[d] # {}, piping[l].at # "cleared"
               PROVE  broken[d] = "partial" \/ FoundWhole(d)'
    BY <1>1, <1>2
  <2>1. FoundWhole(d) => FoundWhole(d)'
    BY DEF FoundWhole
  <2> QED BY <2>1, RowsBefore
<1>4. broken'[d] = "no" => indexed'[d] # {}
  BY <1>1, <1>2
<1>5. indexed' \in [Docs -> SUBSET [by: AgentLoops, text: 0..Versions, chunk: 1..ChunkCount]]
  BY <1>1 DEF PipelineTypeOK
<1> QED BY <1>1, <1>2, <1>3, <1>4, <1>5 DEF LaysDown

LEMMA EndKeeps ==
  ASSUME PipelineAssumption, PipelineInv, NEW l \in AgentLoops, EndPipeline(l)
  PROVE  PipelineInv'
<1>0. PipelineTypeOK /\ Stages /\ RowsGrow /\ piping[l] \in Worker
  BY DEF PipelineInv, PipelineTypeOK
<1>d. PICK d : d = piping[l].doc
  OBVIOUS
<1>1. /\ piping' = [piping EXCEPT ![l] = Down] /\ Down \in Worker
      /\ Down.at = "idle" /\ Down.doc = NoDoc /\ Down.next = 1
      /\ UNCHANGED <<subprocess, files, indexed, loopStarts, crossing>>
      /\ noticing' \in [AgentLoops -> SUBSET Docs] /\ \A k \in AgentLoops : noticing'[k] \in {{}, noticing[k]}
  BY <1>0, DownTypes DEF EndPipeline, Down, PipelineTypeOK
<1>2. /\ broken' \in [Docs -> {"no", "unindexed", "partial"}]
      /\ \A x \in Docs : /\ x # d => broken'[x] = broken[x]
                         /\ x = d /\ indexed[x] = {} => broken'[x] = "unindexed"
                         /\ x = d /\ indexed[x] # {} /\ piping[l].at = "cleared" => broken'[x] = "partial"
                         /\ x = d /\ indexed[x] # {} /\ piping[l].at # "cleared" => broken'[x] = broken[x]
  BY <1>d, LeftKeeps DEF EndPipeline, PipelineInv
<1>3. CASE piping[l].at = "idle"
  <2>1. d \notin Docs
    BY <1>0, <1>d, <1>3 DEF Stages, PipelineAssumption
  <2>2. broken' = broken
    BY <1>0, <1>2, <2>1 DEF PipelineTypeOK
  <2>3. \A k \in AgentLoops : piping'[k].at = piping[k].at /\ piping'[k].doc = piping[k].doc /\ piping'[k].next = piping[k].next
    BY <1>0, <1>1, <1>3 DEF Stages, PipelineTypeOK
  <2>4. PipelineTypeOK'
    BY <1>0, <1>1, <1>2, WorkerSteps DEF PipelineTypeOK, files
  <2>5. Stages' /\ OneHolder'
    BY <1>0, <1>1, <2>3 DEF PipelineInv, Stages, OneHolder, files
  <2>6. RowsGrow'
    <3>1. \A k \in AgentLoops : piping[k].at = "cleared" => piping'[k] = piping[k]
      BY <1>0, <1>1, <1>3, WorkerSteps
    <3> QED BY <1>0, <1>1, <2>3, <3>1 DEF RowsGrow, RowsOf
  <2>7. \A x \in Docs : (Writes(x)' <=> Writes(x)) /\ (FoundWhole(x)' <=> FoundWhole(x)) /\ (InHand(x)' <=> InHand(x))
    BY <1>1, <2>3 DEF Writes, FoundWhole, InHand
  <2>8. RowsWhole' /\ ConvertedFound'
    BY <1>1, <2>2, <2>7 DEF PipelineInv, RowsWhole, ConvertedFound, ConvertedIsFound, files
  <2> QED BY <2>4, <2>5, <2>6, <2>8 DEF PipelineInv
<1>4. CASE piping[l].at # "idle"
  <2>1. LaysDown(l, Down, d)
    BY <1>1, <1>d, <1>4, LeftIsLaidDown DEF EndPipeline
  <2> QED BY <1>1, <2>1, RestKeeps
<1> QED BY <1>3, <1>4

\* A step that raises: its worker goes on.
LEMMA GiveUpKeeps ==
  ASSUME PipelineAssumption, PipelineInv, NEW l \in AgentLoops, GiveUp(l)
  PROVE  PipelineInv'
<1>1. piping[l] \in Worker /\ piping[l].at # "idle" /\ PipelineTypeOK
  BY DEF PipelineInv, PipelineTypeOK, GiveUp
<1>2. PICK w : w = [piping[l] EXCEPT !.at = "idle", !.doc = NoDoc, !.text = Blank, !.next = 1]
  OBVIOUS
<1>3. w \in Worker /\ w.at = "idle" /\ w.doc = NoDoc /\ w.next = 1
  BY <1>1, <1>2, RestTypes
<1>4. piping' = [piping EXCEPT ![l] = w]
  BY <1>1, <1>2 DEF GiveUp, Rest, PipelineTypeOK
<1>5. /\ UNCHANGED <<subprocess, files, indexed, loopStarts, crossing>> /\ LeavesBehind(l)
      /\ \A k \in AgentLoops : noticing'[k] \in {{}, noticing[k]}
      /\ noticing' \in [AgentLoops -> SUBSET Docs]
  BY <1>1 DEF GiveUp, PipelineTypeOK
<1>6. LaysDown(l, w, piping[l].doc)
  BY <1>1, <1>3, <1>4, <1>5, LeftIsLaidDown
<1> QED BY <1>3, <1>6, RestKeeps

LEMMA RowKeeps ==
  ASSUME PipelineAssumption, PipelineInv, NEW l \in AgentLoops, InsertRow(l)
  PROVE  PipelineInv'
<1>p. PICK p, d : p = piping[l] /\ d = p.doc
  OBVIOUS
<1> DEFINE r == [by |-> l, text |-> p.text, chunk |-> p.next]
<1>0. /\ PipelineTypeOK /\ Stages /\ RowsGrow /\ p \in Worker /\ p.at = "cleared" /\ d # NoDoc
      /\ p.next \in 1..ChunkCount /\ ChunkCount \in Nat
  <2>1. p \in Worker /\ p.at = "cleared" /\ Stages
    BY <1>p DEF PipelineInv, PipelineTypeOK, InsertRow
  <2>2. d # NoDoc /\ p.next <= ChunkCount
    BY <1>p, <2>1 DEF Stages
  <2>3. p.next \in 1..ChunkCount + 1 /\ ChunkCount \in Nat
    BY <2>1 DEF Worker, PipelineAssumption
  <2> QED BY <2>1, <2>2, <2>3 DEF PipelineInv
<1>1. d \in Docs /\ p.text \in 0..Versions
  BY <1>0, <1>p DEF Worker
<1>2. /\ indexed' = [indexed EXCEPT ![d] = @ \cup {r}]
      /\ piping' = IF p.next = ChunkCount THEN Rest(l) ELSE [piping EXCEPT ![l].next = @ + 1]
      /\ UNCHANGED <<subprocess, files, noticing, loopStarts, crossing, broken>>
  BY <1>p DEF InsertRow
<1>3. /\ indexed' \in [Docs -> SUBSET [by: AgentLoops, text: 0..Versions, chunk: 1..ChunkCount]]
      /\ \A x \in Docs : indexed[x] \subseteq indexed'[x] /\ (x # d => indexed'[x] = indexed[x])
      /\ indexed'[d] = indexed[d] \cup {r}
  <2>1. r \in [by: AgentLoops, text: 0..Versions, chunk: 1..ChunkCount]
    BY <1>0, <1>1
  <2> HIDE DEF r
  <2> QED BY <1>0, <1>1, <1>2, <2>1 DEF PipelineTypeOK
<1>4. d \notin crossing => indexed'[d] = {[by |-> l, text |-> p.text, chunk |-> c] : c \in 1..p.next}
  <2> SUFFICES ASSUME d \notin crossing
               PROVE  indexed'[d] = {[by |-> l, text |-> p.text, chunk |-> c] : c \in 1..p.next}
    OBVIOUS
  <2>1. indexed[d] = {[by |-> l, text |-> p.text, chunk |-> c] : c \in 1..(p.next - 1)}
    BY <1>0, <1>p DEF RowsGrow, RowsOf, Rows
  <2>2. 1..p.next = (1..(p.next - 1)) \cup {p.next}
    BY <1>0
  <2> QED BY <1>3, <2>1, <2>2
<1>5. CASE p.next = ChunkCount
  <2>w. PICK w : w = [p EXCEPT !.at = "idle", !.doc = NoDoc, !.text = Blank, !.next = 1]
    OBVIOUS
  <2>1. w \in Worker /\ w.at = "idle" /\ w.doc = NoDoc /\ w.next = 1
    BY <1>0, <2>w, RestTypes
  <2>2. piping' = [piping EXCEPT ![l] = w]
    BY <1>2, <1>p, <1>5, <2>w DEF Rest
  <2>3. d \notin crossing => FoundWhole(d)'
    BY <1>1, <1>4, <1>5 DEF FoundWhole, Rows
  <2>4. indexed'[d] # {}
    BY <1>3
  <2> HIDE DEF r
  <2>5. /\ \A x \in Docs : x # d => indexed'[x] = indexed[x] /\ broken'[x] = broken[x]
        /\ broken' \in [Docs -> {"no", "unindexed", "partial"}]
        /\ \A k \in AgentLoops : noticing'[k] \in {{}, noticing[k]}
        /\ noticing' \in [AgentLoops -> SUBSET Docs]
    BY <1>0, <1>2, <1>3 DEF PipelineTypeOK
  <2>6. UNCHANGED <<subprocess, files, loopStarts, crossing>> /\ piping[l].at # "idle"
    BY <1>0, <1>2, <1>p
  <2>7. LaysDown(l, w, d)
    BY <1>p, <1>3, <2>1, <2>2, <2>3, <2>4, <2>5, <2>6 DEF LaysDown
  <2> QED BY <2>1, <2>7, RestKeeps
<1>6. CASE p.next # ChunkCount
  <2>w. PICK w : w = [p EXCEPT !.at = "cleared", !.next = p.next + 1]
    OBVIOUS
  <2>1. w \in Worker /\ w.at = "cleared" /\ w.doc = d /\ w.next = p.next + 1 /\ w.next <= ChunkCount /\ w.text = p.text
    <3>1. p.next + 1 \in 1..ChunkCount + 1 /\ p.next + 1 <= ChunkCount
      BY <1>0, <1>6
    <3>2. w \in Worker /\ w.at = "cleared" /\ w.doc = p.doc /\ w.next = p.next + 1 /\ w.text = p.text
      BY <1>0, <2>w, <3>1 DEF Worker
    <3> QED BY <1>p, <3>1, <3>2
  <2>2. piping' = [piping EXCEPT ![l] = w]
    <3>1. w = [p EXCEPT !.next = @ + 1]
      BY <1>0, <2>w DEF Worker
    <3> QED BY <1>0, <1>2, <1>p, <1>6, <3>1 DEF PipelineTypeOK
  <2>3. w.next - 1 = p.next
    BY <1>0, <2>1
  <2> HIDE DEF r
  <2>4. RowsOf(w, l) = {[by |-> l, text |-> p.text, chunk |-> c] : c \in 1..p.next}
    BY <2>1, <2>3 DEF RowsOf, Rows
  <2>5. /\ UNCHANGED <<subprocess, files, noticing, loopStarts, crossing, broken>> /\ piping[l].at # "idle"
        /\ d \notin crossing => indexed'[d] = RowsOf(w, l)
    BY <1>0, <1>2, <1>4, <1>p, <2>4
  <2> QED BY <1>p, <1>3, <2>1, <2>2, <2>5, WritesKeeps
<1> QED BY <1>5, <1>6

LEMMA ClearKeeps ==
  ASSUME PipelineAssumption, PipelineInv, NEW l \in AgentLoops, ClearRows(l)
  PROVE  PipelineInv'
<1>p. PICK p, d : p = piping[l] /\ d = p.doc
  OBVIOUS
<1>0. PipelineTypeOK /\ Stages /\ p \in Worker /\ p.at = "loaded" /\ p.next = 1 /\ d # NoDoc /\ d \in Docs
  <2>1. p \in Worker /\ p.at = "loaded" /\ Stages
    BY <1>p DEF PipelineInv, PipelineTypeOK, ClearRows
  <2>2. d # NoDoc /\ p.next = 1
    BY <1>p, <2>1 DEF Stages
  <2> QED BY <1>p, <2>1, <2>2 DEF PipelineInv, Worker
<1>1. UNCHANGED <<subprocess, files, indexed, noticing, loopStarts, crossing, broken>>
  BY DEF ClearRows
<1>2. CASE indexed[d] = {}
  <2>w. PICK w : w = [p EXCEPT !.at = "cleared", !.next = 1]
    OBVIOUS
  <2>1. w \in Worker /\ w.at = "cleared" /\ w.doc = d /\ w.next = 1 /\ 1 <= ChunkCount
    <3>1. 1 \in 1..ChunkCount + 1 /\ 1 <= ChunkCount
      BY DEF PipelineAssumption
    <3>2. w \in Worker /\ w.at = "cleared" /\ w.doc = p.doc /\ w.next = 1
      BY <1>0, <2>w, <3>1 DEF Worker
    <3> QED BY <1>p, <3>1, <3>2
  <2>2. piping' = [piping EXCEPT ![l] = w]
    <3>1. w = [p EXCEPT !.at = "cleared"]
      BY <1>0, <2>w DEF Worker
    <3> QED BY <1>p, <1>2, <3>1 DEF ClearRows, MayClear
  <2>3. indexed'[d] = RowsOf(w, l)
    BY <1>1, <1>2, <2>1 DEF RowsOf, Rows
  <2>4. /\ indexed' \in [Docs -> SUBSET [by: AgentLoops, text: 0..Versions, chunk: 1..ChunkCount]]
        /\ \A x \in Docs : indexed[x] \subseteq indexed'[x] /\ (x # d => indexed'[x] = indexed[x])
    BY <1>0, <1>1 DEF PipelineTypeOK
  <2>5. piping[l].at # "idle"
    BY <1>0, <1>p
  <2> QED BY <1>p, <1>1, <2>1, <2>2, <2>3, <2>4, <2>5, WritesKeeps
<1>3. CASE indexed[d] # {}
  <2>w. PICK w : w = [p EXCEPT !.at = "idle", !.doc = NoDoc, !.text = Blank, !.next = 1]
    OBVIOUS
  <2>1. w \in Worker /\ w.at = "idle" /\ w.doc = NoDoc /\ w.next = 1
    BY <1>0, <2>w, RestTypes
  <2>2. piping' = [piping EXCEPT ![l] = w]
    BY <1>p, <1>3, <2>w DEF ClearRows, MayClear, Rest
  <2>3. d \notin crossing => indexed'[d] = {} \/ broken'[d] = "partial" \/ FoundWhole(d)'
    <3>1. FoundWhole(d) => FoundWhole(d)'
      BY <1>1 DEF FoundWhole
    <3> QED BY <1>0, <1>p, <1>1, <3>1, RowsBefore
  <2>4. /\ \A x \in Docs : x # d => indexed'[x] = indexed[x] /\ broken'[x] = broken[x]
        /\ broken' \in [Docs -> {"no", "unindexed", "partial"}]
        /\ indexed' \in [Docs -> SUBSET [by: AgentLoops, text: 0..Versions, chunk: 1..ChunkCount]]
        /\ \A k \in AgentLoops : noticing'[k] \in {{}, noticing[k]}
        /\ noticing' \in [AgentLoops -> SUBSET Docs] /\ indexed'[d] # {}
        /\ UNCHANGED <<subprocess, files, loopStarts, crossing>> /\ piping[l].at # "idle"
    BY <1>0, <1>1, <1>3, <1>p DEF PipelineTypeOK
  <2>5. LaysDown(l, w, d)
    BY <1>p, <2>1, <2>2, <2>3, <2>4 DEF LaysDown
  <2> QED BY <2>1, <2>5, RestKeeps
<1> QED BY <1>2, <1>3

\* A pipeline that does not run has nothing in hand and nothing to do.
Asleep == \A l \in AgentLoops : ~piping[l].up => piping[l] = Down /\ noticing[l] = {}

LEMMA AsleepKeeps ==
  ASSUME PipelineTypeOK, Asleep, PipelineNext
  PROVE  Asleep'
<1>0. /\ piping \in [AgentLoops -> Worker] /\ noticing \in [AgentLoops -> SUBSET Docs]
      /\ Down.up = FALSE /\ Down.watching = FALSE /\ Down.at = "idle" /\ Down.sync = {} /\ Down.queue = <<>>
  BY DEF PipelineTypeOK, Down
<1>1. ASSUME NEW l \in AgentLoops, piping'[l].up, \A k \in AgentLoops : k # l => piping'[k] = piping[k],
             \A k \in AgentLoops : k # l => noticing'[k] = noticing[k]
      PROVE  Asleep'
  BY <1>1 DEF Asleep
<1>2. ASSUME NEW d \in Docs, WriteSource(d) PROVE Asleep'
  BY <1>0, <1>2 DEF Asleep, WriteSource
<1>3. ASSUME NEW l \in AgentLoops, EndPipeline(l) PROVE Asleep'
  BY <1>0, <1>3 DEF Asleep, EndPipeline
<1>4. ASSUME NEW l \in AgentLoops, StartPipeline(l) PROVE Asleep'
  <2>1. piping'[l].up /\ \A k \in AgentLoops : k # l => piping'[k] = piping[k]
    BY <1>0, <1>4 DEF StartPipeline, Down
  <2> QED BY <1>1, <1>4, <2>1 DEF StartPipeline
<1>5. ASSUME NEW l \in AgentLoops, piping[l].up,
             \/ StartWatching(l) \/ Convert(l) \/ WriteProcessed(l) \/ LoadConverted(l) \/ ClearRows(l) \/ InsertRow(l)
             \/ GiveUp(l)
      PROVE  Asleep'
  <2>1. noticing' = noticing
    BY <1>5 DEF StartWatching, Convert, WriteProcessed, LoadConverted, ClearRows, InsertRow, GiveUp, files
  <2>2. \A k \in AgentLoops : k # l => piping'[k] = piping[k]
    BY <1>0, <1>5 DEF StartWatching, Convert, WriteProcessed, LoadConverted, ClearRows, InsertRow, GiveUp, Rest, At
  <2>3. piping'[l].up
    <3>0. CASE StartWatching(l)
      BY <1>0, <1>5, <3>0 DEF StartWatching, Worker
    <3>1. CASE Convert(l)
      <4>1. \E d, t : piping' = [piping EXCEPT ![l].doc = d, ![l].at = "read", ![l].text = t, ![l].queue = Tail(@)]
        BY <3>1 DEF Convert
      <4> QED BY <1>0, <1>5, <4>1 DEF Worker
    <3>2. CASE WriteProcessed(l)
      <4>1. \E at : piping' = [piping EXCEPT ![l].at = at]
        BY <3>2 DEF WriteProcessed, At
      <4> QED BY <1>0, <1>5, <4>1 DEF Worker
    <3>3. CASE LoadConverted(l)
      BY <1>0, <1>5, <3>3 DEF LoadConverted, Rest, Worker
    <3>4. CASE ClearRows(l)
      BY <1>0, <1>5, <3>4 DEF ClearRows, Rest, Worker
    <3>5. CASE InsertRow(l)
      BY <1>0, <1>5, <3>5 DEF InsertRow, Rest, Worker
    <3>6. CASE GiveUp(l)
      BY <1>0, <1>5, <3>6 DEF GiveUp, Rest, Worker
    <3> QED BY <1>5, <3>0, <3>1, <3>2, <3>3, <3>4, <3>5, <3>6
  <2> QED BY <1>1, <2>1, <2>2, <2>3
<1>6. ASSUME NEW l \in AgentLoops, NEW d \in Docs, piping[l].up, Watch(l, d) PROVE Asleep'
  <2>1. \A k \in AgentLoops : k # l => noticing'[k] = noticing[k] /\ piping'[k] = piping[k]
    BY <1>0, <1>6 DEF Watch
  <2>2. piping'[l].up
    BY <1>0, <1>6 DEF Watch, Worker
  <2> QED BY <1>1, <2>1, <2>2
<1>7. ASSUME NEW l \in AgentLoops, NEW d \in Docs, piping[l].up, LoadProcessed(l, d) PROVE Asleep'
  <2>1. \A k \in AgentLoops : k # l => noticing'[k] = noticing[k] /\ piping'[k] = piping[k]
    BY <1>0, <1>7 DEF LoadProcessed
  <2>2. piping'[l].up
    <3>1. PICK s : s = [piping[l] EXCEPT !.sync = @ \ {d}]
      OBVIOUS
    <3>2. piping[l] \in Worker
      BY <1>0
    <3>3. s \in Worker /\ s.up
      BY <1>7, <3>1, <3>2 DEF Worker
    <3>4. CASE processed[d].meta = "whole"
      <4>1. piping' = [piping EXCEPT ![l] = [s EXCEPT !.at = "loaded", !.doc = d, !.text = processed[d].text]]
        BY <1>7, <3>1, <3>4 DEF LoadProcessed
      <4> QED BY <1>0, <3>3, <4>1 DEF Worker
    <3>5. CASE processed[d].meta # "whole"
      <4>1. piping' = [piping EXCEPT ![l] = s]
        BY <1>7, <3>1, <3>5 DEF LoadProcessed
      <4> QED BY <1>0, <3>3, <4>1
    <3> QED BY <3>4, <3>5
  <2> QED BY <1>1, <2>1, <2>2
<1>8. ASSUME NEW l \in AgentLoops, ~piping[l].up
      PROVE  /\ ~StartWatching(l) /\ ~Convert(l) /\ ~WriteProcessed(l) /\ ~LoadConverted(l) /\ ~ClearRows(l) /\ ~InsertRow(l)
             /\ ~GiveUp(l)
             /\ \A d \in Docs : ~Watch(l, d) /\ ~LoadProcessed(l, d)
  <2>1. piping[l].at = "idle" /\ piping[l].sync = {} /\ piping[l].queue = <<>> /\ noticing[l] = {}
    BY <1>0, <1>8 DEF Asleep
  <2> QED BY <1>8, <2>1
          DEF StartWatching, Convert, WriteProcessed, LoadConverted, ClearRows, InsertRow, GiveUp, Watch, LoadProcessed
<1> QED BY <1>2, <1>3, <1>4, <1>5, <1>6, <1>7, <1>8 DEF PipelineNext

\* The steps that take no document and leave none.
LEMMA WriteKeeps ==
  ASSUME PipelineAssumption, PipelineInv, NEW d \in Docs, WriteSource(d)
  PROVE  PipelineInv'
<1>0. PipelineTypeOK /\ Stages
  BY DEF PipelineInv
<1>1. /\ source' = [source EXCEPT ![d] = @ + 1] /\ source[d] \in 0..Versions /\ source[d] < Versions /\ Versions \in Nat
      /\ UNCHANGED <<subprocess, processed, indexed, piping, loopStarts, crossing, broken>>
      /\ noticing' \in [AgentLoops -> SUBSET Docs]
      /\ \A k \in AgentLoops : noticing'[k] \subseteq noticing[k] \cup {d}
  BY <1>0 DEF WriteSource, PipelineTypeOK, PipelineAssumption
<1>2. source[d] + 1 \in 0..Versions /\ source[d] + 1 # Blank
  BY <1>1 DEF Blank
<1>3. source' \in [Docs -> 0..Versions] /\ source'[d] # Blank /\ \A x \in Docs : x # d => source'[x] = source[x]
  BY <1>0, <1>1, <1>2 DEF PipelineTypeOK
<1>4. PipelineTypeOK'
  BY <1>0, <1>1, <1>3 DEF PipelineTypeOK
<1>5. \A k \in AgentLoops : \A x \in noticing'[k] : source'[x] # Blank
  BY <1>0, <1>1, <1>3 DEF Stages, PipelineTypeOK
<1> QED BY <1>1, <1>4, <1>5, HandsStay

LEMMA WatchKeeps ==
  ASSUME PipelineAssumption, PipelineInv, Asleep, NEW l \in AgentLoops,
         \/ \E d \in Docs : Watch(l, d)
         \/ StartPipeline(l) \/ StartWatching(l)
  PROVE  PipelineInv'
<1>0. PipelineTypeOK /\ Stages
  BY DEF PipelineInv
<1>2. ASSUME NEW d \in Docs, Watch(l, d) PROVE PipelineInv'
  <2>1. /\ d \in noticing[l] /\ noticing' = [noticing EXCEPT ![l] = @ \ {d}]
        /\ UNCHANGED <<subprocess, files, indexed, loopStarts, crossing, broken>>
    BY <1>2 DEF Watch
  <2>2. noticing' \in [AgentLoops -> SUBSET Docs] /\ \A k \in AgentLoops : noticing'[k] \subseteq noticing[k]
    BY <1>0, <2>1 DEF PipelineTypeOK
  <2>3. piping[l] \in Worker /\ <<d, source[d]>> \in Docs \X (1..Versions)
    BY <1>0, <2>1 DEF Stages, PipelineTypeOK, Blank, PipelineAssumption
  <2>4. PICK w : w = [piping[l] EXCEPT !.seen = @ \cup {<<d, source[d]>>}, !.queue = Append(@, d)]
    OBVIOUS
  <2>5. w \in Worker /\ w.at = piping[l].at /\ w.doc = piping[l].doc /\ w.text = piping[l].text /\ w.next = piping[l].next
    <3>1. piping[l].seen \cup {<<d, source[d]>>} \in SUBSET (Docs \X (1..Versions)) /\ Append(piping[l].queue, d) \in Seq(Docs)
      BY <2>3 DEF Worker
    <3> QED BY <2>3, <2>4, <3>1 DEF Worker
  <2>6. piping' = piping \/ piping' = [piping EXCEPT ![l] = w]
    BY <1>2, <2>4 DEF Watch
  <2>7. /\ piping' \in [AgentLoops -> Worker]
        /\ \A k \in AgentLoops : /\ piping'[k].at = piping[k].at /\ piping'[k].doc = piping[k].doc
                                 /\ piping'[k].text = piping[k].text /\ piping'[k].next = piping[k].next
    BY <1>0, <2>5, <2>6 DEF PipelineTypeOK
  <2>8. PipelineTypeOK'
    BY <1>0, <2>1, <2>2, <2>7 DEF PipelineTypeOK, files
  <2>9. \A k \in AgentLoops : \A x \in noticing'[k] : source'[x] # Blank
    BY <1>0, <2>1, <2>2 DEF Stages, files
  <2> QED BY <2>1, <2>7, <2>8, <2>9, HandsStay DEF files
<1>3. CASE StartPipeline(l)
  <2>0. PICK S : S = {d \in Docs : ~subprocess /\ processed[d].meta # "none"}
    OBVIOUS
  <2>1. PICK w : w = [Down EXCEPT !.up = TRUE, !.sync = S]
    OBVIOUS
  <2>2. w \in Worker /\ w.at = Down.at /\ w.doc = Down.doc /\ w.text = Down.text /\ w.next = Down.next
    <3>1. S \in SUBSET Docs
      BY <2>0, Zenon
    <3> QED BY <2>1, <3>1, DownTypes DEF Worker
  <2>3. /\ piping' = [piping EXCEPT ![l] = w] /\ ~piping[l].up /\ loopStarts < LoopStarts /\ loopStarts' = loopStarts + 1
        /\ UNCHANGED <<subprocess, files, indexed, noticing, crossing, broken>>
    <3>1. piping' = [piping EXCEPT ![l] = [Down EXCEPT !.up = TRUE, !.sync = S]]
      BY <1>3, <2>0, Zenon DEF StartPipeline
    <3>2. /\ ~piping[l].up /\ loopStarts < LoopStarts /\ loopStarts' = loopStarts + 1
          /\ UNCHANGED <<subprocess, files, indexed, noticing, crossing, broken>>
      BY <1>3, Zenon DEF StartPipeline
    <3> QED BY <2>1, <3>1, <3>2
  <2>4. loopStarts' \in 0..LoopStarts
    BY <1>0, <2>3 DEF PipelineTypeOK, PipelineAssumption
  <2>5. piping' \in [AgentLoops -> Worker] /\ piping'[l] = w /\ \A k \in AgentLoops : k # l => piping'[k] = piping[k]
    BY <1>0, <2>2, <2>3, WorkerSteps
  <2>6. \A k \in AgentLoops : /\ piping'[k].at = piping[k].at /\ piping'[k].doc = piping[k].doc
                              /\ piping'[k].text = piping[k].text /\ piping'[k].next = piping[k].next
    <3>1. piping[l] = Down
      BY <2>3 DEF Asleep
    <3> QED BY <2>2, <2>5, <3>1
  <2>7. PipelineTypeOK'
    BY <1>0, <2>3, <2>4, <2>5 DEF PipelineTypeOK, files
  <2>8. \A k \in AgentLoops : \A x \in noticing'[k] : source'[x] # Blank
    BY <1>0, <2>3 DEF Stages, files
  <2> QED BY <2>3, <2>6, <2>7, <2>8, HandsStay DEF files
<1>4. CASE StartWatching(l)
  <2>1. PICK w : w = [piping[l] EXCEPT !.watching = TRUE]
    OBVIOUS
  <2>2. w \in Worker /\ w.at = piping[l].at /\ w.doc = piping[l].doc /\ w.text = piping[l].text /\ w.next = piping[l].next
    <3>1. piping[l] \in Worker
      BY <1>0 DEF PipelineTypeOK
    <3> QED BY <2>1, <3>1 DEF Worker
  <2>3. /\ piping' = [piping EXCEPT ![l] = w]
        /\ UNCHANGED <<subprocess, files, indexed, noticing, loopStarts, crossing, broken>>
    BY <1>4, <2>1 DEF StartWatching
  <2>4. piping' \in [AgentLoops -> Worker] /\ piping'[l] = w /\ \A k \in AgentLoops : k # l => piping'[k] = piping[k]
    BY <1>0, <2>2, <2>3, WorkerSteps
  <2>5. PipelineTypeOK' /\ \A k \in AgentLoops : \A x \in noticing'[k] : source'[x] # Blank
    BY <1>0, <2>3, <2>4 DEF PipelineTypeOK, Stages, files
  <2>6. \A k \in AgentLoops : /\ piping'[k].at = piping[k].at /\ piping'[k].doc = piping[k].doc
                              /\ piping'[k].text = piping[k].text /\ piping'[k].next = piping[k].next
    BY <2>2, <2>4
  <2> QED BY <2>3, <2>5, <2>6, HandsStay DEF files
<1> QED BY <1>2, <1>3, <1>4

LEMMA ConvertKeeps ==
  ASSUME PipelineAssumption, PipelineInv, NEW l \in AgentLoops, Convert(l)
  PROVE  PipelineInv'
<1>p. PICK p, d : p = piping[l] /\ d = Head(p.queue)
  OBVIOUS
<1>0. PipelineTypeOK /\ p \in Worker /\ p.next = 1 /\ p.queue # <<>> /\ p.at = "idle"
  <2>1. p.at = "idle" /\ p.queue # <<>>
    BY <1>p DEF Convert
  <2> QED BY <1>p, <2>1 DEF PipelineInv, PipelineTypeOK, Stages
<1>1. p.queue \in Seq(Docs)
  BY <1>0 DEF Worker
<1>2. d \in Docs /\ Tail(p.queue) \in Seq(Docs)
  BY <1>0, <1>p, <1>1
<1>3. source[d] \in 0..Versions
  BY <1>0, <1>2 DEF PipelineTypeOK
<1>w. PICK w : w = [p EXCEPT !.doc = d, !.at = "read", !.text = source[d], !.queue = Tail(@)]
  OBVIOUS
<1>4. w \in Worker /\ w.at = "read" /\ w.doc = d /\ w.next = 1
  BY <1>0, <1>2, <1>3, <1>w DEF Worker
<1>5. piping' = [piping EXCEPT ![l] = w]
  <2>1. piping' = [piping EXCEPT ![l].doc = d, ![l].at = "read", ![l].text = source[d], ![l].queue = Tail(@)]
    BY <1>p DEF Convert
  <2> QED BY <2>1, <1>p, <1>w
<1>6. TakeUp(l, d) /\ UNCHANGED <<subprocess, files, indexed, noticing, loopStarts>>
  BY <1>p DEF Convert
<1>7. piping[l].at = "idle" /\ w.at \in {"read", "loaded"}
  BY <1>0, <1>p, <1>4
<1> QED BY <1>2, <1>4, <1>5, <1>6, <1>7, TakeUpKeeps

LEMMA SyncKeeps ==
  ASSUME PipelineAssumption, PipelineInv, NEW l \in AgentLoops, NEW d \in Docs, LoadProcessed(l, d)
  PROVE  PipelineInv'
<1>p. PICK p, s : p = piping[l] /\ s = [p EXCEPT !.sync = @ \ {d}]
  OBVIOUS
<1>0. PipelineTypeOK /\ Stages /\ p \in Worker /\ p.next = 1 /\ p.at = "idle"
  <2>1. p.at = "idle"
    BY <1>p DEF LoadProcessed
  <2> QED BY <1>p, <2>1 DEF PipelineInv, PipelineTypeOK, Stages
<1>1. s \in Worker /\ s.at = "idle" /\ s.doc = p.doc /\ s.text = p.text /\ s.next = 1
  BY <1>0, <1>p DEF Worker
<1>2. CASE processed[d].meta = "whole"
  <2>w. PICK w : w = [s EXCEPT !.at = "loaded", !.doc = d, !.text = processed[d].text]
    OBVIOUS
  <2>1. processed[d].text \in 0..Versions
    BY <1>0 DEF PipelineTypeOK
  <2>2. w \in Worker /\ w.at = "loaded" /\ w.doc = d /\ w.next = 1
    BY <1>1, <2>1, <2>w DEF Worker
  <2>3. /\ piping' = [piping EXCEPT ![l] = w] /\ TakeUp(l, d)
        /\ UNCHANGED <<subprocess, files, indexed, noticing, loopStarts>>
    BY <1>2, <1>p, <2>w DEF LoadProcessed
  <2>4. piping[l].at = "idle" /\ w.at \in {"read", "loaded"}
    BY <1>0, <1>p, <2>2
  <2> QED BY <2>2, <2>3, <2>4, TakeUpKeeps
<1>3. CASE processed[d].meta # "whole"
  <2>1. /\ piping' = [piping EXCEPT ![l] = s]
        /\ UNCHANGED <<subprocess, files, indexed, noticing, loopStarts, crossing, broken>>
    BY <1>3, <1>p DEF LoadProcessed
  <2>2. piping' \in [AgentLoops -> Worker] /\ piping'[l] = s /\ \A k \in AgentLoops : k # l => piping'[k] = piping[k]
    BY <1>0, <1>1, <2>1, WorkerSteps
  <2>3. PipelineTypeOK' /\ \A k \in AgentLoops : \A x \in noticing'[k] : source'[x] # Blank
    BY <1>0, <2>1, <2>2 DEF PipelineTypeOK, Stages, files
  <2>4. \A k \in AgentLoops : /\ piping'[k].at = piping[k].at /\ piping'[k].doc = piping[k].doc
                              /\ piping'[k].text = piping[k].text /\ piping'[k].next = piping[k].next
    BY <1>0, <1>1, <1>p, <2>2
  <2> QED BY <2>1, <2>3, <2>4, HandsStay DEF files
<1> QED BY <1>2, <1>3

LEMMA ProcessedKeeps ==
  ASSUME PipelineAssumption, PipelineInv, NEW l \in AgentLoops, WriteProcessed(l)
  PROVE  PipelineInv'
<1>p. PICK p, d : p = piping[l] /\ d = p.doc
  OBVIOUS
<1>1. p.at \in {"read", "torn", "emptied"}
  BY <1>p DEF WriteProcessed
<1>0. PipelineTypeOK /\ p \in Worker /\ p.next = 1 /\ d \in Docs /\ p.text \in 0..Versions
  <2>1. p \in Worker /\ p.next = 1 /\ d # NoDoc
    BY <1>p, <1>1 DEF PipelineInv, PipelineTypeOK, Stages
  <2> QED BY <1>p, <2>1 DEF PipelineInv, Worker
<1>2. /\ \E at \in {"torn", "emptied", "written"} : piping' = [piping EXCEPT ![l].at = at]
      /\ \/ processed' = [processed EXCEPT ![d].meta = "torn"]
         \/ processed' = [processed EXCEPT ![d] = [meta |-> "whole", text |-> Blank]]
         \/ processed' = [processed EXCEPT ![d].text = p.text]
      /\ UNCHANGED <<subprocess, source, indexed, noticing, loopStarts, crossing, broken>>
  BY <1>p DEF WriteProcessed, At
<1>a. PICK at \in {"torn", "emptied", "written"} : piping' = [piping EXCEPT ![l].at = at]
  BY <1>2
<1>w. PICK w : w = [p EXCEPT !.at = at]
  OBVIOUS
<1>3. w \in Worker /\ w.at = at /\ w.doc = d /\ w.next = 1
  BY <1>0, <1>p, <1>w DEF Worker
<1>4. piping' = [piping EXCEPT ![l] = w]
  BY <1>a, <1>p, <1>w
<1>5. /\ processed' \in [Docs -> [meta: {"none", "torn", "whole"}, text: 0..Versions]]
      /\ \A x \in Docs : x # d => processed'[x] = processed[x]
  <2>0. processed \in [Docs -> [meta: {"none", "torn", "whole"}, text: 0..Versions]] /\ Blank \in 0..Versions
    BY <1>0 DEF PipelineTypeOK, PipelineAssumption, Blank
  <2>1. CASE processed' = [processed EXCEPT ![d].meta = "torn"]
    <3>1. [processed[d] EXCEPT !.meta = "torn"] \in [meta: {"none", "torn", "whole"}, text: 0..Versions]
      BY <1>0, <2>0
    <3> QED BY <1>0, <2>0, <2>1, <3>1
  <2>2. CASE processed' = [processed EXCEPT ![d] = [meta |-> "whole", text |-> Blank]]
    BY <1>0, <2>0, <2>2
  <2>3. CASE processed' = [processed EXCEPT ![d].text = p.text]
    <3>1. [processed[d] EXCEPT !.text = p.text] \in [meta: {"none", "torn", "whole"}, text: 0..Versions]
      BY <1>0, <2>0
    <3> QED BY <1>0, <2>0, <2>3, <3>1
  <2> QED BY <1>2, <2>1, <2>2, <2>3
<1>6. piping[l].at \notin {"idle", "cleared"} /\ w.at \notin {"idle", "cleared"}
  BY <1>1, <1>p, <1>3
<1> QED BY <1>2, <1>p, <1>3, <1>4, <1>5, <1>6, GoesOnKeeps

LEMMA ConvertedKeeps ==
  ASSUME PipelineAssumption, PipelineInv, NEW l \in AgentLoops, LoadConverted(l)
  PROVE  PipelineInv'
<1>p. PICK p, d : p = piping[l] /\ d = p.doc
  OBVIOUS
<1>0. PipelineTypeOK /\ Stages /\ p \in Worker /\ p.at = "written" /\ p.next = 1 /\ d \in Docs
  <2>1. p \in Worker /\ p.at = "written" /\ Stages
    BY <1>p DEF PipelineInv, PipelineTypeOK, LoadConverted
  <2>2. d # NoDoc /\ p.next = 1
    BY <1>p, <2>1 DEF Stages
  <2> QED BY <1>p, <2>1, <2>2 DEF PipelineInv, Worker
<1>1. UNCHANGED <<subprocess, files, indexed, noticing, loopStarts, crossing, broken>>
  BY DEF LoadConverted
<1>2. CASE FindsMarkdown /\ processed[d].meta = "whole"
  <2>w. PICK w : w = [p EXCEPT !.at = "loaded", !.text = processed[d].text]
    OBVIOUS
  <2>1. processed[d].text \in 0..Versions
    BY <1>0 DEF PipelineTypeOK
  <2>2. w \in Worker /\ w.at = "loaded" /\ w.doc = d /\ w.next = 1
    BY <1>0, <1>p, <2>1, <2>w DEF Worker
  <2>3. piping' = [piping EXCEPT ![l] = w]
    <3>1. piping' = [piping EXCEPT ![l].at = "loaded", ![l].text = processed[d].text]
      BY <1>2, <1>p DEF LoadConverted
    <3> QED BY <3>1, <1>p, <2>w
  <2>4. piping[l].at \notin {"idle", "cleared"} /\ w.at \notin {"idle", "cleared"}
    BY <1>0, <1>p, <2>2
  <2>5. /\ processed' \in [Docs -> [meta: {"none", "torn", "whole"}, text: 0..Versions]]
        /\ \A x \in Docs : x # d => processed'[x] = processed[x]
        /\ UNCHANGED <<subprocess, source, indexed, noticing, loopStarts, crossing, broken>>
    BY <1>0, <1>1 DEF PipelineTypeOK, files
  <2> QED BY <1>p, <2>2, <2>3, <2>4, <2>5, GoesOnKeeps
<1>3. CASE ~(FindsMarkdown /\ processed[d].meta = "whole")
  <2>w. PICK w : w = [p EXCEPT !.at = "idle", !.doc = NoDoc, !.text = Blank, !.next = 1]
    OBVIOUS
  <2>1. w \in Worker /\ w.at = "idle" /\ w.doc = NoDoc /\ w.next = 1
    BY <1>0, <2>w, RestTypes
  <2>2. piping' = [piping EXCEPT ![l] = w]
    BY <1>p, <1>3, <2>w DEF LoadConverted, Rest
  <2>3. d \notin crossing => indexed'[d] = {} \/ broken'[d] = "partial" \/ FoundWhole(d)'
    <3>1. FoundWhole(d) => FoundWhole(d)'
      BY <1>1 DEF FoundWhole
    <3> QED BY <1>0, <1>p, <1>1, <3>1, RowsBefore
  <2>4. /\ \A x \in Docs : x # d => indexed'[x] = indexed[x] /\ broken'[x] = broken[x]
        /\ broken' \in [Docs -> {"no", "unindexed", "partial"}]
        /\ indexed' \in [Docs -> SUBSET [by: AgentLoops, text: 0..Versions, chunk: 1..ChunkCount]]
        /\ \A k \in AgentLoops : noticing'[k] \in {{}, noticing[k]}
        /\ noticing' \in [AgentLoops -> SUBSET Docs]
        /\ UNCHANGED <<subprocess, files, loopStarts, crossing>> /\ piping[l].at # "idle"
    BY <1>0, <1>1, <1>p DEF PipelineTypeOK
  <2>5. ~(~subprocess /\ processed[d].meta = "whole")
    BY <1>3 DEF FindsMarkdown
  <2>6. LaysDown(l, w, d)
    BY <1>p, <2>1, <2>2, <2>3, <2>4, <2>5 DEF LaysDown
  <2> QED BY <2>1, <2>6, RestKeeps
<1> QED BY <1>2, <1>3

LEMMA PipelineNextKeeps ==
  ASSUME PipelineAssumption, PipelineInv, Asleep, [PipelineNext]_pipelineVars
  PROVE  PipelineInv' /\ Asleep'
<1>1. CASE PipelineNext
  <2>1. Asleep'
    BY <1>1, AsleepKeeps DEF PipelineInv
  <2>2. ASSUME NEW l \in AgentLoops,
               \/ EndPipeline(l) \/ Convert(l) \/ WriteProcessed(l) \/ LoadConverted(l) \/ ClearRows(l) \/ InsertRow(l)
               \/ GiveUp(l)
               \/ \E d \in Docs : LoadProcessed(l, d)
        PROVE  PipelineInv'
    BY <2>2, EndKeeps, GiveUpKeeps, ConvertKeeps, ProcessedKeeps, ConvertedKeeps, ClearKeeps, RowKeeps, SyncKeeps
  <2>3. ASSUME NEW l \in AgentLoops,
               (\E d \in Docs : Watch(l, d)) \/ StartPipeline(l) \/ StartWatching(l)
        PROVE  PipelineInv'
    BY <2>3, WatchKeeps
  <2>4. ASSUME NEW d \in Docs, WriteSource(d) PROVE PipelineInv'
    BY <2>4, WriteKeeps
  <2> QED BY <1>1, <2>1, <2>2, <2>3, <2>4 DEF PipelineNext
<1>2. CASE UNCHANGED pipelineVars
  <2>1. PipelineTypeOK' /\ Asleep'
    BY <1>2 DEF PipelineInv, PipelineTypeOK, Asleep, pipelineVars, files
  <2>2. \A k \in AgentLoops : \A x \in noticing'[k] : source'[x] # Blank
    BY <1>2 DEF PipelineInv, Stages, pipelineVars, files
  <2> QED BY <1>2, <2>1, <2>2, HandsStay DEF pipelineVars, files
<1> QED BY <1>1, <1>2

\* What there is of a document is the beginning of one version of it.
InPart(found) ==
  found = {} \/ \E l \in AgentLoops, v \in 0..Versions, n \in 1..ChunkCount : found = Rows(l, v, n)

RowsInPart == \A d \in Docs \ crossing : InPart(indexed[d])

LEMMA PartsKeep ==
  ASSUME PipelineAssumption, PipelineInv, RowsInPart, [PipelineNext]_pipelineVars
  PROVE  RowsInPart'
<1>1. crossing \subseteq crossing'
  BY DEF PipelineNext, pipelineVars, WriteSource, StartPipeline, StartWatching, EndPipeline, Convert,
         WriteProcessed, LoadConverted, ClearRows, InsertRow, GiveUp, Watch, LoadProcessed, TakeUp
<1>2. CASE UNCHANGED indexed
  BY <1>1, <1>2 DEF RowsInPart, InPart
<1>3. ASSUME NEW l \in AgentLoops, InsertRow(l)
      PROVE  RowsInPart'
  <2>1. PICK p, d : p = piping[l] /\ d = p.doc
    OBVIOUS
  <2>2. /\ PipelineTypeOK /\ Stages /\ RowsGrow /\ p \in Worker /\ p.at = "cleared" /\ d # NoDoc
        /\ ChunkCount \in Nat /\ p.next <= ChunkCount
    BY <1>3, <2>1 DEF PipelineInv, PipelineTypeOK, InsertRow, Stages, PipelineAssumption
  <2>3. d \in Docs /\ p.text \in 0..Versions /\ p.next \in 1..ChunkCount
    BY <2>1, <2>2 DEF Worker
  <2>4. PICK r : r = [by |-> l, text |-> p.text, chunk |-> p.next]
    OBVIOUS
  <2>5. indexed' = [indexed EXCEPT ![d] = indexed[d] \cup {r}] /\ UNCHANGED crossing
    BY <1>3, <2>1, <2>4 DEF InsertRow
  <2>6. indexed'[d] = indexed[d] \cup {r} /\ \A x \in Docs \ {d} : indexed'[x] = indexed[x]
    BY <2>2, <2>3, <2>5 DEF PipelineTypeOK
  <2>7. d \notin crossing => InPart(indexed'[d])
    <3>1. SUFFICES ASSUME d \notin crossing  PROVE InPart(indexed'[d])  OBVIOUS
    <3>2. indexed[d] = {[by |-> l, text |-> p.text, chunk |-> c] : c \in 1..(p.next - 1)}
      BY <2>1, <2>2, <3>1 DEF RowsGrow, RowsOf, Rows
    <3>3. 1..p.next = (1..(p.next - 1)) \cup {p.next}
      BY <2>3
    <3>4. indexed'[d] = {[by |-> l, text |-> p.text, chunk |-> c] : c \in 1..p.next}
      BY <2>4, <2>6, <3>2, <3>3
    <3>5. indexed'[d] = Rows(l, p.text, p.next)
      BY <3>4 DEF Rows
    <3> QED BY <2>3, <3>5 DEF InPart
  <2> QED BY <2>5, <2>6, <2>7 DEF RowsInPart, InPart
<1>4. UNCHANGED indexed \/ \E l \in AgentLoops : InsertRow(l)
  BY DEF PipelineNext, pipelineVars, WriteSource, StartPipeline, StartWatching, EndPipeline, Convert,
         WriteProcessed, LoadConverted, ClearRows, GiveUp, Watch, LoadProcessed
<1> QED BY <1>2, <1>3, <1>4

LEMMA PipelinePromises ==
  ASSUME PipelineInv, RowsInPart
  PROVE  IndexIsWhole
<1>1. \A d \in Docs : Writes(d) => InHand(d)
  BY DEF Writes, InHand
<1>2. \A d \in Docs \ crossing : indexed[d] = {} \/ FoundInPart(d)
  BY DEF RowsInPart, InPart, FoundInPart
<1> QED BY <1>1, <1>2 DEF PipelineInv, RowsWhole, ConvertedFound, IndexIsWhole

\* With the threads, whatever is converted is found.  The index never mixes two versions
\* of a document that no two pipelines had in hand, whichever steps fail; and when it is
\* not being indexed it is there as a whole and once, unless its pipeline ended, or the
\* database failed, between two of its chunks.
THEOREM IndexStaysWhole == PipelineSpec => []IndexIsWhole
<1>1. PipelineInit => PipelineInv /\ Asleep /\ RowsInPart
  <2>1. PipelineInit => Asleep
    BY DEF PipelineInit, Asleep
  <2>2. PipelineInit => RowsInPart
    BY DEF PipelineInit, RowsInPart, InPart
  <2> QED BY <2>1, <2>2, PipelineAssumption, PipelineInitial
<1>2. PipelineInv /\ Asleep /\ RowsInPart /\ [PipelineNext]_pipelineVars
        => PipelineInv' /\ Asleep' /\ RowsInPart'
  BY PipelineAssumption, PipelineNextKeeps, PartsKeep
<1>3. PipelineInv /\ RowsInPart => IndexIsWhole
  BY PipelinePromises
<1> QED BY <1>1, <1>2, <1>3, PTL DEF PipelineSpec

-------------------------------------------------------------------------------
(* The operator's overview.                                                   *)

Providers == {ProviderOf[p] : p \in Profiles}
PlainCodes == {"AUTH_PROFILES_DOWN", "AUTH_PROFILES_DEGRADED", "CHANNELS_UNAVAILABLE_ALL",
               "CHANNELS_UNAVAILABLE_PARTIAL", "CONTROL_PLANE_HEARTBEAT_BACKOFF",
               "CONTROL_PLANE_CLAIM_BACKOFF", "CONTROL_PLANE_WORKER_STALE",
               "CRON_SCHEDULER_STALLED"}
ProviderAlerts(code) == {[code |-> code, provider |-> v] : v \in Providers}
PlainAlerts == {Alert(code) : code \in PlainCodes}
AllAlerts ==
  PlainAlerts \cup ProviderAlerts("AUTH_PROVIDER_DOWN") \cup ProviderAlerts("AUTH_PROVIDER_DEGRADED")

Spells == [alert: AllAlerts, first: Nat, at: Nat]

WorkerTypes ==
  /\ worker = [running |-> worker.running, updated |-> worker.updated, backoff |-> worker.backoff]
  /\ worker.backoff \subseteq Backoffs

\* What is kept of the alerts are instants that have passed.
AlertTypes ==
  /\ clock \in Nat /\ clock > 0
  /\ WorkerTypes
  /\ active \in [DOMAIN active -> 1..clock]
  /\ DOMAIN active \subseteq AllAlerts
  /\ recent \in Seq(Spells)
  /\ \A i \in 1..Len(recent) : recent[i].at <= clock

\* An alert that no failing store has touched is remembered as it was shown.
ShownIsActive ==
  /\ DOMAIN began = shown
  /\ \A k \in (shown \cup DOMAIN active) \ doubt : k \in shown /\ k \in DOMAIN active
  /\ \A k \in shown \ doubt : active[k] = began[k]

SpellsAreApart ==
  \A i, j \in 1..Len(recent) :
    i < j /\ recent[i].alert = recent[j].alert => recent[j].at <= recent[i].first

SpellsAreOver ==
  \A i \in 1..Len(recent) :
    recent[i].alert \in DOMAIN active => recent[i].at <= active[recent[i].alert]

AlertInv == AlertTypes /\ ShownIsActive /\ SpellsAreApart /\ SpellsAreOver

LEMMA FiniteImage ==
  ASSUME NEW S, NEW T, NEW f \in [S -> T], IsFiniteSet(S), \A y \in T : \E x \in S : f[x] = y
  PROVE  IsFiniteSet(T)
<1>1. f \in Surjection(S, T)  BY DEF Surjection
<1> QED  BY <1>1, FS_Surjection

\* There are only so many alerts.
LEMMA AlertsAreFinite ==
  ASSUME AlertAssumption
  PROVE  IsFiniteSet(AllAlerts)
<1>1. IsFiniteSet(Providers)
  <2> DEFINE f == [p \in Profiles |-> ProviderOf[p]]
  <2>1. f \in [Profiles -> Providers] /\ \A y \in Providers : \E p \in Profiles : f[p] = y
    BY DEF Providers
  <2> HIDE DEF f
  <2> QED  BY <2>1, FiniteImage DEF AlertAssumption
<1>2. ASSUME NEW code
      PROVE  IsFiniteSet(ProviderAlerts(code))
  <2> DEFINE f == [v \in Providers |-> [code |-> code, provider |-> v]]
  <2>1. f \in [Providers -> ProviderAlerts(code)]
        /\ \A y \in ProviderAlerts(code) : \E v \in Providers : f[v] = y
    BY DEF ProviderAlerts
  <2> HIDE DEF f
  <2> QED  BY <1>1, <2>1, FiniteImage
<1>3. IsFiniteSet(PlainCodes)
  <2> DEFINE f == [i \in 1..8 |->
        IF i = 1 THEN "AUTH_PROFILES_DOWN" ELSE IF i = 2 THEN "AUTH_PROFILES_DEGRADED"
        ELSE IF i = 3 THEN "CHANNELS_UNAVAILABLE_ALL"
        ELSE IF i = 4 THEN "CHANNELS_UNAVAILABLE_PARTIAL"
        ELSE IF i = 5 THEN "CONTROL_PLANE_HEARTBEAT_BACKOFF"
        ELSE IF i = 6 THEN "CONTROL_PLANE_CLAIM_BACKOFF"
        ELSE IF i = 7 THEN "CONTROL_PLANE_WORKER_STALE" ELSE "CRON_SCHEDULER_STALLED"]
  <2>1. f \in [1..8 -> PlainCodes]  BY DEF PlainCodes
  <2>2. \A y \in PlainCodes : \E i \in 1..8 : f[i] = y
    <3>1. /\ f[1] = "AUTH_PROFILES_DOWN" /\ f[2] = "AUTH_PROFILES_DEGRADED"
          /\ f[3] = "CHANNELS_UNAVAILABLE_ALL" /\ f[4] = "CHANNELS_UNAVAILABLE_PARTIAL"
          /\ f[5] = "CONTROL_PLANE_HEARTBEAT_BACKOFF" /\ f[6] = "CONTROL_PLANE_CLAIM_BACKOFF"
          /\ f[7] = "CONTROL_PLANE_WORKER_STALE" /\ f[8] = "CRON_SCHEDULER_STALLED"
      OBVIOUS
    <3> HIDE DEF f
    <3>2. {1, 2, 3, 4, 5, 6, 7, 8} \subseteq 1..8  OBVIOUS
    <3> QED  BY <3>1, <3>2 DEF PlainCodes
  <2> HIDE DEF f
  <2>3. IsFiniteSet(1..8)
    <3>1. \A a, b \in Int : IsFiniteSet(a..b)  BY FS_Interval
    <3>2. 1 \in Int /\ 8 \in Int  OBVIOUS
    <3> QED  BY <3>1, <3>2, Zenon
  <2> QED  BY <2>1, <2>2, <2>3, FiniteImage
<1>4. IsFiniteSet(PlainAlerts)
  <2> DEFINE f == [c \in PlainCodes |-> Alert(c)]
  <2>1. f \in [PlainCodes -> PlainAlerts] /\ \A y \in PlainAlerts : \E c \in PlainCodes : f[c] = y
    BY DEF PlainAlerts
  <2> HIDE DEF f
  <2> QED  BY <1>3, <2>1, FiniteImage
<1> QED  BY <1>2, <1>4, FS_Union DEF AllAlerts

LEMMA RaisedAreAlerts ==
  ASSUME worker.backoff \subseteq Backoffs, NEW known \in BOOLEAN
  PROVE  Raised(known) \subseteq AllAlerts
<1>1. AuthAlerts \subseteq AllAlerts
  BY DEF AuthAlerts, AllAlerts, PlainAlerts, PlainCodes, ProviderAlerts, Providers, Alert
<1>2. ChannelAlerts \subseteq PlainAlerts
  BY DEF ChannelAlerts, PlainAlerts, PlainCodes
<1>3. WorkerAlerts \subseteq PlainAlerts
  BY DEF WorkerAlerts, PlainAlerts, PlainCodes, Backoffs
<1>4. Alert("CRON_SCHEDULER_STALLED") \in PlainAlerts
  BY DEF PlainAlerts, PlainCodes
<1> QED  BY <1>1, <1>2, <1>3, <1>4 DEF Raised, AllAlerts

\* Every alert's action is one that the validation accepts.
Words == {"bot", "worker", "--run-once", "channels", "status", "--server", "url"}

LEMMA AttachedIsValid ==
  ASSUME NEW code
  PROVE  Valid(code, Attached(code))
<1>1. PICK expected : expected = ActionOf(code)  OBVIOUS
<1>2. /\ \/ expected.args = <<>> \/ expected.args = <<"bot", "worker">>
         \/ expected.args = <<"bot", "worker", "--run-once">>
         \/ expected.args = <<"channels", "status">>
      /\ expected = [type |-> expected.type, at |-> expected.at, args |-> expected.args]
  <2>1. CASE code \in Backoffs  BY <1>1, <2>1 DEF ActionOf, Command
  <2>2. CASE code \notin Backoffs /\ code = "CONTROL_PLANE_WORKER_STALE"
    BY <1>1, <2>2 DEF ActionOf, Command
  <2>3. CASE /\ code \notin Backoffs /\ code # "CONTROL_PLANE_WORKER_STALE"
             /\ code \in {"CHANNELS_UNAVAILABLE_ALL", "CHANNELS_UNAVAILABLE_PARTIAL"}
    BY <1>1, <2>3 DEF ActionOf, Command
  <2>4. CASE code \notin Backoffs \cup {"CONTROL_PLANE_WORKER_STALE",
                                      "CHANNELS_UNAVAILABLE_ALL", "CHANNELS_UNAVAILABLE_PARTIAL"}
    BY <1>1, <2>4 DEF ActionOf, Command
  <2> QED  BY <2>1, <2>2, <2>3, <2>4
<1>3. expected.args \in Seq(Words)
  <2>1. <<>> \in Seq(Words) /\ <<"bot", "worker">> \in Seq(Words)
        /\ <<"bot", "worker", "--run-once">> \in Seq(Words) /\ <<"channels", "status">> \in Seq(Words)
    BY DEF Words
  <2> QED  BY <1>2, <2>1
<1>4. CASE code \notin Backoffs \cup {"CONTROL_PLANE_WORKER_STALE"}
  <2>1. Attached(code) = expected  BY <1>1, <1>4 DEF Attached
  <2>2. IsPrefix(expected.args, expected.args)  BY <1>3 DEF IsPrefix
  <2>3. SubSeq(expected.args, Len(expected.args) + 1, Len(expected.args)) = <<>>  BY <1>3
  <2>4. ExtrasAllowed(<<>>)  BY DEF ExtrasAllowed
  <2> QED  BY <1>1, <2>1, <2>2, <2>3, <2>4 DEF Valid
<1>5. CASE code \in Backoffs \cup {"CONTROL_PLANE_WORKER_STALE"}
  <2>1. PICK a : a = expected.args  OBVIOUS
  <2>2. PICK long : long = a \o <<"--server", "url">>  OBVIOUS
  <2>3. Attached(code) = [expected EXCEPT !.args = long]  BY <1>1, <1>5, <2>1, <2>2 DEF Attached
  <2>4. /\ Attached(code).type = expected.type /\ Attached(code).at = expected.at
        /\ Attached(code).args = long
    BY <1>2, <2>3
  <2>5. a \in Seq(Words) /\ Len(a) \in Nat  BY <1>3, <2>1
  <2>6. long \in Seq(Words) /\ Len(long) = Len(a) + 2  BY <2>2, <2>5 DEF Words
  <2>7. \A i \in 1..Len(a) : long[i] = a[i]  BY <2>2, <2>5
  <2>8. long[Len(a) + 1] = "--server" /\ long[Len(a) + 2] = "url"  BY <2>2, <2>5
  <2>9. IsPrefix(a, long)  BY <2>5, <2>6, <2>7 DEF IsPrefix
  <2>10. PICK extras : extras = SubSeq(long, Len(a) + 1, Len(long))  OBVIOUS
  <2>11. Len(extras) = 2 /\ extras[1] = "--server"  BY <2>5, <2>6, <2>8, <2>10
  <2>12. ExtrasAllowed(extras)  BY <2>11 DEF ExtrasAllowed
  <2> QED  BY <1>1, <2>1, <2>4, <2>9, <2>10, <2>12 DEF Valid
<1> QED  BY <1>4, <1>5
LEMMA AlertsInitial ==
  ASSUME AlertAssumption, AlertsInit
  PROVE  AlertInv
<1>1. <<>> \in Seq(Spells)  OBVIOUS
<1>2. AlertTypes /\ ShownIsActive  BY <1>1 DEF AlertsInit, AlertTypes, WorkerTypes, ShownIsActive, Empty
<1>3. SpellsAreApart /\ SpellsAreOver  BY DEF AlertsInit, SpellsAreApart, SpellsAreOver
<1> QED  BY <1>2, <1>3 DEF AlertInv

\* The alerts that are gone come before those that went earlier.
LEMMA ResolvedType ==
  ASSUME clock \in Nat, NEW old, old \in [DOMAIN old -> 1..clock], DOMAIN old \subseteq AllAlerts,
         IsFiniteSet(AllAlerts), NEW gone \in SUBSET DOMAIN old, NEW order \in SetToSeqs(gone)
  PROVE  /\ Resolved(old, order) \in Seq(Spells)
         /\ \A i \in 1..Len(Resolved(old, order)) :
              LET spell == Resolved(old, order)[i]
              IN  spell.alert \in gone /\ spell.first = old[spell.alert] /\ spell.at = clock
         /\ \A i, j \in 1..Len(Resolved(old, order)) :
              i # j => Resolved(old, order)[i].alert # Resolved(old, order)[j].alert
<1>1. IsFiniteSet(gone)  BY FS_Subset
<1>2. PICK n \in Nat : n = Cardinality(gone)  BY <1>1, FS_CardinalityType
<1>3. order \in [1..n -> gone] /\ \A i, j \in 1..n : i # j => order[i] # order[j]
  BY <1>2 DEF SetToSeqs
<1>4. Len(order) = n  BY <1>3
<1>5. PICK res : res = Resolved(old, order)  OBVIOUS
<1>6. res = [i \in 1..n |-> [alert |-> order[i], first |-> old[order[i]], at |-> clock]]
  BY <1>4, <1>5 DEF Resolved
<1>7. \A i \in 1..n : res[i] \in Spells
  <2>1. TAKE i \in 1..n
  <2>2. order[i] \in AllAlerts /\ old[order[i]] \in Nat  BY <1>3
  <2> QED  BY <1>6, <2>2 DEF Spells
<1>8. res \in Seq(Spells) /\ Len(res) = n  BY <1>6, <1>7
<1>9. \A i \in 1..n : /\ res[i].alert = order[i] /\ res[i].first = old[order[i]]
                      /\ res[i].at = clock
  BY <1>6
<1> QED  BY <1>3, <1>5, <1>8, <1>9

\* What is kept of the spells, when those that are over are put before the others.
LEMMA SpellsKeep ==
  ASSUME AlertAssumption, clock \in Nat,
         NEW new \in Seq(Spells), NEW before \in Seq(Spells), NEW kept,
         LET all == new \o before
         IN  kept = SubSeq(all, 1, IF Len(all) < MaxRecent THEN Len(all) ELSE MaxRecent)
  PROVE  /\ kept \in Seq(Spells)
         /\ \A i \in 1..Len(kept) :
              \/ i <= Len(new) /\ kept[i] = new[i]
              \/ i > Len(new) /\ i - Len(new) \in 1..Len(before) /\ kept[i] = before[i - Len(new)]
<1>1. PICK all : all = new \o before  OBVIOUS
<1>2. all \in Seq(Spells) /\ Len(all) = Len(new) + Len(before)  BY <1>1
<1>3. \A i \in 1..Len(all) : all[i] = IF i <= Len(new) THEN new[i] ELSE before[i - Len(new)]
  BY <1>1
<1>4. PICK n \in Nat : n = (IF Len(all) < MaxRecent THEN Len(all) ELSE MaxRecent) /\ n <= Len(all)
  BY <1>2 DEF AlertAssumption
<1>5. kept = SubSeq(all, 1, n)  BY <1>1, <1>4
<1>6. kept \in Seq(Spells) /\ Len(kept) = n  BY <1>2, <1>4, <1>5
<1>7. \A i \in 1..n : kept[i] = all[i]  BY <1>2, <1>4, <1>5
<1>8. Len(new) \in Nat /\ Len(before) \in Nat  OBVIOUS
<1>9. ASSUME NEW i \in 1..n
      PROVE  \/ i <= Len(new) /\ kept[i] = new[i]
             \/ i > Len(new) /\ i - Len(new) \in 1..Len(before) /\ kept[i] = before[i - Len(new)]
  <2>1. PICK m \in Nat, k \in Nat : m = Len(new) /\ k = Len(before)  BY <1>8
  <2>2. i \in 1..(m + k)  BY <1>2, <1>4, <2>1
  <2>3. i \in 1..Len(all)  BY <1>2, <2>1, <2>2
  <2>4. all[i] = IF i <= m THEN new[i] ELSE before[i - m]  BY <1>3, <2>1, <2>3
  <2>5. kept[i] = all[i]  BY <1>7
  <2>6. i <= m \/ (i > m /\ i - m \in 1..k /\ ~(i <= m))  BY <2>2
  <2> QED  BY <2>1, <2>4, <2>5, <2>6
<1> QED  BY <1>6, <1>9

\* An overview that is written leaves the spells apart and over.
LEMMA SpellsFollow ==
  ASSUME AlertAssumption, AlertInv, NEW known \in BOOLEAN, NEW readable \in BOOLEAN,
         Overview(known, readable, TRUE)
  PROVE  AlertTypes' /\ SpellsAreApart' /\ SpellsAreOver'
<1>1. AlertTypes /\ SpellsAreApart /\ SpellsAreOver  BY DEF AlertInv
<1>2. PICK raised : raised = Raised(known)  OBVIOUS
<1>3. raised \subseteq AllAlerts  BY <1>1, <1>2, RaisedAreAlerts DEF AlertTypes, WorkerTypes
<1>4. PICK old : old = IF readable THEN active ELSE Empty  OBVIOUS
<1>5. PICK before : before = IF readable THEN recent ELSE <<>>  OBVIOUS
<1>6. old \in [DOMAIN old -> 1..clock] /\ DOMAIN old \subseteq AllAlerts
  BY <1>1, <1>4 DEF AlertTypes, Empty
<1>7. /\ before \in Seq(Spells)
      /\ \A i \in 1..Len(before) : before[i].at <= clock
      /\ \A i, j \in 1..Len(before) :
           i < j /\ before[i].alert = before[j].alert => before[j].at <= before[i].first
      /\ \A i \in 1..Len(before) :
           before[i].alert \in DOMAIN old => before[i].at <= old[before[i].alert]
  <2>1. CASE readable  BY <1>1, <1>4, <1>5, <2>1 DEF AlertTypes, SpellsAreApart, SpellsAreOver
  <2>2. CASE ~readable
    <3>1. before = <<>>  BY <1>5, <2>2
    <3> QED  BY <3>1
  <2> QED  BY <2>1, <2>2
<1>8. active' = [k \in raised |-> FirstSeen(old, k)]  BY <1>2, <1>4 DEF Overview
<1>9. PICK order \in SetToSeqs(DOMAIN old \ raised) :
        LET all == Resolved(old, order) \o before
        IN  recent' = SubSeq(all, 1, IF Len(all) < MaxRecent THEN Len(all) ELSE MaxRecent)
  BY <1>2, <1>4, <1>5 DEF Overview
<1>10. PICK new : new = Resolved(old, order)  OBVIOUS
<1>11. clock \in Nat /\ clock > 0 /\ clock' = clock /\ worker' = worker
  BY <1>1 DEF AlertTypes, Overview, world
<1>12. IsFiniteSet(AllAlerts)  BY AlertsAreFinite
<1>13. /\ new \in Seq(Spells)
       /\ \A i \in 1..Len(new) : /\ new[i].alert \in DOMAIN old \ raised
                                  /\ new[i].first = old[new[i].alert] /\ new[i].at = clock
       /\ \A i, j \in 1..Len(new) : i # j => new[i].alert # new[j].alert
  <2>1. DOMAIN old \ raised \in SUBSET DOMAIN old  OBVIOUS
  <2> QED  BY <1>6, <1>10, <1>11, <1>12, <2>1, ResolvedType
<1>14. PICK kept : kept = recent'  OBVIOUS
<1>15. /\ kept \in Seq(Spells)
       /\ \A i \in 1..Len(kept) :
            \/ i <= Len(new) /\ kept[i] = new[i]
            \/ i > Len(new) /\ i - Len(new) \in 1..Len(before) /\ kept[i] = before[i - Len(new)]
  BY <1>7, <1>9, <1>10, <1>11, <1>13, <1>14, SpellsKeep
<1>16. \A i \in 1..Len(kept) :
         \/ i <= Len(new) /\ kept[i] = new[i]
         \/ i > Len(new) /\ i - Len(new) \in 1..Len(before) /\ kept[i] = before[i - Len(new)]
  BY <1>15
<1>17. PICK act : act = active'  OBVIOUS
<1>18. act \in [DOMAIN act -> 1..clock] /\ DOMAIN act = raised
       /\ \A k \in raised : act[k] = IF k \in DOMAIN old THEN old[k] ELSE clock
  BY <1>6, <1>8, <1>11, <1>17 DEF FirstSeen
<1>19. Len(new) \in Nat /\ Len(before) \in Nat /\ Len(kept) \in Nat  BY <1>7, <1>13, <1>15
<1>20. \A i \in 1..Len(before) : before[i] \in Spells  BY <1>7
<1>21. \A i \in 1..Len(kept) : kept[i].at <= clock
  <2>1. TAKE i \in 1..Len(kept)
  <2>2. CASE i <= Len(new)
    <3>1. i \in 1..Len(new) /\ kept[i] = new[i]  BY <1>16, <1>19, <2>2
    <3> QED  BY <1>11, <1>13, <3>1
  <2>3. CASE i > Len(new)
    <3>1. i - Len(new) \in 1..Len(before) /\ kept[i] = before[i - Len(new)]  BY <1>16, <1>19, <2>3
    <3> QED  BY <1>7, <3>1
  <2> QED  BY <1>19, <2>2, <2>3
<1>22. AlertTypes'
  BY <1>1, <1>3, <1>11, <1>14, <1>15, <1>17, <1>18, <1>21 DEF AlertTypes, WorkerTypes
<1>23. \A i, j \in 1..Len(kept) :
         i < j /\ kept[i].alert = kept[j].alert => kept[j].at <= kept[i].first
  <2>1. TAKE i, j \in 1..Len(kept)
  <2>2. HAVE i < j /\ kept[i].alert = kept[j].alert
  <2>3. CASE j <= Len(new)
    <3>1. i <= Len(new) /\ i \in 1..Len(new) /\ j \in 1..Len(new) /\ i # j  BY <1>19, <2>2, <2>3
    <3>2. kept[i] = new[i] /\ kept[j] = new[j]  BY <1>16, <1>19, <3>1
    <3> QED  BY <1>13, <2>2, <3>1, <3>2
  <2>4. CASE j > Len(new) /\ i <= Len(new)
    <3>1. i \in 1..Len(new) /\ kept[i] = new[i]  BY <1>16, <1>19, <2>4
    <3>2. j - Len(new) \in 1..Len(before) /\ kept[j] = before[j - Len(new)]  BY <1>16, <1>19, <2>4
    <3> QED  BY <1>7, <1>13, <2>2, <3>1, <3>2
  <2>5. CASE j > Len(new) /\ i > Len(new)
    <3>1. i - Len(new) \in 1..Len(before) /\ kept[i] = before[i - Len(new)]  BY <1>16, <1>19, <2>5
    <3>2. j - Len(new) \in 1..Len(before) /\ kept[j] = before[j - Len(new)]  BY <1>16, <1>19, <2>5
    <3>3. i - Len(new) < j - Len(new)  BY <1>19, <2>2
    <3> QED  BY <1>7, <2>2, <3>1, <3>2, <3>3
  <2> QED  BY <1>19, <2>3, <2>4, <2>5
<1>24. \A i \in 1..Len(kept) : kept[i].alert \in raised => kept[i].at <= act[kept[i].alert]
  <2>1. TAKE i \in 1..Len(kept)
  <2>2. HAVE kept[i].alert \in raised
  <2>3. CASE i <= Len(new)
    <3>1. i \in 1..Len(new) /\ kept[i] = new[i]  BY <1>16, <1>19, <2>3
    <3> QED  BY <1>13, <2>2, <3>1
  <2>4. CASE i > Len(new)
    <3>1. i - Len(new) \in 1..Len(before) /\ kept[i] = before[i - Len(new)]  BY <1>16, <1>19, <2>4
    <3> QED  BY <1>7, <1>18, <2>2, <3>1
  <2> QED  BY <1>19, <2>3, <2>4
<1>25. SpellsAreApart' /\ SpellsAreOver'
  BY <1>14, <1>17, <1>18, <1>23, <1>24 DEF SpellsAreApart, SpellsAreOver
<1> QED  BY <1>22, <1>25

LEMMA OverviewKeeps ==
  ASSUME AlertAssumption, AlertInv,
         NEW known \in BOOLEAN, NEW readable \in BOOLEAN, NEW writable \in BOOLEAN,
         Overview(known, readable, writable)
  PROVE  AlertInv'
<1>1. PICK raised : raised = Raised(known)  OBVIOUS
<1>2. raised \subseteq AllAlerts  BY <1>1, RaisedAreAlerts DEF AlertInv, AlertTypes, WorkerTypes
<1>3. shown' = raised /\ began' = [k \in raised |-> IF k \in DOMAIN began THEN began[k] ELSE clock]
  BY <1>1 DEF Overview
<1>4. CASE writable
  <2>1. AlertTypes' /\ SpellsAreApart' /\ SpellsAreOver'  BY <1>4, SpellsFollow
  <2>2. ShownIsActive'
    <3>1. CASE readable
      <4>1. active' = [k \in raised |-> FirstSeen(active, k)] /\ doubt' = doubt \cap raised
        BY <1>1, <1>4, <3>1 DEF Overview
      <4>2. \A k \in raised \ doubt : active'[k] = began'[k]
        <5>1. TAKE k \in raised \ doubt
        <5>2. k \in DOMAIN began <=> k \in DOMAIN active  BY <1>2 DEF AlertInv, ShownIsActive
        <5>3. k \in DOMAIN began => active[k] = began[k]  BY DEF AlertInv, ShownIsActive
        <5> QED  BY <1>3, <4>1, <5>2, <5>3 DEF FirstSeen
      <4> QED  BY <1>3, <4>1, <4>2 DEF ShownIsActive
    <3>2. CASE ~readable
      <4>1. DOMAIN active' = raised  BY <1>1, <1>4 DEF Overview
      <4>2. raised \subseteq doubt'  BY <1>1, <3>2 DEF Overview
      <4> QED  BY <1>3, <4>1, <4>2 DEF ShownIsActive
    <3> QED  BY <3>1, <3>2
  <2> QED  BY <2>1, <2>2 DEF AlertInv
<1>5. CASE ~writable
  <2>1. UNCHANGED <<active, recent, clock, worker>> /\ doubt' = doubt \cup raised \cup DOMAIN active
    BY <1>1, <1>5 DEF Overview, world
  <2>2. ShownIsActive'  BY <1>3, <2>1 DEF ShownIsActive
  <2>3. AlertTypes' /\ SpellsAreApart' /\ SpellsAreOver'
    BY <2>1 DEF AlertInv, AlertTypes, WorkerTypes, SpellsAreApart, SpellsAreOver
  <2> QED  BY <2>2, <2>3 DEF AlertInv
<1> QED  BY <1>4, <1>5

\* Time passes, and the worker reports.
LEMMA ClockBackoff ==
  ASSUME WorkerTypes, ClockTicks
  PROVE  WorkerTypes'
<1>1. PICK gone \in SUBSET worker.backoff : worker' = [worker EXCEPT !.backoff = @ \ gone]
  BY DEF ClockTicks
<1>2. PICK w : w = worker /\ w = [running |-> w.running, updated |-> w.updated, backoff |-> w.backoff]
               /\ w.backoff \subseteq Backoffs
  BY DEF WorkerTypes
<1>3. worker' = [running |-> w.running, updated |-> w.updated, backoff |-> w.backoff \ gone]
  BY <1>1, <1>2
<1> QED  BY <1>2, <1>3 DEF WorkerTypes

LEMMA AlertsRest ==
  ASSUME AlertInv, clock' \in {clock, clock + 1}, WorkerTypes',
         UNCHANGED alertHistory
  PROVE  AlertInv'
<1>1. AlertTypes'
  <2>1. clock' \in Nat /\ clock' >= clock /\ clock' > 0  BY DEF AlertInv, AlertTypes
  <2>2. clock \in Nat  BY DEF AlertInv, AlertTypes
  <2>3. active' \in [DOMAIN active' -> 1..clock']
    BY <2>1, <2>2 DEF AlertInv, AlertTypes, alertHistory
  <2>4. \A i \in 1..Len(recent') : recent'[i].at <= clock'
    <3>1. \A i \in 1..Len(recent) : recent[i].at \in Nat /\ recent[i].at <= clock
      <4>1. \A i \in 1..Len(recent) : recent[i] \in Spells  BY DEF AlertInv, AlertTypes
      <4> QED  BY <4>1 DEF AlertInv, AlertTypes, Spells
    <3> QED  BY <2>1, <2>2, <3>1 DEF alertHistory
  <2> QED  BY <2>1, <2>3, <2>4 DEF AlertInv, AlertTypes, alertHistory
<1>2. ShownIsActive' /\ SpellsAreApart' /\ SpellsAreOver'
  BY DEF AlertInv, ShownIsActive, SpellsAreApart, SpellsAreOver, alertHistory
<1> QED  BY <1>1, <1>2 DEF AlertInv

LEMMA AlertStep ==
  ASSUME AlertAssumption, AlertInv, [AlertsNext]_alertVars
  PROVE  AlertInv'
<1>1. CASE \E known, readable, writable \in BOOLEAN : Overview(known, readable, writable)
  BY <1>1, OverviewKeeps
<1>2. CASE /\ ~ \E known, readable, writable \in BOOLEAN : Overview(known, readable, writable)
           /\ AlertsNext
  <2>1. UNCHANGED alertHistory /\ clock' \in {clock, clock + 1} /\ WorkerTypes'
    <3>1. ASSUME NEW p \in Profiles, ProfileChanges(p)
          PROVE  UNCHANGED <<alertHistory, clock, worker>>
      BY <3>1 DEF ProfileChanges
    <3>2. ASSUME NEW c \in Channels, ChannelChanges(c)
          PROVE  UNCHANGED <<alertHistory, clock, worker>>
      BY <3>2 DEF ChannelChanges
    <3>3. CronChanges => UNCHANGED <<alertHistory, clock, worker>>  BY DEF CronChanges
    <3>4. ASSUME NEW alive \in BOOLEAN, NEW backoff \in SUBSET Backoffs, WorkerReports(alive, backoff)
          PROVE  UNCHANGED <<alertHistory, clock>> /\ WorkerTypes'
      BY <3>4 DEF WorkerReports, WorkerTypes
    <3>5. WorkerTypes  BY DEF AlertInv, AlertTypes
    <3>6. ClockTicks => /\ UNCHANGED alertHistory /\ clock' = clock + 1
                        /\ WorkerTypes'
      BY <3>5, ClockBackoff DEF ClockTicks
    <3> QED  BY <1>2, <3>1, <3>2, <3>3, <3>4, <3>5, <3>6 DEF AlertsNext, WorkerTypes
  <2> QED  BY <2>1, AlertsRest
<1>3. CASE UNCHANGED alertVars
  BY <1>3, AlertsRest DEF alertVars, world, AlertInv, AlertTypes, WorkerTypes
<1> QED  BY <1>1, <1>2, <1>3

\* The overview dates an alert from the overview since which it was never absent, unless
\* the store failed while it was raised; an alert's spells in the history are apart; and
\* every alert shown comes with an action that is accepted back.
THEOREM HistoryTellsTruth == AlertsSpec => []HistoryIsTrue
<1>1. AlertAssumption /\ AlertsInit => AlertInv  BY AlertsInitial
<1>2. AlertAssumption /\ AlertInv /\ [AlertsNext]_alertVars => AlertInv'  BY AlertStep
<1>3. AlertInv => HistoryIsTrue
  <2>1. SUFFICES ASSUME AlertInv  PROVE HistoryIsTrue  OBVIOUS
  <2>2. \A k \in shown : Valid(k.code, Attached(k.code))  BY AttachedIsValid
  <2>3. \A k \in shown \ doubt : k \in DOMAIN active /\ active[k] = began[k]
    BY <2>1 DEF AlertInv, ShownIsActive
  <2> QED  BY <2>1, <2>2, <2>3 DEF AlertInv, SpellsAreApart, SpellsAreOver, HistoryIsTrue
<1>4. AlertAssumption  BY AlertAssumption
<1> QED  BY <1>1, <1>2, <1>3, <1>4, PTL DEF AlertsSpec

-------------------------------------------------------------------------------
(* The table of connections and the presence list.                            *)

PresenceEntry == [key: Keys, owner: Sockets \cup {Gateway}]

TableTypes ==
  /\ line \in [Sockets -> {"none", "up", "down"}]
  /\ stage \in [Sockets -> {"none", "challenge", "reading", "closed"}]
  /\ tables \in [Tables -> SUBSET Sockets] /\ inUse \in Tables
  /\ cast \in [Broadcasts -> [at: {"idle", "sending", "over"},
                              held: Tables \cup {Nobody}, seen: SUBSET Sockets]]
  /\ \A b \in Broadcasts : cast[b].at = "sending" => cast[b].held \in Tables
  /\ restored \in BOOLEAN

TableIsCurrent ==
  ~restored =>
    \A c \in Sockets :
      /\ stage[c] = "reading" /\ line[c] = "up" => c \in TableInUse
      /\ c \in TableInUse => stage[c] = "reading"

\* The entries of a connection are under the key that is noted for it.
EntriesFollow(es, keys) ==
  \A e \in ToSet(es) : e.owner \in Sockets => e.key = keys[e.owner]

PresenceTypes == entries \in Seq(PresenceEntry) /\ keyOf \in [Sockets -> Keys \cup {Nobody}]

NobodyIsGone ==
  \A e \in ToSet(entries) :
    e.owner \in Sockets => stage[e.owner] # "closed" \/ e.owner \in aborted

TableInv ==
  TableTypes /\ TableIsCurrent /\ PresenceTypes /\ EntriesFollow(entries, keyOf) /\ NobodyIsGone

-------------------------------------------------------------------------------
(* The elements of a sequence.                                                *)

LEMMA InSequence ==
  ASSUME NEW T, NEW s \in Seq(T)
  PROVE  (\A x : x \in ToSet(s) <=> (\E i \in 1..Len(s) : s[i] = x)) /\ ToSet(s) \subseteq T
<1>1. ToSet(s) = {s[i] : i \in DOMAIN s}  BY DEF ToSet
<1>2. \A x : x \in ToSet(s) <=> (\E i \in 1..Len(s) : s[i] = x)  BY <1>1
<1>3. ToSet(s) \subseteq T  BY <1>1
<1> QED  BY <1>2, <1>3

LEMMA KeptSet ==
  ASSUME NEW T, NEW s \in Seq(T), NEW S
  PROVE  Kept(s, S) \in Seq(T) /\ ToSet(Kept(s, S)) = ToSet(s) \cap S
<1>1. PICK k : k = Kept(s, S)  OBVIOUS
<1>2. k \in Seq(T)  BY <1>1, KeptType
<1>3. /\ \A j \in 1..Len(k) : k[j] \in S /\ (\E i \in 1..Len(s) : s[i] = k[j])
      /\ \A i \in 1..Len(s) : s[i] \in S => (\E j \in 1..Len(k) : k[j] = s[i])
  BY <1>1, KeptElements
<1>4. \A x : x \in ToSet(k) <=> (\E j \in 1..Len(k) : k[j] = x)  BY <1>2, InSequence
<1>5. \A x : x \in ToSet(s) <=> (\E i \in 1..Len(s) : s[i] = x)  BY InSequence
<1>6. \A x : x \in ToSet(k) <=> x \in ToSet(s) /\ x \in S  BY <1>3, <1>4, <1>5
<1> QED  BY <1>1, <1>2, <1>6

LEMMA AppendSet ==
  ASSUME NEW T, NEW s \in Seq(T), NEW x \in T
  PROVE  Append(s, x) \in Seq(T) /\ ToSet(Append(s, x)) = ToSet(s) \cup {x}
<1>1. PICK a : a = Append(s, x)  OBVIOUS
<1>2. a \in Seq(T) /\ Len(a) = Len(s) + 1 /\ Len(s) \in Nat  BY <1>1
<1>3. \A i \in 1..Len(s) : a[i] = s[i]  BY <1>1
<1>4. a[Len(s) + 1] = x  BY <1>1
<1>5. \A y : y \in ToSet(a) <=> (\E i \in 1..Len(a) : a[i] = y)  BY <1>2, InSequence
<1>6. \A y : y \in ToSet(s) <=> (\E i \in 1..Len(s) : s[i] = y)  BY InSequence
<1>7. \A i \in 1..Len(a) : i \in 1..Len(s) \/ i = Len(s) + 1  BY <1>2
<1>8. 1..Len(s) \subseteq 1..Len(a) /\ Len(s) + 1 \in 1..Len(a)  BY <1>2
<1>9. \A y : y \in ToSet(a) <=> y \in ToSet(s) \/ y = x
  BY <1>3, <1>4, <1>5, <1>6, <1>7, <1>8
<1> QED  BY <1>1, <1>2, <1>9

LEMMA PartSet ==
  ASSUME NEW T, NEW s \in Seq(T), NEW a \in Nat \ {0}, NEW b \in Nat, b <= Len(s)
  PROVE  SubSeq(s, a, b) \in Seq(T) /\ ToSet(SubSeq(s, a, b)) \subseteq ToSet(s)
<1>1. PICK p : p = SubSeq(s, a, b)  OBVIOUS
<1>2. p \in Seq(T)  BY <1>1
<1>3. \A i \in 1..Len(p) : a + i - 1 \in 1..Len(s) /\ p[i] = s[a + i - 1]  BY <1>1
<1>4. \A x : x \in ToSet(p) <=> (\E i \in 1..Len(p) : p[i] = x)  BY <1>2, InSequence
<1>5. \A x : x \in ToSet(s) <=> (\E i \in 1..Len(s) : s[i] = x)  BY InSequence
<1>6. \A x : x \in ToSet(p) => x \in ToSet(s)  BY <1>3, <1>4, <1>5
<1> QED  BY <1>1, <1>2, <1>6

LEMMA ConcatSet ==
  ASSUME NEW T, NEW s \in Seq(T), NEW t \in Seq(T)
  PROVE  s \o t \in Seq(T) /\ ToSet(s \o t) \subseteq ToSet(s) \cup ToSet(t)
<1>1. PICK p : p = s \o t  OBVIOUS
<1>2. p \in Seq(T) /\ Len(p) = Len(s) + Len(t) /\ Len(s) \in Nat /\ Len(t) \in Nat  BY <1>1
<1>3. \A i \in 1..Len(p) : \/ i \in 1..Len(s) /\ p[i] = s[i]
                           \/ i - Len(s) \in 1..Len(t) /\ p[i] = t[i - Len(s)]
  BY <1>1, <1>2
<1>4. \A x : x \in ToSet(p) <=> (\E i \in 1..Len(p) : p[i] = x)  BY <1>2, InSequence
<1>5. \A x : x \in ToSet(s) <=> (\E i \in 1..Len(s) : s[i] = x)  BY InSequence
<1>6. \A x : x \in ToSet(t) <=> (\E i \in 1..Len(t) : t[i] = x)  BY InSequence
<1>7. \A x : x \in ToSet(p) => x \in ToSet(s) \cup ToSet(t)
  BY <1>3, <1>4, <1>5, <1>6
<1> QED  BY <1>1, <1>2, <1>7

-------------------------------------------------------------------------------
(* The presence list keeps to its keys.                                       *)

LEMMA PrunedSet ==
  ASSUME TableAssumption, NEW es \in Seq(PresenceEntry), NEW old \in 0..Len(es)
  PROVE  Pruned(es, old) \in Seq(PresenceEntry) /\ ToSet(Pruned(es, old)) \subseteq ToSet(es)
<1>1. Len(es) \in Nat /\ old \in Nat /\ old <= Len(es) /\ old + 1 \in Nat \ {0}  OBVIOUS
<1>2. PICK young : young = SubSeq(es, old + 1, Len(es))  OBVIOUS
<1>3. young \in Seq(PresenceEntry) /\ ToSet(young) \subseteq ToSet(es)
  BY <1>1, <1>2, PartSet
<1>4. PICK first : first = SubSeq(es, 1, old)  OBVIOUS
<1>5. first \in Seq(PresenceEntry) /\ ToSet(first) \subseteq ToSet(es)
  BY <1>1, <1>4, PartSet
<1>6. PICK gateways : gateways = {e \in ToSet(es) : e.owner = Gateway}  OBVIOUS
<1>7. Kept(first, gateways) \in Seq(PresenceEntry) /\ ToSet(Kept(first, gateways)) \subseteq ToSet(es)
  BY <1>5, KeptSet
<1>8. PICK kept : kept = Kept(first, gateways) \o young  OBVIOUS
<1>9. kept \in Seq(PresenceEntry) /\ ToSet(kept) \subseteq ToSet(es)
  BY <1>3, <1>7, <1>8, ConcatSet
<1>10. PICK from : from = IF Len(kept) > MaxEntries THEN Len(kept) - MaxEntries + 1 ELSE 1  OBVIOUS
<1>11. from \in Nat \ {0} /\ Len(kept) \in Nat
  BY <1>9, <1>10 DEF TableAssumption
<1>12. Pruned(es, old) = SubSeq(kept, from, Len(kept))
  BY <1>2, <1>4, <1>6, <1>8, <1>10 DEF Pruned
<1>13. /\ SubSeq(kept, from, Len(kept)) \in Seq(PresenceEntry)
       /\ ToSet(SubSeq(kept, from, Len(kept))) \subseteq ToSet(kept)
  BY <1>9, <1>11, PartSet
<1> QED  BY <1>9, <1>12, <1>13

\* What is pruned takes its keys along, and only those.
LEMMA PruneFollows ==
  ASSUME NEW es \in Seq(PresenceEntry), NEW pruned \in Seq(PresenceEntry),
         ToSet(pruned) \subseteq ToSet(es),
         NEW keys \in [Sockets -> Keys \cup {Nobody}], EntriesFollow(es, keys)
  PROVE  /\ Forgotten(es, pruned, keys) \in [Sockets -> Keys \cup {Nobody}]
         /\ EntriesFollow(pruned, Forgotten(es, pruned, keys))
<1>1. Forgotten(es, pruned, keys) \in [Sockets -> Keys \cup {Nobody}]  BY DEF Forgotten
<1>2. ASSUME NEW e \in ToSet(pruned), e.owner \in Sockets
      PROVE  e.key = Forgotten(es, pruned, keys)[e.owner]
  <2>1. e.key = keys[e.owner] /\ e \in PresenceEntry
    <3>1. e \in ToSet(es)  OBVIOUS
    <3>2. ToSet(es) \subseteq PresenceEntry  BY InSequence
    <3> QED  BY <1>2, <3>1, <3>2 DEF EntriesFollow
  <2>2. ASSUME NEW d \in ToSet(es) \ ToSet(pruned), d.owner = e.owner
        PROVE  FALSE
    <3>1. d \in PresenceEntry  BY InSequence
    <3>2. d.key = keys[d.owner]  BY <1>2, <2>2 DEF EntriesFollow
    <3>3. d = e  BY <2>1, <2>2, <3>1, <3>2 DEF PresenceEntry
    <3> QED  BY <2>2, <3>3
  <2>3. Forgotten(es, pruned, keys)[e.owner] = keys[e.owner]  BY <1>2, <2>2 DEF Forgotten
  <2> QED  BY <2>1, <2>3
<1> QED  BY <1>1, <1>2 DEF EntriesFollow

LEMMA WithoutSet ==
  ASSUME NEW es \in Seq(PresenceEntry), NEW key
  PROVE  /\ Without(es, key) \in Seq(PresenceEntry)
         /\ ToSet(Without(es, key)) = {e \in ToSet(es) : e.key # key}
<1>1. PICK others : others = {e \in ToSet(es) : e.key # key}  OBVIOUS
<1>2. Without(es, key) = Kept(es, others)  BY <1>1 DEF Without
<1>3. Kept(es, others) \in Seq(PresenceEntry) /\ ToSet(Kept(es, others)) = ToSet(es) \cap others
  BY KeptSet
<1>4. ToSet(es) \cap others = others  BY <1>1
<1> QED  BY <1>1, <1>2, <1>3, <1>4

\* Every list that is stored is a pruning of one that follows its keys.
LEMMA PruneKeeps ==
  ASSUME TableAssumption, NEW es \in Seq(PresenceEntry), NEW stale \in 0..Len(es),
         NEW keys \in [Sockets -> Keys \cup {Nobody}], EntriesFollow(es, keys),
         entries' = Pruned(es, stale), keyOf' = Forgotten(es, Pruned(es, stale), keys)
  PROVE  /\ PresenceTypes' /\ EntriesFollow(entries, keyOf)'
         /\ ToSet(entries') \subseteq ToSet(es)
<1>1. PICK pruned : pruned = Pruned(es, stale)  OBVIOUS
<1>2. pruned \in Seq(PresenceEntry) /\ ToSet(pruned) \subseteq ToSet(es)  BY <1>1, PrunedSet
<1>3. PICK left : left = Forgotten(es, pruned, keys)  OBVIOUS
<1>4. left \in [Sockets -> Keys \cup {Nobody}] /\ EntriesFollow(pruned, left)
  BY <1>2, <1>3, PruneFollows
<1>5. entries' = pruned /\ keyOf' = left  BY <1>1, <1>3
<1>6. PresenceTypes'
  <2>1. PresenceTypes' <=> /\ entries' \in Seq(PresenceEntry)
                           /\ keyOf' \in [Sockets -> Keys \cup {Nobody}]
    BY DEF PresenceTypes, PresenceEntry, Keys
  <2> QED  BY <1>2, <1>4, <1>5, <2>1
<1> QED  BY <1>2, <1>4, <1>5, <1>6 DEF EntriesFollow

\* A connection's entry is under one key: what it had under another goes first.
LEMMA UpsertKeeps ==
  ASSUME TableAssumption, PresenceTypes, EntriesFollow(entries, keyOf),
         NEW c \in Sockets, NEW key \in Keys, Upsert(c, key)
  PROVE  /\ PresenceTypes' /\ EntriesFollow(entries, keyOf)'
         /\ \A e \in ToSet(entries') : e \in ToSet(entries) \/ e.owner = c
<1>1. PICK left : left = IF keyOf[c] \in {Nobody, key} THEN entries
                         ELSE Without(entries, keyOf[c])
  OBVIOUS
<1>2. /\ left \in Seq(PresenceEntry) /\ ToSet(left) \subseteq ToSet(entries)
      /\ keyOf[c] \notin {Nobody, key} => \A e \in ToSet(left) : e.key # keyOf[c]
  BY <1>1, WithoutSet DEF PresenceTypes
<1>3. PICK new : new = [key |-> key, owner |-> c]  OBVIOUS
<1>4. new \in PresenceEntry /\ new.key = key /\ new.owner = c  BY <1>3 DEF PresenceEntry
<1>5. PICK others : others = Without(left, key)  OBVIOUS
<1>6. others \in Seq(PresenceEntry) /\ ToSet(others) = {e \in ToSet(left) : e.key # key}
  BY <1>2, <1>5, WithoutSet
<1>7. PICK es : es = Append(others, new)  OBVIOUS
<1>8. es \in Seq(PresenceEntry) /\ ToSet(es) = ToSet(others) \cup {new}
  BY <1>4, <1>6, <1>7, AppendSet
<1>9. PICK keys : keys = [keyOf EXCEPT ![c] = key]  OBVIOUS
<1>10. keys \in [Sockets -> Keys \cup {Nobody}]  BY <1>9 DEF PresenceTypes
<1>11. EntriesFollow(es, keys)
  <2>1. SUFFICES ASSUME NEW e \in ToSet(es), e.owner \in Sockets
                 PROVE  e.key = keys[e.owner]
    BY DEF EntriesFollow
  <2>2. keys[c] = key /\ \A d \in Sockets \ {c} : keys[d] = keyOf[d]
    BY <1>9 DEF PresenceTypes
  <2>3. CASE e = new  BY <1>4, <2>2, <2>3
  <2>4. CASE e \in ToSet(others)
    <3>1. e \in ToSet(left) /\ e.key # key /\ e \in ToSet(entries)  BY <1>2, <1>6, <2>4
    <3>2. e.key = keyOf[e.owner]  BY <2>1, <3>1 DEF EntriesFollow
    <3>3. e \in PresenceEntry  BY <3>1, InSequence DEF PresenceTypes
    <3>4. e.key # Nobody  BY <3>3 DEF PresenceEntry, Keys, TableAssumption
    <3>5. e.owner # c  BY <1>2, <3>1, <3>2, <3>4
    <3> QED  BY <2>1, <2>2, <3>2, <3>5
  <2> QED  BY <1>8, <2>3, <2>4
<1>12. PICK stale \in 0..(Len(es) - 1) :
         /\ entries' = Pruned(es, stale)
         /\ keyOf' = Forgotten(es, Pruned(es, stale), keys)
  BY <1>1, <1>3, <1>5, <1>7, <1>9 DEF Upsert
<1>13. stale \in 0..Len(es)  BY <1>8
<1>14. /\ PresenceTypes' /\ EntriesFollow(entries, keyOf)'
       /\ ToSet(entries') \subseteq ToSet(es)
  BY <1>8, <1>10, <1>11, <1>12, <1>13, PruneKeeps
<1>15. \A e \in ToSet(es) : e \in ToSet(entries) \/ e.owner = c
  BY <1>2, <1>4, <1>6, <1>8
<1> QED  BY <1>14, <1>15

LEMMA RemoveKeeps ==
  ASSUME TableAssumption, PresenceTypes, EntriesFollow(entries, keyOf),
         NEW c \in Sockets, RemoveByConnection(c)
  PROVE  /\ PresenceTypes' /\ EntriesFollow(entries, keyOf)'
         /\ \A e \in ToSet(entries') : e \in ToSet(entries) /\ e.owner # c
<1>1. PICK others : others = Without(entries, keyOf[c])  OBVIOUS
<1>2. others \in Seq(PresenceEntry) /\ ToSet(others) = {e \in ToSet(entries) : e.key # keyOf[c]}
  BY <1>1, WithoutSet DEF PresenceTypes
<1>3. entries' = others /\ keyOf' = [keyOf EXCEPT ![c] = Nobody]
  BY <1>1 DEF RemoveByConnection
<1>4. ASSUME NEW e \in ToSet(others)
      PROVE  /\ e \in ToSet(entries) /\ e.owner # c
             /\ e.owner \in Sockets => e.key = keyOf[e.owner]
  BY <1>2 DEF EntriesFollow
<1>5. PresenceTypes'
  <2>1. PresenceTypes' <=> /\ entries' \in Seq(PresenceEntry)
                           /\ keyOf' \in [Sockets -> Keys \cup {Nobody}]
    BY DEF PresenceTypes, PresenceEntry, Keys
  <2> QED  BY <1>2, <1>3, <2>1 DEF PresenceTypes
<1>6. EntriesFollow(entries, keyOf)'
  <2>1. \A d \in Sockets \ {c} : keyOf'[d] = keyOf[d]  BY <1>3 DEF PresenceTypes
  <2> QED  BY <1>3, <1>4, <2>1 DEF EntriesFollow
<1> QED  BY <1>3, <1>4, <1>5, <1>6

-------------------------------------------------------------------------------
(* The dictionary that is fetched is the one in use, or a new one.            *)

LEMMA FetchedIsFree ==
  ASSUME TableAssumption, TableTypes
  PROVE  Fetched \in Tables /\ (Fetched = inUse \/ Fetched \notin InUse)
<1> DEFINE heldBy == [b \in Broadcasts |-> cast[b].held]
           held == {cast[b].held : b \in Broadcasts}
<1>1. heldBy \in [Broadcasts -> held]  OBVIOUS
<1>2. heldBy \in Surjection(Broadcasts, held)
  <2>1. \A h \in held : \E b \in Broadcasts : heldBy[b] = h  OBVIOUS
  <2> QED  BY <1>1, <2>1 DEF Surjection
<1>3. IsFiniteSet(Broadcasts)  BY DEF TableAssumption
<1>4. IsFiniteSet(held) /\ Cardinality(held) <= Cardinality(Broadcasts)
  BY <1>2, <1>3, FS_Surjection
<1>5. IsFiniteSet(held \cup {inUse})
      /\ Cardinality(held \cup {inUse}) <= Cardinality(held) + 1
  <2>1. Cardinality(held) \in Nat  BY <1>4, FS_CardinalityType
  <2>2. PICK h : h = held  OBVIOUS
  <2>3. CASE inUse \in h
    <3>1. h \cup {inUse} = h  BY <2>3
    <3>2. IsFiniteSet(h) /\ Cardinality(h) \in Nat /\ Cardinality(h) <= Cardinality(h) + 1
      BY <1>4, <2>1, <2>2
    <3> HIDE DEF held
    <3> QED  BY <2>2, <3>1, <3>2
  <2>4. CASE inUse \notin h
    <3>1. IsFiniteSet(h)  BY <1>4, <2>2
    <3>2. IsFiniteSet(h \cup {inUse}) /\ Cardinality(h \cup {inUse}) = Cardinality(h) + 1
      BY <2>4, <3>1, FS_AddElement
    <3> QED  BY <2>1, <2>2, <3>2
  <2> QED  BY <2>3, <2>4
<1>6. InUse = held \cup {inUse}  BY DEF InUse
<1>7. ~(Tables \subseteq InUse)
  <2>1. ASSUME Tables \subseteq InUse  PROVE FALSE
    <3>1. Cardinality(Tables) <= Cardinality(InUse)  BY <1>5, <1>6, <2>1, FS_Subset
    <3>2. /\ Cardinality(Tables) \in Nat /\ Cardinality(InUse) \in Nat
          /\ Cardinality(held) \in Nat /\ Cardinality(Broadcasts) \in Nat
      BY <1>3, <1>4, <1>5, <1>6, FS_CardinalityType DEF TableAssumption
    <3>3. Cardinality(InUse) <= Cardinality(held) + 1  BY <1>5, <1>6
    <3>4. Cardinality(Tables) > Cardinality(Broadcasts) + 1  BY DEF TableAssumption
    <3> HIDE DEF held
    <3> QED  BY <1>4, <3>1, <3>2, <3>3, <3>4
  <2> QED  BY <2>1
<1>8. \E t \in Tables : t \notin InUse  BY <1>7
<1>9. inUse \in Tables  BY DEF TableTypes
<1> QED  BY <1>8, <1>9 DEF Fetched

LEMMA StoreKeeps ==
  ASSUME TableAssumption, TableTypes, NEW members \in SUBSET Sockets, StoreTable(members)
  PROVE  /\ tables' \in [Tables -> SUBSET Sockets] /\ inUse' \in Tables
         /\ TableInUse' = members /\ UNCHANGED <<cast, restored>>
<1>1. Fetched \in Tables  BY FetchedIsFree
<1>2. tables \in [Tables -> SUBSET Sockets]  BY DEF TableTypes
<1>3. /\ tables' = [t \in Tables |-> IF t = Fetched THEN members
                                     ELSE IF t \in InUse THEN tables[t] ELSE {}]
      /\ inUse' = Fetched /\ UNCHANGED <<cast, restored>>
  BY DEF StoreTable
<1>4. tables' \in [Tables -> SUBSET Sockets]  BY <1>2, <1>3
<1>5. tables'[inUse'] = members  BY <1>1, <1>3
<1> QED  BY <1>1, <1>3, <1>4, <1>5 DEF TableInUse

-------------------------------------------------------------------------------
(* The steps.                                                                 *)

LEMMA TableInitial == TableAssumption /\ TableInit => TableInv
<1> SUFFICES ASSUME TableAssumption, TableInit  PROVE TableInv  OBVIOUS
<1>1. Tables # {}
  <2>1. Cardinality(Broadcasts) \in Nat /\ Cardinality(Tables) > Cardinality(Broadcasts) + 1
    BY FS_CardinalityType DEF TableAssumption
  <2>2. Cardinality({}) = 0  BY FS_EmptySet
  <2>3. ASSUME NEW n \in Nat  PROVE ~(0 > n + 1)  OBVIOUS
  <2>4. Tables # {}
    <3>1. ASSUME Tables = {}  PROVE FALSE
      <4>1. 0 > Cardinality(Broadcasts) + 1  BY <2>1, <2>2, <3>1, Zenon
      <4> QED  BY <2>1, <2>3, <4>1
    <3> QED  BY <3>1
  <2> QED  BY <2>4
<1>2. inUse \in Tables  BY <1>1 DEF TableInit
<1>3. tables = [t \in Tables |-> {}] /\ tables[inUse] = {}  BY <1>2 DEF TableInit
<1>4. TableTypes  BY <1>2 DEF TableTypes, TableInit, NoCast
<1>5. TableIsCurrent  BY <1>3 DEF TableIsCurrent, TableInUse, TableInit
<1>6. PICK first : first = [key |-> Gateway, owner |-> Gateway]  OBVIOUS
<1>7. first \in PresenceEntry /\ first.owner = Gateway  BY <1>6 DEF PresenceEntry, Keys
<1>8. entries = <<first>>  BY <1>6 DEF TableInit
<1>9. entries \in Seq(PresenceEntry) /\ Len(entries) = 1 /\ entries[1] = first  BY <1>7, <1>8
<1>10. \A e \in ToSet(entries) : e.owner = Gateway
  BY <1>7, <1>9 DEF ToSet
<1>11. PresenceTypes  BY <1>9 DEF PresenceTypes, TableInit
<1>12. Gateway \notin Sockets  BY DEF TableAssumption
<1>13. EntriesFollow(entries, keyOf) /\ NobodyIsGone
  BY <1>10, <1>12 DEF EntriesFollow, NobodyIsGone
<1> QED  BY <1>4, <1>5, <1>11, <1>13 DEF TableInv

LEMMA OpensKeeps ==
  ASSUME TableAssumption, TableInv, NEW c \in Sockets, SocketOpens(c)
  PROVE  TableInv'
<1> USE DEF TableInv
<1>1. TableTypes /\ stage[c] = "none"  BY DEF SocketOpens
<1>2. /\ line' = [line EXCEPT ![c] = "up"] /\ stage' = [stage EXCEPT ![c] = "challenge"]
      /\ UNCHANGED <<table, aborted>> /\ Upsert(c, c)
  BY DEF SocketOpens
<1>3. TableTypes'  BY <1>1, <1>2 DEF TableTypes, table
<1>4. stage'[c] = "challenge" /\ \A d \in Sockets \ {c} : stage'[d] = stage[d] /\ line'[d] = line[d]
  BY <1>1, <1>2 DEF TableTypes
<1>5. TableIsCurrent'
  BY <1>1, <1>2, <1>4 DEF TableIsCurrent, TableInUse, table
<1>6. c \in Keys  BY DEF Keys
<1>7. /\ PresenceTypes' /\ EntriesFollow(entries, keyOf)'
      /\ \A e \in ToSet(entries') : e \in ToSet(entries) \/ e.owner = c
  BY <1>2, <1>6, UpsertKeeps
<1>8. NobodyIsGone'  BY <1>2, <1>4, <1>7 DEF NobodyIsGone
<1> QED  BY <1>3, <1>5, <1>7, <1>8

LEMMA ChallengedKeeps ==
  ASSUME TableAssumption, TableInv, NEW c \in Sockets,
         SocketChallenged(c) \/ SocketConnects(c)
  PROVE  TableInv'
<1> USE DEF TableInv
<1>1. /\ StoreTable(TableInUse \cup {c}) /\ UNCHANGED <<line, aborted, presence>>
      /\ \/ stage[c] = "challenge" /\ stage' = [stage EXCEPT ![c] = "reading"]
         \/ stage[c] = "reading" /\ stage' = stage
  BY DEF SocketChallenged, SocketConnects, socket
<1>2. TableTypes /\ TableInUse \cup {c} \in SUBSET Sockets  BY DEF TableTypes, TableInUse
<1>3. /\ tables' \in [Tables -> SUBSET Sockets] /\ inUse' \in Tables
      /\ TableInUse' = TableInUse \cup {c} /\ UNCHANGED <<cast, restored>>
  BY <1>1, <1>2, StoreKeeps
<1>4. stage'[c] = "reading" /\ \A d \in Sockets \ {c} : stage'[d] = stage[d]
  BY <1>1, <1>2 DEF TableTypes
<1>5. stage' \in [Sockets -> {"none", "challenge", "reading", "closed"}]
  BY <1>1, <1>2 DEF TableTypes
<1>6. TableTypes'  BY <1>1, <1>2, <1>3, <1>5 DEF TableTypes
<1>7. TableIsCurrent'  BY <1>1, <1>3, <1>4 DEF TableIsCurrent
<1>8. NobodyIsGone'  BY <1>1, <1>4 DEF NobodyIsGone, presence
<1>9. PresenceTypes' /\ EntriesFollow(entries, keyOf)'
  BY <1>1 DEF presence, PresenceTypes, EntriesFollow
<1> QED  BY <1>6, <1>7, <1>8, <1>9

LEMMA LeavesKeeps ==
  ASSUME TableAssumption, TableInv, NEW c \in Sockets,
         SocketChallengeFails(c) \/ SocketHangsUp(c)
  PROVE  TableInv'
<1> USE DEF TableInv
<1>1. CASE SocketChallengeFails(c)
  <2>1. /\ stage[c] = "challenge" /\ stage' = [stage EXCEPT ![c] = "closed"]
        /\ aborted' = aborted \cup {c} /\ UNCHANGED <<line, table, presence>>
    BY <1>1 DEF SocketChallengeFails
  <2>2. TableTypes' /\ \A d \in Sockets \ {c} : stage'[d] = stage[d]
    BY <2>1 DEF TableTypes, table
  <2>3. stage'[c] = "closed"  BY <2>1 DEF TableTypes
  <2>4. TableIsCurrent'  BY <2>1, <2>2, <2>3 DEF TableIsCurrent, TableInUse, table
  <2>5. NobodyIsGone'  BY <2>1, <2>2 DEF NobodyIsGone, presence
  <2>6. PresenceTypes' /\ EntriesFollow(entries, keyOf)'
    BY <2>1 DEF presence, PresenceTypes, EntriesFollow
  <2> QED  BY <2>2, <2>4, <2>5, <2>6
<1>2. CASE SocketHangsUp(c)
  <2>1. /\ line' = [line EXCEPT ![c] = "down"] /\ UNCHANGED <<stage, table, presence, aborted>>
    BY <1>2 DEF SocketHangsUp
  <2>2. TableTypes' /\ \A d \in Sockets : line'[d] = "up" => line[d] = "up"
    BY <2>1 DEF TableTypes, table
  <2>3. TableIsCurrent'  BY <2>1, <2>2 DEF TableIsCurrent, TableInUse, table
  <2>4. PresenceTypes' /\ EntriesFollow(entries, keyOf)' /\ NobodyIsGone'
    BY <2>1 DEF presence, PresenceTypes, EntriesFollow, NobodyIsGone
  <2> QED  BY <2>2, <2>3, <2>4
<1> QED  BY <1>1, <1>2

LEMMA FrameKeeps ==
  ASSUME TableAssumption, TableInv, NEW c \in Sockets, PresenceFrame(c)
  PROVE  TableInv'
<1> USE DEF TableInv
<1>1. stage[c] = "reading" /\ UNCHANGED <<line, stage, table, aborted>>  BY DEF PresenceFrame
<1>2. PICK key \in Instances \cup {c} : Upsert(c, key)  BY DEF PresenceFrame
<1>3. key \in Keys  BY DEF Keys
<1>4. /\ PresenceTypes' /\ EntriesFollow(entries, keyOf)'
      /\ \A e \in ToSet(entries') : e \in ToSet(entries) \/ e.owner = c
  BY <1>2, <1>3, UpsertKeeps
<1>5. NobodyIsGone'  BY <1>1, <1>4 DEF NobodyIsGone
<1>6. TableTypes'  BY <1>1 DEF TableTypes, table
<1>7. TableIsCurrent'  BY <1>1 DEF TableIsCurrent, TableInUse, table
<1> QED  BY <1>4, <1>5, <1>6, <1>7

LEMMA ClosesKeeps ==
  ASSUME TableAssumption, TableInv, NEW c \in Sockets, SocketCloses(c)
  PROVE  TableInv'
<1> USE DEF TableInv
<1>1. /\ stage' = [stage EXCEPT ![c] = "closed"] /\ StoreTable(TableInUse \ {c})
      /\ RemoveByConnection(c) /\ UNCHANGED <<line, aborted>>
  BY DEF SocketCloses
<1>2. TableTypes /\ TableInUse \ {c} \in SUBSET Sockets  BY DEF TableTypes, TableInUse
<1>3. /\ tables' \in [Tables -> SUBSET Sockets] /\ inUse' \in Tables
      /\ TableInUse' = TableInUse \ {c} /\ UNCHANGED <<cast, restored>>
  BY <1>1, <1>2, StoreKeeps
<1>4. stage'[c] = "closed" /\ \A d \in Sockets \ {c} : stage'[d] = stage[d]
  BY <1>1, <1>2 DEF TableTypes
<1>5. TableTypes'  BY <1>1, <1>2, <1>3 DEF TableTypes
<1>6. TableIsCurrent'  BY <1>1, <1>3, <1>4 DEF TableIsCurrent
<1>7. /\ PresenceTypes' /\ EntriesFollow(entries, keyOf)'
      /\ \A e \in ToSet(entries') : e \in ToSet(entries) /\ e.owner # c
  BY <1>1, RemoveKeeps
<1>8. NobodyIsGone'  BY <1>1, <1>4, <1>7 DEF NobodyIsGone
<1> QED  BY <1>5, <1>6, <1>7, <1>8

LEMMA ListKeeps ==
  ASSUME TableAssumption, TableInv, ListEntries
  PROVE  TableInv'
<1> USE DEF TableInv
<1>1. Prune(entries, keyOf) /\ UNCHANGED <<socket, table, aborted>>  BY DEF ListEntries
<1>2. PICK es : es = entries  OBVIOUS
<1>3. PICK keys : keys = keyOf  OBVIOUS
<1>4. PICK stale \in 0..Len(es) : /\ entries' = Pruned(es, stale)
                                  /\ keyOf' = Forgotten(es, Pruned(es, stale), keys)
  BY <1>1, <1>2, <1>3 DEF Prune
<1>5. /\ es \in Seq(PresenceEntry) /\ keys \in [Sockets -> Keys \cup {Nobody}]
      /\ EntriesFollow(es, keys)
  BY <1>2, <1>3 DEF PresenceTypes
<1>6. PresenceTypes' /\ EntriesFollow(entries, keyOf)' /\ ToSet(entries') \subseteq ToSet(entries)
  BY <1>2, <1>4, <1>5, PruneKeeps
<1>7. NobodyIsGone'  BY <1>1, <1>6 DEF NobodyIsGone, socket
<1>8. TableTypes' /\ TableIsCurrent'
  BY <1>1 DEF TableTypes, TableIsCurrent, TableInUse, table, socket
<1> QED  BY <1>6, <1>7, <1>8

LEMMA BroadcastKeeps ==
  ASSUME TableAssumption, TableInv, NEW b \in Broadcasts, BroadcastStarts(b) \/ BroadcastEnds(b)
  PROVE  TableInv'
<1> USE DEF TableInv
<1>1. UNCHANGED <<socket, presence, aborted>>  BY DEF BroadcastStarts, BroadcastEnds
<1>2. PresenceTypes' /\ EntriesFollow(entries, keyOf)' /\ NobodyIsGone'
  BY <1>1 DEF presence, socket, PresenceTypes, EntriesFollow, NobodyIsGone
<1>3. CASE BroadcastStarts(b)
  <2>1. Fetched \in Tables  BY FetchedIsFree
  <2>2. /\ tables' = [tables EXCEPT ![Fetched] = TableInUse]
        /\ cast' = [cast EXCEPT ![b] = [at |-> "sending", held |-> Fetched, seen |-> TableInUse]]
        /\ UNCHANGED <<inUse, restored>>
    BY <1>3 DEF BroadcastStarts
  <2>3. TableInUse \in SUBSET Sockets  BY DEF TableTypes, TableInUse
  <2>4. PICK fetched \in Tables : fetched = Fetched  BY <2>1
  <2>5. PICK members \in SUBSET Sockets : members = tables[inUse]  BY <2>3 DEF TableInUse
  <2>6. /\ tables' = [tables EXCEPT ![fetched] = members]
        /\ cast' = [cast EXCEPT ![b] = [at |-> "sending", held |-> fetched, seen |-> members]]
    BY <2>2, <2>4, <2>5 DEF TableInUse
  <2>7. cast' \in [Broadcasts -> [at: {"idle", "sending", "over"},
                                  held: Tables \cup {Nobody}, seen: SUBSET Sockets]]
    BY <2>6 DEF TableTypes
  <2>8. \A x \in Broadcasts : cast'[x].at = "sending" => cast'[x].held \in Tables
    BY <2>6 DEF TableTypes
  <2>9. TableTypes'  BY <1>1, <2>2, <2>6, <2>7, <2>8 DEF TableTypes, socket
  <2>10. tables'[inUse'] = tables[inUse]  BY <2>2, <2>5, <2>6 DEF TableTypes
  <2>11. TableIsCurrent'  BY <1>1, <2>2, <2>10 DEF TableIsCurrent, TableInUse, socket
  <2> QED  BY <1>2, <2>9, <2>11
<1>4. CASE BroadcastEnds(b)
  <2>1. PICK held \in Tables : held = cast[b].held
    BY <1>4 DEF BroadcastEnds, TableTypes
  <2>2. PICK dead \in SUBSET {c \in cast[b].seen : line[c] = "down"} :
          tables' = [tables EXCEPT ![held] = @ \ dead]
    BY <1>4, <2>1 DEF BroadcastEnds
  <2>3. /\ inUse' = held /\ restored' = (restored \/ held # inUse)
        /\ cast' = [cast EXCEPT ![b] = [NoCast EXCEPT !.at = "over"]]
    BY <1>4, <2>1 DEF BroadcastEnds
  <2>4. [NoCast EXCEPT !.at = "over"] = [at |-> "over", held |-> Nobody, seen |-> {}]
    <3>1. PICK n : n = [at |-> "idle", held |-> Nobody, seen |-> {}]  OBVIOUS
    <3>2. NoCast = n  BY <3>1 DEF NoCast
    <3>3. PICK m : m = [n EXCEPT !.at = "over"]  OBVIOUS
    <3>4. n \in [at: {"idle", "over"}, held: {Nobody}, seen: {{}}]
          /\ n.held = Nobody /\ n.seen = {}
      BY <3>1
    <3>5. m \in [at: {"idle", "over"}, held: {Nobody}, seen: {{}}]
          /\ m.at = "over" /\ m.held = Nobody /\ m.seen = {}
      BY <3>3, <3>4
    <3>6. m = [at |-> "over", held |-> Nobody, seen |-> {}]  BY <3>5
    <3> QED  BY <3>2, <3>3, <3>6
  <2>5. cast' = [cast EXCEPT ![b] = [at |-> "over", held |-> Nobody, seen |-> {}]]
    BY <2>3, <2>4
  <2>6. cast' \in [Broadcasts -> [at: {"idle", "sending", "over"},
                                  held: Tables \cup {Nobody}, seen: SUBSET Sockets]]
    BY <2>5 DEF TableTypes
  <2>7. \A x \in Broadcasts : cast'[x].at = "sending" => cast'[x].held \in Tables
    BY <2>5 DEF TableTypes
  <2>8. tables' \in [Tables -> SUBSET Sockets] /\ tables'[held] = tables[held] \ dead
    BY <2>2 DEF TableTypes
  <2>9. restored' \in BOOLEAN  BY <2>3
  <2>10. TableTypes'  BY <1>1, <2>3, <2>6, <2>7, <2>8, <2>9 DEF TableTypes, socket
  <2>11. TableIsCurrent'
    <3>1. SUFFICES ASSUME ~restored', NEW c \in Sockets
                   PROVE  /\ stage[c] = "reading" /\ line[c] = "up" => c \in tables'[inUse']
                          /\ c \in tables'[inUse'] => stage[c] = "reading"
      BY <1>1 DEF TableIsCurrent, TableInUse, socket
    <3>2. ~restored /\ held = inUse  BY <2>3, <3>1
    <3>3. /\ stage[c] = "reading" /\ line[c] = "up" => c \in tables[inUse]
          /\ c \in tables[inUse] => stage[c] = "reading"
      BY <3>2 DEF TableIsCurrent, TableInUse
    <3>4. line[c] = "up" => c \notin dead  BY <2>2
    <3> QED  BY <2>3, <2>8, <3>2, <3>3, <3>4
  <2> QED  BY <1>2, <2>10, <2>11
<1> QED  BY <1>3, <1>4

LEMMA TableStep ==
  ASSUME TableAssumption, TableInv, [TableNext]_tableVars
  PROVE  TableInv'
<1>1. ASSUME NEW c \in Sockets, \/ SocketOpens(c) \/ SocketChallenged(c) \/ SocketChallengeFails(c)
                               \/ SocketHangsUp(c) \/ SocketConnects(c) \/ PresenceFrame(c)
                               \/ SocketCloses(c)
      PROVE  TableInv'
  BY <1>1, OpensKeeps, ChallengedKeeps, LeavesKeeps, FrameKeeps, ClosesKeeps
<1>2. CASE UNCHANGED tableVars
  BY <1>2 DEF tableVars, socket, table, presence, TableInv, TableTypes, TableIsCurrent,
              TableInUse, PresenceTypes, EntriesFollow, NobodyIsGone
<1> QED  BY <1>1, <1>2, ListKeeps, BroadcastKeeps DEF TableNext

\* Until a broadcast that was overtaken stores its dictionary, the table holds every
\* connection that is read and whose peer is there, and only connections that are read;
\* a closed connection leaves no presence entry, unless its bootstrap failed.
THEOREM EventsReachPeers == TableSpec => []BroadcastsAreHeard
<1>1. TableAssumption /\ TableInit => TableInv  BY TableInitial
<1>2. TableAssumption /\ TableInv /\ [TableNext]_tableVars => TableInv'  BY TableStep
<1>3. TableInv => BroadcastsAreHeard
  <2>1. SUFFICES ASSUME TableInv  PROVE BroadcastsAreHeard  OBVIOUS
  <2>2. \A e \in ToSet(entries) : e.owner \in Sockets \cup {Gateway}
    <3>1. ToSet(entries) \subseteq PresenceEntry  BY <2>1, InSequence DEF TableInv, PresenceTypes
    <3> QED  BY <3>1 DEF PresenceEntry
  <2> QED  BY <2>1, <2>2 DEF TableInv, TableIsCurrent, NobodyIsGone, BroadcastsAreHeard
<1>4. TableAssumption  BY TableAssumption
<1> QED  BY <1>1, <1>2, <1>3, <1>4, PTL DEF TableSpec

-------------------------------------------------------------------------------
(* The plugins.                                                               *)

AskRecord ==
  [at: {"idle", "asking", "called", "refused"}, next: Nat \ {0},
   begun: SUBSET Registration, asked: SUBSET Registration,
   decider: SUBSET Registration, blocks: BOOLEAN, overruled: SUBSET Registration]

HookTypes ==
  /\ loads \in 0..MaxLoads /\ hooks \in Seq(Registration)
  /\ asking \in [ToolCalls -> AskRecord]

\* A registration comes back in order when it is sorted again; and each is of a load so far.
HooksAreSorted ==
  /\ Sorted(hooks) = hooks
  /\ \A i \in 1..Len(hooks) : hooks[i].load <= loads

\* What a tool call has yet to ask lies before it in the list.
StillToAsk(a, r) == \E i \in 1..Len(hooks) : i >= a.next /\ hooks[i] = r

\* The first handlers of a call, which are registered before it begins, are the beginning of
\* the list; while one of them is still to be asked nobody else has decided.
Elder(a, r) == r \in a.begun /\ r.plugin \in Early

EldersComeFirst(a) ==
  /\ \A r \in a.begun : r.load <= loads
  /\ \A i, j \in 1..Len(hooks) : i < j /\ Elder(a, hooks[j]) => Elder(a, hooks[i])
  /\ \A i \in 1..Len(hooks) :
       i >= a.next /\ Elder(a, hooks[i]) => \A d \in a.decider : Elder(a, d)

EldersDecide(a) ==
  \A r \in a.overruled :
    Elder(a, r) => a.decider # {} /\ \A d \in a.decider : Elder(a, d)

AskIsFair(a) ==
  /\ a.at = "asking" => /\ \A r \in a.begun : r \in a.asked \/ StillToAsk(a, r)
                        /\ EldersComeFirst(a) /\ EldersDecide(a)
  /\ a.at \in {"called", "refused"} => a.begun \subseteq a.asked /\ EldersDecide(a)

NoneIsPassed == \A c \in ToolCalls : AskIsFair(asking[c])

UnitTypes ==
  /\ native \in [load: 0..MaxLoads, loaded: SUBSET Plugins, started: SUBSET Units]
  /\ instances \subseteq [unit: Units, load: 0..MaxLoads]
  /\ starter \in [pass: Passes \cup {"none"}, load: 0..MaxLoads, todo: SUBSET Units,
                  starting: SUBSET Units]
  /\ crossed \subseteq Units

\* Outside of what loads and starters have crossed, the current registry knows what runs.
UnitsAreKnown ==
  /\ \A i \in instances : i.unit \notin crossed => i.load = native.load
  /\ \A u \in Units \ crossed : u \in native.started <=> \E i \in instances : i.unit = u
  /\ starter.load # native.load => starter.todo \cup starter.starting \subseteq crossed

PluginInv == HookTypes /\ HooksAreSorted /\ NoneIsPassed /\ UnitTypes /\ UnitsAreKnown

-------------------------------------------------------------------------------
(* Sorting.                                                                   *)

\* Every element of one list is in the other, no earlier than in the first.
MovedBack(before, after) ==
  \A i \in 1..Len(before) : \E j \in 1..Len(after) : j >= i /\ after[j] = before[i]

\* The early registrations, and the others.
EarlyOnes == {r \in Registration : r.plugin \in Early}
LateOnes == {r \in Registration : r.plugin \notin Early}

\* What is kept of a list of registrations.
LEMMA HooksKept ==
  \A s \in Seq(Registration) : \A S :
     /\ Kept(s, S) \in Seq(Registration)
     /\ \A k \in 1..Len(Kept(s, S)) :
          Kept(s, S)[k] \in S /\ \E i \in 1..Len(s) : s[i] = Kept(s, S)[k]
<1>1. TAKE s \in Seq(Registration)
<1>2. TAKE S
<1>3. Kept(s, S) \in Seq(Registration)  BY KeptType
<1>4. \A k \in 1..Len(Kept(s, S)) :
         Kept(s, S)[k] \in S /\ \E i \in 1..Len(s) : s[i] = Kept(s, S)[k]
  BY KeptElements
<1> QED  BY <1>3, <1>4

LEMMA PartsOfBoth ==
  \A s, t \in Seq(Registration) : \A S : Kept(s \o t, S) = Kept(s, S) \o Kept(t, S)
<1>1. \A T : \A s, t \in Seq(T) : \A S : Kept(s \o t, S) = Kept(s, S) \o Kept(t, S)
  BY KeptConcat
<1> QED  BY <1>1

\* What is sorted is its early registrations, then the others; and sorting again
\* changes nothing.
LEMMA SortedParts ==
  \A s \in Seq(Registration) :
     /\ Sorted(s) = Kept(s, EarlyOnes) \o Kept(s, LateOnes)
     /\ Sorted(s) \in Seq(Registration)
     /\ Sorted(Sorted(s)) = Sorted(s)
<1>1. TAKE s \in Seq(Registration)
<1>2. \A t : Sorted(t) = Kept(t, EarlyOnes) \o Kept(t, LateOnes)
  BY DEF Sorted, EarlyOnes, LateOnes
<1>3. PICK e \in Seq(Registration) : e = Kept(s, EarlyOnes)  BY HooksKept
<1>4. PICK l \in Seq(Registration) : l = Kept(s, LateOnes)  BY HooksKept
<1>5. \A i \in 1..Len(e) : e[i] \in EarlyOnes  BY <1>3, HooksKept
<1>6. \A i \in 1..Len(l) : l[i] \in LateOnes  BY <1>4, HooksKept
<1>7. EarlyOnes \cap LateOnes = {}  BY DEF EarlyOnes, LateOnes
<1>8. Kept(e, EarlyOnes) = e /\ Kept(l, LateOnes) = l  BY <1>5, <1>6, KeptAll
<1>9. Kept(l, EarlyOnes) = <<>> /\ Kept(e, LateOnes) = <<>>  BY <1>5, <1>6, <1>7, KeptNone
<1>10. Kept(e \o l, EarlyOnes) = e \o <<>> /\ Kept(e \o l, LateOnes) = <<>> \o l
  <2>1. Kept(e \o l, EarlyOnes) = Kept(e, EarlyOnes) \o Kept(l, EarlyOnes)  BY PartsOfBoth
  <2>2. Kept(e \o l, LateOnes) = Kept(e, LateOnes) \o Kept(l, LateOnes)  BY PartsOfBoth
  <2> QED  BY <1>8, <1>9, <2>1, <2>2, Zenon
<1>11. e \o <<>> = e /\ <<>> \o l = l  OBVIOUS
<1>12. Sorted(s) = e \o l  BY <1>2, <1>3, <1>4, Zenon
<1>13. Sorted(e \o l) = e \o l  BY <1>2, <1>10, <1>11
<1>14. e \o l \in Seq(Registration)  OBVIOUS
<1> QED  BY <1>2, <1>12, <1>13, <1>14, Zenon

\* What a sorted list becomes when another is sorted into it.
LEMMA SortedSum ==
  \A s, t \in Seq(Registration) : Sorted(s) = s =>
     /\ s = Kept(s, EarlyOnes) \o Kept(s, LateOnes)
     /\ Sorted(s \o t) = (Kept(s, EarlyOnes) \o Kept(t, EarlyOnes))
                             \o (Kept(s, LateOnes) \o Kept(t, LateOnes))
<1>1. TAKE s, t \in Seq(Registration)
<1>2. HAVE Sorted(s) = s
<1>3. Kept(s \o t, EarlyOnes) = Kept(s, EarlyOnes) \o Kept(t, EarlyOnes)  BY PartsOfBoth
<1>4. Kept(s \o t, LateOnes) = Kept(s, LateOnes) \o Kept(t, LateOnes)  BY PartsOfBoth
<1>5. s \o t \in Seq(Registration)  OBVIOUS
<1>6. Sorted(s \o t) = Kept(s \o t, EarlyOnes) \o Kept(s \o t, LateOnes)
  BY <1>5, SortedParts
<1>7. Sorted(s) = Kept(s, EarlyOnes) \o Kept(s, LateOnes)  BY SortedParts
<1> QED  BY <1>2, <1>3, <1>4, <1>6, <1>7, Zenon

\* Elements only move back when others are put between and behind.
LEMMA MovesBack ==
  ASSUME NEW T, NEW e \in Seq(T), NEW l \in Seq(T), NEW a \in Seq(T), NEW b \in Seq(T)
  PROVE  MovedBack(e \o l, (e \o a) \o (l \o b))
<1>1. PICK before : before = e \o l  OBVIOUS
<1>2. PICK ea, lb : ea = e \o a /\ lb = l \o b  OBVIOUS
<1>3. PICK after : after = ea \o lb  OBVIOUS
<1>4. SUFFICES ASSUME NEW i \in 1..Len(before)
               PROVE  \E j \in 1..Len(after) : j >= i /\ after[j] = before[i]
  BY <1>1, <1>2, <1>3 DEF MovedBack
<1>5. /\ Len(e) \in Nat /\ Len(l) \in Nat /\ Len(a) \in Nat /\ Len(b) \in Nat
      /\ before \in Seq(T) /\ Len(before) = Len(e) + Len(l)
  BY <1>1
<1>6. ea \in Seq(T) /\ Len(ea) = Len(e) + Len(a) /\ \A k \in 1..Len(e) : ea[k] = e[k]
  BY <1>2
<1>7. lb \in Seq(T) /\ Len(lb) = Len(l) + Len(b) /\ \A k \in 1..Len(l) : lb[k] = l[k]
  BY <1>2
<1>8. /\ Len(after) = Len(ea) + Len(lb)
      /\ \A k \in 1..Len(ea) : after[k] = ea[k]
      /\ \A k \in 1..Len(lb) : after[Len(ea) + k] = lb[k]
  <2>1. ea \in Seq(T) /\ lb \in Seq(T)  BY <1>6, <1>7
  <2>2. Len(after) = Len(ea) + Len(lb) /\ Len(ea) \in Nat /\ Len(lb) \in Nat
    BY <1>3, <2>1
  <2>3. \A k \in 1..Len(ea) : after[k] = ea[k]  BY <1>3, <2>1, <2>2
  <2>4. \A k \in 1..Len(lb) : after[Len(ea) + k] = lb[k]  BY <1>3, <2>1, <2>2
  <2> QED  BY <2>2, <2>3, <2>4
<1>9. /\ \A k \in 1..Len(e) : before[k] = e[k]
      /\ \A k \in 1..Len(l) : before[Len(e) + k] = l[k]
  BY <1>1, <1>5
<1>10. CASE i \in 1..Len(e)
  <2>1. i \in 1..Len(after) /\ i \in 1..Len(ea)  BY <1>5, <1>6, <1>7, <1>8, <1>10
  <2>2. after[i] = before[i]  BY <1>6, <1>8, <1>9, <1>10, <2>1
  <2>3. i >= i  BY <1>10
  <2> QED  BY <2>1, <2>2, <2>3
<1>11. CASE i \notin 1..Len(e)
  <2>1. PICK k \in 1..Len(l) : i = Len(e) + k
    <3>1. i \in 1..(Len(e) + Len(l))  BY <1>5
    <3>2. i - Len(e) \in 1..Len(l) /\ i = Len(e) + (i - Len(e))  BY <1>5, <1>11, <3>1
    <3> QED  BY <3>2
  <2>2. PICK j : j = Len(ea) + k  OBVIOUS
  <2>3. j \in 1..Len(after) /\ j >= i /\ k \in 1..Len(lb)
    <3>1. k \in Nat \ {0} /\ k <= Len(l) /\ Len(e) \in Nat /\ Len(l) \in Nat  BY <1>5
    <3>2. k \in 1..Len(lb)  BY <1>7, <1>8, <3>1
    <3>3. j \in 1..Len(after)  BY <1>8, <2>2, <3>1, <3>2
    <3>4. j >= i  BY <1>6, <1>8, <2>1, <2>2, <3>1
    <3> QED  BY <3>2, <3>3, <3>4
  <2>4. after[j] = l[k] /\ before[i] = l[k]  BY <1>7, <1>8, <1>9, <2>1, <2>2, <2>3
  <2> QED  BY <2>3, <2>4
<1> QED  BY <1>10, <1>11

LEMMA HooksOfType ==
  ASSUME PluginAssumption, NEW loaded, NEW load \in 0..MaxLoads
  PROVE  HooksOf(loaded, load) \in Seq(Registration)
<1>1. Discovered \in Seq(Plugins)  BY DEF PluginAssumption
<1>2. PICK taken \in Seq(Plugins) : taken = Kept(Discovered, loaded)  BY <1>1, KeptType
<1>3. PICK n \in Nat : n = Len(taken)  OBVIOUS
<1>4. DOMAIN taken = 1..n /\ \A i \in 1..n : taken[i] \in Plugins  BY <1>3
<1>5. HooksOf(loaded, load) = [i \in 1..n |-> [plugin |-> taken[i], load |-> load]]
  BY <1>2, <1>4 DEF HooksOf
<1>6. \A i \in 1..n : [plugin |-> taken[i], load |-> load] \in Registration
  BY <1>4 DEF Registration
<1>7. HooksOf(loaded, load) \in [1..n -> Registration]  BY <1>5, <1>6
<1> QED  BY <1>7

LEMMA SortedBoth ==
  \A s, t \in Seq(Registration) : Sorted(s) = s => MovedBack(s, Sorted(s \o t))
<1>1. TAKE s, t \in Seq(Registration)
<1>2. HAVE Sorted(s) = s
<1>3. /\ s = Kept(s, EarlyOnes) \o Kept(s, LateOnes)
      /\ Sorted(s \o t) = (Kept(s, EarlyOnes) \o Kept(t, EarlyOnes))
                              \o (Kept(s, LateOnes) \o Kept(t, LateOnes))
  BY <1>2, SortedSum
<1>4. PICK e, l, a, b \in Seq(Registration) :
        /\ e = Kept(s, EarlyOnes) /\ l = Kept(s, LateOnes)
        /\ a = Kept(t, EarlyOnes) /\ b = Kept(t, LateOnes)
  BY HooksKept
<1>5. MovedBack(e \o l, (e \o a) \o (l \o b))  BY MovesBack
<1> QED  BY <1>3, <1>4, <1>5, Zenon

\* In a sorted list the early registrations come before the others.
LEMMA EarlyComeFirst ==
  ASSUME NEW s \in Seq(Registration), Sorted(s) = s
  PROVE  \A i, j \in 1..Len(s) : i < j /\ s[j].plugin \in Early => s[i].plugin \in Early
<1>1. PICK e \in Seq(Registration) : e = Kept(s, EarlyOnes)  BY HooksKept
<1>2. PICK l \in Seq(Registration) : l = Kept(s, LateOnes)  BY HooksKept
<1>3. s = e \o l
  <2>1. Sorted(s) = Kept(s, EarlyOnes) \o Kept(s, LateOnes)  BY SortedParts
  <2> QED  BY <1>1, <1>2, <2>1, Zenon
<1>4. \A k \in 1..Len(e) : e[k] \in EarlyOnes  BY <1>1, HooksKept
<1>5. \A k \in 1..Len(l) : l[k] \in LateOnes  BY <1>2, HooksKept
<1>6. /\ Len(e) \in Nat /\ Len(l) \in Nat /\ Len(s) = Len(e) + Len(l)
      /\ \A k \in 1..Len(e) : s[k] = e[k]
      /\ \A k \in (Len(e) + 1)..Len(s) : s[k] = l[k - Len(e)]
  BY <1>3
<1>7. ASSUME NEW i \in 1..Len(s), NEW j \in 1..Len(s), i < j, s[j].plugin \in Early
      PROVE  s[i].plugin \in Early
  <2>1. j <= Len(e)
    <3>1. SUFFICES ASSUME j > Len(e)  PROVE FALSE  BY <1>6
    <3>2. j - Len(e) \in 1..Len(l) /\ j \in (Len(e) + 1)..Len(s)  BY <1>6, <3>1
    <3>3. s[j] \in LateOnes  BY <1>5, <1>6, <3>2
    <3> QED  BY <1>7, <3>3 DEF LateOnes
  <2>2. i \in 1..Len(e)  BY <1>6, <1>7, <2>1
  <2>3. s[i] \in EarlyOnes  BY <1>4, <1>6, <2>2
  <2> QED  BY <2>3 DEF EarlyOnes
<1> QED  BY <1>7

\* The elements of two lists joined.
IsJoined(s, t, both) ==
  /\ Len(both) = Len(s) + Len(t)
  /\ \A i \in 1..Len(s) : both[i] = s[i]
  /\ \A i \in (Len(s) + 1)..Len(both) : both[i] = t[i - Len(s)]

LEMMA Joined == \A s, t \in Seq(Registration) : IsJoined(s, t, s \o t)  BY DEF IsJoined

\* Whether the early handlers of the loads before a given one are where they were, and
\* everything before them, and whether all of a list is of one load.
EldersStay(before, after, load) ==
  \A j \in 1..Len(after) :
    after[j].plugin \in Early /\ after[j].load < load =>
      j \in 1..Len(before) /\ \A i \in 1..j : after[i] = before[i]

AllOfLoad(s, load) == \A i \in 1..Len(s) : s[i].load = load

\* What is early and of an earlier load keeps its place when more is sorted in, and so does
\* everything before it.
LEMMA FirstStay ==
  \A s, t, after \in Seq(Registration) : \A load \in Nat :
    Sorted(s) = s /\ after = Sorted(s \o t) /\ AllOfLoad(t, load) => EldersStay(s, after, load)
<1>0. SUFFICES ASSUME NEW s \in Seq(Registration), NEW t \in Seq(Registration),
                      NEW after \in Seq(Registration), NEW load \in Nat,
                      Sorted(s) = s, after = Sorted(s \o t),
                      \A i \in 1..Len(t) : t[i].load = load
               PROVE  \A j \in 1..Len(after) :
                        after[j].plugin \in Early /\ after[j].load < load =>
                          j \in 1..Len(s) /\ \A i \in 1..j : after[i] = s[i]
  BY DEF AllOfLoad, EldersStay
<1>1. PICK e \in Seq(Registration) : e = Kept(s, EarlyOnes)  BY HooksKept
<1>2. PICK l \in Seq(Registration) : l = Kept(s, LateOnes)  BY HooksKept
<1>3. PICK a \in Seq(Registration) : a = Kept(t, EarlyOnes)  BY HooksKept
<1>4. PICK b \in Seq(Registration) : b = Kept(t, LateOnes)  BY HooksKept
<1>5. s = e \o l /\ after = (e \o a) \o (l \o b)
  <2>1. /\ s = Kept(s, EarlyOnes) \o Kept(s, LateOnes)
        /\ Sorted(s \o t) = (Kept(s, EarlyOnes) \o Kept(t, EarlyOnes))
                                \o (Kept(s, LateOnes) \o Kept(t, LateOnes))
    BY <1>0, SortedSum
  <2> QED  BY <1>0, <1>1, <1>2, <1>3, <1>4, <2>1, Zenon
<1>6. SUFFICES ASSUME NEW j \in 1..Len(after), after[j].plugin \in Early, after[j].load < load
               PROVE  j \in 1..Len(s) /\ \A i \in 1..j : after[i] = s[i]
  OBVIOUS
<1>7. PICK ea, lb : ea = e \o a /\ lb = l \o b  OBVIOUS
<1>8. /\ Len(e) \in Nat /\ Len(l) \in Nat /\ Len(a) \in Nat /\ Len(b) \in Nat
      /\ ea \in Seq(Registration) /\ Len(ea) = Len(e) + Len(a)
      /\ lb \in Seq(Registration) /\ Len(lb) = Len(l) + Len(b)
  BY <1>7
<1>9. /\ \A i \in 1..Len(e) : ea[i] = e[i]
      /\ \A i \in (Len(e) + 1)..Len(ea) : ea[i] = a[i - Len(e)]
  BY <1>7, <1>8
<1>10. /\ \A i \in 1..Len(l) : lb[i] = l[i]
       /\ \A i \in (Len(l) + 1)..Len(lb) : lb[i] = b[i - Len(l)]
  BY <1>7, <1>8
<1>11. /\ Len(after) = Len(ea) + Len(lb)
       /\ \A i \in 1..Len(ea) : after[i] = ea[i]
       /\ \A i \in (Len(ea) + 1)..Len(after) : after[i] = lb[i - Len(ea)]
  <2>1. after = ea \o lb  BY <1>5, <1>7, Zenon
  <2>2. ea \in Seq(Registration) /\ lb \in Seq(Registration)  BY <1>8
  <2>3. IsJoined(ea, lb, ea \o lb)  BY <2>2, Joined, Zenon
  <2> QED  BY <2>1, <2>3 DEF IsJoined
<1>12. Len(s) = Len(e) + Len(l) /\ \A i \in 1..Len(e) : s[i] = e[i]
  BY <1>5, <1>8
<1>13. \A i \in 1..Len(lb) : lb[i] \in LateOnes
  <2>1. SUFFICES ASSUME NEW i \in 1..Len(lb)  PROVE lb[i] \in LateOnes  OBVIOUS
  <2>2. \A k \in 1..Len(l) : l[k] \in LateOnes  BY <1>2, HooksKept
  <2>3. \A k \in 1..Len(b) : b[k] \in LateOnes  BY <1>4, HooksKept
  <2>4. CASE i <= Len(l)
    <3>1. i \in 1..Len(l)  BY <1>8, <2>4
    <3> QED  BY <1>10, <2>2, <3>1
  <2>5. CASE i > Len(l)
    <3>1. i \in (Len(l) + 1)..Len(lb) /\ i - Len(l) \in 1..Len(b)  BY <1>8, <2>5
    <3> QED  BY <1>10, <2>3, <3>1
  <2> QED  BY <1>8, <2>4, <2>5
<1>14. \A i \in 1..Len(a) : a[i].load = load
  <2>1. \A i \in 1..Len(a) : \E k \in 1..Len(t) : t[k] = a[i]  BY <1>3, HooksKept
  <2> QED  BY <1>0, <2>1
<1>15. j <= Len(ea)
  <2>1. SUFFICES ASSUME j > Len(ea)  PROVE FALSE  BY <1>8
  <2>2. j \in (Len(ea) + 1)..Len(after) /\ j - Len(ea) \in 1..Len(lb)  BY <1>8, <1>11, <2>1
  <2>3. after[j] \in LateOnes  BY <1>11, <1>13, <2>2
  <2> QED  BY <1>6, <2>3 DEF LateOnes
<1>16. j <= Len(e)
  <2>1. SUFFICES ASSUME j > Len(e)  PROVE FALSE  BY <1>8
  <2>2. j \in (Len(e) + 1)..Len(ea) /\ j - Len(e) \in 1..Len(a) /\ j \in 1..Len(ea)
    BY <1>8, <1>15, <2>1
  <2>3. after[j] = a[j - Len(e)]  BY <1>9, <1>11, <2>2
  <2>4. after[j].load = load  BY <1>14, <2>2, <2>3
  <2> QED  BY <1>6, <2>4
<1>17. \A i \in 1..j : i \in 1..Len(e) /\ i \in 1..Len(ea)  BY <1>8, <1>16
<1>18. \A i \in 1..j : after[i] = s[i]  BY <1>9, <1>11, <1>12, <1>17
<1>19. j \in 1..Len(s)  BY <1>8, <1>12, <1>16
<1> QED  BY <1>18, <1>19

\* What a load registers keeps the list sorted, moves nothing forward in it, and leaves the
\* early handlers of earlier loads where they are.
LEMMA RegisteredKeeps ==
  ASSUME PluginAssumption, HookTypes, HooksAreSorted,
         NEW loaded, NEW load \in 0..MaxLoads, load = loads + 1,
         NEW after, after = Registered(loaded, load)
  PROVE  /\ after \in Seq(Registration) /\ Sorted(after) = after
         /\ \A i \in 1..Len(after) : after[i].load <= load
         /\ MovedBack(hooks, after)
         /\ \A j \in 1..Len(after) :
              after[j].plugin \in Early /\ after[j].load <= loads =>
                j \in 1..Len(hooks) /\ \A i \in 1..j : after[i] = hooks[i]
<1>1. PICK new \in Seq(Registration) : new = HooksOf(loaded, load)  BY HooksOfType
<1>2. PICK old \in Seq(Registration) : old = hooks  BY DEF HookTypes
<1>3. old \o new \in Seq(Registration)  OBVIOUS
<1>4. after = Sorted(old \o new)  BY <1>1, <1>2 DEF Registered
<1>5. after \in Seq(Registration) /\ Sorted(after) = after
  BY <1>3, <1>4, SortedParts
<1>6. Sorted(old) = old  BY <1>2 DEF HooksAreSorted
<1>7. MovedBack(old, after)  BY <1>4, <1>6, SortedBoth
<1>8. loads \in Nat /\ load \in Nat  BY DEF HookTypes
<1>9. \A i \in 1..Len(new) : new[i].load = load
  <2>1. PICK taken : taken = Kept(Discovered, loaded)  OBVIOUS
  <2>2. new = [i \in DOMAIN taken |-> [plugin |-> taken[i], load |-> load]]
    BY <1>1, <2>1 DEF HooksOf
  <2>3. DOMAIN new = 1..Len(new)  OBVIOUS
  <2>4. DOMAIN new = DOMAIN taken  BY <2>2
  <2> QED  BY <2>2, <2>3, <2>4
<1>10. \A i \in 1..Len(after) : after[i].load <= load
  <2>1. PICK both \in Seq(Registration) : both = old \o new  BY <1>3
  <2>2. \A i \in 1..Len(both) : both[i].load <= load
    <3>1. \A i \in 1..Len(old) : old[i].load <= loads  BY <1>2 DEF HooksAreSorted
    <3>2. /\ Len(both) = Len(old) + Len(new) /\ Len(old) \in Nat /\ Len(new) \in Nat
          /\ \A i \in 1..Len(old) : both[i] = old[i]
          /\ \A i \in (Len(old) + 1)..Len(both) : both[i] = new[i - Len(old)]
      BY <2>1
    <3>3. SUFFICES ASSUME NEW i \in 1..Len(both)  PROVE both[i].load <= load  OBVIOUS
    <3>4. CASE i <= Len(old)
      <4>1. i \in 1..Len(old)  BY <3>2, <3>4
      <4>2. both[i].load <= loads /\ both[i] \in Registration  BY <3>1, <3>2, <4>1
      <4> QED  BY <1>8, <4>2 DEF Registration
    <3>5. CASE i > Len(old)
      <4>1. i \in (Len(old) + 1)..Len(both) /\ i - Len(old) \in 1..Len(new)  BY <3>2, <3>5
      <4>2. both[i].load = load  BY <1>9, <3>2, <4>1
      <4> QED  BY <1>8, <4>2
    <3> QED  BY <3>2, <3>4, <3>5
  <2>3. PICK e \in Seq(Registration) : e = Kept(both, EarlyOnes)  BY HooksKept
  <2>4. PICK l \in Seq(Registration) : l = Kept(both, LateOnes)  BY HooksKept
  <2>5. after = e \o l
    <3>1. Sorted(both) = Kept(both, EarlyOnes) \o Kept(both, LateOnes)  BY SortedParts
    <3> QED  BY <1>4, <2>1, <2>3, <2>4, <3>1, Zenon
  <2>6. \A k \in 1..Len(e) : \E i \in 1..Len(both) : both[i] = e[k]  BY <2>3, HooksKept
  <2>7. \A k \in 1..Len(l) : \E i \in 1..Len(both) : both[i] = l[k]  BY <2>4, HooksKept
  <2>8. (\A k \in 1..Len(e) : e[k].load <= load) /\ (\A k \in 1..Len(l) : l[k].load <= load)
    BY <2>2, <2>6, <2>7
  <2>9. /\ Len(after) = Len(e) + Len(l) /\ Len(e) \in Nat /\ Len(l) \in Nat
        /\ \A i \in 1..Len(e) : after[i] = e[i]
        /\ \A i \in (Len(e) + 1)..Len(after) : after[i] = l[i - Len(e)]
    <3>1. IsJoined(e, l, e \o l)  BY Joined
    <3>2. Len(e) \in Nat /\ Len(l) \in Nat  OBVIOUS
    <3> QED  BY <2>5, <3>1, <3>2 DEF IsJoined
  <2>10. SUFFICES ASSUME NEW i \in 1..Len(after)  PROVE after[i].load <= load  OBVIOUS
  <2>11. CASE i <= Len(e)
    <3>1. i \in 1..Len(e)  BY <2>9, <2>11
    <3> QED  BY <2>8, <2>9, <3>1
  <2>12. CASE i > Len(e)
    <3>1. i \in (Len(e) + 1)..Len(after) /\ i - Len(e) \in 1..Len(l)  BY <2>9, <2>12
    <3> QED  BY <2>8, <2>9, <3>1
  <2> QED  BY <2>9, <2>11, <2>12
<1>11. ASSUME NEW j \in 1..Len(after), after[j].plugin \in Early, after[j].load <= loads
       PROVE  j \in 1..Len(hooks) /\ \A i \in 1..j : after[i] = hooks[i]
  <2>1. after[j] \in Registration  BY <1>5, InSequence
  <2>2. after[j].load < load  BY <1>8, <1>11, <2>1 DEF Registration
  <2>3. j \in 1..Len(old) /\ \A i \in 1..j : after[i] = old[i]
    <3>1. PICK t \in Seq(Registration), b \in Seq(Registration), n \in Nat :
            t = new /\ b = after /\ n = load
      BY <1>5, <1>8
    <3>2. Sorted(old) = old /\ b = Sorted(old \o t) /\ AllOfLoad(t, n) => EldersStay(old, b, n)
      BY FirstStay, Zenon
    <3>3. Sorted(old) = old /\ b = Sorted(old \o t) /\ AllOfLoad(t, n)
      BY <1>4, <1>6, <1>9, <3>1 DEF AllOfLoad
    <3> QED  BY <1>11, <2>2, <3>1, <3>2, <3>3 DEF EldersStay
  <2> QED  BY <1>2, <2>3
<1> QED  BY <1>2, <1>5, <1>7, <1>10, <1>11

-------------------------------------------------------------------------------
(* The steps: hooks.                                                          *)

LEMMA LoadKeepsHooks ==
  ASSUME PluginAssumption, HookTypes, HooksAreSorted, NoneIsPassed,
         NEW loaded, NEW load \in 0..MaxLoads, load = loads + 1,
         loads' = load, hooks' = Registered(loaded, load), UNCHANGED asking
  PROVE  HookTypes' /\ HooksAreSorted' /\ NoneIsPassed'
<1>1. PICK after : after = hooks'  OBVIOUS
<1>2. /\ after \in Seq(Registration) /\ Sorted(after) = after
      /\ \A i \in 1..Len(after) : after[i].load <= load
      /\ MovedBack(hooks, after)
      /\ \A j \in 1..Len(after) :
           after[j].plugin \in Early /\ after[j].load <= loads =>
             j \in 1..Len(hooks) /\ \A i \in 1..j : after[i] = hooks[i]
  BY <1>1, RegisteredKeeps
<1>3. \A i \in 1..Len(hooks) : \E j \in 1..Len(after) : j >= i /\ after[j] = hooks[i]
  BY <1>2 DEF MovedBack
<1>4. HookTypes' /\ HooksAreSorted'
  BY <1>1, <1>2 DEF HookTypes, HooksAreSorted, Registration, AskRecord
<1>5. Len(hooks) \in Nat /\ Len(after) \in Nat /\ loads \in Nat
  BY <1>2 DEF HookTypes
<1>6. ASSUME NEW a \in AskRecord, AskIsFair(a)  PROVE AskIsFair(a)'
  <2>1. a.next \in Nat  BY DEF AskRecord
  <2>2. ASSUME NEW r, StillToAsk(a, r)  PROVE StillToAsk(a, r)'
    <3>1. PICK i \in 1..Len(hooks) : i >= a.next /\ hooks[i] = r  BY <2>2 DEF StillToAsk
    <3>2. PICK j \in 1..Len(after) : j >= i /\ after[j] = hooks[i]  BY <1>3
    <3>3. j >= a.next /\ after[j] = r  BY <1>5, <2>1, <3>1, <3>2
    <3> QED  BY <1>1, <3>3 DEF StillToAsk
  <2>3. ASSUME EldersComeFirst(a)  PROVE EldersComeFirst(a)'
    <3>1. \A r \in a.begun : r.load <= loads  BY <2>3 DEF EldersComeFirst
    <3>2. \A r \in a.begun : r.load \in Nat  BY DEF AskRecord, Registration
    <3>3. \A r \in a.begun : r.load <= load  BY <1>5, <3>1, <3>2
    <3>4. ASSUME NEW j \in 1..Len(after), Elder(a, after[j])
          PROVE  j \in 1..Len(hooks) /\ \A i \in 1..j : after[i] = hooks[i]
      BY <1>2, <3>1, <3>4 DEF Elder
    <3>5. ASSUME NEW i \in 1..Len(after), NEW j \in 1..Len(after), i < j, Elder(a, after[j])
          PROVE  Elder(a, after[i])
      <4>1. j \in 1..Len(hooks) /\ after[j] = hooks[j] /\ after[i] = hooks[i] /\ i \in 1..Len(hooks)
        BY <1>5, <3>4, <3>5
      <4> QED  BY <2>3, <3>5, <4>1 DEF EldersComeFirst
    <3>6. ASSUME NEW i \in 1..Len(after), i >= a.next, Elder(a, after[i])
          PROVE  \A d \in a.decider : Elder(a, d)
      <4>1. i \in 1..Len(hooks) /\ after[i] = hooks[i]  BY <1>5, <3>4, <3>6
      <4> QED  BY <2>3, <3>6, <4>1 DEF EldersComeFirst
    <3> QED  BY <1>1, <3>3, <3>5, <3>6 DEF EldersComeFirst, Elder
  <2>4. EldersDecide(a) => EldersDecide(a)'  BY DEF EldersDecide, Elder
  <2> QED  BY <1>6, <2>2, <2>3, <2>4 DEF AskIsFair
<1>7. NoneIsPassed'
  <2>1. \A c \in ToolCalls : asking'[c] = asking[c] /\ asking[c] \in AskRecord
    BY DEF HookTypes
  <2>2. \A c \in ToolCalls : AskIsFair(asking[c])'
    BY <1>6, <2>1 DEF NoneIsPassed
  <2> QED  BY <2>2 DEF NoneIsPassed
<1> QED  BY <1>4, <1>7

\* A call that changes leaves the others as they are.
LEMMA OneAsks ==
  ASSUME HookTypes, HooksAreSorted, NoneIsPassed, UNCHANGED <<loads, hooks>>,
         NEW c \in ToolCalls, NEW b \in AskRecord, asking' = [asking EXCEPT ![c] = b], AskIsFair(b)
  PROVE  HookTypes' /\ HooksAreSorted' /\ NoneIsPassed'
<1>1. HookTypes'  BY DEF HookTypes, Registration, AskRecord
<1>2. HooksAreSorted'  BY DEF HooksAreSorted
<1>3. asking'[c] = b /\ \A d \in ToolCalls \ {c} : asking'[d] = asking[d]
  BY DEF HookTypes
<1>4. ASSUME NEW d \in ToolCalls  PROVE AskIsFair(asking[d])'
  <2>1. AskIsFair(asking'[d])  BY <1>3 DEF NoneIsPassed
  <2> QED  BY <2>1 DEF AskIsFair, StillToAsk, EldersComeFirst, EldersDecide, Elder
<1> QED  BY <1>1, <1>2, <1>4 DEF NoneIsPassed

LEMMA AskBegins ==
  ASSUME HookTypes, HooksAreSorted, NoneIsPassed, NEW c \in ToolCalls, AskHooks(c)
  PROVE  HookTypes' /\ HooksAreSorted' /\ NoneIsPassed'
<1>1. UNCHANGED <<loads, hooks>>  BY DEF AskHooks
<1>2. hooks \in Seq(Registration) /\ Len(hooks) \in Nat  BY DEF HookTypes
<1>3. AllHooks = {hooks[i] : i \in 1..Len(hooks)}  BY <1>2 DEF AllHooks
<1>4. AllHooks \subseteq Registration  BY <1>2, <1>3
<1>5. PICK at \in {"called", "asking"} : at = IF hooks = <<>> THEN "called" ELSE "asking"
  OBVIOUS
<1>6. PICK b : b = [NotAsking EXCEPT !.at = at, !.begun = AllHooks]  OBVIOUS
<1>7. asking' = [asking EXCEPT ![c] = b]  BY <1>5, <1>6 DEF AskHooks
<1>8. NotAsking \in AskRecord /\ NotAsking.next = 1
      /\ NotAsking.decider = {} /\ NotAsking.overruled = {}
  BY DEF NotAsking, AskRecord
<1>9. /\ b \in AskRecord /\ b.at = at /\ b.begun = AllHooks /\ b.next = 1
      /\ b.decider = {} /\ b.overruled = {}
  BY <1>4, <1>6, <1>8 DEF AskRecord
<1>10. \A r \in b.begun : StillToAsk(b, r)
  BY <1>2, <1>3, <1>9 DEF StillToAsk
<1>11. at = "called" => b.begun = {}
  <2>1. hooks = <<>> => Len(hooks) = 0  OBVIOUS
  <2> QED  BY <1>2, <1>3, <1>5, <1>9, <2>1
<1>12. EldersComeFirst(b)
  <2>1. \A r \in b.begun : r.load <= loads  BY <1>3, <1>9 DEF HooksAreSorted
  <2>2. \A i, j \in 1..Len(hooks) : i < j /\ hooks[j].plugin \in Early => hooks[i].plugin \in Early
    BY <1>2, EarlyComeFirst DEF HooksAreSorted
  <2>3. \A i \in 1..Len(hooks) : hooks[i] \in b.begun  BY <1>3, <1>9
  <2> QED  BY <1>9, <2>1, <2>2, <2>3 DEF EldersComeFirst, Elder
<1>13. EldersDecide(b)  BY <1>9 DEF EldersDecide
<1>14. AskIsFair(b)  BY <1>5, <1>9, <1>10, <1>11, <1>12, <1>13 DEF AskIsFair
<1> QED  BY <1>1, <1>7, <1>9, <1>14, OneAsks

LEMMA HandlerAnswers ==
  ASSUME HookTypes, HooksAreSorted, NoneIsPassed, NEW c \in ToolCalls, AskNext(c)
  PROVE  HookTypes' /\ HooksAreSorted' /\ NoneIsPassed'
<1>1. UNCHANGED <<loads, hooks>>  BY DEF AskNext
<1>2. hooks \in Seq(Registration) /\ Len(hooks) \in Nat  BY DEF HookTypes
<1>3. PICK a \in AskRecord : a = asking[c]  BY DEF HookTypes
<1>4. a.at = "asking" /\ a.next <= Len(hooks) /\ a.next \in Nat \ {0} /\ a.next \in 1..Len(hooks)
  BY <1>2, <1>3 DEF AskNext, AskRecord
<1>5. PICK h \in Registration : h = hooks[a.next]  BY <1>2, <1>4
<1>6. PICK answer \in {"nothing", "result", "block"} :
        asking' = [asking EXCEPT ![c] = Heard(asking[c], h, answer)]
  BY <1>3, <1>5 DEF AskNext
<1>7. PICK b : b = Heard(a, h, answer)  OBVIOUS
<1>8. asking' = [asking EXCEPT ![c] = b]  BY <1>3, <1>6, <1>7
<1>9. PICK on : on = [a EXCEPT !.next = a.next + 1, !.asked = a.asked \cup {h}]  OBVIOUS
<1>10. /\ on \in AskRecord /\ on.at = a.at /\ on.next = a.next + 1 /\ on.begun = a.begun
       /\ on.asked = a.asked \cup {h} /\ on.decider = a.decider /\ on.overruled = a.overruled
  <2>1. PICK n \in Nat \ {0} : n = a.next + 1  BY <1>4
  <2>2. PICK asked \in SUBSET Registration : asked = a.asked \cup {h}  BY DEF AskRecord
  <2>3. on = [a EXCEPT !.next = n, !.asked = asked]  BY <1>9, <2>1, <2>2
  <2>4. on \in AskRecord  BY <2>3 DEF AskRecord
  <2>5. /\ on.at = a.at /\ on.next = n /\ on.begun = a.begun /\ on.asked = asked
        /\ on.decider = a.decider /\ on.overruled = a.overruled
    BY <2>3 DEF AskRecord
  <2> QED  BY <2>1, <2>2, <2>4, <2>5
<1>11. \/ b = on
       \/ a.decider = {} /\ b = [on EXCEPT !.decider = {h}, !.blocks = (answer = "block")]
       \/ a.decider # {} /\ \E o \in {a.overruled, a.overruled \cup {h}} : b = [on EXCEPT !.overruled = o]
  BY <1>7, <1>9, <1>10 DEF Heard
<1>12. /\ b \in AskRecord /\ b.at = a.at /\ b.next = a.next + 1 /\ b.begun = a.begun
       /\ b.asked = a.asked \cup {h}
       /\ \/ b.decider = a.decider /\ b.overruled = a.overruled
          \/ a.decider = {} /\ b.decider = {h} /\ b.overruled = a.overruled
          \/ a.decider # {} /\ b.decider = a.decider /\ b.overruled \subseteq a.overruled \cup {h}
  <2>1. CASE b = on  BY <1>10, <2>1
  <2>2. CASE a.decider = {} /\ b = [on EXCEPT !.decider = {h}, !.blocks = (answer = "block")]
    <3>1. PICK blocks \in BOOLEAN : blocks = (answer = "block")  OBVIOUS
    <3>2. b = [on EXCEPT !.decider = {h}, !.blocks = blocks]  BY <2>2, <3>1
    <3> HIDE <2>2
    <3>3. b \in AskRecord  BY <1>10, <3>2 DEF AskRecord
    <3>4. /\ b.at = on.at /\ b.next = on.next /\ b.begun = on.begun /\ b.asked = on.asked
          /\ b.decider = {h} /\ b.overruled = on.overruled
      BY <1>10, <3>2 DEF AskRecord
    <3> QED  BY <1>10, <2>2, <3>3, <3>4
  <2>3. ASSUME a.decider # {}, NEW o \in {a.overruled, a.overruled \cup {h}}, b = [on EXCEPT !.overruled = o]
        PROVE  /\ b \in AskRecord /\ b.at = a.at /\ b.next = a.next + 1 /\ b.begun = a.begun
               /\ b.asked = a.asked \cup {h} /\ b.decider = a.decider
               /\ b.overruled \subseteq a.overruled \cup {h}
    <3>1. o \in SUBSET Registration  BY <2>3 DEF AskRecord
    <3> QED  BY <1>10, <2>3, <3>1 DEF AskRecord
  <2> QED  BY <1>11, <2>1, <2>2, <2>3
<1>13. /\ \A r \in a.begun : r \in a.asked \/ StillToAsk(a, r)
       /\ EldersComeFirst(a) /\ EldersDecide(a)
  BY <1>3, <1>4 DEF NoneIsPassed, AskIsFair
<1>14. \A r \in b.begun : r \in b.asked \/ StillToAsk(b, r)
  <2>1. SUFFICES ASSUME NEW r \in b.begun, r \notin b.asked  PROVE StillToAsk(b, r)  OBVIOUS
  <2>2. PICK i \in 1..Len(hooks) : i >= a.next /\ hooks[i] = r
    BY <1>12, <1>13, <2>1 DEF StillToAsk
  <2>3. i # a.next  BY <1>5, <1>12, <2>1, <2>2
  <2>4. i >= b.next  BY <1>2, <1>4, <1>12, <2>2, <2>3
  <2> QED  BY <2>2, <2>4 DEF StillToAsk
<1>15. \A r : Elder(b, r) <=> Elder(a, r)  BY <1>12 DEF Elder
<1>16. EldersComeFirst(b)
  <2>1. \A r \in b.begun : r.load <= loads  BY <1>12, <1>13 DEF EldersComeFirst
  <2>2. \A i, j \in 1..Len(hooks) : i < j /\ Elder(b, hooks[j]) => Elder(b, hooks[i])
    BY <1>13, <1>15 DEF EldersComeFirst
  <2>3. ASSUME NEW i \in 1..Len(hooks), i >= b.next, Elder(b, hooks[i]), NEW d \in b.decider
        PROVE  Elder(b, d)
    <3>1. i >= a.next /\ a.next < i  BY <1>2, <1>4, <1>12, <2>3
    <3>2. Elder(a, h)  BY <1>4, <1>5, <1>15, <2>2, <2>3, <3>1
    <3>3. \A e \in a.decider : Elder(a, e)  BY <1>13, <1>15, <2>3, <3>1 DEF EldersComeFirst
    <3> QED  BY <1>12, <1>15, <2>3, <3>2, <3>3
  <2> QED  BY <2>1, <2>2, <2>3 DEF EldersComeFirst
<1>17. EldersDecide(b)
  <2>1. SUFFICES ASSUME NEW r \in b.overruled, Elder(b, r)
                 PROVE  b.decider # {} /\ \A d \in b.decider : Elder(b, d)
    BY DEF EldersDecide
  <2>2. CASE r \in a.overruled
    <3>1. a.decider # {} /\ \A d \in a.decider : Elder(a, d)
      BY <1>13, <1>15, <2>1, <2>2 DEF EldersDecide
    <3> QED  BY <1>12, <1>15, <3>1
  <2>3. CASE r \notin a.overruled
    <3>1. r = h /\ a.decider # {} /\ b.decider = a.decider  BY <1>12, <2>1, <2>3
    <3>2. \A d \in a.decider : Elder(a, d)
      BY <1>4, <1>5, <1>13, <1>15, <2>1, <3>1 DEF EldersComeFirst
    <3> QED  BY <1>15, <3>1, <3>2
  <2> QED  BY <2>2, <2>3
<1>18. AskIsFair(b)  BY <1>4, <1>12, <1>14, <1>16, <1>17 DEF AskIsFair
<1> QED  BY <1>1, <1>8, <1>12, <1>18, OneAsks

LEMMA AskEnds ==
  ASSUME HookTypes, HooksAreSorted, NoneIsPassed, NEW c \in ToolCalls, AskedAll(c)
  PROVE  HookTypes' /\ HooksAreSorted' /\ NoneIsPassed'
<1>1. UNCHANGED <<loads, hooks>>  BY DEF AskedAll
<1>2. Len(hooks) \in Nat  BY DEF HookTypes
<1>3. PICK a \in AskRecord : a = asking[c]  BY DEF HookTypes
<1>4. a.at = "asking" /\ a.next > Len(hooks) /\ a.next \in Nat
  BY <1>3 DEF AskedAll, AskRecord
<1>5. PICK at \in {"called", "refused"} : at = IF asking[c].blocks THEN "refused" ELSE "called"
  OBVIOUS
<1>6. PICK b : b = [a EXCEPT !.at = at]  OBVIOUS
<1>7. asking' = [asking EXCEPT ![c] = b]
  BY <1>3, <1>5, <1>6 DEF AskedAll, HookTypes
<1>8. /\ b \in AskRecord /\ b.at = at /\ b.begun = a.begun /\ b.asked = a.asked
      /\ b.decider = a.decider /\ b.overruled = a.overruled
  BY <1>6 DEF AskRecord
<1>9. \A r : ~StillToAsk(a, r)  BY <1>2, <1>4 DEF StillToAsk
<1>10. b.begun \subseteq b.asked  BY <1>3, <1>4, <1>8, <1>9 DEF NoneIsPassed, AskIsFair
<1>11. EldersDecide(a)  BY <1>3, <1>4 DEF NoneIsPassed, AskIsFair
<1>12. EldersDecide(b)  BY <1>8, <1>11 DEF EldersDecide, Elder
<1>13. AskIsFair(b)  BY <1>5, <1>8, <1>10, <1>12 DEF AskIsFair
<1> QED  BY <1>1, <1>7, <1>8, <1>13, OneAsks

LEMMA AskKeeps ==
  ASSUME HookTypes, HooksAreSorted, NoneIsPassed, NEW c \in ToolCalls,
         AskHooks(c) \/ AskNext(c) \/ AskedAll(c)
  PROVE  HookTypes' /\ HooksAreSorted' /\ NoneIsPassed'
BY AskBegins, HandlerAnswers, AskEnds

-------------------------------------------------------------------------------
(* The steps: services and channels.                                          *)

\* A load takes an empty registry; everything that runs or is to start is crossed.
LEMMA LoadKeepsUnits ==
  ASSUME UnitTypes, UnitsAreKnown, NEW load \in 0..MaxLoads, NEW loaded \in SUBSET Plugins,
         native' = [load |-> load, loaded |-> loaded, started |-> {}],
         UNCHANGED instances, crossed' = crossed \cup Busy,
         \/ UNCHANGED starter
         \/ /\ starter' \in [pass: Passes \cup {"none"}, load: 0..MaxLoads,
                              todo: SUBSET Units, starting: SUBSET Units]
            /\ starter'.load = load
  PROVE  UnitTypes' /\ UnitsAreKnown'
<1>1. Busy = {i.unit : i \in instances} \cup starter.starting \cup starter.todo  BY DEF Busy
<1>2. Busy \subseteq Units  BY <1>1 DEF UnitTypes
<1>3. UnitTypes'  BY <1>2 DEF UnitTypes
<1>4. \A i \in instances : i.unit \in crossed'  BY <1>1
<1>5. native'.load = load /\ native'.started = {}  OBVIOUS
<1>6. starter'.load # load => starter'.todo \cup starter'.starting \subseteq crossed'
  BY <1>1
<1> QED  BY <1>3, <1>4, <1>5, <1>6 DEF UnitsAreKnown

\* What is marked as started runs, under the registry that is current.
LEMMA MarkKeeps ==
  ASSUME UnitTypes, UnitsAreKnown, NEW load \in 0..MaxLoads, NEW us \in SUBSET Units,
         load # native.load => us \subseteq crossed, MarkStarted(load, us)
  PROVE  /\ instances' \subseteq [unit: Units, load: 0..MaxLoads]
         /\ native' \in [load: 0..MaxLoads, loaded: SUBSET Plugins, started: SUBSET Units]
         /\ native'.load = native.load
         /\ \A i \in instances' : i.unit \notin crossed => i.load = native'.load
         /\ \A u \in Units \ crossed :
               u \in native'.started <=> \E i \in instances' : i.unit = u
<1>1. PICK new : new = {[unit |-> u, load |-> load] : u \in us}  OBVIOUS
<1>2. /\ \A i \in new : i \in [unit: Units, load: 0..MaxLoads] /\ i.unit \in us /\ i.load = load
      /\ \A u \in us : \E i \in new : i.unit = u
  <2>1. \A i \in new : \E u \in us : i = [unit |-> u, load |-> load]  BY <1>1
  <2>2. \A u \in us : [unit |-> u, load |-> load] \in new  BY <1>1
  <2>3. ASSUME NEW i \in new
        PROVE  i \in [unit: Units, load: 0..MaxLoads] /\ i.unit \in us /\ i.load = load
    BY <2>1
  <2>4. ASSUME NEW u \in us  PROVE \E i \in new : i.unit = u
    <3>1. [unit |-> u, load |-> load].unit = u  OBVIOUS
    <3> QED  BY <2>2, <3>1
  <2> QED  BY <2>3, <2>4
<1>3. instances' = instances \cup new  BY <1>1 DEF MarkStarted
<1>4. instances' \subseteq [unit: Units, load: 0..MaxLoads]  BY <1>2, <1>3 DEF UnitTypes
<1>5. PICK n : n = native  OBVIOUS
<1>6. n \in [load: 0..MaxLoads, loaded: SUBSET Plugins, started: SUBSET Units]
  BY <1>5 DEF UnitTypes
<1>7. native' = IF load = n.load THEN [n EXCEPT !.started = n.started \cup us] ELSE n
  BY <1>5, <1>6 DEF MarkStarted
<1>8. /\ native' \in [load: 0..MaxLoads, loaded: SUBSET Plugins, started: SUBSET Units]
      /\ native'.load = n.load
      /\ native'.started = IF load = n.load THEN n.started \cup us ELSE n.started
  <2>1. CASE load = n.load  BY <1>6, <1>7, <2>1
  <2>2. CASE load # n.load  BY <1>6, <1>7, <2>2
  <2> QED  BY <2>1, <2>2
<1>9. \A i \in instances : i.unit \notin crossed => i.load = n.load  BY <1>5 DEF UnitsAreKnown
<1>10. \A u \in Units \ crossed : u \in n.started <=> \E i \in instances : i.unit = u
  BY <1>5 DEF UnitsAreKnown
<1>11. \A i \in instances' : i.unit \notin crossed => i.load = native'.load
  BY <1>2, <1>3, <1>5, <1>8, <1>9
<1>12. ASSUME NEW u \in Units \ crossed
       PROVE  u \in native'.started <=> \E i \in instances' : i.unit = u
  <2>1. CASE load = n.load
    <3>1. u \in native'.started <=> u \in n.started \/ u \in us  BY <1>8, <2>1
    <3>2. (\E i \in new : i.unit = u) <=> u \in us  BY <1>2
    <3> QED  BY <1>3, <1>10, <3>1, <3>2
  <2>2. CASE load # n.load
    <3>1. u \notin us  BY <1>5, <2>2
    <3>2. \A i \in new : i.unit # u  BY <1>2, <3>1
    <3> QED  BY <1>3, <1>8, <1>10, <2>2, <3>2
  <2> QED  BY <2>1, <2>2
<1> QED  BY <1>4, <1>5, <1>8, <1>11, <1>12

LEMMA ThreadKeeps ==
  ASSUME PluginAssumption, UnitTypes, UnitsAreKnown,
         (\E u \in Units : ThreadStarts(u) \/ ThreadStarted(u)) \/ ThreadPasses
  PROVE  UnitTypes' /\ UnitsAreKnown'
<1>1. PICK s : s = starter  OBVIOUS
<1>2. s \in [pass: Passes \cup {"none"}, load: 0..MaxLoads, todo: SUBSET Units,
             starting: SUBSET Units]
  BY <1>1 DEF UnitTypes
<1>3. s.load # native.load => s.todo \cup s.starting \subseteq crossed
  BY <1>1 DEF UnitsAreKnown
<1>4. ASSUME NEW r \in [pass: Passes \cup {"none"}, load: 0..MaxLoads, todo: SUBSET Units,
                        starting: SUBSET Units],
             starter' = r, r.load # native.load => r.todo \cup r.starting \subseteq crossed,
             UNCHANGED <<native, instances, crossed>>
      PROVE  UnitTypes' /\ UnitsAreKnown'
  BY <1>4 DEF UnitTypes, UnitsAreKnown
<1>5. ASSUME NEW u \in Units, ThreadStarts(u)
      PROVE  UnitTypes' /\ UnitsAreKnown'
  <2>1. u \in s.todo /\ UNCHANGED <<native, instances, crossed>>  BY <1>1, <1>5 DEF ThreadStarts
  <2>2. PICK todo \in SUBSET s.todo, starting \in SUBSET ({u} \cup s.starting) :
          starter' = [s EXCEPT !.todo = todo, !.starting = starting]
    <3>1. CASE starter.load = native.load /\ u \in native.started
      <4>1. starter' = [s EXCEPT !.todo = s.todo \ {u}]  BY <1>1, <1>5, <3>1 DEF ThreadStarts
      <4>2. starter' = [s EXCEPT !.todo = s.todo \ {u}, !.starting = s.starting]
        BY <1>2, <4>1
      <4> QED  BY <4>2
    <3>2. CASE ~(starter.load = native.load /\ u \in native.started)
      <4>1. starter' = [s EXCEPT !.todo = s.todo \ {u}, !.starting = {u}]
        BY <1>1, <1>5, <3>2 DEF ThreadStarts
      <4> QED  BY <4>1
    <3> QED  BY <3>1, <3>2
  <2>3. PICK r : r = [s EXCEPT !.todo = todo, !.starting = starting]  OBVIOUS
  <2>4. r.load = s.load /\ r.todo = todo /\ r.starting = starting  BY <1>2, <2>3
  <2>5. r \in [pass: Passes \cup {"none"}, load: 0..MaxLoads, todo: SUBSET Units,
               starting: SUBSET Units]
    BY <1>2, <2>1, <2>3
  <2>6. r.todo \cup r.starting \subseteq s.todo \cup s.starting  BY <2>1, <2>4
  <2> QED  BY <1>3, <1>4, <2>1, <2>2, <2>3, <2>4, <2>5, <2>6
<1>6. ASSUME NEW u \in Units, ThreadStarted(u)
      PROVE  UnitTypes' /\ UnitsAreKnown'
  <2>1. /\ u \in s.starting /\ UNCHANGED crossed
        /\ starter' = [s EXCEPT !.starting = {}]
    BY <1>1, <1>6 DEF ThreadStarted
  <2>2. PICK r : r = [s EXCEPT !.starting = {}]  OBVIOUS
  <2>3. /\ r.load = s.load /\ r.todo = s.todo /\ r.starting = {}
        /\ r \in [pass: Passes \cup {"none"}, load: 0..MaxLoads, todo: SUBSET Units,
                   starting: SUBSET Units]
    BY <1>2, <2>2
  <2>4. CASE UNCHANGED <<instances, native>>
    BY <1>3, <1>4, <2>1, <2>2, <2>3, <2>4
  <2>5. CASE MarkStarted(s.load, {u})
    <3>1. PICK load \in 0..MaxLoads : load = s.load  BY <1>2
    <3>2. {u} \in SUBSET Units /\ (load # native.load => {u} \subseteq crossed)
      BY <1>3, <2>1, <3>1
    <3>3. /\ instances' \subseteq [unit: Units, load: 0..MaxLoads]
          /\ native' \in [load: 0..MaxLoads, loaded: SUBSET Plugins, started: SUBSET Units]
          /\ native'.load = native.load
          /\ \A i \in instances' : i.unit \notin crossed => i.load = native'.load
          /\ \A v \in Units \ crossed :
                v \in native'.started <=> \E i \in instances' : i.unit = v
      BY <2>5, <3>1, <3>2, MarkKeeps
    <3>4. UnitTypes'  BY <2>1, <2>2, <2>3, <3>3 DEF UnitTypes
    <3>5. UnitsAreKnown'  BY <1>3, <2>1, <2>2, <2>3, <3>3 DEF UnitsAreKnown
    <3> QED  BY <3>4, <3>5
  <2> QED  BY <1>1, <1>6, <2>4, <2>5 DEF ThreadStarted
<1>7. CASE ThreadPasses
  <2>1. /\ UNCHANGED <<native, instances, crossed>>
        /\ starter' = IF starter.pass = "services"
                      THEN [NoStarter EXCEPT !.pass = "channels", !.load = native.load,
                              !.todo = {u \in UnitsOf("channels") : PluginOf[u] \in native.loaded}]
                      ELSE NoStarter
    BY <1>7 DEF ThreadPasses
  <2>2. PICK n : n = [pass |-> "none", load |-> 0, todo |-> {}, starting |-> {}]  OBVIOUS
  <2>3. NoStarter = n  BY <2>2 DEF NoStarter
  <2>4. PICK todo \in SUBSET Units :
          todo = {u \in UnitsOf("channels") : PluginOf[u] \in native.loaded}
    BY DEF UnitsOf
  <2>5. PICK load \in 0..MaxLoads : load = native.load  BY DEF UnitTypes
  <2>6. PICK r : r = [n EXCEPT !.pass = "channels", !.load = load, !.todo = todo]  OBVIOUS
  <2>7. starter' = r \/ starter' = n
    <3>1. CASE starter.pass = "services"
      <4>1. starter' = [n EXCEPT !.pass = "channels", !.load = native.load, !.todo = todo]
        BY <2>1, <2>3, <2>4, <3>1, Zenon
      <4> QED  BY <2>5, <2>6, <4>1
    <3>2. CASE starter.pass # "services"  BY <2>1, <2>3, <3>2
    <3> QED  BY <3>1, <3>2
  <2>8. 0 \in 0..MaxLoads  BY DEF PluginAssumption
  <2>9. /\ n \in [pass: Passes \cup {"none"}, load: 0..MaxLoads, todo: SUBSET Units,
                  starting: SUBSET Units]
        /\ n.todo = {} /\ n.starting = {}
    BY <2>2, <2>8
  <2>10. /\ r \in [pass: Passes \cup {"none"}, load: 0..MaxLoads, todo: SUBSET Units,
                   starting: SUBSET Units]
         /\ r.load = native.load
    BY <2>2, <2>5, <2>6, <2>8, <2>9 DEF Passes
  <2>11. CASE starter' = r  BY <1>4, <2>1, <2>10, <2>11
  <2>12. CASE starter' = n  BY <1>4, <2>1, <2>9, <2>12
  <2> QED  BY <2>7, <2>11, <2>12
<1> QED  BY <1>5, <1>6, <1>7

LEMMA StartKeeps ==
  ASSUME UnitTypes, UnitsAreKnown, StartServices
  PROVE  UnitTypes' /\ UnitsAreKnown'
<1>1. PICK load \in 0..MaxLoads : load = native.load  BY DEF UnitTypes
<1>2. Ours \subseteq Units  BY DEF Ours
<1>3. PICK us \in SUBSET Units : MarkStarted(load, us)  BY <1>1, <1>2 DEF StartServices
<1>4. /\ instances' \subseteq [unit: Units, load: 0..MaxLoads]
      /\ native' \in [load: 0..MaxLoads, loaded: SUBSET Plugins, started: SUBSET Units]
      /\ native'.load = native.load
      /\ \A i \in instances' : i.unit \notin crossed => i.load = native'.load
      /\ \A u \in Units \ crossed :
            u \in native'.started <=> \E i \in instances' : i.unit = u
  BY <1>1, <1>3, MarkKeeps
<1>5. /\ UNCHANGED starter
      /\ crossed' = crossed \cup ((Ours \ native.started) \cap starter.starting)
  BY DEF StartServices
<1>6. crossed \subseteq crossed' /\ crossed' \subseteq Units  BY <1>2, <1>5 DEF UnitTypes
<1>7. UnitTypes'  BY <1>4, <1>5, <1>6 DEF UnitTypes
<1>8. UnitsAreKnown'
  <2>1. \A i \in instances' : i.unit \notin crossed' => i.load = native'.load  BY <1>4, <1>6
  <2>2. \A u \in Units \ crossed' :
          u \in native'.started <=> \E i \in instances' : i.unit = u
    BY <1>4, <1>6
  <2>3. starter'.load # native'.load => starter'.todo \cup starter'.starting \subseteq crossed'
    BY <1>4, <1>5, <1>6 DEF UnitsAreKnown
  <2> QED  BY <2>1, <2>2, <2>3 DEF UnitsAreKnown
<1> QED  BY <1>7, <1>8

LEMMA StopKeeps ==
  ASSUME UnitTypes, UnitsAreKnown, StopServices
  PROVE  UnitTypes' /\ UnitsAreKnown'
<1>1. PICK n : n = native  OBVIOUS
<1>2. n \in [load: 0..MaxLoads, loaded: SUBSET Plugins, started: SUBSET Units]
  BY <1>1 DEF UnitTypes
<1>3. PICK us \in SUBSET n.started :
        /\ instances' = instances \ {[unit |-> u, load |-> n.load] : u \in us}
        /\ native' = [n EXCEPT !.started = n.started \ us]
  <2>1. PICK us \in SUBSET n.started :
          /\ instances' = instances \ {[unit |-> u, load |-> n.load] : u \in us}
          /\ Stopped(us)
    BY <1>1 DEF StopServices
  <2> QED  BY <1>1, <1>2, <2>1 DEF Stopped
<1>4. UNCHANGED <<starter, crossed>>  BY DEF StopServices
<1>5. /\ native' \in [load: 0..MaxLoads, loaded: SUBSET Plugins, started: SUBSET Units]
      /\ native'.load = n.load /\ native'.started = n.started \ us
  BY <1>2, <1>3
<1>6. \A i \in instances : i \in [unit: Units, load: 0..MaxLoads]  BY DEF UnitTypes
<1>7. \A i \in instances' : i \in instances  BY <1>3
<1>8. UnitTypes'  BY <1>4, <1>5, <1>7 DEF UnitTypes
<1>9. ASSUME NEW i \in instances, i.load = n.load
      PROVE  i \in instances' <=> i.unit \notin us
  <2>1. i = [unit |-> i.unit, load |-> n.load]  BY <1>6, <1>9
  <2>2. ASSUME NEW u \in us, i = [unit |-> u, load |-> n.load]  PROVE u = i.unit
    BY <2>2
  <2>3. i \in instances' <=> ~ \E u \in us : i = [unit |-> u, load |-> n.load]  BY <1>3
  <2> QED  BY <2>1, <2>2, <2>3
<1>10. \A i \in instances : i.unit \notin crossed => i.load = n.load
  BY <1>1 DEF UnitsAreKnown
<1>11. ASSUME NEW u \in Units \ crossed
       PROVE  u \in native'.started <=> \E i \in instances' : i.unit = u
  <2>1. u \in n.started <=> \E i \in instances : i.unit = u  BY <1>1 DEF UnitsAreKnown
  <2>2. \A i \in instances : i.unit = u => (i \in instances' <=> u \notin us)
    BY <1>9, <1>10
  <2> QED  BY <1>3, <1>5, <1>7, <2>1, <2>2
<1>12. UnitsAreKnown'
  BY <1>1, <1>4, <1>5, <1>7, <1>10, <1>11 DEF UnitsAreKnown
<1> QED  BY <1>8, <1>12

-------------------------------------------------------------------------------

LEMMA PluginInitial == PluginAssumption /\ PluginInit => PluginInv
<1> SUFFICES ASSUME PluginAssumption, PluginInit  PROVE PluginInv  OBVIOUS
<1>1. 0 \in 0..MaxLoads  BY DEF PluginAssumption
<1>2. <<>> \in Seq(Registration) /\ Len(<<>>) = 0  OBVIOUS
<1>3. PICK empty \in Seq(Registration) : empty = <<>> /\ Len(empty) = 0  BY <1>2
<1>4. HooksAreSorted
  <2>1. ASSUME NEW S  PROVE Kept(empty, S) = empty
    <3>1. \A i \in 1..Len(empty) : empty[i] \notin S  BY <1>3
    <3>2. Kept(empty, S) = <<>>  BY <3>1, KeptNone
    <3> QED  BY <1>3, <3>2
  <2>2. empty \o empty = empty  BY <1>3
  <2>3. Sorted(empty) = empty \o empty
    <3>1. Sorted(empty) = Kept(empty, EarlyOnes) \o Kept(empty, LateOnes)  BY SortedParts
    <3>2. Kept(empty, EarlyOnes) = empty  BY <2>1
    <3>3. Kept(empty, LateOnes) = empty  BY <2>1
    <3> QED  BY <3>1, <3>2, <3>3
  <2>4. hooks = empty  BY <1>3 DEF PluginInit
  <2>5. Sorted(hooks) = hooks  BY <2>2, <2>3, <2>4, Zenon
  <2>6. \A i \in 1..Len(hooks) : hooks[i].load <= loads  BY <1>3, <2>4
  <2> QED  BY <2>5, <2>6 DEF HooksAreSorted
<1>5. HookTypes /\ NoneIsPassed
  <2>1. /\ NotAsking \in AskRecord /\ NotAsking.at = "idle"
        /\ \A c \in ToolCalls : asking[c] = NotAsking
    BY DEF NotAsking, AskRecord, PluginInit
  <2>2. NoneIsPassed  BY <2>1 DEF NoneIsPassed, AskIsFair
  <2> QED  BY <1>1, <1>2, <2>1, <2>2 DEF PluginInit, HookTypes
<1>6. UnitTypes
  <2>1. PICK n : n = NoStarter  OBVIOUS
  <2>2. n \in [pass: Passes \cup {"none"}, load: 0..MaxLoads, todo: SUBSET Units,
               starting: SUBSET Units]
    BY <1>1, <2>1 DEF NoStarter
  <2> QED  BY <1>1, <2>1, <2>2 DEF PluginInit, UnitTypes
<1>7. UnitsAreKnown  BY DEF PluginInit, UnitsAreKnown, NoStarter
<1> QED  BY <1>4, <1>5, <1>6, <1>7 DEF PluginInv

LEMMA ReloadKeeps ==
  ASSUME PluginAssumption, PluginInv, GatewayBoots \/ Reload
  PROVE  PluginInv'
<1>1. Load /\ UNCHANGED <<instances, asking>>  BY DEF GatewayBoots, Reload
<1>2. loads \in 0..MaxLoads /\ MaxLoads \in Nat
  BY DEF PluginInv, HookTypes, PluginAssumption
<1>3. PICK load \in 0..MaxLoads : load = loads + 1
  BY <1>1, <1>2 DEF Load
<1>4. PICK loaded \in SUBSET Plugins :
        /\ native' = [load |-> load, loaded |-> loaded, started |-> {}]
        /\ hooks' = Registered(loaded, load)
  <2>1. loads' = load  BY <1>1, <1>3 DEF Load
  <2> QED  BY <1>1, <2>1 DEF Load
<1>5. loads' = load /\ crossed' = crossed \cup Busy  BY <1>1, <1>3 DEF Load
<1>6. HookTypes' /\ HooksAreSorted' /\ NoneIsPassed'
  BY <1>1, <1>3, <1>4, <1>5, LoadKeepsHooks DEF PluginInv
<1>7. \/ UNCHANGED starter
      \/ /\ starter' \in [pass: Passes \cup {"none"}, load: 0..MaxLoads,
                           todo: SUBSET Units, starting: SUBSET Units]
         /\ starter'.load = load
  <2>1. CASE Reload  BY <2>1 DEF Reload
  <2>2. CASE GatewayBoots
    <3>1. load = 1  BY <1>3, <2>2 DEF GatewayBoots
    <3>2. PICK todo \in SUBSET Units :
            starter' = [NoStarter EXCEPT !.pass = "services", !.load = 1, !.todo = todo]
      <4>1. {u \in ServiceUnits : PluginOf[u] \in native'.loaded} \in SUBSET Units
        BY DEF PluginAssumption
      <4> QED  BY <2>2, <4>1 DEF GatewayBoots
    <3>3. PICK n : n = [pass |-> "none", load |-> 0, todo |-> {}, starting |-> {}]  OBVIOUS
    <3>4. NoStarter = n  BY <3>3 DEF NoStarter
    <3>5. PICK r : r = [n EXCEPT !.pass = "services", !.load = 1, !.todo = todo]  OBVIOUS
    <3>6. n \in [pass: Passes \cup {"none"}, load: 0..MaxLoads, todo: SUBSET Units,
                 starting: SUBSET Units]
      BY <1>2, <3>3
    <3>7. r \in [pass: Passes \cup {"none"}, load: 0..MaxLoads, todo: SUBSET Units,
                 starting: SUBSET Units] /\ r.load = 1
      BY <3>1, <3>5, <3>6 DEF Passes
    <3>8. starter' = r  BY <3>2, <3>4, <3>5
    <3> QED  BY <3>1, <3>7, <3>8
  <2> QED  BY <2>1, <2>2
<1>8. UnitTypes' /\ UnitsAreKnown'
  BY <1>1, <1>4, <1>5, <1>7, LoadKeepsUnits DEF PluginInv
<1> QED  BY <1>6, <1>8 DEF PluginInv

LEMMA PluginStep ==
  ASSUME PluginAssumption, PluginInv, [PluginNext]_pluginVars
  PROVE  PluginInv'
<1> USE DEF PluginInv
<1>1. UNCHANGED <<native, instances, starter, crossed>> => UnitTypes' /\ UnitsAreKnown'
  BY DEF UnitTypes, UnitsAreKnown
<1>2. UNCHANGED <<loads, hooks, asking>> => HookTypes' /\ HooksAreSorted' /\ NoneIsPassed'
  BY DEF HookTypes, HooksAreSorted, NoneIsPassed, AskIsFair, EldersComeFirst, EldersDecide,
         Elder, StillToAsk
<1>3. CASE Doctor
  <2>1. /\ hooks' = Registered(native.loaded, loads')
        /\ UNCHANGED <<native, instances, starter, crossed, asking>>
    BY <1>3 DEF Doctor
  <2>2. PICK load \in 0..MaxLoads : load = loads' /\ load = loads + 1
    BY <1>3 DEF Doctor, PluginAssumption
  <2>3. HookTypes' /\ HooksAreSorted' /\ NoneIsPassed'
    BY <2>1, <2>2, LoadKeepsHooks
  <2> QED  BY <1>1, <2>1, <2>3
<1>4. CASE (\E u \in Units : ThreadStarts(u) \/ ThreadStarted(u)) \/ ThreadPasses
  <2>1. UNCHANGED <<loads, hooks, asking>>
    BY <1>4 DEF ThreadStarts, ThreadStarted, ThreadPasses
  <2> QED  BY <1>2, <1>4, <2>1, ThreadKeeps
<1>5. CASE StartServices
  <2>1. UNCHANGED <<loads, hooks, asking>>  BY <1>5 DEF StartServices
  <2> QED  BY <1>2, <1>5, <2>1, StartKeeps
<1>6. CASE StopServices
  <2>1. UNCHANGED <<loads, hooks, asking>>  BY <1>6 DEF StopServices
  <2> QED  BY <1>2, <1>6, <2>1, StopKeeps
<1>7. CASE CallSucceeds \/ CallFails \/ CircuitCools \/ UNCHANGED pluginVars
  <2>1. UNCHANGED <<loads, native, hooks, instances, starter, asking, crossed>>
    BY <1>7 DEF CallSucceeds, CallFails, CircuitCools, pluginVars
  <2> QED  BY <1>1, <1>2, <2>1
<1>8. ASSUME NEW c \in ToolCalls, AskHooks(c) \/ AskNext(c) \/ AskedAll(c)
      PROVE  PluginInv'
  <2>1. UNCHANGED <<native, instances, starter, crossed>>
    BY <1>8 DEF AskHooks, AskNext, AskedAll
  <2> QED  BY <1>1, <1>8, <2>1, AskKeeps
<1> QED  BY <1>3, <1>4, <1>5, <1>6, <1>7, <1>8, ReloadKeeps DEF PluginNext

\* A tool is called, or refused, after every handler that was registered when its hooks
\* were first asked, whatever is loaded and sorted in meanwhile; a block of one of the
\* first of them is overruled by one of the first alone; and what a plugin has started
\* is known as started, once, unless a load or a second starter crossed it.
THEOREM PluginsStayKnown == PluginSpec => []PluginsAreKept
<1>1. PluginAssumption /\ PluginInit => PluginInv  BY PluginInitial
<1>2. PluginAssumption /\ PluginInv /\ [PluginNext]_pluginVars => PluginInv'  BY PluginStep
<1>3. PluginInv => PluginsAreKept
  <2>1. SUFFICES ASSUME PluginInv  PROVE PluginsAreKept  OBVIOUS
  <2>2. HandlersAreAsked
    BY <2>1 DEF PluginInv, NoneIsPassed, AskIsFair, HandlersAreAsked
  <2>3. EldersAreHeeded
    <3>1. SUFFICES ASSUME NEW c \in ToolCalls, asking[c].at = "called",
                          asking[c].overruled \cap Elders(c) # {}
                   PROVE  asking[c].decider # {} /\ asking[c].decider \subseteq Elders(c)
      BY DEF EldersAreHeeded
    <3>2. \A r : Elder(asking[c], r) <=> r \in Elders(c)  BY DEF Elder, Elders
    <3>3. EldersDecide(asking[c])  BY <2>1, <3>1 DEF PluginInv, NoneIsPassed, AskIsFair
    <3> QED  BY <3>1, <3>2, <3>3 DEF EldersDecide
  <2>4. ASSUME NEW u \in Units \ crossed
        PROVE  /\ Cardinality({i \in instances : i.unit = u}) <= 1
               /\ u \in native.started <=> {i \in instances : i.unit = u} # {}
    <3>1. PICK one : one = [unit |-> u, load |-> native.load]  OBVIOUS
    <3>2. \A i \in instances : i.unit = u => i = one
      <4>1. \A i \in instances : i \in [unit: Units, load: 0..MaxLoads]
        BY <2>1 DEF PluginInv, UnitTypes
      <4>2. \A i \in instances : i.unit = u => i.load = native.load
        BY <2>1, <2>4 DEF PluginInv, UnitsAreKnown
      <4> QED  BY <3>1, <4>1, <4>2
    <3>3. {i \in instances : i.unit = u} \subseteq {one}  BY <3>2
    <3>4. IsFiniteSet({one}) /\ Cardinality({one}) = 1  BY FS_Singleton
    <3>5. Cardinality({i \in instances : i.unit = u}) <= 1  BY <3>3, <3>4, FS_Subset
    <3> QED  BY <2>1, <3>5 DEF PluginInv, UnitsAreKnown
  <2> QED  BY <2>2, <2>3, <2>4 DEF ServicesAreKnown, PluginsAreKept
<1>4. PluginAssumption  BY PluginAssumption
<1> QED  BY <1>1, <1>2, <1>3, <1>4, PTL DEF PluginSpec

-------------------------------------------------------------------------------
(* The bounds of the records, which the promises above do not need: each is   *)
(* an invariant beside the one of its part.                                   *)

MailBounds ==
  /\ mailSteps \in 0..MailSteps
  /\ IsFiniteSet(uids) /\ Cardinality(uids) <= MaxProcessed

\* What a poll reads of the mailbox may fill the set of uids up to its limit, where it is emptied.
LEMMA MailStaysBounded ==
  ASSUME MailAssumption, MailInv, MailBounds, [MailNext]_mailVars
  PROVE  MailBounds'
<1>1. IsFiniteSet({}) /\ Cardinality({}) = 0  BY FS_EmptySet
<1>2. MaxProcessed \in Nat /\ MailSteps \in Nat  BY DEF MailAssumption
<1>3. ASSUME NEW m \in Mails, FetchNew(m)  PROVE MailBounds'
  <2>1. \/ uids' = uids \cup {m} /\ ~(Cardinality(uids \cup {m}) > MaxProcessed)
        \/ uids' = {}
    BY <1>3 DEF FetchNew
  <2>2. IsFiniteSet(uids \cup {m}) /\ Cardinality(uids \cup {m}) \in Nat
    BY FS_AddElement, FS_CardinalityType DEF MailBounds
  <2>3. mailSteps' = mailSteps  BY <1>3 DEF FetchNew
  <2> QED  BY <1>1, <1>2, <2>1, <2>2, <2>3 DEF MailBounds
<1>4. CASE StartEmail
  BY <1>1, <1>2, <1>4 DEF StartEmail, MailBounds
<1>5. CASE BeginPoll
  BY <1>2, <1>5 DEF BeginPoll, MailBounds
<1>6. UNCHANGED <<uids, mailSteps>> => MailBounds'  BY DEF MailBounds
<1>7. ASSUME NEW m \in Mails, MailArrives(m) \/ FetchKnown(m)  PROVE MailBounds'
  BY <1>6, <1>7 DEF MailArrives, FetchKnown
<1>8. CASE PollFails \/ PollReturns \/ AbandonedReturns \/ StopEmail \/ EmailDies
           \/ UNCHANGED mailVars
  BY <1>6, <1>8 DEF PollFails, PollReturns, AbandonedReturns, StopEmail, EmailDies, mailVars
<1> QED  BY <1>3, <1>4, <1>5, <1>7, <1>8 DEF MailNext

LEMMA MailTyped == MailSpec => []MailTypeOK
<1>1. MailInit => MailInv /\ MailBounds
  <2>1. IsFiniteSet({}) /\ Cardinality({}) = 0  BY FS_EmptySet
  <2>2. MailInit => MailBounds  BY <2>1, MailAssumption DEF MailInit, MailBounds, MailAssumption
  <2> QED  BY <2>2, MailAssumption, MailInitial
<1>2. MailInv /\ MailBounds /\ [MailNext]_mailVars => MailInv' /\ MailBounds'
  BY MailAssumption, MailNextKeeps, MailStaysBounded
<1>3. MailInv /\ MailBounds => MailTypeOK
  BY DEF MailInv, MailTypes, MailBounds, MailTypeOK
<1> QED  BY <1>1, <1>2, <1>3, PTL DEF MailSpec

-------------------------------------------------------------------------------
\* One wallet is the default, or none, and the payments are counted in cents.
WalletBounds ==
  /\ wconfig \in PrivateKeys \cup {NoKey}
  /\ \A i, j \in WalletIds : rows[i].default /\ rows[j].default => i = j

PaymentTypes ==
  payments \in [PaidCalls -> [phase: {"idle", "balance", "refused", "sent", "paid", "failed"},
                              price: Prices \cup {0}, hourly: Nat]]

LEMMA CreateBounds ==
  ASSUME WalletInv, WalletBounds, NEW k \in PrivateKeys, NEW p \in Passwords,
         NEW default \in BOOLEAN, NEW by, Create(by, k, p, default), wconfig' = wconfig
  PROVE  WalletBounds'
<1>1. PICK others : others = IF default THEN Undefault(rows) ELSE rows  OBVIOUS
<1>2. \A i \in WalletIds : others[i].default => ~default /\ rows[i].default
  <2>1. TAKE i \in WalletIds
  <2>2. rows[i] \in WalletRow  BY DEF WalletInv, WalletTypes
  <2>3. CASE default
    <3>1. others[i] = [rows[i] EXCEPT !.default = FALSE]  BY <1>1, <2>3 DEF Undefault, WalletIds
    <3>2. others[i].default = FALSE  BY <2>2, <3>1 DEF WalletRow
    <3> QED  BY <3>2
  <2>4. CASE ~default  BY <1>1, <2>4
  <2> QED  BY <2>3, <2>4
<1>3. PICK new : new = [address |-> k, key |-> k, password |-> p, default |-> default]  OBVIOUS
<1>4. new.default = default  BY <1>3
<1>5. rows' = [i \in WalletIds \cup {NewId} |-> IF i \in WalletIds THEN others[i] ELSE new]
  BY <1>1, <1>3 DEF Create, SetRows, AddWallet
<1>6. WalletIds' = WalletIds \cup {NewId}  BY <1>5 DEF WalletIds
<1>7. \A i \in WalletIds' : rows'[i].default =>
        \/ i \in WalletIds /\ ~default /\ rows[i].default
        \/ i = NewId /\ default
  BY <1>2, <1>4, <1>5, <1>6
<1>8. \A i, j \in WalletIds' : rows'[i].default /\ rows'[j].default => i = j
  BY <1>7 DEF WalletBounds
<1> QED  BY <1>8 DEF WalletBounds

LEMMA WalletStaysBounded ==
  ASSUME WalletAssumption, WalletInv, WalletBounds, PaymentTypes, [WalletNext]_walletVars
  PROVE  WalletBounds' /\ PaymentTypes'
<1>1. UNCHANGED payments => PaymentTypes'  BY DEF PaymentTypes
<1>2. UNCHANGED <<rows, wconfig>> => WalletBounds'  BY DEF WalletBounds, WalletIds
<1>3. ASSUME NEW k \in PrivateKeys, NEW p \in Passwords, NEW default \in BOOLEAN,
             WalletCommandInit(k, p, default)
      PROVE  WalletBounds' /\ PaymentTypes'
  BY <1>1, <1>3, CreateBounds DEF WalletCommandInit, paymentState
<1>4. ASSUME NEW k \in PrivateKeys, NEW p \in Passwords, EnableWallet(k, p)
      PROVE  WalletBounds' /\ PaymentTypes'
  BY <1>1, <1>4, CreateBounds DEF EnableWallet, paymentState
<1>5. CASE DisableWallet
  <2>1. PICK id : id = DefaultId(rows)  OBVIOUS
  <2>2. rows' = [i \in WalletIds \ {id} |-> rows[i]] /\ UNCHANGED <<wconfig, payments>>
    BY <1>5, <2>1 DEF DisableWallet, SetRows, paymentState
  <2>3. WalletIds' = WalletIds \ {id}  BY <2>2 DEF WalletIds
  <2>4. \A i, j \in WalletIds' : rows'[i].default /\ rows'[j].default => i = j
    BY <2>2, <2>3 DEF WalletBounds
  <2> QED  BY <1>1, <2>2, <2>4 DEF WalletBounds
<1>6. ASSUME NEW id \in 1..wsteps, SetDefault(id)
      PROVE  WalletBounds' /\ PaymentTypes'
  <2>1. /\ rows' = [i \in WalletIds |-> [rows[i] EXCEPT !.default = (i = id)]]
        /\ UNCHANGED <<wconfig, payments>>
    BY <1>6 DEF SetDefault, SetRows, paymentState
  <2>2. WalletIds' = WalletIds  BY <2>1 DEF WalletIds
  <2>3. \A i \in WalletIds : rows'[i].default => i = id
    <3>1. TAKE i \in WalletIds
    <3>2. rows[i] \in WalletRow  BY DEF WalletInv, WalletTypes
    <3>3. rows'[i] = [rows[i] EXCEPT !.default = (i = id)]  BY <2>1
    <3>4. rows'[i].default = (i = id)  BY <3>2, <3>3 DEF WalletRow
    <3> QED  BY <3>4
  <2>4. \A i, j \in WalletIds' : rows'[i].default /\ rows'[j].default => i = j
    BY <2>2, <2>3
  <2> QED  BY <1>1, <2>1, <2>4 DEF WalletBounds
<1>7. CASE ChangeWrites
  <2>1. /\ rows' = [i \in WalletIds |->
                      IF i = changing.id
                      THEN [rows[i] EXCEPT !.key = changing.key, !.password = changing.new]
                      ELSE rows[i]]
        /\ UNCHANGED <<wconfig, payments>>
    BY <1>7 DEF ChangeWrites, paymentState
  <2>2. WalletIds' = WalletIds  BY <2>1 DEF WalletIds
  <2>3. \A i \in WalletIds : rows'[i].default = rows[i].default
    <3>1. TAKE i \in WalletIds
    <3>2. rows[i] \in WalletRow  BY DEF WalletInv, WalletTypes
    <3>3. rows'[i] = rows[i] \/
          rows'[i] = [rows[i] EXCEPT !.key = changing.key, !.password = changing.new]
      BY <2>1
    <3> QED  BY <3>2, <3>3 DEF WalletRow
  <2>4. \A i, j \in WalletIds' : rows'[i].default /\ rows'[j].default => i = j
    BY <2>2, <2>3 DEF WalletBounds
  <2> QED  BY <1>1, <2>1, <2>4 DEF WalletBounds
<1>14. ASSUME NEW e \in erasing, EraseFile(e) \/ EraseFails(e)
       PROVE  WalletBounds' /\ PaymentTypes'
  <2>1. UNCHANGED <<rows, payments>> /\ wconfig' \in {wconfig, e.key}
    BY <1>14 DEF EraseFile, EraseFails, paymentState
  <2>2. e.key \in PrivateKeys \cup {NoKey}  BY DEF WalletInv, WalletTypes
  <2> QED  BY <1>1, <2>1, <2>2 DEF WalletBounds, WalletIds
<1>8. CASE UnlockReads \/ LockSession \/ UNCHANGED walletVars
  BY <1>1, <1>2, <1>8 DEF UnlockReads, LockSession, walletVars, walletTable, paymentState
<1>9. ASSUME NEW p \in Passwords, UnlockDecrypts(p)
      PROVE  WalletBounds' /\ PaymentTypes'
  BY <1>1, <1>2, <1>9 DEF UnlockDecrypts, walletTable, paymentState
<1>10. ASSUME NEW id \in WalletIds, NEW old \in Passwords, NEW new \in Passwords,
              ChangeReads(id, old, new)
       PROVE  WalletBounds' /\ PaymentTypes'
  BY <1>1, <1>2, <1>10 DEF ChangeReads, walletTable, paymentState
<1>11. ASSUME NEW c \in PaidCalls, NEW price \in Prices, NEW own \in Prices, PayAsked(c, price, own)
       PROVE  WalletBounds' /\ PaymentTypes'
  <2>1. UNCHANGED <<rows, wconfig>>  BY <1>11 DEF PayAsked, walletTable
  <2>2. PaymentTypes'  BY <1>11 DEF PayAsked, PaymentTypes
  <2> QED  BY <1>2, <2>1, <2>2
<1>12. ASSUME NEW c \in PaidCalls, NEW covered \in BOOLEAN, PaySigns(c, covered)
       PROVE  WalletBounds' /\ PaymentTypes'
  <2>1. UNCHANGED <<rows, wconfig>>  BY <1>12 DEF PaySigns, walletTable
  <2>2. PaymentTypes'  BY <1>12 DEF PaySigns, Payment, PaymentTypes
  <2> QED  BY <1>2, <2>1, <2>2
<1>13. ASSUME NEW c \in PaidCalls, NEW settled \in BOOLEAN, NEW heard \in BOOLEAN,
              PayEnds(c, settled, heard)
       PROVE  WalletBounds' /\ PaymentTypes'
  <2>1. UNCHANGED <<rows, wconfig>>  BY <1>13 DEF PayEnds, walletTable
  <2>2. PICK own : own = payments[c]  OBVIOUS
  <2>3. own \in [phase: {"idle", "balance", "refused", "sent", "paid", "failed"},
                 price: Prices \cup {0}, hourly: Nat]
    BY <2>2 DEF PaymentTypes
  <2>4. own.hourly + own.price \in Nat
    <3>1. PICK hourly \in Nat, price \in Prices \cup {0} : own.hourly = hourly /\ own.price = price
      BY <2>3
    <3>2. Prices \subseteq Nat  BY DEF WalletAssumption
    <3>3. price \in Nat  BY <3>2
    <3>4. hourly + price \in Nat  BY <3>3
    <3> QED  BY <3>1, <3>4
  <2>5. PICK end \in {"paid", "failed"}, hourly \in Nat :
          payments' = [payments EXCEPT ![c].phase = end, ![c].hourly = hourly]
    <3>1. CASE settled /\ heard
      <4>1. payments' = [payments EXCEPT ![c].phase = "paid", ![c].hourly = own.hourly + own.price]
        BY <1>13, <2>2, <3>1 DEF PayEnds
      <4> QED  BY <2>4, <4>1
    <3>2. CASE ~(settled /\ heard)
      <4>1. payments' = [payments EXCEPT ![c].phase = "failed", ![c].hourly = own.hourly]
        BY <1>13, <2>2, <3>2 DEF PayEnds
      <4>2. own.hourly \in Nat  BY <2>3
      <4> QED  BY <4>1, <4>2
    <3> QED  BY <3>1, <3>2
  <2>6. PaymentTypes'  BY <2>5 DEF PaymentTypes
  <2> QED  BY <1>2, <2>1, <2>6
<1> QED  BY <1>3, <1>4, <1>5, <1>6, <1>7, <1>8, <1>9, <1>10, <1>11, <1>12, <1>13, <1>14 DEF WalletNext

LEMMA WalletTyped == WalletSpec => []WalletTypeOK
<1>1. WalletInit => WalletInv /\ WalletBounds /\ PaymentTypes
  <2>1. WalletInit => WalletBounds /\ PaymentTypes
    BY DEF WalletInit, WalletBounds, WalletIds, PaymentTypes, Unpaid
  <2> QED  BY <2>1, WalletAssumption, WalletInitial
<1>2. WalletInv /\ WalletBounds /\ PaymentTypes /\ [WalletNext]_walletVars =>
        WalletInv' /\ WalletBounds' /\ PaymentTypes'
  BY WalletAssumption, WalletNextKeeps, WalletStaysBounded
<1>3. WalletInv /\ WalletBounds /\ PaymentTypes => WalletTypeOK
  <2>1. SUFFICES ASSUME WalletInv, WalletBounds, PaymentTypes  PROVE WalletTypeOK  OBVIOUS
  <2>2. \A i \in WalletIds : rows[i].address \in PrivateKeys /\ rows[i].password \in Passwords
    BY <2>1 DEF WalletInv, WalletTypes, WalletRow
  <2>3. Cardinality({i \in WalletIds : rows[i].default}) <= 1
    <3>1. PICK chosen : chosen = {i \in WalletIds : rows[i].default}  OBVIOUS
    <3>2. \A i, j \in chosen : i = j  BY <2>1, <3>1 DEF WalletBounds
    <3>3. CASE chosen = {}
      <4>1. Cardinality(chosen) = 0  BY <3>3, FS_EmptySet
      <4> QED  BY <3>1, <4>1
    <3>4. ASSUME NEW i \in chosen  PROVE Cardinality(chosen) <= 1
      <4>1. chosen = {i}  BY <3>2
      <4>2. Cardinality({i}) = 1  BY FS_Singleton
      <4> QED  BY <4>1, <4>2
    <3> QED  BY <3>1, <3>3, <3>4
  <2> QED  BY <2>1, <2>2, <2>3 DEF WalletInv, WalletTypes, WalletBounds, PaymentTypes, WalletTypeOK
<1> QED  BY <1>1, <1>2, <1>3, PTL DEF WalletSpec

-------------------------------------------------------------------------------
TableBounds ==
  /\ Len(entries) <= MaxEntries
  /\ frames \in 0..MaxFrames
  /\ aborted \subseteq Sockets

\* Pruning brings a list under the cap, whatever it had.
LEMMA PrunedFits ==
  ASSUME TableAssumption, NEW es \in Seq(PresenceEntry), NEW old \in 0..Len(es)
  PROVE  Len(Pruned(es, old)) <= MaxEntries
<1>1. Len(es) \in Nat /\ old \in Nat /\ old <= Len(es) /\ old + 1 \in Nat \ {0}  OBVIOUS
<1>2. PICK young : young = SubSeq(es, old + 1, Len(es))  OBVIOUS
<1>3. young \in Seq(PresenceEntry)  BY <1>1, <1>2, PartSet
<1>4. PICK first : first = SubSeq(es, 1, old)  OBVIOUS
<1>5. first \in Seq(PresenceEntry)  BY <1>1, <1>4, PartSet
<1>6. PICK gateways : gateways = {e \in ToSet(es) : e.owner = Gateway}  OBVIOUS
<1>7. Kept(first, gateways) \in Seq(PresenceEntry)  BY <1>5, KeptSet
<1>8. PICK kept : kept = Kept(first, gateways) \o young  OBVIOUS
<1>9. kept \in Seq(PresenceEntry) /\ Len(kept) \in Nat
  <2>1. kept \in Seq(PresenceEntry)  BY <1>3, <1>7, <1>8, ConcatSet
  <2> QED  BY <2>1
<1>10. PICK from : from = IF Len(kept) > MaxEntries THEN Len(kept) - MaxEntries + 1 ELSE 1  OBVIOUS
<1>11. from \in Nat \ {0} /\ MaxEntries \in Nat \ {0} /\ from <= Len(kept) + 1
       /\ Len(kept) - from + 1 <= MaxEntries
  BY <1>9, <1>10 DEF TableAssumption
<1>12. Pruned(es, old) = SubSeq(kept, from, Len(kept))
  BY <1>2, <1>4, <1>6, <1>8, <1>10 DEF Pruned
<1>13. Len(SubSeq(kept, from, Len(kept))) = Len(kept) - from + 1
  BY <1>9, <1>11
<1> QED  BY <1>11, <1>12, <1>13

LEMMA UpsertFits ==
  ASSUME TableAssumption, PresenceTypes, NEW c \in Sockets, NEW key \in Keys, Upsert(c, key)
  PROVE  Len(entries') <= MaxEntries
<1>1. PICK left : left = IF keyOf[c] \in {Nobody, key} THEN entries
                         ELSE Without(entries, keyOf[c])
  OBVIOUS
<1>2. left \in Seq(PresenceEntry)  BY <1>1, WithoutSet DEF PresenceTypes
<1>3. PICK new : new = [key |-> key, owner |-> c]  OBVIOUS
<1>4. new \in PresenceEntry  BY <1>3 DEF PresenceEntry
<1>5. PICK es : es = Append(Without(left, key), new)  OBVIOUS
<1>6. es \in Seq(PresenceEntry)  BY <1>2, <1>4, <1>5, WithoutSet
<1>7. PICK stale \in 0..(Len(es) - 1) : entries' = Pruned(es, stale)
  BY <1>1, <1>3, <1>5 DEF Upsert
<1>8. stale \in 0..Len(es)  BY <1>6
<1> QED  BY <1>6, <1>7, <1>8, PrunedFits

LEMMA TableStaysBounded ==
  ASSUME TableAssumption, TableInv, TableBounds, [TableNext]_tableVars
  PROVE  TableBounds'
<1>0. PresenceTypes /\ entries \in Seq(PresenceEntry)  BY DEF TableInv, PresenceTypes
<1>1. UNCHANGED <<presence, frames>> /\ aborted' \subseteq Sockets => TableBounds'
  BY DEF TableBounds, presence
<1>2. ASSUME NEW c \in Sockets, SocketOpens(c)  PROVE TableBounds'
  <2>1. Upsert(c, c) /\ UNCHANGED <<frames, aborted>>  BY <1>2 DEF SocketOpens
  <2> QED  BY <1>0, <2>1, UpsertFits DEF TableBounds, Keys
<1>3. ASSUME NEW c \in Sockets, PresenceFrame(c)  PROVE TableBounds'
  <2>1. PICK key \in Instances \cup {c} : Upsert(c, key)  BY <1>3 DEF PresenceFrame
  <2>2. Len(entries') <= MaxEntries  BY <1>0, <2>1, UpsertFits DEF Keys
  <2>3. frames' \in 0..MaxFrames /\ aborted' = aborted
    BY <1>3 DEF PresenceFrame, TableBounds, TableAssumption
  <2> QED  BY <2>2, <2>3 DEF TableBounds
<1>4. ASSUME NEW c \in Sockets, SocketCloses(c)  PROVE TableBounds'
  <2>1. entries' = Without(entries, keyOf[c]) /\ UNCHANGED <<frames, aborted>>
    BY <1>4 DEF SocketCloses, RemoveByConnection
  <2>2. PICK others : others = {e \in ToSet(entries) : e.key # keyOf[c]}  OBVIOUS
  <2>3. entries' = Kept(entries, others)  BY <2>1, <2>2 DEF Without
  <2>4. PICK kept : kept = Kept(entries, others)  OBVIOUS
  <2>5. kept \in Seq(PresenceEntry) /\ Len(kept) <= Len(entries)  BY <1>0, <2>4, KeptType
  <2>6. Len(kept) \in Nat /\ Len(entries) \in Nat /\ MaxEntries \in Nat
    BY <1>0, <2>5 DEF TableAssumption
  <2> QED  BY <2>1, <2>3, <2>4, <2>5, <2>6 DEF TableBounds
<1>5. CASE ListEntries
  <2>1. PICK stale \in 0..Len(entries) : entries' = Pruned(entries, stale)
    BY <1>5 DEF ListEntries, Prune
  <2>2. UNCHANGED <<frames, aborted>>  BY <1>5 DEF ListEntries, socket
  <2> QED  BY <1>0, <2>1, <2>2, PrunedFits DEF TableBounds
<1>6. ASSUME NEW c \in Sockets, SocketChallengeFails(c)  PROVE TableBounds'
  BY <1>1, <1>6 DEF SocketChallengeFails, TableBounds
<1>7. ASSUME NEW c \in Sockets, SocketChallenged(c) \/ SocketHangsUp(c) \/ SocketConnects(c)
      PROVE  TableBounds'
  <2>1. UNCHANGED <<presence, frames, aborted>>
    BY <1>7 DEF SocketChallenged, SocketHangsUp, SocketConnects, socket
  <2> QED  BY <1>1, <2>1 DEF TableBounds
<1>8. ASSUME NEW b \in Broadcasts, BroadcastStarts(b) \/ BroadcastEnds(b)
      PROVE  TableBounds'
  <2>1. UNCHANGED <<presence, frames, aborted>>
    BY <1>8 DEF BroadcastStarts, BroadcastEnds, socket
  <2> QED  BY <1>1, <2>1 DEF TableBounds
<1>9. CASE UNCHANGED tableVars
  BY <1>1, <1>9 DEF tableVars, socket, TableBounds
<1> QED  BY <1>2, <1>3, <1>4, <1>5, <1>6, <1>7, <1>8, <1>9 DEF TableNext

LEMMA TableTyped == TableSpec => []TableTypeOK
<1>1. TableInit => TableInv /\ TableBounds
  <2>1. SUFFICES ASSUME TableInit  PROVE TableInv /\ TableBounds  OBVIOUS
  <2>2. PICK first : first = [key |-> Gateway, owner |-> Gateway]  OBVIOUS
  <2>3. Len(entries) = 1  BY <2>1, <2>2 DEF TableInit
  <2>4. TableBounds  BY <2>1, <2>3, TableAssumption DEF TableInit, TableBounds, TableAssumption
  <2> QED  BY <2>1, <2>4, TableAssumption, TableInitial
<1>2. TableInv /\ TableBounds /\ [TableNext]_tableVars => TableInv' /\ TableBounds'
  BY TableAssumption, TableStep, TableStaysBounded
<1>3. TableInv /\ TableBounds => TableTypeOK
  <2>1. SUFFICES ASSUME TableInv, TableBounds  PROVE TableTypeOK  OBVIOUS
  <2>2. \A k \in 1..Len(entries) : entries[k] \in [key: Keys, owner: Sockets \cup {Gateway}]
    <3>1. \A k \in 1..Len(entries) : entries[k] \in PresenceEntry
      BY <2>1 DEF TableInv, PresenceTypes
    <3> QED  BY <3>1 DEF PresenceEntry
  <2> QED  BY <2>1, <2>2 DEF TableInv, TableTypes, PresenceTypes, TableBounds, TableTypeOK
<1> QED  BY <1>1, <1>2, <1>3, PTL DEF TableSpec

-------------------------------------------------------------------------------
AlertBounds ==
  /\ clock \in 1..Instants
  /\ unusable \subseteq Profiles /\ running \subseteq Channels /\ stalled \in BOOLEAN
  /\ worker \in [running: BOOLEAN, updated: 0..Instants, backoff: SUBSET Backoffs]
  /\ Len(recent) <= MaxRecent

LEMMA OverviewFits ==
  ASSUME AlertAssumption, AlertInv, AlertBounds,
         NEW known \in BOOLEAN, NEW readable \in BOOLEAN, NEW writable \in BOOLEAN,
         Overview(known, readable, writable)
  PROVE  Len(recent') <= MaxRecent
<1>1. CASE ~writable  BY <1>1 DEF Overview, AlertBounds
<1>2. CASE writable
  <2>1. recent' \in Seq(Spells)  BY <1>2, OverviewKeeps DEF AlertInv, AlertTypes
  <2>2. PICK old : old = IF readable THEN active ELSE Empty  OBVIOUS
  <2>3. PICK before : before = IF readable THEN recent ELSE <<>>  OBVIOUS
  <2>4. PICK order \in SetToSeqs(DOMAIN old \ Raised(known)) :
          recent' = SubSeq(Resolved(old, order) \o before, 1,
                           IF Len(Resolved(old, order) \o before) < MaxRecent
                           THEN Len(Resolved(old, order) \o before) ELSE MaxRecent)
    BY <1>2, <2>2, <2>3 DEF Overview
  <2>5. PICK new : new = Resolved(old, order)  OBVIOUS
  <2>6. old \in [DOMAIN old -> 1..clock] /\ DOMAIN old \subseteq AllAlerts /\ before \in Seq(Spells)
    BY <2>2, <2>3 DEF AlertInv, AlertTypes, Empty
  <2>7. new \in Seq(Spells)
    <3>1. PICK raised : raised = Raised(known)  OBVIOUS
    <3>2. DOMAIN old \ raised \in SUBSET DOMAIN old  OBVIOUS
    <3>3. IsFiniteSet(AllAlerts)  BY AlertsAreFinite
    <3>4. clock \in Nat /\ clock > 0  BY DEF AlertInv, AlertTypes
    <3> QED  BY <2>4, <2>5, <2>6, <3>1, <3>2, <3>3, <3>4, ResolvedType
  <2>8. PICK all : all = new \o before  OBVIOUS
  <2>9. all \in Seq(Spells) /\ Len(all) \in Nat  BY <2>6, <2>7, <2>8
  <2>10. PICK upto : upto = IF Len(all) < MaxRecent THEN Len(all) ELSE MaxRecent  OBVIOUS
  <2>11. upto \in Nat /\ upto <= MaxRecent /\ upto <= Len(all)
    BY <2>9, <2>10 DEF AlertAssumption
  <2>12. Len(SubSeq(all, 1, upto)) = upto  BY <2>9, <2>11
  <2> QED  BY <2>4, <2>5, <2>8, <2>10, <2>11, <2>12
<1> QED  BY <1>1, <1>2

LEMMA AlertsStayBounded ==
  ASSUME AlertAssumption, AlertInv, AlertBounds, [AlertsNext]_alertVars
  PROVE  AlertBounds'
<1>0. Instants \in Nat  BY DEF AlertAssumption
<1>1. ASSUME NEW known \in BOOLEAN, NEW readable \in BOOLEAN, NEW writable \in BOOLEAN,
             Overview(known, readable, writable)
      PROVE  AlertBounds'
  <2>1. UNCHANGED <<clock, world>>  BY <1>1 DEF Overview
  <2>2. Len(recent') <= MaxRecent  BY <1>1, OverviewFits
  <2> QED  BY <2>1, <2>2 DEF world, AlertBounds
<1>2. ASSUME NEW p \in Profiles, ProfileChanges(p)  PROVE AlertBounds'
  BY <1>2 DEF ProfileChanges, alertHistory, AlertBounds
<1>3. ASSUME NEW c \in Channels, ChannelChanges(c)  PROVE AlertBounds'
  BY <1>3 DEF ChannelChanges, alertHistory, AlertBounds
<1>4. CASE CronChanges  BY <1>4 DEF CronChanges, alertHistory, AlertBounds
<1>5. ASSUME NEW alive \in BOOLEAN, NEW backoff \in SUBSET Backoffs, WorkerReports(alive, backoff)
      PROVE  AlertBounds'
  <2>1. clock \in 0..Instants  BY <1>0 DEF AlertBounds
  <2>2. worker' \in [running: BOOLEAN, updated: 0..Instants, backoff: SUBSET Backoffs]
    BY <1>5, <2>1 DEF WorkerReports
  <2> QED  BY <1>5, <2>2 DEF WorkerReports, alertHistory, AlertBounds
<1>6. CASE ClockTicks
  <2>1. clock' \in 1..Instants  BY <1>0, <1>6 DEF ClockTicks, AlertBounds
  <2>2. PICK gone \in SUBSET worker.backoff : worker' = [worker EXCEPT !.backoff = @ \ gone]
    BY <1>6 DEF ClockTicks
  <2>3. worker' \in [running: BOOLEAN, updated: 0..Instants, backoff: SUBSET Backoffs]
    BY <2>2 DEF AlertBounds
  <2> QED  BY <1>6, <2>1, <2>3 DEF ClockTicks, alertHistory, AlertBounds
<1>7. CASE UNCHANGED alertVars
  BY <1>7 DEF alertVars, world, alertHistory, AlertBounds
<1> QED  BY <1>1, <1>2, <1>3, <1>4, <1>5, <1>6, <1>7 DEF AlertsNext

LEMMA AlertsTyped == AlertsSpec => []AlertsTypeOK
<1>1. AlertsInit => AlertInv /\ AlertBounds
  <2>1. SUFFICES ASSUME AlertsInit  PROVE AlertInv /\ AlertBounds  OBVIOUS
  <2>2. 1 \in 1..Instants /\ 0 \in 0..Instants /\ MaxRecent >= 0
    BY AlertAssumption DEF AlertAssumption
  <2>3. worker \in [running: BOOLEAN, updated: 0..Instants, backoff: SUBSET Backoffs]
    BY <2>1, <2>2 DEF AlertsInit
  <2>4. AlertBounds  BY <2>1, <2>2, <2>3 DEF AlertsInit, AlertBounds
  <2> QED  BY <2>1, <2>4, AlertAssumption, AlertsInitial
<1>2. AlertInv /\ AlertBounds /\ [AlertsNext]_alertVars => AlertInv' /\ AlertBounds'
  BY AlertAssumption, AlertStep, AlertsStayBounded
<1>3. AlertInv /\ AlertBounds => AlertsTypeOK
  <2>1. SUFFICES ASSUME AlertInv, AlertBounds  PROVE AlertsTypeOK  OBVIOUS
  <2>2. \A k \in DOMAIN active : active[k] \in 1..clock  BY <2>1 DEF AlertInv, AlertTypes
  <2> QED  BY <2>1, <2>2 DEF AlertBounds, AlertsTypeOK
<1> QED  BY <1>1, <1>2, <1>3, PTL DEF AlertsSpec

-------------------------------------------------------------------------------
AliasedType == aliased \in BOOLEAN

LEMMA AliasedStays ==
  ASSUME AliasedType, [ConfigNext]_configVars
  PROVE  AliasedType'
<1> USE DEF AliasedType
<1>1. CASE \/ \E env \in EnvKeys : GatewayStarts(env) \/ CommandLoads(env)
           \/ GatewayDies \/ RemoveFile \/ ReadConfig
           \/ PutConfig \/ PutConfigRefused \/ PatchEntry \/ ApplyRaw
  BY <1>1 DEF GatewayStarts, Serve, CommandLoads, GatewayDies, RemoveFile, ReadConfig, PutConfig,
              PutConfigRefused, PatchEntry, ApplyRaw, processState
<1>2. CASE (\E a \in AgentIds : CreateAgent(a) \/ DeleteAgent(a)) \/ UpdateAgent
  <2>1. PICK c : SaveChanged(c)  BY <1>2 DEF CreateAgent, DeleteAgent, UpdateAgent
  <2> QED  BY <2>1 DEF SaveChanged, ChangeServed
<1>3. CASE UpdateAgentFails  BY <1>3 DEF UpdateAgentFails, ChangeServed
<1>4. CASE SavedToApp \/ SavedAndReloads \/ SavedRaw
  BY <1>4 DEF SavedToApp, SavedAndReloads, SavedRaw
<1>5. CASE CommandSaves \/ CommandWrites \/ CommandDies \/ UNCHANGED configVars
  BY <1>5 DEF CommandSaves, CommandWrites, CommandDies, processState, configVars
<1> QED  BY <1>1, <1>2, <1>3, <1>4, <1>5 DEF ConfigNext

LEMMA ConfigTyped == ConfigSpec => []ConfigTypeOK
<1>1. ConfigInit => ConfigInv /\ AliasedType
  <2>1. ASSUME ConfigInit  PROVE AliasedType
    <3>1. aliased = FALSE  BY <2>1 DEF ConfigInit
    <3> QED  BY <3>1 DEF AliasedType
  <2> QED  BY <2>1, ConfigInitial
<1>2. ConfigInv /\ AliasedType /\ [ConfigNext]_configVars => ConfigInv' /\ AliasedType'
  BY ConfigAssumption, ConfigNextKeeps, AliasedStays
<1>3. ConfigInv /\ AliasedType => ConfigTypeOK
  <2>1. ConfigTypes => saving.by \in {"none", "gateway", "command"} /\ saving.content \in Contents
    BY DEF ConfigTypes
  <2> QED  BY <2>1 DEF ConfigInv, ConfigTypes, AliasedType, ConfigTypeOK
<1> QED  BY <1>1, <1>2, <1>3, PTL DEF ConfigSpec

-------------------------------------------------------------------------------
PluginBounds ==
  /\ circuit \in [streak: 0..CircuitThreshold, open: BOOLEAN]
  /\ unitCalls \in 0..MaxStops

LEMMA PluginsStayBounded ==
  ASSUME PluginAssumption, PluginBounds, [PluginNext]_pluginVars
  PROVE  PluginBounds'
<1>0. CircuitThreshold \in Nat \ {0} /\ MaxStops \in Nat  BY DEF PluginAssumption
<1>1. UNCHANGED <<circuit, unitCalls>> => PluginBounds'  BY DEF PluginBounds
<1>2. CASE GatewayBoots \/ Reload \/ Doctor
  BY <1>1, <1>2 DEF GatewayBoots, Reload, Doctor
<1>3. ASSUME NEW u \in Units, ThreadStarts(u) \/ ThreadStarted(u)  PROVE PluginBounds'
  BY <1>1, <1>3 DEF ThreadStarts, ThreadStarted
<1>4. CASE ThreadPasses  BY <1>1, <1>4 DEF ThreadPasses
<1>5. CASE StartServices \/ StopServices
  <2>1. UNCHANGED circuit /\ unitCalls' \in 0..MaxStops
    BY <1>0, <1>5 DEF StartServices, StopServices, UnitCall, PluginBounds
  <2> QED  BY <2>1 DEF PluginBounds
<1>6. CASE CallSucceeds  BY <1>0, <1>6 DEF CallSucceeds, PluginBounds
<1>7. CASE CallFails
  <2>1. PICK streak : /\ streak = (IF circuit.streak < CircuitThreshold
                                   THEN circuit.streak + 1 ELSE circuit.streak)
                      /\ circuit' = [streak |-> streak, open |-> streak = CircuitThreshold]
    BY <1>7 DEF CallFails
  <2>2. streak \in 0..CircuitThreshold  BY <1>0, <2>1 DEF PluginBounds
  <2> QED  BY <1>7, <2>1, <2>2 DEF CallFails, PluginBounds
<1>8. CASE CircuitCools  BY <1>8 DEF CircuitCools, PluginBounds
<1>9. ASSUME NEW c \in ToolCalls, AskHooks(c) \/ AskNext(c) \/ AskedAll(c)  PROVE PluginBounds'
  BY <1>1, <1>9 DEF AskHooks, AskNext, AskedAll
<1>10. CASE UNCHANGED pluginVars  BY <1>1, <1>10 DEF pluginVars
<1> QED  BY <1>2, <1>3, <1>4, <1>5, <1>6, <1>7, <1>8, <1>9, <1>10 DEF PluginNext

LEMMA PluginTyped == PluginSpec => []PluginTypeOK
<1>1. PluginInit => PluginInv /\ PluginBounds
  BY PluginAssumption, PluginInitial DEF PluginInit, PluginBounds, PluginAssumption
<1>2. PluginInv /\ PluginBounds /\ [PluginNext]_pluginVars => PluginInv' /\ PluginBounds'
  BY PluginAssumption, PluginStep, PluginsStayBounded
<1>3. PluginInv /\ PluginBounds => PluginTypeOK
  <2>1. SUFFICES ASSUME PluginInv, PluginBounds  PROVE PluginTypeOK  OBVIOUS
  <2>2. asking \in [ToolCalls -> [at: {"idle", "asking", "called", "refused"}, next: Nat,
                                  begun: SUBSET Registration, asked: SUBSET Registration,
                                  decider: SUBSET Registration, blocks: BOOLEAN,
                                  overruled: SUBSET Registration]]
    <3>1. \A c \in ToolCalls : asking[c] \in AskRecord  BY <2>1 DEF PluginInv, HookTypes
    <3> QED  BY <2>1, <3>1 DEF PluginInv, HookTypes, AskRecord
  <2> QED  BY <2>1, <2>2 DEF PluginInv, HookTypes, UnitTypes, PluginBounds, PluginTypeOK
<1> QED  BY <1>1, <1>2, <1>3, PTL DEF PluginSpec

-------------------------------------------------------------------------------
LEMMA PipelineTyped == PipelineSpec => []PipelineTypeOK
<1>1. PipelineInit => PipelineInv /\ Asleep
  <2>1. PipelineInit => Asleep  BY DEF PipelineInit, Asleep
  <2> QED  BY <2>1, PipelineAssumption, PipelineInitial
<1>2. PipelineInv /\ Asleep /\ [PipelineNext]_pipelineVars => PipelineInv' /\ Asleep'
  BY PipelineAssumption, PipelineNextKeeps
<1>3. PipelineInv => PipelineTypeOK  BY DEF PipelineInv
<1> QED  BY <1>1, <1>2, <1>3, PTL DEF PipelineSpec
===============================================================================
