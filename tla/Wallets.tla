------------------------------- MODULE Wallets -------------------------------
(***************************************************************************)
(* The wallets of the house and what is paid with them                     *)
(* (identity/wallet_store.py, identity/wallet_session.py, the wallet part  *)
(* of storage/sqlite_store.py, the `wallet` commands, the wallet part of a *)
(* configuration update, financial/x402_client.py and                      *)
(* agent/tools/x402_payment.py).                                           *)
(*                                                                         *)
(* The gateway and the command line are two processes over one database.   *)
(* A statement of the store is a step; what reads the store twice, or      *)
(* reads it and writes what it computed, is several.  A key stands for its *)
(* address too, so that a row, or the session, may hold two of them only   *)
(* by mistake.  The file of an older version (wallet.enc) is removed by    *)
(* what creates or deletes a wallet, after its row.  The gateway unlocks   *)
(* the wallet that it found in the table before it serves, and only its    *)
(* own updates delete one: so decrypt_wallet, which would move the file    *)
(* into an empty table, never does when it unlocks.  show-key, which       *)
(* changes nothing but when an update empties the table while it waits for *)
(* the password and the file is still there, is not modelled.              *)
(***************************************************************************)
EXTENDS Integers, FiniteSets, FiniteSetsExt

CONSTANTS
    PrivateKeys,           \* private keys that may be generated, and that of the file
    Passwords,
    PaidCalls,      \* executions of the tool x402_fetch
    Prices,         \* what a server may ask, in cents
    MaxSingle,      \* max_single_payment_cents: 100
    MaxHourly,      \* max_hourly_spend_cents: 500
    WalletSteps,    \* bound: commands and updates
    NoKey

ASSUME WalletAssumption ==
    /\ Prices \subseteq Nat /\ MaxSingle \in Nat /\ MaxHourly \in Nat
    /\ WalletSteps \in Nat /\ NoKey \notin PrivateKeys

VARIABLES
    rows,           \* wallets: by id, the address, the key, its password, is_default
    legacy,         \* the key in wallet.enc
    wconfig,        \* config.wallet.address
    erasing,        \* what has changed the table and has wallet.enc yet to remove
    unlocked,        \* WalletSession: the address and the key
    unlocking,      \* unlock has read this address
    changing,       \* change-password has decrypted this wallet
    payments,       \* the calls of the tool
    wsteps,
    (* history *)
    made,           \* keys that were generated
    deleted,        \* those that disabling deleted, and that of a wallet.enc replaced
    moved,          \* the default wallet changed while unlock was running
    spent           \* authorizations of this hour that a server has accepted

walletTable == <<rows, legacy, wconfig, erasing, made, deleted>>
walletSession == <<unlocked, unlocking, moved>>
paymentState == <<payments, spent>>
walletVars == <<walletTable, walletSession, changing, paymentState, wsteps>>

WalletIds == DOMAIN rows
Locked == [address |-> NoKey, key |-> NoKey]
NoChange == [id |-> 0, key |-> NoKey, new |-> NoKey]
Unpaid == [phase |-> "idle", price |-> 0, hourly |-> 0]

WalletInit ==
    /\ rows = [i \in {} |-> 0] /\ wconfig = NoKey /\ deleted = {} /\ erasing = {}
    /\ legacy \in PrivateKeys \cup {NoKey} /\ made = {legacy} \ {NoKey}
    /\ unlocked = Locked /\ unlocking = NoKey /\ moved = FALSE
    /\ changing = NoChange
    /\ payments = [c \in PaidCalls |-> Unpaid] /\ spent = 0
    /\ wsteps = 0

WalletStep == wsteps < WalletSteps /\ wsteps' = wsteps + 1

----------------------------------------------------------------------------
(* The table.                                                              *)

\* get_wallet: the default wallet, or the first.
DefaultId(table) ==
    LET chosen == {i \in DOMAIN table : table[i].default}
    IN  IF DOMAIN table = {} THEN 0
        ELSE IF chosen /= {} THEN Min(chosen) ELSE Min(DOMAIN table)

Address(table) == IF DefaultId(table) = 0 THEN NoKey ELSE table[DefaultId(table)].address

\* A set that replaces the table tells whether an unlock that is running has
\* read the address of another wallet.
SetRows(table) ==
    /\ rows' = table
    /\ moved' = (moved \/ (unlocking /= NoKey /\ Address(table) /= unlocking))

Undefault(table) == [i \in DOMAIN table |-> [table[i] EXCEPT !.default = FALSE]]

\* Rows are numbered by AUTOINCREMENT, in the order of the steps.
NewId == wsteps + 1

\* set_wallet, which replaces the first wallet, in the place of add_wallet.
AddWallet_MutReplaces(k, p, default) ==
    LET id == IF WalletIds = {} THEN NewId ELSE Min(WalletIds)
    IN  [i \in WalletIds \cup {id} |->
            IF i = id THEN [address |-> k, key |-> k, password |-> p, default |-> TRUE]
            ELSE [rows[i] EXCEPT !.default = FALSE]]

AddWallet(k, p, default) ==
    LET others == IF default THEN Undefault(rows) ELSE rows
    IN  [i \in WalletIds \cup {NewId} |->
            IF i \in WalletIds THEN others[i]
            ELSE [address |-> k, key |-> k, password |-> p, default |-> default]]

----------------------------------------------------------------------------
(* Commands and updates.                                                   *)

\* create_and_save_wallet: by `wallet init`, or by an update of the
\* configuration that enables the wallet with a password.
Create(by, k, p, default) ==
    /\ k \in PrivateKeys \ made
    /\ made' = made \cup {k}
    /\ SetRows(AddWallet(k, p, default))
    /\ erasing' = erasing \cup {[by |-> by, key |-> k]}

WalletCommandInit(k, p, default) ==
    /\ WalletStep /\ Create("init", k, p, default)
    /\ UNCHANGED <<legacy, wconfig, deleted, unlocked, unlocking, changing, paymentState>>

\* The gateway is not in the middle of an update, nor of unlocking at its start.
GatewayIsFree == unlocking = NoKey /\ \A e \in erasing : e.by = "init"

EnableWallet(k, p) ==
    /\ GatewayIsFree /\ WalletStep /\ Create("update", k, p, TRUE)
    /\ UNCHANGED <<legacy, wconfig, deleted, unlocked, unlocking, changing, paymentState>>

\* clear_wallet_file deletes the wallet that is the default now.
DisableWallet ==
    /\ GatewayIsFree /\ WalletStep
    /\ LET id == DefaultId(rows)
       IN  /\ SetRows([i \in WalletIds \ {id} |-> rows[i]])
           /\ deleted' = deleted \cup {rows[i].key : i \in WalletIds \cap {id}}
    /\ erasing' = erasing \cup {[by |-> "update", key |-> NoKey]}
    /\ UNCHANGED <<legacy, wconfig, made, unlocked, unlocking, changing, paymentState>>

\* Then the file is removed; an update takes the address into the configuration.
EraseFile(e) ==
    /\ erasing' = erasing \ {e}
    /\ legacy' = NoKey
    /\ deleted' = deleted \cup ({legacy} \ {NoKey})
    /\ wconfig' = IF e.by = "update" THEN e.key ELSE wconfig
    /\ UNCHANGED <<rows, made, walletSession, changing, paymentState, wsteps>>

\* Its process is killed first, or the file cannot be removed.
EraseFails(e) ==
    /\ erasing' = erasing \ {e}
    /\ UNCHANGED <<rows, legacy, wconfig, made, deleted, walletSession, changing, paymentState, wsteps>>

\* The command has seen the wallet in a list, but it may be gone: then no
\* wallet is the default, and the first stands in.
SetDefault(id) ==
    /\ WalletStep
    /\ SetRows([i \in WalletIds |-> [rows[i] EXCEPT !.default = (i = id)]])
    /\ UNCHANGED <<legacy, wconfig, erasing, made, deleted, unlocked, unlocking, changing, paymentState>>

ChangeReads(id, old, new) ==
    /\ WalletStep
    /\ changing = NoChange
    /\ rows[id].password = old
    /\ changing' = [id |-> id, key |-> rows[id].key, new |-> new]
    /\ UNCHANGED <<walletTable, walletSession, paymentState>>

ChangeWrites ==
    /\ changing /= NoChange
    /\ rows' = [i \in WalletIds |->
                  IF i = changing.id
                  THEN [rows[i] EXCEPT !.key = changing.key, !.password = changing.new]
                  ELSE rows[i]]
    /\ changing' = NoChange
    /\ UNCHANGED <<legacy, wconfig, erasing, made, deleted, walletSession, paymentState, wsteps>>

----------------------------------------------------------------------------
(* The session of the gateway.                                             *)

UnlockReads ==
    /\ unlocked = Locked /\ GatewayIsFree
    /\ Address(rows) /= NoKey
    /\ unlocking' = Address(rows) /\ moved' = FALSE
    /\ UNCHANGED <<walletTable, unlocked, changing, paymentState, wsteps>>

UnlockDecrypts(p) ==
    /\ unlocking /= NoKey
    /\ LET id == DefaultId(rows)
       IN  IF id # 0 /\ rows[id].password = p
           THEN unlocked' = [address |-> unlocking, key |-> rows[id].key] /\ UNCHANGED moved
           ELSE unlocked' = Locked /\ moved' = FALSE
    /\ unlocking' = NoKey
    /\ UNCHANGED <<walletTable, changing, paymentState, wsteps>>

LockSession ==
    /\ unlocked /= Locked
    /\ unlocked' = Locked /\ moved' = FALSE
    /\ UNCHANGED <<walletTable, unlocking, changing, paymentState, wsteps>>

----------------------------------------------------------------------------
(* Payments: fetch_with_payment of a client that is made for the call.     *)

Payment(c, phase) == payments' = [payments EXCEPT ![c].phase = phase]

\* _check_spend_limits and the limit of the call.
WithinLimits(c, price, own) ==
    /\ price <= own /\ price <= MaxSingle
    /\ payments[c].hourly + price <= MaxHourly

PayAsked(c, price, own) ==
    /\ payments[c].phase = "idle" /\ unlocked /= Locked
    /\ payments' = [payments EXCEPT ![c] =
          [phase |-> IF WithinLimits(c, price, own) THEN "balance" ELSE "refused",
           price |-> price, hourly |-> 0]]
    /\ UNCHANGED <<walletTable, walletSession, changing, wsteps, spent>>

\* The chain is asked for the balance, and the authorization is signed.
PaySigns(c, covered) ==
    /\ payments[c].phase = "balance"
    /\ Payment(c, IF covered THEN "sent" ELSE "refused")
    /\ UNCHANGED <<walletTable, walletSession, changing, wsteps, spent>>

\* The server settles the payment or not, and its answer arrives or not.
PayEnds(c, settled, heard) ==
    /\ payments[c].phase = "sent"
    /\ payments' = [payments EXCEPT ![c].phase = IF settled /\ heard THEN "paid" ELSE "failed",
                                    ![c].hourly = IF settled /\ heard THEN @ + payments[c].price ELSE @]
    /\ spent' = IF settled THEN spent + payments[c].price ELSE spent
    /\ UNCHANGED <<walletTable, walletSession, changing, wsteps>>

WalletNext ==
    \/ \E k \in PrivateKeys, p \in Passwords :
          \/ \E default \in BOOLEAN : WalletCommandInit(k, p, default)
          \/ EnableWallet(k, p)
    \/ DisableWallet
    \/ \E e \in erasing : EraseFile(e) \/ EraseFails(e)
    \/ \E id \in 1..wsteps : SetDefault(id)
    \/ \E id \in WalletIds, old, new \in Passwords : ChangeReads(id, old, new)
    \/ ChangeWrites
    \/ UnlockReads \/ LockSession
    \/ \E p \in Passwords : UnlockDecrypts(p)
    \/ \E c \in PaidCalls :
          \/ \E price, own \in Prices : PayAsked(c, price, own)
          \/ \E covered \in BOOLEAN : PaySigns(c, covered)
          \/ \E settled, heard \in BOOLEAN : PayEnds(c, settled, heard)

WalletSpec == WalletInit /\ [][WalletNext]_walletVars

----------------------------------------------------------------------------
(* Properties.                                                             *)

WalletTypeOK ==
    /\ \A i \in WalletIds : rows[i].address \in PrivateKeys /\ rows[i].password \in Passwords
    /\ legacy \in PrivateKeys \cup {NoKey} /\ wconfig \in PrivateKeys \cup {NoKey}
    /\ erasing \subseteq [by: {"init", "update"}, key: PrivateKeys \cup {NoKey}]
    /\ Cardinality({i \in WalletIds : rows[i].default}) <= 1
    /\ payments \in [PaidCalls -> [phase: {"idle", "balance", "refused", "sent", "paid", "failed"},
                                   price: Prices \cup {0}, hourly: Nat]]

\* No interleaving of the commands, the updates and the session loses a key
\* that nobody deleted, gives a wallet the key of another, or pays from an
\* address with the key of another unless the default wallet was changed
\* while the session was being unlocked (wallet_store.py:90, 165,
\* wallet_session.py:115-130).
KeysSurvive ==
    /\ made \subseteq {rows[i].key : i \in WalletIds} \cup {legacy} \cup deleted
    /\ \A i \in WalletIds : rows[i].key = rows[i].address /\ rows[i].key \notin deleted
    /\ unlocked.key /= unlocked.address => moved

\* What is spent within an hour stays within the hourly limit of the policy
\* (x402_client.py:104, and "max_hourly_spend_cents" in
\* docs/zh/X402_PAYMENT_PROTOCOL.md:278).
HourlyLimitHolds == spent <= MaxHourly

=============================================================================
