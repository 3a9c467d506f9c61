-------------------------- MODULE ConnectionTable --------------------------
(***************************************************************************)
(* What the gateway remembers of its websockets: the table of connections  *)
(* that events are broadcast to, and the presence list.                    *)
(*                                                                         *)
(* The table is a Python dictionary that handlers fetch with               *)
(* `app_state.get("rpc_connections") or {}`, so an empty one is replaced   *)
(* by a new one: `tables` holds the objects, `inUse` the one app_state     *)
(* refers to.  A broadcast keeps the object it fetched over its sends.     *)
(*                                                                         *)
(* Presence entries are kept here in the order of their time stamps, the   *)
(* oldest first.  Which of them have outlived the TTL is a choice.         *)
(***************************************************************************)
EXTENDS Naturals, Sequences, FiniteSets, SequencesExt, Selection

CONSTANTS Sockets, Instances, Broadcasts, Tables, MaxEntries, MaxFrames, Gateway, Nobody

ASSUME TableAssumption ==
    /\ {Gateway, Nobody} \cap (Sockets \cup Instances \cup Tables) = {}
    /\ MaxEntries \in Nat \ {0} /\ MaxFrames \in Nat
    /\ Gateway # Nobody
    /\ IsFiniteSet(Broadcasts)
    /\ IsFiniteSet(Tables) /\ Cardinality(Tables) > Cardinality(Broadcasts) + 1

VARIABLES
    line,       \* the websocket: not opened, up, or gone
    stage,      \* where its coroutine is
    tables, inUse,    \* rpc_connections
    cast,       \* broadcasts: the dictionary each holds and its snapshot
    entries,    \* PresenceStore._entries, by time stamp
    keyOf,      \* PresenceStore._connection_to_key
    frames,     \* the presence frames sent so far, up to MaxFrames
    (* history *)
    restored,   \* a broadcast has stored a dictionary that was not in use
    aborted     \* connections that failed before their loop was entered

socket == <<line, stage, frames>>
table == <<tables, inUse, cast, restored>>
presence == <<entries, keyOf>>
tableVars == <<socket, table, presence, aborted>>

Keys == Sockets \cup Instances \cup {Gateway}
NoCast == [at |-> "idle", held |-> Nobody, seen |-> {}]

TableTypeOK ==
    /\ line \in [Sockets -> {"none", "up", "down"}]
    /\ stage \in [Sockets -> {"none", "challenge", "reading", "closed"}]
    /\ tables \in [Tables -> SUBSET Sockets] /\ inUse \in Tables
    /\ cast \in [Broadcasts -> [at: {"idle", "sending", "over"},
                                held: Tables \cup {Nobody}, seen: SUBSET Sockets]]
    /\ \A k \in 1..Len(entries) :
          entries[k] \in [key: Keys, owner: Sockets \cup {Gateway}]
    /\ Len(entries) <= MaxEntries
    /\ keyOf \in [Sockets -> Keys \cup {Nobody}]
    /\ frames \in 0..MaxFrames
    /\ restored \in BOOLEAN /\ aborted \in SUBSET Sockets

\* register_gateway runs before the first connection.
TableInit ==
    /\ line = [c \in Sockets |-> "none"] /\ stage = [c \in Sockets |-> "none"]
    /\ tables = [t \in Tables |-> {}] /\ inUse = CHOOSE t \in Tables : TRUE
    /\ cast = [b \in Broadcasts |-> NoCast]
    /\ entries = <<[key |-> Gateway, owner |-> Gateway]>>
    /\ keyOf = [c \in Sockets |-> Nobody]
    /\ frames = 0 /\ restored = FALSE /\ aborted = {}

----------------------------------------------------------------------------
(* The table.                                                              *)

InUse == {inUse} \cup {cast[b].held : b \in Broadcasts}
Fetched == IF tables[inUse] # {} THEN inUse
           ELSE CHOOSE t \in Tables : t \notin InUse
TableInUse == tables[inUse]

\* A handler fetches the dictionary, changes it and stores it, without await.
StoreTable(members) ==
    /\ tables' = [t \in Tables |-> IF t = Fetched THEN members
                                   ELSE IF t \in InUse THEN tables[t] ELSE {}]
    /\ inUse' = Fetched
    /\ UNCHANGED <<cast, restored>>

----------------------------------------------------------------------------
(* The presence list.                                                      *)

Without(es, key) == Kept(es, {e \in ToSet(es) : e.key # key})

\* _prune: the entries that are too old, except the gateway's own, then the
\* oldest ones above the cap.  `stale` of the oldest entries are too old.
Pruned(es, stale) ==
    LET young == SubSeq(es, stale + 1, Len(es))
        old == Kept(SubSeq(es, 1, stale), {e \in ToSet(es) : e.owner = Gateway})
        kept == old \o young
    IN  SubSeq(kept, IF Len(kept) > MaxEntries
                     THEN Len(kept) - MaxEntries + 1 ELSE 1, Len(kept))

\* An entry that is pruned takes the key of its connection with it.
Forgotten(es, pruned, keys) ==
    [c \in Sockets |-> IF \E e \in ToSet(es) \ ToSet(pruned) : e.owner = c
                     THEN Nobody ELSE keys[c]]

Prune(es, keys) ==
    \E stale \in 0..Len(es) :
        /\ entries' = Pruned(es, stale)
        /\ keyOf' = Forgotten(es, Pruned(es, stale), keys)

\* upsert by a connection: its entry under another key goes, even if another
\* connection has taken that key over.  The new entry is never stale.
Upsert_MutKeepOld(c, key) ==
    LET es == Append(Without(entries, key), [key |-> key, owner |-> c])
        keys == [keyOf EXCEPT ![c] = key]
    IN  \E stale \in 0..(Len(es) - 1) :
            /\ entries' = Pruned(es, stale)
            /\ keyOf' = Forgotten(es, Pruned(es, stale), keys)

Upsert(c, key) ==
    LET left == IF keyOf[c] \in {Nobody, key} THEN entries
                ELSE Without(entries, keyOf[c])
        es == Append(Without(left, key), [key |-> key, owner |-> c])
        keys == [keyOf EXCEPT ![c] = key]
    IN  \E stale \in 0..(Len(es) - 1) :
            /\ entries' = Pruned(es, stale)
            /\ keyOf' = Forgotten(es, Pruned(es, stale), keys)

\* remove_by_connection.
RemoveByConnection(c) ==
    /\ entries' = Without(entries, keyOf[c])
    /\ keyOf' = [keyOf EXCEPT ![c] = Nobody]

----------------------------------------------------------------------------
(* Connections.                                                            *)

\* bootstrap_rpc_ws_connection up to the send of connect.challenge.
SocketOpens(c) ==
    /\ stage[c] = "none"
    /\ line' = [line EXCEPT ![c] = "up"]
    /\ stage' = [stage EXCEPT ![c] = "challenge"]
    /\ Upsert(c, c)
    /\ UNCHANGED <<table, frames, aborted>>

\* The rest of it: the connection is listed.
SocketChallenged(c) ==
    /\ stage[c] = "challenge"
    /\ stage' = [stage EXCEPT ![c] = "reading"]
    /\ StoreTable(TableInUse \cup {c})
    /\ UNCHANGED <<line, frames, presence, aborted>>

\* The send raises: the cleanup belongs to a try that is entered later.
SocketChallengeFails(c) ==
    /\ stage[c] = "challenge" /\ line[c] = "down"
    /\ stage' = [stage EXCEPT ![c] = "closed"]
    /\ aborted' = aborted \cup {c}
    /\ UNCHANGED <<line, frames, table, presence>>

SocketHangsUp(c) ==
    /\ line[c] = "up"
    /\ line' = [line EXCEPT ![c] = "down"]
    /\ UNCHANGED <<stage, frames, table, presence, aborted>>

\* connect: the entry of the connection is stored again, with its role.
SocketConnects(c) ==
    /\ stage[c] = "reading" /\ line[c] = "up"
    /\ StoreTable(TableInUse \cup {c})
    /\ UNCHANGED <<socket, presence, aborted>>

\* A presence frame, under the connection's key or a client's instance id.
PresenceFrame(c) ==
    /\ stage[c] = "reading" /\ line[c] = "up" /\ frames < MaxFrames
    /\ frames' = frames + 1
    /\ \E key \in Instances \cup {c} : Upsert(c, key)
    /\ UNCHANGED <<line, stage, table, aborted>>

\* cleanup_rpc_ws_connection.
SocketCloses(c) ==
    /\ stage[c] = "reading" /\ line[c] = "down"
    /\ stage' = [stage EXCEPT ![c] = "closed"]
    /\ StoreTable(TableInUse \ {c})
    /\ RemoveByConnection(c)
    /\ UNCHANGED <<line, frames, aborted>>

\* list_entries, for system-presence and the overview.
ListEntries ==
    /\ Prune(entries, keyOf)
    /\ UNCHANGED <<socket, table, aborted>>

----------------------------------------------------------------------------
(* _broadcast_rpc_event.                                                   *)

BroadcastStarts(b) ==
    /\ cast[b].at = "idle"
    /\ tables' = [tables EXCEPT ![Fetched] = TableInUse]
    /\ cast' = [cast EXCEPT ![b] = [at |-> "sending", held |-> Fetched,
                                    seen |-> TableInUse]]
    /\ UNCHANGED <<inUse, restored, socket, presence, aborted>>

\* Connections whose send raised are dropped, and the dictionary that was
\* fetched before the sends is stored.
BroadcastEnds(b) ==
    /\ cast[b].at = "sending"
    /\ \E dead \in SUBSET {c \in cast[b].seen : line[c] = "down"} :
          tables' = [tables EXCEPT ![cast[b].held] = @ \ dead]
    /\ inUse' = cast[b].held
    /\ restored' = (restored \/ cast[b].held # inUse)
    /\ cast' = [cast EXCEPT ![b] = [NoCast EXCEPT !.at = "over"]]
    /\ UNCHANGED <<socket, presence, aborted>>

TableNext ==
    \/ \E c \in Sockets : \/ SocketOpens(c) \/ SocketChallenged(c) \/ SocketChallengeFails(c)
                        \/ SocketHangsUp(c) \/ SocketConnects(c) \/ PresenceFrame(c)
                        \/ SocketCloses(c)
    \/ ListEntries
    \/ \E b \in Broadcasts : BroadcastStarts(b) \/ BroadcastEnds(b)

TableSpec == TableInit /\ [][TableNext]_tableVars

----------------------------------------------------------------------------
\* Every connection whose loop runs and whose peer is there is in the table
\* that events are sent to, and nothing else is but peers that have just gone,
\* until a broadcast that was overtaken stores the dictionary it began with;
\* and a connection that has been closed leaves no entry in the presence list,
\* although entries change owner and keys outlive their entries: only one that
\* failed during its bootstrap does, until the TTL.
BroadcastsAreHeard ==
    /\ ~restored =>
          \A c \in Sockets :
              /\ stage[c] = "reading" /\ line[c] = "up" => c \in TableInUse
              /\ c \in TableInUse => stage[c] = "reading"
    /\ \A e \in ToSet(entries) :
          e.owner = Gateway \/ stage[e.owner] # "closed" \/ e.owner \in aborted

============================================================================
