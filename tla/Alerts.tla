------------------------------- MODULE Alerts -------------------------------
(***************************************************************************)
(* The operator's overview: what is wrong now, when it began, and what was *)
(* wrong lately (api/server.py, agent/auth_profiles.py,                    *)
(* services/control/overview_service.py).                                  *)
(*                                                                         *)
(* Every overview computes the alerts from the state of the program, and   *)
(* compares them with those of the overview before, which it reads from    *)
(* the store.  The store answers with a default when it cannot be read,    *)
(* and a write that fails is not reported (_load_persistent_state,         *)
(* _save_persistent_state).  Texts are left out.                           *)
(***************************************************************************)
EXTENDS Integers, Sequences, FiniteSets, SequencesExt

CONSTANTS
    Profiles,       \* the auth profiles of the configuration,
    ProviderOf,     \* and the provider of each
    Channels,       \* the channels that are configured
    MaxRecent,      \* resolved alerts that are kept: 200
    Patience,       \* how long the worker may be silent: 120 s
    Instants,       \* bound: times at which something happens
    MaxChanges,     \* bound: changes of the state of the program
    NoProvider

ASSUME AlertAssumption ==
    /\ IsFiniteSet(Profiles)
    /\ MaxRecent \in Nat /\ Patience \in Nat
    /\ Instants \in Nat \ {0} /\ MaxChanges \in Nat
    /\ NoProvider \notin {ProviderOf[p] : p \in Profiles}

VARIABLES
    clock,
    unusable,       \* profiles that rest or are disabled
    running,        \* channels that run
    stalled,        \* cron has jobs and no next wake-up
    worker,         \* control_plane.worker_status
    active,         \* rpc.alerts_lifecycle: the alerts, with their firstSeenMs
    recent,         \* resolvedRecent, the latest first
    changes,        \* of unusable, running, stalled and worker, so far
    shown,          \* the alerts that the latest overview returned
    (* history *)
    began,          \* alerts since they are returned without a gap
    doubt           \* alerts whose past a failing store has lost

world == <<unusable, running, stalled, worker>>
alertHistory == <<active, recent, shown, began, doubt>>
alertVars == <<clock, world, changes, alertHistory>>

Change == changes < MaxChanges /\ changes' = changes + 1

Empty == [k \in {} |-> 0]

AlertsInit ==
    /\ clock = 1 /\ changes = 0
    /\ unusable = {} /\ running = Channels /\ stalled = FALSE
    /\ worker = [running |-> FALSE, updated |-> 0, backoff |-> {}]
    /\ active = Empty /\ recent = <<>> /\ shown = {}
    /\ began = Empty /\ doubt = {}

----------------------------------------------------------------------------
(* The alerts: a code, and a provider where there is one per provider.     *)

Alert(code) == [code |-> code, provider |-> NoProvider]

\* build_auth_profiles_report: the state of some of the profiles.
Status(ps) ==
    IF ps \cap unusable = {} THEN "ok"
    ELSE IF ps \subseteq unusable THEN "down" ELSE "degraded"

AuthAlerts ==
    LET Of(v) == {p \in Profiles : ProviderOf[p] = v}
        All == Status(Profiles)
    IN  {Alert(code) : code \in IF All = "down" THEN {"AUTH_PROFILES_DOWN"}
                                ELSE IF All = "degraded" THEN {"AUTH_PROFILES_DEGRADED"} ELSE {}}
        \cup {[code |-> IF Status(Of(v)) = "down" THEN "AUTH_PROVIDER_DOWN"
                        ELSE "AUTH_PROVIDER_DEGRADED", provider |-> v] :
                 v \in {v \in {ProviderOf[p] : p \in Profiles} : Status(Of(v)) # "ok"}}

ChannelAlerts ==
    {Alert(code) : code \in
        IF running = Channels THEN {}
        ELSE IF running = {} THEN {"CHANNELS_UNAVAILABLE_ALL"}
        ELSE {"CHANNELS_UNAVAILABLE_PARTIAL"}}

WorkerAlerts ==
    {Alert(code) : code \in
        IF worker.running
        THEN worker.backoff \cup (IF worker.updated > 0 /\ clock - worker.updated > Patience
                                  THEN {"CONTROL_PLANE_WORKER_STALE"} ELSE {})
        ELSE {}}

\* A status of the worker that cannot be read is an empty one, without alerts.
Raised(known) ==
    AuthAlerts \cup ChannelAlerts \cup (IF known THEN WorkerAlerts ELSE {})
    \cup (IF stalled THEN {Alert("CRON_SCHEDULER_STALLED")} ELSE {})

Backoffs == {"CONTROL_PLANE_HEARTBEAT_BACKOFF", "CONTROL_PLANE_CLAIM_BACKOFF"}
Critical == {"AUTH_PROFILES_DOWN", "AUTH_PROVIDER_DOWN", "CHANNELS_UNAVAILABLE_ALL",
             "CONTROL_PLANE_WORKER_STALE"}

\* `health` of the overview: no alert is critical.
Healthy(alerts) == \A k \in alerts : k.code \notin Critical

----------------------------------------------------------------------------
(* What an operator may do about an alert: ALERT_CODE_PROFILE, completed   *)
(* with the alert's data, and the validation of what a client sends back.  *)

Command(args) == [type |-> "run_command", at |-> "joyhousebot", args |-> args]

ActionOf(code) ==
    IF code \in Backoffs THEN Command(<<"bot", "worker", "--run-once">>)
    ELSE CASE code = "CONTROL_PLANE_WORKER_STALE" -> Command(<<"bot", "worker">>)
           [] code \in {"CHANNELS_UNAVAILABLE_ALL", "CHANNELS_UNAVAILABLE_PARTIAL"} ->
                  Command(<<"channels", "status">>)
           [] code = "CRON_SCHEDULER_STALLED" ->
                  [type |-> "open_url", at |-> "/control/overview", args |-> <<>>]
           [] code \in {"AUTH_PROVIDER_DOWN", "AUTH_PROVIDER_DEGRADED"} ->
                  [type |-> "navigate", at |-> "settings.auth.provider", args |-> <<>>]
           [] OTHER -> [type |-> "navigate", at |-> "settings.auth", args |-> <<>>]

\* Alerts of the control plane name its server.
Attached(code) ==
    LET action == ActionOf(code)
    IN  IF code \in Backoffs \cup {"CONTROL_PLANE_WORKER_STALE"}
        THEN [action EXCEPT !.args = @ \o <<"--server", "url">>] ELSE action

\* --server is skipped with its value, present or not.
ExtrasAllowed(extras) == \A i \in 1..Len(extras) : i % 2 = 1 => extras[i] = "--server"

Valid(code, action) ==
    LET expected == ActionOf(code)
        n == Len(expected.args)
    IN  /\ action.type = expected.type
        /\ action.at = expected.at
        /\ action.type = "run_command" =>
              /\ IsPrefix(expected.args, action.args)
              /\ ExtrasAllowed(SubSeq(action.args, n + 1, Len(action.args)))

----------------------------------------------------------------------------
(* Overviews.                                                              *)

\* An alert that goes on keeps the time it was first seen.
FirstSeen_MutNow(old, k) == clock

FirstSeen(old, k) == IF k \in DOMAIN old THEN old[k] ELSE clock

\* Alerts that are no longer raised move to the front of the recent ones.
Resolved(old, order) ==
    [i \in 1..Len(order) |-> [alert |-> order[i], first |-> old[order[i]], at |-> clock]]

Overview(known, readable, writable) ==
    LET old == IF readable THEN active ELSE Empty
        before == IF readable THEN recent ELSE <<>>
    IN  /\ shown' = Raised(known)
        /\ IF writable
           THEN /\ active' = [k \in Raised(known) |-> FirstSeen(old, k)]
                /\ \E order \in SetToSeqs(DOMAIN old \ Raised(known)) :
                      LET all == Resolved(old, order) \o before
                      IN  recent' = SubSeq(all, 1, IF Len(all) < MaxRecent
                                                  THEN Len(all) ELSE MaxRecent)
           ELSE UNCHANGED <<active, recent>>
        /\ began' = [k \in Raised(known) |-> IF k \in DOMAIN began THEN began[k] ELSE clock]
        /\ doubt' = IF readable /\ writable THEN doubt \cap Raised(known)
                    ELSE doubt \cup Raised(known) \cup DOMAIN active
        /\ UNCHANGED <<clock, world, changes>>

\* get_alerts_lifecycle_view only reads.

ProfileChanges(p) ==
    /\ Change
    /\ unusable' = IF p \in unusable THEN unusable \ {p} ELSE unusable \cup {p}
    /\ UNCHANGED <<clock, running, stalled, worker, alertHistory>>

ChannelChanges(c) ==
    /\ Change
    /\ running' = IF c \in running THEN running \ {c} ELSE running \cup {c}
    /\ UNCHANGED <<clock, unusable, stalled, worker, alertHistory>>

CronChanges ==
    /\ Change
    /\ stalled' = ~stalled
    /\ UNCHANGED <<clock, unusable, running, worker, alertHistory>>

\* _persist_cp_status of a worker, whose calls of the control plane may have
\* failed; a worker that is killed leaves its last status behind.
WorkerReports(alive, backoff) ==
    /\ Change
    /\ worker' = [running |-> alive, updated |-> clock, backoff |-> backoff]
    /\ UNCHANGED <<clock, unusable, running, stalled, alertHistory>>

ClockTicks ==
    /\ clock < Instants
    /\ clock' = clock + 1
    /\ \E gone \in SUBSET worker.backoff : worker' = [worker EXCEPT !.backoff = @ \ gone]
    /\ UNCHANGED <<unusable, running, stalled, changes, alertHistory>>

AlertsNext ==
    \/ \E known, readable, writable \in BOOLEAN : Overview(known, readable, writable)
    \/ \E p \in Profiles : ProfileChanges(p)
    \/ \E c \in Channels : ChannelChanges(c)
    \/ CronChanges
    \/ \E alive \in BOOLEAN, backoff \in SUBSET Backoffs : WorkerReports(alive, backoff)
    \/ ClockTicks

AlertsSpec == AlertsInit /\ [][AlertsNext]_alertVars

----------------------------------------------------------------------------
(* Properties.                                                             *)

AlertsTypeOK ==
    /\ clock \in 1..Instants
    /\ unusable \subseteq Profiles /\ running \subseteq Channels /\ stalled \in BOOLEAN
    /\ worker \in [running: BOOLEAN, updated: 0..Instants, backoff: SUBSET Backoffs]
    /\ \A k \in DOMAIN active : active[k] \in 1..clock
    /\ Len(recent) <= MaxRecent

\* The history tells the truth (server.py:2370-2430): an alert is dated from
\* the overview since which it has not been absent from any, unless the store
\* failed while it was raised; the spells of an alert in the history end
\* before the next one begins; and every alert shown comes with an action that
\* the validation accepts (server.py:2144, 2245).
HistoryIsTrue ==
    /\ \A k \in shown \ doubt : k \in DOMAIN active /\ active[k] = began[k]
    /\ \A i, j \in 1..Len(recent) :
          i < j /\ recent[i].alert = recent[j].alert => recent[j].at <= recent[i].first
    /\ \A i \in 1..Len(recent) :
          recent[i].alert \in DOMAIN active => recent[i].at <= active[recent[i].alert]
    /\ \A k \in shown : Valid(k.code, Attached(k.code))

=============================================================================
