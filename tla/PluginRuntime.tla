----------------------------- MODULE PluginRuntime -----------------------------
(***************************************************************************)
(* The runtime of the native plugins: what a load registers and replaces   *)
(* (plugins/native/loader.py), the services and channels that plugins      *)
(* bring, started by a thread at the start of the gateway and started and  *)
(* stopped by calls, the circuit of each plugin method                     *)
(* (plugins/manager.py), and the hooks that a turn asks before it calls a  *)
(* tool (plugins/hooks/dispatcher.py).                                     *)
(*                                                                         *)
(* Calls run on the event loop, which waits for the handlers of plugins;   *)
(* the starting thread and a turn that awaits a hook run beside them.  All *)
(* plugins offer the same method: the first that is loaded owns it.        *)
(***************************************************************************)
EXTENDS Naturals, Sequences, FiniteSets, Selection

CONSTANTS
    Discovered,         \* the plugins, in the order in which they are found
    Early,              \* those whose hooks have the smaller priority number
    Units, PluginOf,    \* what plugins have started and stopped
    ServiceUnits,       \* those that are services; the others are channels
    ToolCalls,
    CircuitThreshold,   \* _NATIVE_CIRCUIT_THRESHOLD
    MaxLoads,           \* bound: loads, and those of the doctor
    MaxStops,           \* bound: calls that start or stop units
    NoPlugin

Plugins == {Discovered[i] : i \in DOMAIN Discovered}

ASSUME PluginAssumption ==
    /\ Discovered \in Seq(Plugins)
    /\ Early \subseteq Plugins /\ PluginOf \in [Units -> Plugins] /\ ServiceUnits \subseteq Units
    /\ CircuitThreshold \in Nat \ {0} /\ {MaxLoads, MaxStops} \subseteq Nat
    /\ NoPlugin \notin Plugins

VARIABLES
    loads,      \* loads so far
    native,   \* NativeRegistry: the load that made it, what it has loaded and started
    hooks,      \* _registrations of before_tool_call
    instances,  \* units that run, by the load whose start function was called
    starter,    \* the thread of start_services
    circuit,    \* of the method
    asking,     \* tool calls that ask the hooks: the handlers asked and, of their
                \* results, whose came first and whether it blocks the tool
    unitCalls,
    (* history: also asking's begun and overruled *)
    crossed     \* units started when a load came, or by two starters at once

pluginVars == <<loads, native, hooks, instances, starter, circuit, asking, unitCalls, crossed>>

Registration == [plugin: Plugins, load: 0..MaxLoads]
Passes == {"services", "channels"}
UnitsOf(pass) == IF pass = "services" THEN ServiceUnits ELSE Units \ ServiceUnits

PluginTypeOK ==
    /\ loads \in 0..MaxLoads
    /\ native \in [load: 0..MaxLoads, loaded: SUBSET Plugins, started: SUBSET Units]
    /\ hooks \in Seq(Registration)
    /\ instances \subseteq [unit: Units, load: 0..MaxLoads]
    /\ starter \in [pass: Passes \cup {"none"}, load: 0..MaxLoads, todo: SUBSET Units,
                    starting: SUBSET Units]
    /\ circuit \in [streak: 0..CircuitThreshold, open: BOOLEAN]
    /\ asking \in [ToolCalls -> [at: {"idle", "asking", "called", "refused"}, next: Nat,
                                 begun: SUBSET Registration, asked: SUBSET Registration,
                                 decider: SUBSET Registration, blocks: BOOLEAN,
                                 overruled: SUBSET Registration]]
    /\ unitCalls \in 0..MaxStops /\ crossed \subseteq Units

NotAsking == [at |-> "idle", next |-> 1, begun |-> {}, asked |-> {},
              decider |-> {}, blocks |-> FALSE, overruled |-> {}]
NoStarter == [pass |-> "none", load |-> 0, todo |-> {}, starting |-> {}]

PluginInit ==
    /\ loads = 0
    /\ native = [load |-> 0, loaded |-> {}, started |-> {}]
    /\ hooks = <<>> /\ instances = {} /\ starter = NoStarter
    /\ circuit = [streak |-> 0, open |-> FALSE]
    /\ asking = [c \in ToolCalls |-> NotAsking]
    /\ unitCalls = 0 /\ crossed = {}

----------------------------------------------------------------------------
(* Loading.                                                                *)

\* register appends and sorts by priority; sort keeps the order of equals.
Sorted(s) ==
    Kept(s, {r \in Registration : r.plugin \in Early})
        \o Kept(s, {r \in Registration : r.plugin \notin Early})

\* load registers the hooks of what it loads with the dispatcher of the
\* process, which keeps those of earlier loads.
HooksOf(loaded, load) ==
    LET taken == Kept(Discovered, loaded)
    IN  [i \in DOMAIN taken |-> [plugin |-> taken[i], load |-> load]]

Registered_MutFront(loaded, load) == Sorted(HooksOf(loaded, load) \o hooks)
Registered(loaded, load) == Sorted(hooks \o HooksOf(loaded, load))

Busy == {i.unit : i \in instances} \cup starter.starting \cup starter.todo

\* Loaded is what the configuration enables by now, without what raises in its
\* entry or register: that is recorded and left out.
Load ==
    /\ loads < MaxLoads /\ loads' = loads + 1
    /\ \E loaded \in SUBSET Plugins :
          /\ native' = [load |-> loads', loaded |-> loaded, started |-> {}]
          /\ hooks' = Registered(loaded, loads')
    /\ crossed' = crossed \cup Busy

\* The gateway loads the plugins and starts their services in a thread.
GatewayBoots ==
    /\ loads = 0 /\ Load
    /\ starter' = [NoStarter EXCEPT !.pass = "services", !.load = 1,
                                    !.todo = {u \in ServiceUnits : PluginOf[u] \in native'.loaded}]
    /\ UNCHANGED <<instances, circuit, asking, unitCalls>>

\* plugins.reload, and an update of the configuration.
Reload ==
    /\ loads > 0 /\ Load
    /\ UNCHANGED <<instances, starter, circuit, asking, unitCalls>>

\* plugins.doctor loads everything once more, for its report.
Doctor ==
    /\ loads \in 1..(MaxLoads - 1) /\ loads' = loads + 1
    /\ hooks' = Registered(native.loaded, loads')
    /\ UNCHANGED <<native, instances, starter, circuit, asking, unitCalls, crossed>>

----------------------------------------------------------------------------
(* Services and channels.                                                  *)

\* The thread goes through the services of one registry, then the channels of
\* the registry that is current by then; it skips what is marked as started.
ThreadStarts(u) ==
    /\ u \in starter.todo /\ starter.starting = {}
    /\ IF starter.load = native.load /\ u \in native.started
       THEN starter' = [starter EXCEPT !.todo = @ \ {u}]
       ELSE starter' = [starter EXCEPT !.todo = @ \ {u}, !.starting = {u}]
    /\ UNCHANGED <<loads, native, hooks, instances, circuit, asking, unitCalls, crossed>>

MarkStarted(load, us) ==
    /\ instances' = instances \cup {[unit |-> u, load |-> load] : u \in us}
    /\ native' = IF load = native.load THEN [native EXCEPT !.started = @ \cup us] ELSE native

\* start returns, or raises.
ThreadStarted(u) ==
    /\ u \in starter.starting
    /\ MarkStarted(starter.load, {u}) \/ UNCHANGED <<instances, native>>
    /\ starter' = [starter EXCEPT !.starting = {}]
    /\ UNCHANGED <<loads, hooks, circuit, asking, unitCalls, crossed>>

ThreadPasses ==
    /\ starter.pass # "none" /\ starter.todo = {} /\ starter.starting = {}
    /\ starter' = IF starter.pass = "services"
                  THEN [NoStarter EXCEPT !.pass = "channels", !.load = native.load,
                           !.todo = {u \in UnitsOf("channels") : PluginOf[u] \in native.loaded}]
                  ELSE NoStarter
    /\ UNCHANGED <<loads, native, hooks, instances, circuit, asking, unitCalls, crossed>>

UnitCall == unitCalls < MaxStops /\ unitCalls' = unitCalls + 1
Ours == {u \in Units : PluginOf[u] \in native.loaded}

\* plugins.services.start, on the event loop.
StartServices ==
    /\ UnitCall
    /\ \E us \in SUBSET (Ours \ native.started) : MarkStarted(native.load, us)
    /\ crossed' = crossed \cup ((Ours \ native.started) \cap starter.starting)
    /\ UNCHANGED <<loads, hooks, starter, circuit, asking>>

\* plugins.services.stop, and the end of the gateway: a unit whose stop raises
\* stays marked as started.
Stopped(us) == native' = [native EXCEPT !.started = @ \ us]

StopServices ==
    /\ UnitCall
    /\ \E us \in SUBSET native.started :
          /\ instances' = instances \ {[unit |-> u, load |-> native.load] : u \in us}
          /\ Stopped(us)
    /\ UNCHANGED <<loads, hooks, starter, circuit, asking, crossed>>

----------------------------------------------------------------------------
(* Calls of the method.                                                    *)

Owner ==
    LET mine == {i \in DOMAIN Discovered : Discovered[i] \in native.loaded}
    IN  IF mine = {} THEN NoPlugin ELSE Discovered[CHOOSE i \in mine : \A j \in mine : i <= j]

\* _invoke_guard: a handler is not called while the circuit is open.
CallSucceeds ==
    /\ Owner # NoPlugin /\ ~circuit.open
    /\ circuit' = [streak |-> 0, open |-> FALSE]
    /\ UNCHANGED <<loads, native, hooks, instances, starter, asking, unitCalls, crossed>>

CallFails ==
    /\ Owner # NoPlugin /\ ~circuit.open
    /\ LET streak == IF circuit.streak < CircuitThreshold THEN circuit.streak + 1 ELSE circuit.streak
       IN  circuit' = [streak |-> streak, open |-> streak = CircuitThreshold]
    /\ UNCHANGED <<loads, native, hooks, instances, starter, asking, unitCalls, crossed>>

CircuitCools ==
    /\ circuit.open
    /\ circuit' = [circuit EXCEPT !.open = FALSE]
    /\ UNCHANGED <<loads, native, hooks, instances, starter, asking, unitCalls, crossed>>

----------------------------------------------------------------------------
(* Hooks.                                                                  *)

AllHooks == {hooks[i] : i \in DOMAIN hooks}

\* emit goes through the list itself, which a load may extend meanwhile.
AskHooks(c) ==
    /\ asking[c].at = "idle" /\ loads > 0
    /\ asking' = [asking EXCEPT ![c] = [NotAsking EXCEPT
                      !.at = IF hooks = <<>> THEN "called" ELSE "asking", !.begun = AllHooks]]
    /\ UNCHANGED <<loads, native, hooks, instances, starter, circuit, unitCalls, crossed>>

\* emit collects every result, and emit_first_result takes the first.
Heard(a, handler, answer) ==
    LET on == [a EXCEPT !.next = @ + 1, !.asked = @ \cup {handler}]
    IN  IF answer = "nothing" THEN on
        ELSE IF a.decider = {}
        THEN [on EXCEPT !.decider = {handler}, !.blocks = (answer = "block")]
        ELSE [on EXCEPT !.overruled = IF answer = "block" /\ ~a.blocks
                                          THEN @ \cup {handler} ELSE @]

\* A handler has no result, one that blocks the tool or another one, or raises,
\* which is logged and is no result.
AskNext(c) ==
    /\ asking[c].at = "asking" /\ asking[c].next <= Len(hooks)
    /\ \E answer \in {"nothing", "result", "block"} :
          asking' = [asking EXCEPT ![c] = Heard(@, hooks[asking[c].next], answer)]
    /\ UNCHANGED <<loads, native, hooks, instances, starter, circuit, unitCalls, crossed>>

\* The turn calls the tool, unless the first result blocks it.
AskedAll(c) ==
    /\ asking[c].at = "asking" /\ asking[c].next > Len(hooks)
    /\ asking' = [asking EXCEPT ![c].at = IF asking[c].blocks THEN "refused" ELSE "called"]
    /\ UNCHANGED <<loads, native, hooks, instances, starter, circuit, unitCalls, crossed>>

PluginNext ==
    \/ GatewayBoots \/ Reload \/ Doctor
    \/ \E u \in Units : ThreadStarts(u) \/ ThreadStarted(u)
    \/ ThreadPasses \/ StartServices \/ StopServices
    \/ CallSucceeds \/ CallFails \/ CircuitCools
    \/ \E c \in ToolCalls : AskHooks(c) \/ AskNext(c) \/ AskedAll(c)

PluginSpec == PluginInit /\ [][PluginNext]_pluginVars

----------------------------------------------------------------------------
(* Properties.                                                             *)

\* A tool is called, or refused, after every handler that was registered when its
\* hooks were first asked, whatever is loaded meanwhile and whichever of them raise
\* (dispatcher.py:92-119).
HandlersAreAsked ==
    \A c \in ToolCalls :
        asking[c].at \in {"called", "refused"} => asking[c].begun \subseteq asking[c].asked

\* The first handlers of a call: of those registered when it began, the ones
\* whose priority comes first.
Elders(c) == {r \in asking[c].begun : r.plugin \in Early}

\* Only the first result counts (dispatcher.py:136-137, loop.py:811-822), so a block
\* may be overruled; but one of a first handler only by a first handler that was
\* there when the call began: neither a later priority nor a plugin that is loaded
\* while the handlers are asked decides over it.
EldersAreHeeded ==
    \A c \in ToolCalls :
        asking[c].at = "called" /\ asking[c].overruled \cap Elders(c) # {} =>
            asking[c].decider # {} /\ asking[c].decider \subseteq Elders(c)

\* What a plugin has started is known as started, once, and can be stopped,
\* unless a load replaced the registry while it ran or was to be started, or a
\* call started it while the thread did (manager.py:266-333).
ServicesAreKnown ==
    \A u \in Units \ crossed :
        LET running == {i \in instances : i.unit = u}
        IN  Cardinality(running) <= 1 /\ (u \in native.started <=> running # {})

\* No handler is passed over, the first ones decide, and no running service is
\* lost sight of.
PluginsAreKept == HandlersAreAsked /\ EldersAreHeeded /\ ServicesAreKnown

================================================================================
