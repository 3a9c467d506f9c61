----------------------------- MODULE ConfigStore ------------------------------
(***************************************************************************)
(* The configuration: its file, the cache of a process, the object that    *)
(* the gateway serves from, and all that changes them (config/loader.py,   *)
(* config/access.py, services/config/config_service.py, agent_service.py,  *)
(* skill_service.py, skills.update, config.* of the RPC, and the commands  *)
(* that load, change and save the file in a process of their own).         *)
(*                                                                         *)
(* The gateway handles one call at a time, without an await between its    *)
(* load and its save, but a save truncates the file before it writes: a    *)
(* crash or another process may come in between.  Two processes that have  *)
(* the file open for writing at once are left out.  A content is a record  *)
(* of what the properties tell apart: the API key of a provider, a plain   *)
(* setting, the same under the name it has in another program's format,    *)
(* the variable env.vars gives for the key, the keys of a dictionary such  *)
(* as extra_headers, and the ids of the agents.                            *)
(***************************************************************************)
EXTENDS Naturals

CONSTANTS
    AgentIds,
    Names,          \* keys of dictionaries
    CamelToSnake,   \* camel_to_snake and snake_to_camel on them
    SnakeToCamel,
    ConfigSteps     \* bound: updates and commands

ASSUME ConfigAssumption ==
    /\ CamelToSnake \in [Names -> Names] /\ SnakeToCamel \in [Names -> Names]
    /\ ConfigSteps \in Nat

VARIABLES
    disk,       \* config.json: absent, torn, or whole with a content
    up,         \* the gateway runs
    envKey,     \* the API key in its environment
    cache,      \* _cache, for the file: a content or nothing
    app,        \* app_state["config"]
    aliased,    \* both are one object
    saving,     \* a save that has truncated the file: whose, what, and what is next
    command,    \* a command that has loaded the file
    csteps,
    (* history *)
    halved,     \* an update of an agent failed after it had begun
    outside,    \* another process wrote the file after the gateway last read or wrote it
    stored      \* names that updates have stored

processState == <<up, envKey, cache, app, aliased>>
configVars == <<disk, processState, saving, command, csteps, halved, outside, stored>>

EnvKeys == {"none", "e1", "e2"}
Default == [key |-> "none", setting |-> "a", foreign |-> "unset", var |-> "none",
            names |-> {}, agents |-> {}]
Contents == [key: EnvKeys \cup {"typed"},
             setting: {"unset", "a", "b", "bad", "refused", "half"},
             foreign: {"unset", "b"}, var: EnvKeys,
             names: SUBSET Names, agents: SUBSET AgentIds]

Nothing == [some |-> FALSE, content |-> Default]
Some(c) == [some |-> TRUE, content |-> c]
NoFile == [kind |-> "absent", content |-> Default]
Torn == [kind |-> "torn", content |-> Default]
Whole(c) == [kind |-> "whole", content |-> c]
NotSaving == [by |-> "none", content |-> Default, next |-> "nothing"]

\* A file that the program has not written may be in the other format.
ConfigInit ==
    /\ disk \in {NoFile} \cup
          {Whole([Default EXCEPT !.setting = s, !.foreign = f, !.var = v]) :
              s \in {"unset", "a"}, f \in {"unset", "b"}, v \in {"none", "e1"}}
    /\ up = FALSE /\ envKey = "none"
    /\ cache = Nothing /\ app = Default /\ aliased = FALSE
    /\ saving = NotSaving /\ command = Nothing
    /\ csteps = 0 /\ halved = FALSE /\ outside = FALSE /\ stored = {}

----------------------------------------------------------------------------
(* Loading and saving.                                                     *)

\* _migrate_config: a foreign name counts only where ours is missing.
Migrated(c) ==
    [c EXCEPT !.setting = IF @ # "unset" THEN @ ELSE IF c.foreign # "unset" THEN c.foreign ELSE "a",
              !.foreign = "unset"]

\* model_dump and convert_to_camel; convert_keys, which leaves env.vars alone.
Dumped(c) == [c EXCEPT !.names = {SnakeToCamel[n] : n \in @}]
Converted(c) == [c EXCEPT !.names = {CamelToSnake[n] : n \in @}]

\* env.vars is put into the environment unless the variable is set, and a key
\* that is empty is filled from there.
EnvAfter(c, env) == IF env = "none" THEN c.var ELSE env
Filled(c, env) == [c EXCEPT !.key = IF @ = "none" THEN EnvAfter(c, env) ELSE @]

Loaded(c, env) == Filled(Converted(Migrated(c)), env)

\* json.load and model_validate.
Loads == disk.kind = "whole" /\ disk.content.setting # "bad"

Fresh == Loaded(disk.content, envKey)

\* What a save of an object and a restart in the same environment would serve.
AfterRestart(c) == Loaded(Dumped(c), envKey)

\* save_config truncates the file; what follows is done when it is written.
Truncate(process, c, next) ==
    /\ disk' = Torn
    /\ saving' = [by |-> process, content |-> c, next |-> next]

----------------------------------------------------------------------------
(* The gateway starts and ends.                                            *)

Serve(c, env) ==
    /\ up' = TRUE /\ envKey' = EnvAfter(c, env)
    /\ cache' = Some(Loaded(c, env)) /\ app' = Loaded(c, env) /\ aliased' = TRUE
    /\ halved' = FALSE /\ outside' = FALSE

\* load_config writes the defaults where there is no file, and raises where
\* the file is broken: then the gateway does not start.
GatewayStarts(env) ==
    /\ ~up /\ saving = NotSaving
    /\ \/ Loads /\ Serve(disk.content, env) /\ UNCHANGED disk
       \/ disk.kind = "absent" /\ Serve(Default, env) /\ disk' = Whole(Default)
    /\ UNCHANGED <<saving, command, csteps, stored>>

GatewayDies ==
    /\ up
    /\ up' = FALSE /\ cache' = Nothing
    /\ saving' = IF saving.by = "gateway" THEN NotSaving ELSE saving
    /\ UNCHANGED <<disk, envKey, app, aliased, command, csteps, halved, outside, stored>>

\* "Fix the file or remove it to regenerate defaults."
RemoveFile ==
    /\ ~up /\ saving = NotSaving /\ ~Loads
    /\ disk' = NoFile
    /\ UNCHANGED <<processState, saving, command, csteps, halved, outside, stored>>

----------------------------------------------------------------------------
(* Calls to the gateway.                                                   *)

ConfigStep == csteps < ConfigSteps /\ csteps' = csteps + 1
GatewayFree == up /\ saving.by # "gateway"

\* get_config without force_reload.
ReadConfig ==
    /\ GatewayFree /\ ~cache.some /\ Loads
    /\ cache' = Some(Fresh) /\ envKey' = EnvAfter(disk.content, envKey)
    /\ UNCHANGED <<disk, up, app, aliased, saving, command, csteps, halved, outside, stored>>

\* apply_config_update: the new object is in the cache while it is changed.
Reloads == GatewayFree /\ saving = NotSaving /\ Loads /\ envKey' = EnvAfter(disk.content, envKey)
Update(c) ==
    {[c EXCEPT !.setting = s] : s \in {"b", "bad"}} \cup {[c EXCEPT !.key = "typed"]}
    \cup {[c EXCEPT !.names = @ \cup {n}] : n \in Names}

PutConfig ==
    /\ ConfigStep /\ Reloads
    /\ \E c \in Update(Fresh) :
          /\ cache' = Some(c) /\ Truncate("gateway", c, "app")
          /\ stored' = stored \cup (c.names \ Fresh.names)
    /\ aliased' = FALSE /\ outside' = FALSE
    /\ UNCHANGED <<up, app, command, halved>>

\* The wallet part is refused when the rest has been applied.
PutConfigRefused ==
    /\ ConfigStep /\ Reloads
    /\ cache' = Some([Fresh EXCEPT !.setting = "refused"]) /\ aliased' = FALSE
    /\ UNCHANGED <<disk, up, app, saving, command, halved, outside, stored>>

\* PATCH of an agent or a skill, and skills.update.
PatchEntry_MutCached ==
    /\ ConfigStep /\ GatewayFree /\ saving = NotSaving /\ cache.some
    /\ Truncate("gateway", [cache.content EXCEPT !.key = "typed"], "app")
    /\ UNCHANGED <<processState, command, halved, outside, stored>>

PatchEntry ==
    /\ ConfigStep /\ Reloads
    /\ cache' = Some([Fresh EXCEPT !.key = "typed"])
    /\ Truncate("gateway", [Fresh EXCEPT !.key = "typed"], "app")
    /\ aliased' = FALSE /\ outside' = FALSE
    /\ UNCHANGED <<up, app, command, halved, stored>>

\* config.set and config.apply with a raw file, which is validated.
ApplyRaw ==
    /\ ConfigStep /\ GatewayFree /\ saving = NotSaving
    /\ \E k \in {"none", "typed"} :
          Truncate("gateway", [Default EXCEPT !.key = k, !.agents = app.agents], "raw")
    /\ halved' = FALSE /\ outside' = FALSE /\ stored' = {}
    /\ UNCHANGED <<processState, command>>

\* Calls that change the object they are served from.
ChangeServed(c) ==
    /\ app' = c
    /\ cache' = IF aliased THEN Some(c) ELSE cache
    /\ UNCHANGED <<up, envKey, aliased, command, stored>>

SaveChanged(c) ==
    /\ ConfigStep /\ GatewayFree /\ saving = NotSaving
    /\ ChangeServed(c) /\ Truncate("gateway", c, "reload")
    /\ outside' = FALSE /\ UNCHANGED halved

CreateAgent(a) == a \notin app.agents /\ SaveChanged([app EXCEPT !.agents = @ \cup {a}])
DeleteAgent(a) == a \in app.agents /\ SaveChanged([app EXCEPT !.agents = @ \ {a}])
UpdateAgent == app.agents # {} /\ SaveChanged([app EXCEPT !.setting = "b"])

\* The directory of the agent, or its IDENTITY.md, cannot be written.
UpdateAgentFails ==
    /\ ConfigStep /\ GatewayFree /\ saving = NotSaving /\ app.agents # {}
    /\ ChangeServed([app EXCEPT !.setting = "half"])
    /\ halved' = TRUE
    /\ UNCHANGED <<disk, saving, outside>>

----------------------------------------------------------------------------
(* The file is written.                                                    *)

FileWritten == Whole(Dumped(saving.content))
Finish(next) ==
    /\ saving.by = "gateway" /\ saving.next = next
    /\ disk' = FileWritten /\ saving' = NotSaving
    /\ UNCHANGED <<up, command, csteps, outside, stored>>

\* The cache is dropped and the changed object becomes the one that is served.
SavedToApp ==
    /\ Finish("app")
    /\ cache' = Nothing /\ app' = saving.content /\ aliased' = FALSE /\ halved' = FALSE
    /\ UNCHANGED envKey

Reloaded(c) ==
    /\ envKey' = EnvAfter(c, envKey)
    /\ cache' = IF c.setting = "bad" THEN Nothing ELSE Some(Loaded(c, envKey))

\* A file that does not load makes the call fail after the save.
SavedAndReloads ==
    /\ Finish("reload") /\ Reloaded(Dumped(saving.content))
    /\ IF cache'.some THEN app' = cache'.content /\ aliased' = TRUE
       ELSE app' = app /\ aliased' = FALSE
    /\ UNCHANGED halved

SavedRaw ==
    /\ Finish("raw") /\ Reloaded(Dumped(saving.content))
    /\ app' = saving.content /\ aliased' = FALSE
    /\ UNCHANGED halved

----------------------------------------------------------------------------
(* Commands: load, change, save in a process of its own.                   *)

CommandLoads(env) ==
    /\ ConfigStep /\ ~command.some /\ Loads
    /\ command' = Some(Loaded(disk.content, env))
    /\ UNCHANGED <<disk, processState, saving, halved, outside, stored>>

CommandSaves ==
    /\ command.some /\ saving = NotSaving
    /\ Truncate("command", [command.content EXCEPT !.setting = "b"], "nothing")
    /\ command' = Nothing /\ outside' = TRUE
    /\ UNCHANGED <<processState, csteps, halved, stored>>

CommandWrites ==
    /\ saving.by = "command"
    /\ disk' = FileWritten /\ saving' = NotSaving
    /\ UNCHANGED <<processState, command, csteps, halved, outside, stored>>

CommandDies ==
    /\ saving.by = "command"
    /\ saving' = NotSaving
    /\ UNCHANGED <<disk, processState, command, csteps, halved, outside, stored>>

ConfigNext ==
    \/ \E env \in EnvKeys : GatewayStarts(env) \/ CommandLoads(env)
    \/ GatewayDies \/ RemoveFile \/ ReadConfig
    \/ PutConfig \/ PutConfigRefused \/ PatchEntry \/ ApplyRaw
    \/ \E a \in AgentIds : CreateAgent(a) \/ DeleteAgent(a)
    \/ UpdateAgent \/ UpdateAgentFails
    \/ SavedToApp \/ SavedAndReloads \/ SavedRaw
    \/ CommandSaves \/ CommandWrites \/ CommandDies

ConfigSpec == ConfigInit /\ [][ConfigNext]_configVars

----------------------------------------------------------------------------
(* Properties.                                                             *)

ConfigTypeOK ==
    /\ disk \in [kind: {"absent", "torn", "whole"}, content: Contents]
    /\ up \in BOOLEAN /\ envKey \in EnvKeys /\ aliased \in BOOLEAN
    /\ cache \in [some: BOOLEAN, content: Contents] /\ app \in Contents
    /\ saving.by \in {"none", "gateway", "command"} /\ saving.content \in Contents
    /\ command \in [some: BOOLEAN, content: Contents]

\* What the gateway serves is what a restart would load of the file, or becomes
\* it by a save (names may change once more in each, see NamesAreKept), unless an
\* update of an agent failed half way or another process has written the file;
\* an update that was refused stays out of the file and of what is served,
\* whatever is saved after it; and what the cache holds besides is the file
\* (access.py:20, config_service.py:49-53, agent_service.py:137-161,
\* skill_service.py:86-89).
ConfigIsCoherent ==
    /\ up /\ saving = NotSaving /\ ~halved /\ ~outside =>
          /\ Fresh \in {app, AfterRestart(app)}
          /\ cache.some /\ cache.content.setting # "refused" => cache.content = Fresh
    /\ "refused" \notin {disk.content.setting, app.setting, saving.content.setting}

\* A key of a dictionary keeps its name through a save and a load:
\* "Custom headers (e.g. APP-Code for AiHubMix)" (schema.py:239).
NamesAreKept ==
    up /\ ~outside /\ cache.some /\ cache.content.setting # "refused" =>
        stored \subseteq cache.content.names

=============================================================================
