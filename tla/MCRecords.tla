------------------------------ MODULE MCRecords -------------------------------
(***************************************************************************)
(* Parts of the gateway that keep records and share no state, in one run:  *)
(* the lanes of sessions (with fresh run ids), the tables of connections   *)
(* and of presence that broadcasts go by, the alerts of the operator's     *)
(* overview, the wallets, the configuration, the plugins, the mailbox and  *)
(* the knowledge pipeline.  A behaviour of the run is a behaviour of the   *)
(* part that its initial state names, and the other parts never leave an   *)
(* initial state of theirs.                                                *)
(***************************************************************************)
EXTENDS LaneQueue, ConnectionTable, Alerts, Wallets, ConfigStore, PluginRuntime,
    EmailChannel, KnowledgePipeline

CONSTANTS pa, pb, sv1, cn1 \* named, because they are told apart

VARIABLE part

MCKeys == [r \in Requests |-> r]

MCProviderOf == [p \in Profiles |-> "gpt"]

\* camel_to_snake and snake_to_camel on a key in lower case and on APP-Code.
MCSnake == [n \in Names |-> IF n = "plain" THEN n ELSE "a_p_p-_code"]
MCCamel == [n \in Names |-> IF n = "a_p_p-_code" THEN "aPP-Code" ELSE n]

MCDiscovered == <<pa, pb>>
MCPluginOf == [u \in Units |-> IF u = sv1 THEN pa ELSE pb]

RecordsInit ==
    /\ part \in {"lanes", "tables", "alerts", "wallets", "config", "plugins", "mail",
                "knowledge"}
    /\ Init /\ TableInit /\ AlertsInit /\ WalletInit /\ ConfigInit /\ PluginInit
    /\ MailInit /\ PipelineInit
    /\ part /= "wallets" => legacy = NoKey
    /\ part /= "config" => disk = NoFile
    /\ part /= "mail" => markSeen
    /\ part /= "knowledge" => subprocess

stores == <<walletVars, configVars>>
inflow == <<mailVars, pipelineVars>>
recordsVars == <<part, vars, tableVars, alertVars, stores, pluginVars, inflow>>

LanePart ==
    part = "lanes" /\ UNCHANGED <<part, tableVars, alertVars, stores, pluginVars, inflow>>
TablePart ==
    part = "tables" /\ UNCHANGED <<part, vars, alertVars, stores, pluginVars, inflow>>
AlertPart ==
    part = "alerts" /\ UNCHANGED <<part, vars, tableVars, stores, pluginVars, inflow>>
WalletPart ==
    part = "wallets" /\ UNCHANGED <<part, vars, tableVars, alertVars, configVars, pluginVars, inflow>>
ConfigPart ==
    part = "config" /\ UNCHANGED <<part, vars, tableVars, alertVars, walletVars, pluginVars, inflow>>
PluginPart ==
    part = "plugins" /\ UNCHANGED <<part, vars, tableVars, alertVars, stores, inflow>>
MailPart ==
    part = "mail" /\ UNCHANGED <<part, vars, tableVars, alertVars, stores, pluginVars, pipelineVars>>
KnowledgePart ==
    part = "knowledge" /\ UNCHANGED <<part, vars, tableVars, alertVars, stores, pluginVars, mailVars>>

RecordsNext ==
    \/ LanePart /\ Next
    \/ TablePart /\ TableNext
    \/ AlertPart /\ AlertsNext
    \/ WalletPart /\ WalletNext
    \/ ConfigPart /\ ConfigNext
    \/ PluginPart /\ PluginNext
    \/ MailPart /\ MailNext
    \/ KnowledgePart /\ PipelineNext

RecordsSpec == RecordsInit /\ [][RecordsNext]_recordsVars

\* The fairness of the lanes, asked of the part that runs.
RecordsFairness ==
    /\ \A r \in Requests : WF_vars(LanePart /\ TaskStep(r))
    /\ \A w \in Waiters : WF_vars(LanePart /\ WaiterResumes(w))

RecordsFairSpec == RecordsSpec /\ RecordsFairness

\* Every variable of every part is of its type.
RecordsTypesOK ==
    /\ TypeOK /\ TableTypeOK /\ AlertsTypeOK /\ WalletTypeOK /\ ConfigTypeOK /\ PluginTypeOK
    /\ MailTypeOK /\ PipelineTypeOK
===============================================================================
