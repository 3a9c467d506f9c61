--------------------------- MODULE RecordsRun_proofs ---------------------------
(***************************************************************************)
(* What is proved of the registry of runs and of each of the records of    *)
(* the gateway holds of the run of all of them, MCRecords.                 *)
(***************************************************************************)
EXTENDS MCRecords, LaneQueue_proofs, Records_proofs

\* Every behaviour of MCRecords is one of each part, so what is proved of the
\* registry of runs and of each of the records holds of the run.
THEOREM RecordsAreParts ==
  RecordsSpec => /\ Spec /\ TableSpec /\ AlertsSpec /\ WalletSpec
                 /\ ConfigSpec /\ PluginSpec /\ MailSpec /\ PipelineSpec
<1>1. RecordsInit => /\ Init /\ TableInit /\ AlertsInit /\ WalletInit
                     /\ ConfigInit /\ PluginInit /\ MailInit /\ PipelineInit
  BY DEF RecordsInit
<1>2. ASSUME [RecordsNext]_recordsVars
      PROVE  /\ [Next]_vars /\ [TableNext]_tableVars /\ [AlertsNext]_alertVars
             /\ [WalletNext]_walletVars /\ [ConfigNext]_configVars /\ [PluginNext]_pluginVars
             /\ [MailNext]_mailVars /\ [PipelineNext]_pipelineVars
  BY <1>2 DEF RecordsNext, recordsVars, stores, inflow, LanePart, TablePart, AlertPart, WalletPart,
              ConfigPart, PluginPart, MailPart, KnowledgePart
<1> QED  BY <1>1, <1>2, PTL DEF RecordsSpec, Spec, TableSpec, AlertsSpec, WalletSpec, ConfigSpec,
            PluginSpec, MailSpec, PipelineSpec

\* In the run of all, every variable keeps its type and bound: the presence list and
\* the set of uids their caps, the history of the alerts its length, the wallets at
\* most one default, the circuit its threshold.
THEOREM RecordsTyped == RecordsSpec => []RecordsTypesOK
<1>1. TypeOK /\ TableTypeOK /\ AlertsTypeOK /\ WalletTypeOK /\ ConfigTypeOK /\ PluginTypeOK
      /\ MailTypeOK /\ PipelineTypeOK => RecordsTypesOK
  BY DEF RecordsTypesOK
<1> QED  BY <1>1, RecordsAreParts, TypeCorrect, TableTyped, AlertsTyped, WalletTyped, ConfigTyped,
            PluginTyped, MailTyped, PipelineTyped, PTL
===============================================================================
