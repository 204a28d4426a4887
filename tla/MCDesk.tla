------------------------------- MODULE MCDesk -------------------------------
(***************************************************************************)
(* Settings, StoreMigration and Charts: what the dashboard does to         *)
(* runtime.yml and to the stores, and what it shows of them.  They share   *)
(* no variable, so a behaviour runs one of them and leaves the others in a *)
(* first state.                                                            *)
(***************************************************************************)
EXTENDS Settings, Charts

VARIABLE desk

\* The defaults, a lower limit, and limits in the wrong order; readings at
\* and on both sides of them (mq2_raw in tenths).
Limits(max, min, warn, alert) ==
  [temp_c_max |-> max, temp_c_min |-> min, humidity_pct_max |-> 90,
   mq2_raw_warn |-> warn, mq2_raw_alert |-> alert, current_ma_max |-> 300, lux_min |-> 10]
MCDefault  == Limits(40, 10, 4, 7)
MCProfiles == {MCDefault, Limits(35, 10, 4, 7), Limits(10, 20, 7, 4)}
MCNoValue  == -1000
Reading(t, h, m, c, l) ==
  [temp_c |-> t, humidity_pct |-> h, mq2_raw |-> m, current_ma |-> c, lux |-> l]
MCReadings ==
  {Reading(t, 91, 5, 240, 9) : t \in {9, 10, 15, 20, 35, 36, 40, 41}}
    \cup {Reading(20, 85, m, 301, 10) : m \in {4, 5, 8}}
    \cup {Reading(MCNoValue, MCNoValue, MCNoValue, MCNoValue, MCNoValue)}
MCForecasts == {MCNoValue, 39}

TypeOK == SettingsTypeOK /\ StoreTypeOK /\ ChartsTypeOK

Init ==
  /\ desk \in {"settings", "store", "charts"} /\ SettingsInit /\ StoreInit /\ ChartsInit
  /\ desk # "settings" => gui = "down"
  /\ desk # "charts" => chart_date_from = 0

Next ==
  \/ desk = "settings" /\ SettingsNext /\ UNCHANGED <<desk, storeVars, chartVars>>
  \/ desk = "store" /\ StoreNext /\ UNCHANGED <<desk, settingsVars, chartVars>>
  \/ desk = "charts" /\ ChartsNext /\ UNCHANGED <<desk, settingsVars, storeVars>>

Spec == Init /\ [][Next]_<<desk, settingsVars, storeVars, chartVars>>
=============================================================================
